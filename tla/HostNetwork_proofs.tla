------------------------- MODULE HostNetwork_proofs -------------------------
(***************************************************************************)
(* Proofs about HostNetwork, for every set of nodes, seeds, reports and    *)
(* every bound: its invariants and action properties, and, at the end,     *)
(* that every step of it is a step of Registry.                            *)
(***************************************************************************)
EXTENDS HostRegistry, TLAPS

(***************************************************************************)
(* Typing.                                                                 *)
(***************************************************************************)

(* The shapes of the messages: what a handler may read from the head of    *)
(* the mailbox once it has looked at the type.                             *)
LEMMA MessageShapes ==
  ASSUME NEW m \in Messages
  PROVE  /\ m.type = "RegisterRaft" => m.raft \in 1..MaxRafts
         /\ m.type = "RaftMetrics" => m.metrics \in Reports
         /\ m.type = "ConnectNode" => m.id \in NodeIds /\ m.info \in Infos
         /\ m.type = "DisconnectNode" => m.id \in NodeIds
         /\ m.type = "HandleNodeStatusChange" =>
              /\ m.id \in NodeIds /\ m.status \in NodeStatuses
              /\ m = HandleNodeStatusChange(m.id, m.status)
BY DEF Messages, BindEndpoint, RegisterRaft, RaftMetrics, ConnectNode,
       DisconnectNode, HandleNodeStatusChange

(* Sending keeps the mailbox a sequence of messages.                       *)
LEMMA SendTyped ==
  ASSUME mailbox \in Seq(Messages), NEW m \in Messages, Send(m)
  PROVE  mailbox' \in Seq(Messages)
BY DEF Send

(* So does receiving, and what is received is a message.                   *)
LEMMA ReceiveTyped ==
  ASSUME mailbox \in Seq(Messages), NEW t, Receive(t)
  PROVE  /\ Head(mailbox) \in Messages /\ Head(mailbox).type = t
         /\ mailbox' \in Seq(Messages)
BY DEF Receive

(* A status is not mistaken for a message field: the NodeStatuses.         *)
LEMMA ReportsTyped ==
  ASSUME NEW id \in NodeIds
  PROVE  /\ HandleNodeStatusChange(id, Reported(Plain("WeaklyConnected"))) \in Messages
         /\ HandleNodeStatusChange(id, Reported(Plain("Connected"))) \in Messages
         /\ HandleNodeStatusChange(id, Reported(AfterFailure(NodeStatus))) \in Messages
BY DEF Messages, Reported, Plain, Failure, AfterFailure, NodeStatus, NodeStatuses

(* The operators of NetworkState stay among the NetworkStates.             *)
LEMMA StateOperatorsTyped ==
  ASSUME NEW s \in NetworkStates(NodeIds), NEW id \in NodeIds
  PROVE  /\ IsolateNode(s, id) \in NetworkStates(NodeIds)
         /\ RestoreNode(s, id) \in NetworkStates(NodeIds)
BY DEF NetworkStates, IsolateNode, RestoreNode

(* advance closes the last entry and adds one: the others stay.            *)
LEMMA AdvanceLog ==
  ASSUME NEW s \in NetworkStates(NodeIds), NEW next \in Statuses
  PROVE  /\ Advance(s, next) \in NetworkStates(NodeIds)
         /\ Advance(s, next).status = next
         /\ Len(Advance(s, next).log) = Len(s.log) + 1
         /\ \A i \in 1..Len(s.log) + 1 :
              Advance(s, next).log[i] =
                IF i = Len(s.log) + 1 THEN [status |-> next, exit |-> "None"]
                ELSE IF i = Len(s.log) THEN [status |-> s.log[i].status, exit |-> "Some"]
                ELSE s.log[i]
<1> DEFINE n == Len(s.log)
           closed == [s.log EXCEPT ![n].exit = "Some"]
           entry == [status |-> next, exit |-> "None"]
<1>1. s.log \in Seq(StatusEntry) /\ n \in Nat /\ n \in 1..n /\ DOMAIN s.log = 1..n
  BY DEF NetworkStates
<1>2. \A i \in 1..n : s.log[i] \in StatusEntry
  BY <1>1
<1>3. \A i \in 1..n :
        closed[i] = IF i = n THEN [status |-> s.log[i].status, exit |-> "Some"] ELSE s.log[i]
  <2>1. \A i \in 1..n :
          closed[i] = IF i = n THEN [s.log[i] EXCEPT !.exit = "Some"] ELSE s.log[i]
    BY <1>1
  <2>2. \A e \in StatusEntry :
          [e EXCEPT !.exit = "Some"] = [status |-> e.status, exit |-> "Some"]
    BY DEF StatusEntry
  <2> HIDE DEF closed
  <2> QED BY <1>2, <2>1, <2>2
<1>4. closed \in [1..n -> StatusEntry]
  <2>1. \A i \in 1..n : closed[i] \in StatusEntry
    <3>1. \A e \in StatusEntry : [status |-> e.status, exit |-> "Some"] \in StatusEntry
      BY DEF StatusEntry
    <3> HIDE DEF closed
    <3> QED BY <1>2, <1>3, <3>1
  <2>2. closed = [i \in 1..n |-> closed[i]]
    BY <1>1
  <2> HIDE DEF closed
  <2> QED BY <2>1, <2>2
<1>5. closed \in Seq(StatusEntry) /\ Len(closed) = n
  BY <1>4, <1>1
<1>6. entry \in StatusEntry
  BY DEF StatusEntry
<1>7. /\ Append(closed, entry) \in Seq(StatusEntry)
      /\ Len(Append(closed, entry)) = n + 1
      /\ \A i \in 1..n + 1 :
           Append(closed, entry)[i] = IF i = n + 1 THEN entry ELSE closed[i]
  BY <1>5, <1>6
<1>8. Advance(s, next) = [s EXCEPT !.status = next, !.log = Append(closed, entry)]
  BY DEF Advance
<1>9. /\ Advance(s, next) \in NetworkStates(NodeIds)
      /\ Advance(s, next).status = next /\ Advance(s, next).log = Append(closed, entry)
  <2>1. Append(closed, entry) \in Seq(StatusEntry) \ {<<>>}
    BY <1>1, <1>7
  <2> HIDE DEF closed, entry
  <2> QED BY <2>1, <1>8 DEF NetworkStates
<1>10. \A i \in 1..n + 1 :
         Append(closed, entry)[i] =
           IF i = n + 1 THEN entry
           ELSE IF i = n THEN [status |-> s.log[i].status, exit |-> "Some"] ELSE s.log[i]
  <2> HIDE DEF closed, entry
  <2> TAKE i \in 1..n + 1
  <2>1. CASE i = n + 1
    BY <2>1, <1>7
  <2>2. CASE i # n + 1
    <3>1. i \in 1..n
      BY <2>2, <1>1
    <3> QED BY <2>2, <3>1, <1>3, <1>7
  <2> QED BY <2>1, <2>2
<1>11. Len(Advance(s, next).log) = n + 1
  <2> HIDE DEF closed, entry
  <2> QED BY <1>7, <1>9
<1>12. \A i \in 1..n + 1 : Advance(s, next).log[i] = Append(closed, entry)[i]
  <2> HIDE DEF closed, entry
  <2> QED BY <1>9
<1> HIDE DEF closed
<1> QED BY <1>9, <1>10, <1>11, <1>12

(* The two fields of a Node actor that change.                             *)
LEMMA NodeActorUpdates ==
  ASSUME NEW n \in NodeActors
  PROVE  /\ \A s \in Steps :
              /\ [n EXCEPT !.step = s] \in NodeActors
              /\ [n EXCEPT !.step = s].step = s
              /\ [n EXCEPT !.step = s].info = n.info
              /\ [n EXCEPT !.step = s].proximity = n.proximity
         /\ \A r \in 0..MaxRafts :
              /\ [n EXCEPT !.proximity = r] \in NodeActors
              /\ [n EXCEPT !.proximity = r].proximity = r
              /\ [n EXCEPT !.proximity = r].info = n.info
              /\ [n EXCEPT !.proximity = r].step = n.step
BY DEF NodeActors

(* The head and the tail of a sequence that is not empty.                  *)
LEMMA HeadAndTail ==
  ASSUME NEW S, NEW s \in Seq(S), s # <<>>
  PROVE  /\ Head(s) \in S /\ Head(s) = s[1]
         /\ Tail(s) \in Seq(S) /\ Len(Tail(s)) = Len(s) - 1
         /\ \A i \in 1..Len(s) - 1 : Tail(s)[i] = s[i + 1]
OBVIOUS

(* Its elements.                                                           *)
LEMMA SeqElements ==
  ASSUME NEW S, NEW s \in Seq(S)
  PROVE  DOMAIN s = 1..Len(s) /\ \A i \in DOMAIN s : s[i] \in S
OBVIOUS

(* Node actors stay Node actors when the registry drops an address.        *)
LEMMA AbandonTyped ==
  ASSUME TypeOK, NEW id \in NodeIds, NEW a
  PROVE  /\ Abandon(id, a) \in [Addrs -> NodeActors]
         /\ \A b \in Addrs :
              /\ Abandon(id, a)[b].info = actors[id][b].info
              /\ Abandon(id, a)[b].proximity = actors[id][b].proximity
              /\ Abandon(id, a)[b].step =
                   IF b = a /\ actors[id][b].step = "linked"
                     THEN "stopped" ELSE actors[id][b].step
<1>1. \A b \in Addrs : actors[id][b] \in NodeActors
  BY DEF TypeOK
<1>2. "stopped" \in Steps
  BY DEF Steps
<1> QED BY <1>1, <1>2, NodeActorUpdates DEF Abandon

LEMMA NewNodeTyped ==
  ASSUME NEW id \in NodeIds, NEW info \in Infos \cup {NoInfo}, NEW r \in 0..MaxRafts
  PROVE  NewNode(id, info, r) \in NodeActors
BY HostAssumption DEF NewNode, NodeActors, Steps, NoRaft

(* Registering a node keeps what it changes well typed.                    *)
LEMMA RegisterNodeTyped ==
  ASSUME TypeOK, NEW id \in NodeIds, NEW info \in Infos, NEW r \in 0..MaxRafts,
         RegisterNode(id, info, r)
  PROVE  /\ nodes' \in [NodeIds -> NodeRefs]
         /\ state' \in NetworkStates(NodeIds)
         /\ started' \in [NodeIds -> Addrs \cup {0}]
         /\ actors' \in [NodeIds -> [Addrs -> NodeActors]]
<1>1. state' \in NetworkStates(NodeIds)
  BY StateOperatorsTyped DEF RegisterNode, TypeOK
<1>2. CASE HasProximity(id, r) /\ StartNode(id, info, r)
  <2> DEFINE a == started[id] + 1
  <2>1. a \in Addrs
    BY <1>2 DEF StartNode
  <2>2. [Abandon(id, nodes[id].addr) EXCEPT ![a] = NewNode(id, info, r)]
          \in [Addrs -> NodeActors]
    BY AbandonTyped, NewNodeTyped, <2>1
  <2>3. actors' = [actors EXCEPT ![id] =
                    [Abandon(id, nodes[id].addr) EXCEPT ![a] = NewNode(id, info, r)]]
    BY <1>2 DEF StartNode
  <2>4. actors' \in [NodeIds -> [Addrs -> NodeActors]]
    BY <2>2, <2>3 DEF TypeOK
  <2>5. nodes' \in [NodeIds -> NodeRefs] /\ started' \in [NodeIds -> Addrs \cup {0}]
    BY <1>2, <2>1 DEF StartNode, TypeOK, NodeRefs
  <2> QED BY <1>1, <2>4, <2>5
<1>3. CASE ~HasProximity(id, r)
  BY <1>1, <1>3 DEF RegisterNode, TypeOK, NodeRefs, nodeVars
<1> QED BY <1>2, <1>3 DEF RegisterNode

LEMMA DefaultStateTyped == DefaultState \in NetworkStates(NodeIds)
<1> DEFINE entry == [status |-> "Joining", exit |-> "None"]
           log == <<entry>>
<1>1. entry \in StatusEntry
  BY DEF StatusEntry, Statuses
<1>2. log \in Seq(StatusEntry) /\ log # <<>>
  <2> HIDE DEF entry
  <2> QED BY <1>1
<1> HIDE DEF log
<1>3. \A s \in Statuses, c \in SUBSET NodeIds, i \in SUBSET NodeIds :
        [status |-> s, log |-> log, connected |-> c, isolated |-> i]
          \in NetworkStates(NodeIds)
  BY <1>2 DEF NetworkStates
<1>4. DefaultState = [status |-> "Joining", log |-> log, connected |-> {}, isolated |-> {}]
  BY DEF DefaultState, log
<1>5. "Joining" \in Statuses /\ {} \in SUBSET NodeIds
  BY DEF Statuses
<1> QED BY <1>3, <1>4, <1>5

LEMMA InitTyped == Init => TypeOK
<1> SUFFICES ASSUME Init PROVE TypeOK
  OBVIOUS
<1> USE HostAssumption
<1>1. nodes \in [NodeIds -> NodeRefs]
  BY DEF Init, NodeRefs, Addrs, NoAddr
<1>2. started \in [NodeIds -> Addrs \cup {0}]
  BY <1>1 DEF Init, NodeRefs, NoAddr
<1>3. actors \in [NodeIds -> [Addrs -> NodeActors]]
  <2>1. \A id \in NodeIds : NewNode(id, Seeds[id], NoRaft) \in NodeActors
    BY NewNodeTyped DEF NoRaft
  <2>2. Unborn \in NodeActors
    BY DEF Unborn, NodeActors, Steps, NoRaft
  <2> QED BY <2>1, <2>2 DEF Init
<1>4. state \in NetworkStates(NodeIds)
  BY DefaultStateTyped DEF Init
<1>5. boot \in {"starting", "binding", "bound", "failed"} /\ panicked \in BOOLEAN
  BY DEF Init
<1>6. rafts \in 0..MaxRafts /\ raft \in 0..MaxRafts
  BY DEF Init, NoRaft
<1>7. mailbox \in Seq(Messages) /\ updates \in Seq([addr : Addrs, raft : 1..MaxRafts])
  BY DEF Init
<1>8. metrics \in SUBSET Reports
  BY DEF Init
<1> QED BY <1>1, <1>2, <1>3, <1>4, <1>5, <1>6, <1>7, <1>8 DEF TypeOK

(* One step per action of Next.                                            *)
LEMMA TypePreserved == TypeOK /\ [Next]_vars => TypeOK'
<1> SUFFICES ASSUME TypeOK, [Next]_vars PROVE TypeOK'
  OBVIOUS
<1> USE DEF networkVars, nodeVars
<1>0. mailbox \in Seq(Messages)
  BY DEF TypeOK
<1>1. CASE SendBindEndpoint
  <2>1. BindEndpoint \in Messages
    BY DEF Messages
  <2> QED BY <1>0, <1>1, <2>1, SendTyped DEF SendBindEndpoint, TypeOK
<1>2. CASE SendRegisterRaft
  <2>1. rafts + 1 \in 1..MaxRafts
    BY <1>2, HostAssumption DEF SendRegisterRaft, TypeOK
  <2>2. RegisterRaft(rafts + 1) \in Messages
    BY <2>1 DEF Messages
  <2> QED BY <1>0, <1>2, <2>1, <2>2, SendTyped DEF SendRegisterRaft, TypeOK
<1>3. ASSUME NEW m \in Reports, SendRaftMetrics(m) PROVE TypeOK'
  <2>1. RaftMetrics(m) \in Messages
    BY DEF Messages
  <2> QED BY <1>0, <1>3, <2>1, SendTyped DEF SendRaftMetrics, TypeOK
<1>4. ASSUME NEW id \in NodeIds, NEW info \in Infos, RequestConnect(id, info) PROVE TypeOK'
  <2>1. ConnectNode(id, info) \in Messages
    BY DEF Messages
  <2> QED BY <1>0, <1>4, <2>1, SendTyped DEF RequestConnect, TypeOK
<1>5. ASSUME NEW id \in NodeIds, RequestDisconnect(id) PROVE TypeOK'
  <2>1. DisconnectNode(id) \in Messages
    BY DEF Messages
  <2> QED BY <1>0, <1>5, <2>1, SendTyped DEF RequestDisconnect, TypeOK
<1>6. CASE HandleBindEndpoint
  BY <1>0, <1>6, ReceiveTyped DEF HandleBindEndpoint, TypeOK
<1>7. CASE HandleRegisterRaft
  <2>1. /\ mailbox' \in Seq(Messages) /\ Head(mailbox).raft \in 1..MaxRafts
    BY <1>0, <1>7, ReceiveTyped, MessageShapes DEF HandleRegisterRaft
  <2>2. CASE RegisterRaftInNode
    <3>1. nodes[Self].addr \in Addrs
      BY <2>2, HostAssumption DEF RegisterRaftInNode, TypeOK, NodeRefs
    <3>2. updates' \in Seq([addr : Addrs, raft : 1..MaxRafts])
      BY <2>1, <2>2, <3>1 DEF RegisterRaftInNode, TypeOK
    <3> QED BY <1>7, <2>1, <2>2, <3>2 DEF HandleRegisterRaft, RegisterRaftInNode, TypeOK
  <2>3. CASE RegisterRaftAndCreateLocalNode
    <3>1. nodes[Self].info \in Infos
      BY <2>3, HostAssumption DEF RegisterRaftAndCreateLocalNode, Registered, TypeOK, NodeRefs
    <3>2. /\ nodes' \in [NodeIds -> NodeRefs]
          /\ state' \in NetworkStates(NodeIds)
          /\ started' \in [NodeIds -> Addrs \cup {0}]
          /\ actors' \in [NodeIds -> [Addrs -> NodeActors]]
      BY <2>1, <2>3, <3>1, RegisterNodeTyped, HostAssumption DEF RegisterRaftAndCreateLocalNode
    <3> QED BY <1>7, <2>1, <2>3, <3>2 DEF HandleRegisterRaft, RegisterRaftAndCreateLocalNode, TypeOK
  <2>4. CASE RegisterRaftWithoutOwnEntry
    BY <1>7, <2>1, <2>4 DEF HandleRegisterRaft, RegisterRaftWithoutOwnEntry, TypeOK
  <2> QED BY <1>7, <2>2, <2>3, <2>4 DEF HandleRegisterRaft
<1>8. CASE HandleRaftMetrics
  <2> DEFINE m == Head(mailbox).metrics
             next == StatusOnReport(state.status, m.state)
  <2>1. mailbox' \in Seq(Messages) /\ m \in Reports
    BY <1>0, <1>8, ReceiveTyped, MessageShapes DEF HandleRaftMetrics
  <2>2. state.status \in Statuses
    BY DEF TypeOK, NetworkStates
  <2>3. next \in Statuses
    BY <2>2 DEF StatusOnReport, Statuses
  <2>4. Advance(state, next) \in NetworkStates(NodeIds)
    BY <2>3, AdvanceLog DEF TypeOK
  <2>5. state' \in NetworkStates(NodeIds)
    BY <1>8, <2>4 DEF HandleRaftMetrics, TypeOK
  <2>6. metrics' \in SUBSET Reports /\ panicked' \in BOOLEAN
    BY <1>8, <2>1 DEF HandleRaftMetrics, TypeOK
  <2> QED BY <1>8, <2>1, <2>5, <2>6 DEF HandleRaftMetrics, TypeOK
<1>9. CASE HandleStatusChange
  <2>1. mailbox' \in Seq(Messages) /\ Head(mailbox).id \in NodeIds
    BY <1>0, <1>9, ReceiveTyped, MessageShapes DEF HandleStatusChange
  <2>2. state' \in NetworkStates(NodeIds)
    BY <1>9, <2>1, StateOperatorsTyped DEF HandleStatusChange, StateOnReport, TypeOK
  <2> QED BY <1>9, <2>1, <2>2 DEF HandleStatusChange, TypeOK
<1>10. CASE HandleConnectNode
  <2> DEFINE id == Head(mailbox).id
             info == Head(mailbox).info
  <2>1. mailbox' \in Seq(Messages) /\ id \in NodeIds /\ info \in Infos
    BY <1>0, <1>10, ReceiveTyped, MessageShapes DEF HandleConnectNode
  <2>2. CASE UNCHANGED <<nodes, state, nodeVars>>
    BY <1>10, <2>1, <2>2 DEF HandleConnectNode, TypeOK
  <2>3. CASE RegisterNode(id, info, raft)
    <3>1. /\ nodes' \in [NodeIds -> NodeRefs]
          /\ state' \in NetworkStates(NodeIds)
          /\ started' \in [NodeIds -> Addrs \cup {0}]
          /\ actors' \in [NodeIds -> [Addrs -> NodeActors]]
      BY <2>1, <2>3, RegisterNodeTyped DEF TypeOK
    <3> QED BY <1>10, <2>1, <3>1 DEF HandleConnectNode, TypeOK
  <2> QED BY <1>10, <2>2, <2>3 DEF HandleConnectNode
<1>11. CASE HandleDisconnectNode
  <2> DEFINE id == Head(mailbox).id
  <2>1. mailbox' \in Seq(Messages) /\ id \in NodeIds
    BY <1>0, <1>11, ReceiveTyped, MessageShapes DEF HandleDisconnectNode
  <2>2. Unregistered \in NodeRefs
    BY DEF Unregistered, NodeRefs
  <2>3. Abandon(id, nodes[id].addr) \in [Addrs -> NodeActors]
    BY <2>1, AbandonTyped
  <2> HIDE DEF id
  <2>4. /\ nodes' = [nodes EXCEPT ![id] = Unregistered]
        /\ actors' = [actors EXCEPT ![id] = Abandon(id, nodes[id].addr)]
    BY <1>11 DEF HandleDisconnectNode, id
  <2>5. nodes' \in [NodeIds -> NodeRefs] /\ actors' \in [NodeIds -> [Addrs -> NodeActors]]
    BY <2>1, <2>2, <2>3, <2>4 DEF TypeOK
  <2> QED BY <1>11, <2>1, <2>5 DEF HandleDisconnectNode, TypeOK
<1>12. ASSUME NEW id \in NodeIds, NEW a \in Addrs, NodeStep(id, a) PROVE TypeOK'
  <2>1. \A s \in Steps : GoTo(id, a, s) => actors' \in [NodeIds -> [Addrs -> NodeActors]]
    <3> SUFFICES ASSUME NEW s \in Steps, GoTo(id, a, s)
                 PROVE  actors' \in [NodeIds -> [Addrs -> NodeActors]]
      OBVIOUS
    <3>1. [actors[id][a] EXCEPT !.step = s] \in NodeActors
      BY NodeActorUpdates DEF TypeOK
    <3>2. actors' = [actors EXCEPT ![id] = [actors[id] EXCEPT ![a] =
                       [actors[id][a] EXCEPT !.step = s]]]
      BY DEF GoTo, TypeOK
    <3> QED BY <3>1, <3>2 DEF TypeOK
  <2>2. mailbox' \in Seq(Messages)
    BY <1>0, <1>12, ReportsTyped, SendTyped
       DEF NodeStep, ConnectSucceeds, ReportConnected, ConnectFails, RetryConnect, Report
  <2>3. actors' \in [NodeIds -> [Addrs -> NodeActors]]
    BY <1>12, <2>1
       DEF NodeStep, ConnectSucceeds, ReportConnected, ConnectFails, RetryConnect, Steps
  <2>4. NodeUnchanged
    BY <1>12 DEF NodeStep, ConnectSucceeds, ReportConnected, ConnectFails, RetryConnect
  <2> QED BY <2>2, <2>3, <2>4 DEF NodeUnchanged, TypeOK
<1>13. CASE UpdateProximity
  <2>1. Head(updates) \in [addr : Addrs, raft : 1..MaxRafts]
    BY <1>13, HeadAndTail DEF UpdateProximity, TypeOK
  <2>2. Head(updates).addr \in Addrs /\ Head(updates).raft \in 0..MaxRafts
    BY <2>1, HostAssumption
  <2>3. actors' \in [NodeIds -> [Addrs -> NodeActors]]
    <3> DEFINE a == Head(updates).addr
               r == Head(updates).raft
    <3>1. [actors[Self][a] EXCEPT !.proximity = r] \in NodeActors
      BY <2>2, NodeActorUpdates, HostAssumption DEF TypeOK
    <3>2. actors' = [actors EXCEPT ![Self] = [actors[Self] EXCEPT ![a] =
                       [actors[Self][a] EXCEPT !.proximity = r]]]
      BY <1>13 DEF UpdateProximity
    <3> HIDE DEF a, r
    <3> QED BY <2>2, <3>1, <3>2, HostAssumption DEF TypeOK, a
  <2>4. updates' \in Seq([addr : Addrs, raft : 1..MaxRafts])
    BY <1>13, HeadAndTail DEF UpdateProximity, TypeOK
  <2> QED BY <1>13, <2>3, <2>4 DEF UpdateProximity, TypeOK
<1>14. CASE UNCHANGED vars
  BY <1>14 DEF vars, TypeOK
<1> QED
  BY <1>1, <1>2, <1>3, <1>4, <1>5, <1>6, <1>7, <1>8, <1>9, <1>10, <1>11, <1>12,
     <1>13, <1>14 DEF Next, Outside, NetworkStep

(* The state of the Network, its Node actors and the messages in flight    *)
(* are of the types the code declares.                                     *)
THEOREM Typing == Spec => []TypeOK
BY InitTyped, TypePreserved, PTL DEF Spec

(***************************************************************************)
(* What the steps change, actor by actor and entry by entry.               *)
(***************************************************************************)

(* Registering a node touches the entry and the Node actors of that node   *)
(* only; if it starts a Node actor, the entry gets the next free address.  *)
LEMMA RegisterNodeEffect ==
  ASSUME TypeOK, NEW id \in NodeIds, NEW info \in Infos, NEW r \in 0..MaxRafts,
         RegisterNode(id, info, r)
  PROVE  /\ nodes'[id].info = info
         /\ \A j \in NodeIds \ {id} :
              nodes'[j] = nodes[j] /\ started'[j] = started[j] /\ actors'[j] = actors[j]
         /\ HasProximity(id, r) =>
              /\ started[id] + 1 \in Addrs
              /\ nodes'[id].addr = started[id] + 1 /\ started'[id] = started[id] + 1
              /\ actors'[id][started[id] + 1] = NewNode(id, info, r)
              /\ \A b \in Addrs \ {started[id] + 1} :
                   actors'[id][b] = Abandon(id, nodes[id].addr)[b]
         /\ ~HasProximity(id, r) =>
              nodes'[id].addr = nodes[id].addr /\ UNCHANGED <<started, actors>>
<1>1. /\ nodes \in [NodeIds -> NodeRefs] /\ started \in [NodeIds -> Addrs \cup {0}]
      /\ actors \in [NodeIds -> [Addrs -> NodeActors]]
  BY DEF TypeOK
<1>2. CASE HasProximity(id, r) /\ StartNode(id, info, r)
  <2> DEFINE a == started[id] + 1
             new == [Abandon(id, nodes[id].addr) EXCEPT ![a] = NewNode(id, info, r)]
  <2>1. a \in Addrs /\ actors' = [actors EXCEPT ![id] = new]
    BY <1>2 DEF StartNode
  <2>2. /\ new[a] = NewNode(id, info, r)
        /\ \A b \in Addrs \ {a} : new[b] = Abandon(id, nodes[id].addr)[b]
    BY <2>1, AbandonTyped
  <2>3. actors'[id] = new /\ \A j \in NodeIds \ {id} : actors'[j] = actors[j]
    <3> HIDE DEF new
    <3> QED BY <1>1, <2>1
  <2>4. /\ nodes'[id] = [info |-> info, addr |-> a] /\ started'[id] = a
        /\ \A j \in NodeIds \ {id} : nodes'[j] = nodes[j] /\ started'[j] = started[j]
    BY <1>1, <1>2 DEF StartNode
  <2> HIDE DEF new
  <2> QED BY <1>2, <2>1, <2>2, <2>3, <2>4
<1>3. CASE ~HasProximity(id, r)
  <2>1. /\ nodes' = [nodes EXCEPT ![id] = [nodes[id] EXCEPT !.info = info]]
        /\ UNCHANGED <<started, actors>>
    BY <1>3 DEF RegisterNode, nodeVars
  <2>2. /\ [nodes[id] EXCEPT !.info = info].info = info
        /\ [nodes[id] EXCEPT !.info = info].addr = nodes[id].addr
    BY <1>1 DEF NodeRefs
  <2> QED BY <1>1, <1>3, <2>1, <2>2
<1> QED BY <1>2, <1>3 DEF RegisterNode

(* A step of a Node actor changes the step of that actor.                  *)
LEMMA GoToEffect ==
  ASSUME TypeOK, NEW id \in NodeIds, NEW a \in Addrs, NEW s \in Steps, GoTo(id, a, s)
  PROVE  \A j \in NodeIds, b \in Addrs :
           /\ actors'[j][b].info = actors[j][b].info
           /\ actors'[j][b].proximity = actors[j][b].proximity
           /\ actors'[j][b].step = IF j = id /\ b = a THEN s ELSE actors[j][b].step
<1>1. actors \in [NodeIds -> [Addrs -> NodeActors]]
  BY DEF TypeOK
<1> DEFINE new == [actors[id][a] EXCEPT !.step = s]
<1>2. actors' = [actors EXCEPT ![id] = [actors[id] EXCEPT ![a] = new]]
  BY DEF GoTo
<1>3. new.step = s /\ new.info = actors[id][a].info /\ new.proximity = actors[id][a].proximity
  BY <1>1, NodeActorUpdates
<1> HIDE DEF new
<1>4. \A j \in NodeIds, b \in Addrs :
        actors'[j][b] = IF j = id /\ b = a THEN new ELSE actors[j][b]
  BY <1>1, <1>2
<1> QED BY <1>3, <1>4

(* An update of the proximity changes nothing else.                        *)
LEMMA UpdateProximityEffect ==
  ASSUME TypeOK, UpdateProximity
  PROVE  /\ Head(updates).addr \in Addrs /\ Head(updates).raft \in 0..MaxRafts
         /\ \A j \in NodeIds, b \in Addrs :
              /\ actors'[j][b].info = actors[j][b].info
              /\ actors'[j][b].step = actors[j][b].step
              /\ actors'[j][b].proximity =
                   IF j = Self /\ b = Head(updates).addr
                     THEN Head(updates).raft ELSE actors[j][b].proximity
<1>1. actors \in [NodeIds -> [Addrs -> NodeActors]] /\ Self \in NodeIds
  BY HostAssumption DEF TypeOK
<1>2. Head(updates) \in [addr : Addrs, raft : 1..MaxRafts]
  BY HeadAndTail DEF UpdateProximity, TypeOK
<1>3. Head(updates).addr \in Addrs /\ Head(updates).raft \in 0..MaxRafts
  BY <1>2, HostAssumption
<1> DEFINE a == Head(updates).addr
           r == Head(updates).raft
           new == [actors[Self][a] EXCEPT !.proximity = r]
<1>4. actors' = [actors EXCEPT ![Self] = [actors[Self] EXCEPT ![a] = new]]
  BY DEF UpdateProximity
<1>5. new.proximity = r /\ new.info = actors[Self][a].info /\ new.step = actors[Self][a].step
  BY <1>1, <1>3, NodeActorUpdates
<1> HIDE DEF new
<1>6. \A j \in NodeIds, b \in Addrs :
        actors'[j][b] = IF j = Self /\ b = a THEN new ELSE actors[j][b]
  BY <1>1, <1>3, <1>4
<1> QED BY <1>3, <1>5, <1>6

(* Steps of Node actors, in brief: who reports what, and where it goes.    *)
LEMMA NodeStepEffect ==
  ASSUME TypeOK, NEW id \in NodeIds, NEW a \in Addrs, NodeStep(id, a)
  PROVE  /\ NodeUnchanged
         /\ \E s \in Steps :
              /\ GoTo(id, a, s)
              /\ s # "unborn"
              /\ s = "stopped" => nodes[id].addr # a
         /\ actors[id][a].step \in {"connect", "weak", "retry"}
BY DEF NodeStep, ConnectSucceeds, ReportConnected, ConnectFails, RetryConnect, InStep, Steps

(***************************************************************************)
(* The inductive invariant: the safety properties of HostNetwork, and what *)
(* they rest on.                                                           *)
(***************************************************************************)

(* The registry holds an address exactly where there can be a Node actor.  *)
AddressWhereNode ==
  \A id \in NodeIds :
    nodes[id].addr = NoAddr <=> ~Registered(id) \/ (id = Self /\ raft = NoRaft)

(* Node actors are numbered from 1 on, as counted.                         *)
BornNodesCounted ==
  \A id \in NodeIds, a \in Addrs : actors[id][a].step # "unborn" => a <= started[id]

(* A report on its way is one of the three that are ever sent, and it is   *)
(* about a node for which a Node actor was started.                        *)
IsReport(m) == m.type = "HandleNodeStatusChange"
ReportsAreSound ==
  \A i \in DOMAIN mailbox : IsReport(mailbox[i]) =>
    /\ mailbox[i].status.kind \in {"WeaklyConnected", "Connected", "Failure"}
    /\ started[mailbox[i].id] # 0

(* Behind every report of WeaklyConnected follows the one of Connected.    *)
WeakReport(id) == HandleNodeStatusChange(id, Plain("WeaklyConnected"))
WeakThenConnected ==
  \A id \in NodeIds, i \in DOMAIN mailbox : mailbox[i] = WeakReport(id) =>
    \/ \E j \in DOMAIN mailbox : j > i /\ mailbox[j] = ConnectedReport(id)
    \/ \E a \in Addrs : actors[id][a].step = "weak"

(* Updates are for Nodes already started, and once one is for the present  *)
(* Node of the host, the last one is, and carries the present Raft.        *)
UpdatesEndInCurrent ==
  \A i \in DOMAIN updates :
    /\ updates[i].addr <= started[Self]
    /\ updates[i].addr = nodes[Self].addr =>
         updates[Len(updates)] = [addr |-> nodes[Self].addr, raft |-> raft]

RegistryInv == AddressWhereNode /\ AddressIsCurrent /\ BornNodesCounted
LinksInv == ReportsAreSound /\ WeakThenConnected /\ IsolationIsTransient /\ LinksArePartitioned
RaftInv == UpdatesEndInCurrent /\ LocalNodeFollowsRaft
StatusInv == StatusFollowsRaft /\ PanicNeedsOwnEntryGone

(***************************************************************************)
(* The registry and the Node actors.                                       *)
(***************************************************************************)
LEMMA RegistryInit == Init => RegistryInv
<1> SUFFICES ASSUME Init PROVE RegistryInv
  OBVIOUS
<1> USE HostAssumption
<1>1. \A id \in NodeIds :
        /\ nodes[id].info = Seeds[id] /\ started[id] = nodes[id].addr
        /\ nodes[id].addr = IF id = Self \/ Seeds[id] = NoInfo THEN NoAddr ELSE 1
  BY DEF Init
<1>2. \A id \in NodeIds, a \in Addrs :
        actors[id][a] = IF a = nodes[id].addr THEN NewNode(id, Seeds[id], NoRaft) ELSE Unborn
  BY DEF Init
<1>3. 1 \in Addrs /\ \A a \in Addrs : a # NoAddr /\ a <= a
  BY DEF Addrs, NoAddr
<1>4. AddressWhereNode
  BY <1>1, <1>3 DEF AddressWhereNode, Registered, Init, NoAddr, NoRaft
<1>5. AddressIsCurrent
  <2> SUFFICES ASSUME NEW id \in NodeIds, nodes[id].addr # NoAddr
               PROVE  /\ nodes[id].addr = started[id]
                      /\ actors[id][nodes[id].addr].step \notin {"unborn", "stopped"}
                      /\ actors[id][nodes[id].addr].info = nodes[id].info
    BY DEF AddressIsCurrent
  <2>1. nodes[id].addr = 1 /\ nodes[id].addr = started[id]
    BY <1>1
  <2>2. actors[id][1] = NewNode(id, nodes[id].info, NoRaft)
    BY <1>1, <1>2, <1>3, <2>1
  <2> QED BY <2>1, <2>2 DEF NewNode
<1>6. BornNodesCounted
  <2> SUFFICES ASSUME NEW id \in NodeIds, NEW a \in Addrs, actors[id][a].step # "unborn"
               PROVE  a <= started[id]
    BY DEF BornNodesCounted
  <2>1. a = nodes[id].addr
    BY <1>2 DEF Unborn
  <2> QED BY <1>1, <1>3, <2>1
<1> QED BY <1>4, <1>5, <1>6 DEF RegistryInv

(* What registering a node preserves, for the Raft actor known after the   *)
(* handler, which differs from the one before only for the own entry.      *)
LEMMA RegisterKeepsRegistry ==
  ASSUME TypeOK, RegistryInv, NEW id \in NodeIds, NEW info \in Infos, NEW r \in 0..MaxRafts,
         RegisterNode(id, info, r), raft' = r, raft = r \/ (id = Self /\ r # NoRaft)
  PROVE  RegistryInv'
<1> USE HostAssumption
<1>1. /\ nodes'[id].info = info /\ Registered(id)'
      /\ \A j \in NodeIds \ {id} :
           nodes'[j] = nodes[j] /\ started'[j] = started[j] /\ actors'[j] = actors[j]
  BY RegisterNodeEffect DEF Registered
<1>2. CASE HasProximity(id, r)
  <2> DEFINE a == started[id] + 1
  <2>1. /\ a \in Addrs /\ nodes'[id].addr = a /\ started'[id] = a
        /\ actors'[id][a] = NewNode(id, info, r)
        /\ \A b \in Addrs \ {a} : actors'[id][b] = Abandon(id, nodes[id].addr)[b]
    BY <1>2, RegisterNodeEffect
  <2>2. a # NoAddr
    BY <2>1 DEF Addrs, NoAddr
  <2>3. started[id] \in Nat /\ \A b \in Addrs : b \in Nat
    BY DEF TypeOK, Addrs
  <2>4. AddressWhereNode'
    BY <1>1, <1>2, <2>1, <2>2
       DEF RegistryInv, AddressWhereNode, Registered, HasProximity
  <2>5. AddressIsCurrent'
    BY <1>1, <2>1 DEF RegistryInv, AddressIsCurrent, NewNode
  <2>6. BornNodesCounted'
    <3>1. \A b \in Addrs \ {a} : actors'[id][b].step # "unborn" => actors[id][b].step # "unborn"
      BY <2>1, AbandonTyped
    <3> HIDE DEF a
    <3>2. \A b \in Addrs : actors'[id][b].step # "unborn" => b <= a
      BY <2>3, <3>1 DEF RegistryInv, BornNodesCounted, a
    <3> QED BY <1>1, <2>1, <3>2 DEF RegistryInv, BornNodesCounted
  <2> QED BY <2>4, <2>5, <2>6 DEF RegistryInv
<1>3. CASE ~HasProximity(id, r)
  <2>1. /\ nodes'[id].addr = nodes[id].addr /\ UNCHANGED <<started, actors>>
        /\ id = Self /\ r = NoRaft /\ raft = NoRaft
    BY <1>3, RegisterNodeEffect DEF HasProximity
  <2>2. nodes'[id].addr = NoAddr
    BY <2>1 DEF RegistryInv, AddressWhereNode
  <2>3. AddressWhereNode' /\ AddressIsCurrent'
    BY <1>1, <2>1, <2>2 DEF RegistryInv, AddressWhereNode, AddressIsCurrent, Registered
  <2>4. BornNodesCounted'
    BY <2>1 DEF RegistryInv, BornNodesCounted
  <2> QED BY <2>3, <2>4 DEF RegistryInv
<1> QED BY <1>2, <1>3

LEMMA RegistryPreserved == TypeOK /\ RegistryInv /\ [Next]_vars => RegistryInv'
<1> SUFFICES ASSUME TypeOK, RegistryInv, [Next]_vars PROVE RegistryInv'
  OBVIOUS
<1> USE HostAssumption DEF networkVars, nodeVars
<1>0. ASSUME UNCHANGED <<raft, nodes, started, actors>> PROVE RegistryInv'
  BY <1>0 DEF RegistryInv, AddressWhereNode, AddressIsCurrent, BornNodesCounted, Registered
<1>1. CASE Outside
  BY <1>0, <1>1 DEF Outside, SendBindEndpoint, SendRegisterRaft, SendRaftMetrics,
     RequestConnect, RequestDisconnect
<1>2. CASE HandleBindEndpoint \/ HandleRaftMetrics \/ HandleStatusChange
  BY <1>0, <1>2 DEF HandleBindEndpoint, HandleRaftMetrics, HandleStatusChange
<1>3. CASE HandleRegisterRaft
  <2>1. raft' \in 1..MaxRafts
    BY <1>3, ReceiveTyped, MessageShapes DEF HandleRegisterRaft, TypeOK
  <2>2. raft' # NoRaft
    BY <2>1 DEF NoRaft
  <2>3. CASE RegisterRaftAndCreateLocalNode
    <3>1. nodes[Self].info \in Infos
      BY <2>3 DEF RegisterRaftAndCreateLocalNode, Registered, TypeOK, NodeRefs
    <3>2. RegisterNode(Self, nodes[Self].info, raft')
      BY <1>3, <2>3 DEF HandleRegisterRaft, RegisterRaftAndCreateLocalNode
    <3> QED BY <2>1, <2>2, <3>1, <3>2, RegisterKeepsRegistry
  <2>4. CASE RegisterRaftInNode \/ RegisterRaftWithoutOwnEntry
    <3>1. UNCHANGED <<nodes, started, actors>>
          /\ (Registered(Self) => nodes[Self].addr # NoAddr)
      BY <2>4 DEF RegisterRaftInNode, RegisterRaftWithoutOwnEntry
    <3> QED BY <2>2, <3>1
        DEF RegistryInv, AddressWhereNode, AddressIsCurrent, BornNodesCounted, Registered
  <2> QED BY <1>3, <2>3, <2>4 DEF HandleRegisterRaft
<1>4. CASE HandleConnectNode
  <2> DEFINE id == Head(mailbox).id
             info == Head(mailbox).info
  <2>1. id \in NodeIds /\ info \in Infos
    BY <1>4, ReceiveTyped, MessageShapes DEF HandleConnectNode, TypeOK
  <2>2. CASE UNCHANGED <<nodes, state, nodeVars>>
    BY <1>0, <1>4, <2>2 DEF HandleConnectNode
  <2>3. CASE RegisterNode(id, info, raft)
    <3>1. raft' = raft /\ raft \in 0..MaxRafts
      BY <1>4 DEF HandleConnectNode, TypeOK
    <3> HIDE DEF id, info
    <3> QED BY <2>1, <2>3, <3>1, RegisterKeepsRegistry
  <2> QED BY <1>4, <2>2, <2>3 DEF HandleConnectNode
<1>5. CASE HandleDisconnectNode
  <2> DEFINE id == Head(mailbox).id
  <2>1. id \in NodeIds
    BY <1>5, ReceiveTyped, MessageShapes DEF HandleDisconnectNode, TypeOK
  <2>2. /\ nodes' = [nodes EXCEPT ![id] = Unregistered]
        /\ actors' = [actors EXCEPT ![id] = Abandon(id, nodes[id].addr)]
        /\ UNCHANGED <<raft, started>>
    BY <1>5 DEF HandleDisconnectNode
  <2> HIDE DEF id
  <2>3. /\ nodes'[id].info = NoInfo /\ nodes'[id].addr = NoAddr
        /\ actors'[id] = Abandon(id, nodes[id].addr)
        /\ \A j \in NodeIds \ {id} : nodes'[j] = nodes[j] /\ actors'[j] = actors[j]
    BY <2>1, <2>2 DEF TypeOK, Unregistered
  <2>4. AddressWhereNode' /\ AddressIsCurrent'
    BY <2>1, <2>2, <2>3 DEF RegistryInv, AddressWhereNode, AddressIsCurrent, Registered
  <2>5. BornNodesCounted'
    BY <2>1, <2>2, <2>3, AbandonTyped DEF RegistryInv, BornNodesCounted
  <2> QED BY <2>4, <2>5 DEF RegistryInv
<1>6. ASSUME NEW id \in NodeIds, NEW a \in Addrs, NodeStep(id, a) PROVE RegistryInv'
  <2>1. PICK s \in Steps :
          /\ GoTo(id, a, s) /\ s # "unborn" /\ (s = "stopped" => nodes[id].addr # a)
          /\ UNCHANGED <<raft, nodes, started>> /\ actors[id][a].step # "unborn"
    BY <1>6, NodeStepEffect DEF NodeUnchanged
  <2>2. \A j \in NodeIds, b \in Addrs :
          /\ actors'[j][b].info = actors[j][b].info
          /\ actors'[j][b].step = IF j = id /\ b = a THEN s ELSE actors[j][b].step
    BY <1>6, <2>1, GoToEffect
  <2>3. AddressWhereNode'
    BY <2>1 DEF RegistryInv, AddressWhereNode, Registered
  <2>4. AddressIsCurrent'
    <3>1. \A j \in NodeIds : nodes[j].addr \in Addrs \cup {NoAddr}
      BY DEF TypeOK, NodeRefs
    <3> QED BY <1>6, <2>1, <2>2, <3>1 DEF RegistryInv, AddressIsCurrent
  <2>5. BornNodesCounted'
    BY <1>6, <2>1, <2>2 DEF RegistryInv, BornNodesCounted
  <2> QED BY <2>3, <2>4, <2>5 DEF RegistryInv
<1>7. CASE UpdateProximity
  <2>1. /\ UNCHANGED <<raft, nodes, started>>
        /\ \A j \in NodeIds, b \in Addrs :
             actors'[j][b].info = actors[j][b].info /\ actors'[j][b].step = actors[j][b].step
    BY <1>7, UpdateProximityEffect DEF UpdateProximity
  <2>2. \A j \in NodeIds : nodes[j].addr \in Addrs \cup {NoAddr}
    BY DEF TypeOK, NodeRefs
  <2> QED BY <2>1, <2>2
      DEF RegistryInv, AddressWhereNode, AddressIsCurrent, BornNodesCounted, Registered
<1>8. CASE UNCHANGED vars
  BY <1>0, <1>8 DEF vars
<1> QED BY <1>1, <1>2, <1>3, <1>4, <1>5, <1>6, <1>7, <1>8 DEF Next, NetworkStep

LEMMA RegistryAlways == Spec => []RegistryInv
BY Typing, RegistryInit, RegistryPreserved, PTL DEF Spec

(* RPCs never go to a replaced Node nor to a previous address: the entry   *)
(* always leads to the Node actor started last, built from its information.*)
THEOREM AddressStaysCurrent == Spec => []AddressIsCurrent
<1>1. RegistryInv => AddressIsCurrent
  BY DEF RegistryInv
<1> QED BY <1>1, RegistryAlways, PTL

(* A registered node has a Node actor once Raft is known.                  *)
THEOREM RegisteredAlwaysHasNode == Spec => []RegisteredHasNode
<1>1. RegistryInv => RegisteredHasNode
  BY DEF RegistryInv, AddressWhereNode, RegisteredHasNode
<1> QED BY <1>1, RegistryAlways, PTL

(***************************************************************************)
(* Links: the connected and the isolated nodes.                            *)
(***************************************************************************)

(* What isolating and restoring do to the two sets, and to nothing else.   *)
LEMMA LinkOperators ==
  ASSUME NEW s \in NetworkStates(NodeIds), NEW id \in NodeIds
  PROVE  /\ IsolateNode(s, id).isolated = s.isolated \cup {id}
         /\ id \notin s.isolated => IsolateNode(s, id).connected = s.connected \ {id}
         /\ id \in s.isolated => IsolateNode(s, id).connected = s.connected
         /\ RestoreNode(s, id).isolated = s.isolated \ {id}
         /\ RestoreNode(s, id).connected =
              s.connected \cup (IF id \in s.isolated THEN {id} ELSE {})
         /\ IsolateNode(s, id).status = s.status /\ RestoreNode(s, id).status = s.status
         /\ IsolateNode(s, id).log = s.log /\ RestoreNode(s, id).log = s.log
BY DEF NetworkStates, IsolateNode, RestoreNode

LEMMA AdvanceLinks ==
  ASSUME NEW s \in NetworkStates(NodeIds), NEW next
  PROVE  Advance(s, next).connected = s.connected /\ Advance(s, next).isolated = s.isolated
<1> DEFINE log == Append([s.log EXCEPT ![Len(s.log)].exit = "Some"],
                         [status |-> next, exit |-> "None"])
<1>1. Advance(s, next) = [s EXCEPT !.status = next, !.log = log]
  BY DEF Advance
<1> HIDE DEF log
<1> QED BY <1>1 DEF NetworkStates

(* A handler of the Network changes its state in one of five ways.         *)
LEMMA HandlerOnState ==
  ASSUME TypeOK, NetworkStep
  PROVE  \/ UNCHANGED <<nodes, state>> /\ ~IsReport(Head(mailbox))
         \/ /\ \E next \in Statuses : state' = Advance(state, next)
            /\ UNCHANGED nodes /\ ~IsReport(Head(mailbox))
         \/ \E id \in NodeIds :
              /\ state' = RestoreNode(state, id) /\ ~IsReport(Head(mailbox))
              /\ \A j \in NodeIds \ {id} : nodes'[j] = nodes[j]
         \/ \E id \in NodeIds :
              /\ UNCHANGED state /\ ~Registered(id)' /\ ~IsReport(Head(mailbox))
              /\ \A j \in NodeIds \ {id} : nodes'[j] = nodes[j]
         \/ /\ HandleStatusChange /\ UNCHANGED nodes
            /\ Head(mailbox).id \in NodeIds /\ IsReport(Head(mailbox))
<1> USE HostAssumption DEF IsReport
<1>0. mailbox \in Seq(Messages)
  BY DEF TypeOK
<1>1. CASE HandleBindEndpoint
  BY <1>0, <1>1, ReceiveTyped DEF HandleBindEndpoint, networkVars
<1>2. CASE HandleRegisterRaft
  <2>1. ~IsReport(Head(mailbox)) /\ Head(mailbox).raft \in 0..MaxRafts
    BY <1>0, <1>2, ReceiveTyped, MessageShapes DEF HandleRegisterRaft
  <2>2. CASE RegisterRaftInNode \/ RegisterRaftWithoutOwnEntry
    BY <2>1, <2>2 DEF RegisterRaftInNode, RegisterRaftWithoutOwnEntry
  <2>3. CASE RegisterRaftAndCreateLocalNode
    <3>1. nodes[Self].info \in Infos
      BY <2>3 DEF RegisterRaftAndCreateLocalNode, Registered, TypeOK, NodeRefs
    <3>2. RegisterNode(Self, nodes[Self].info, Head(mailbox).raft)
      BY <2>3 DEF RegisterRaftAndCreateLocalNode
    <3>3. state' = RestoreNode(state, Self) /\ \A j \in NodeIds \ {Self} : nodes'[j] = nodes[j]
      BY <2>1, <3>1, <3>2, RegisterNodeEffect DEF RegisterNode
    <3> QED BY <2>1, <3>3
  <2> QED BY <1>2, <2>2, <2>3 DEF HandleRegisterRaft
<1>3. CASE HandleRaftMetrics
  <2>1. ~IsReport(Head(mailbox)) /\ UNCHANGED nodes
    BY <1>0, <1>3, ReceiveTyped DEF HandleRaftMetrics
  <2>2. state' = state \/ \E next \in Statuses : state' = Advance(state, next)
    <3> DEFINE next == StatusOnReport(state.status, Head(mailbox).metrics.state)
    <3>1. next \in Statuses
      BY DEF StatusOnReport, Statuses, TypeOK, NetworkStates
    <3>2. state' = state \/ state' = Advance(state, next)
      BY <1>3 DEF HandleRaftMetrics
    <3> HIDE DEF next
    <3> QED BY <3>1, <3>2
  <2> QED BY <2>1, <2>2
<1>4. CASE HandleStatusChange
  BY <1>0, <1>4, ReceiveTyped, MessageShapes DEF HandleStatusChange
<1>5. CASE HandleConnectNode
  <2> DEFINE id == Head(mailbox).id
             info == Head(mailbox).info
  <2>1. id \in NodeIds /\ info \in Infos /\ ~IsReport(Head(mailbox)) /\ raft \in 0..MaxRafts
    BY <1>0, <1>5, ReceiveTyped, MessageShapes DEF HandleConnectNode, TypeOK
  <2>2. CASE UNCHANGED <<nodes, state, nodeVars>>
    BY <2>1, <2>2
  <2>3. CASE RegisterNode(id, info, raft)
    <3> HIDE DEF id, info
    <3>1. state' = RestoreNode(state, id) /\ \A j \in NodeIds \ {id} : nodes'[j] = nodes[j]
      BY <2>1, <2>3, RegisterNodeEffect DEF RegisterNode
    <3> QED BY <2>1, <3>1
  <2> QED BY <1>5, <2>2, <2>3 DEF HandleConnectNode
<1>6. CASE HandleDisconnectNode
  <2>1. ~IsReport(Head(mailbox)) /\ UNCHANGED state
    BY <1>0, <1>6, ReceiveTyped DEF HandleDisconnectNode
  <2>2. PICK id \in NodeIds : id = Head(mailbox).id
    BY <1>0, <1>6, ReceiveTyped, MessageShapes DEF HandleDisconnectNode
  <2>3. nodes' = [nodes EXCEPT ![id] = Unregistered]
    BY <1>6, <2>2 DEF HandleDisconnectNode
  <2>4. ~Registered(id)' /\ \A j \in NodeIds \ {id} : nodes'[j] = nodes[j]
    BY <2>3 DEF TypeOK, Registered, Unregistered
  <2> QED BY <2>1, <2>4
<1> QED BY <1>1, <1>2, <1>3, <1>4, <1>5, <1>6 DEF NetworkStep

(* Counting only grows: a node once started stays started.                 *)
LEMMA StartedGrows ==
  ASSUME TypeOK, [Next]_vars
  PROVE  \A id \in NodeIds : started[id] # 0 => started'[id] # 0
<1> USE HostAssumption DEF networkVars, nodeVars
<1>1. ASSUME NEW id \in NodeIds, NEW info, NEW r, RegisterNode(id, info, r)
      PROVE  \A j \in NodeIds : started[j] # 0 => started'[j] # 0
  <2>1. CASE StartNode(id, info, r)
    <3>1. started' = [started EXCEPT ![id] = started[id] + 1] /\ started[id] + 1 \in Addrs
      BY <2>1 DEF StartNode
    <3> QED BY <3>1 DEF TypeOK, Addrs
  <2> QED BY <1>1, <2>1 DEF RegisterNode
<1>2. CASE HandleRegisterRaft
  BY <1>1, <1>2 DEF HandleRegisterRaft, RegisterRaftInNode,
     RegisterRaftAndCreateLocalNode, RegisterRaftWithoutOwnEntry
<1>3. CASE HandleConnectNode
  <2>1. Head(mailbox).id \in NodeIds
    BY <1>3, ReceiveTyped, MessageShapes DEF HandleConnectNode, TypeOK
  <2> QED BY <1>1, <1>3, <2>1 DEF HandleConnectNode
<1>4. CASE Outside
  BY <1>4 DEF Outside, SendBindEndpoint, SendRegisterRaft, SendRaftMetrics,
     RequestConnect, RequestDisconnect
<1>5. CASE \E id \in NodeIds, a \in Addrs : NodeStep(id, a)
  BY <1>5, NodeStepEffect DEF NodeUnchanged
<1> QED BY <1>2, <1>3, <1>4, <1>5 DEF Next, NetworkStep, HandleBindEndpoint,
        HandleRaftMetrics, HandleStatusChange, HandleDisconnectNode, UpdateProximity, vars

(* Messages sent go to the end, and do not disturb those before.           *)
LEMMA SendEffect ==
  ASSUME mailbox \in Seq(Messages), NEW m \in Messages, Send(m)
  PROVE  /\ DOMAIN mailbox = 1..Len(mailbox) /\ Len(mailbox) \in Nat
         /\ DOMAIN mailbox' = 1..Len(mailbox) + 1
         /\ mailbox'[Len(mailbox) + 1] = m
         /\ \A i \in DOMAIN mailbox : mailbox'[i] = mailbox[i]
BY DEF Send

(* Handled messages leave from the front.                                  *)
LEMMA ReceiveEffect ==
  ASSUME mailbox \in Seq(Messages), NetworkStep
  PROVE  /\ ThreadFree /\ ~panicked
         /\ Len(mailbox) \in Nat \ {0} /\ DOMAIN mailbox = 1..Len(mailbox)
         /\ Head(mailbox) = mailbox[1] /\ mailbox[1] \in Messages
         /\ DOMAIN mailbox' = 1..Len(mailbox) - 1
         /\ \A i \in 1..Len(mailbox) - 1 : mailbox'[i] = mailbox[i + 1]
<1>1. ThreadFree /\ ~panicked /\ mailbox # <<>> /\ mailbox' = Tail(mailbox)
  BY DEF NetworkStep, Receive, HandleBindEndpoint, HandleRegisterRaft, HandleRaftMetrics,
         HandleStatusChange, HandleConnectNode, HandleDisconnectNode
<1> QED BY <1>1

(* The reports of a Node actor, and the step they go with.                 *)
LEMMA ReportsOfNodeStep ==
  ASSUME TypeOK, NEW id \in NodeIds, NEW a \in Addrs, NodeStep(id, a)
  PROVE  \/ Send(WeakReport(id)) /\ GoTo(id, a, "weak")
         \/ /\ Send(ConnectedReport(id)) /\ actors[id][a].step = "weak"
            /\ \E s \in {"linked", "stopped"} : GoTo(id, a, s)
         \/ /\ Send(HandleNodeStatusChange(id, Failure(1))) /\ ThreadFree
            /\ GoTo(id, a, "retry")
         \/ UNCHANGED mailbox /\ ThreadFree /\ GoTo(id, a, "connect")
<1>1. /\ Reported(Plain("WeaklyConnected")) = Plain("WeaklyConnected")
      /\ Reported(Plain("Connected")) = Plain("Connected")
      /\ Reported(AfterFailure(NodeStatus)) = Failure(1)
  BY DEF Reported, Plain, Failure, AfterFailure, NodeStatus
<1> QED BY <1>1 DEF NodeStep, ConnectSucceeds, ReportConnected, ConnectFails, RetryConnect,
           Report, InStep, WeakReport, ConnectedReport

(* What the Outside sends is no report, and it changes nothing else.       *)
LEMMA OutsideSends ==
  ASSUME TypeOK, Outside
  PROVE  /\ \E m \in Messages : Send(m) /\ ~IsReport(m)
         /\ UNCHANGED <<networkVars, nodeVars, updates, panicked>>
<1> USE HostAssumption DEF IsReport
<1>1. CASE SendBindEndpoint
  BY <1>1 DEF SendBindEndpoint, Messages, BindEndpoint
<1>2. CASE SendRegisterRaft
  <2>1. rafts + 1 \in 1..MaxRafts
    BY <1>2 DEF SendRegisterRaft, TypeOK
  <2>2. RegisterRaft(rafts + 1) \in Messages /\ ~IsReport(RegisterRaft(rafts + 1))
    BY <2>1 DEF Messages, RegisterRaft
  <2> QED BY <1>2, <2>2 DEF SendRegisterRaft
<1>3. CASE \E m \in Reports : SendRaftMetrics(m)
  <2>1. \A m \in Reports : RaftMetrics(m) \in Messages /\ ~IsReport(RaftMetrics(m))
    BY DEF Messages, RaftMetrics
  <2> QED BY <1>3, <2>1 DEF SendRaftMetrics
<1>4. CASE \E id \in NodeIds, info \in Infos : RequestConnect(id, info)
  <2>1. \A id \in NodeIds, info \in Infos : ConnectNode(id, info) \in Messages
    BY DEF Messages
  <2>2. \A id \in NodeIds, info \in Infos : ~IsReport(ConnectNode(id, info))
    BY DEF ConnectNode
  <2> QED BY <1>4, <2>1, <2>2 DEF RequestConnect
<1>5. CASE \E id \in NodeIds : RequestDisconnect(id)
  BY <1>5 DEF RequestDisconnect, Messages, DisconnectNode
<1> QED BY <1>1, <1>2, <1>3, <1>4, <1>5 DEF Outside

LEMMA LinksInit == Init => LinksInv
<1> SUFFICES ASSUME Init PROVE LinksInv
  OBVIOUS
<1>1. mailbox = <<>> /\ state.connected = {} /\ state.isolated = {}
  BY DEF Init, DefaultState
<1>2. DOMAIN mailbox = {}
  BY <1>1
<1> QED BY <1>1, <1>2
    DEF LinksInv, ReportsAreSound, WeakThenConnected, IsolationIsTransient, LinksArePartitioned

(* The two messages a successful connection sends are those of the code.   *)
LEMMA ReportShapes ==
  ASSUME NEW id \in NodeIds
  PROVE  /\ \A m \in {WeakReport(id), ConnectedReport(id),
                      HandleNodeStatusChange(id, Failure(1))} :
              /\ m \in Messages /\ IsReport(m) /\ m.id = id
              /\ m.status.kind \in {"WeaklyConnected", "Connected", "Failure"}
         /\ WeakReport(id).status.kind = "WeaklyConnected"
         /\ ConnectedReport(id).status.kind = "Connected"
         /\ HandleNodeStatusChange(id, Failure(1)).status.kind = "Failure"
<1>1. /\ Plain("WeaklyConnected") \in NodeStatuses /\ Plain("Connected") \in NodeStatuses
      /\ Failure(1) \in NodeStatuses
  BY DEF NodeStatuses
<1>2. \A s \in NodeStatuses : HandleNodeStatusChange(id, s) \in Messages
  BY DEF Messages
<1> QED BY <1>1, <1>2 DEF IsReport, WeakReport, ConnectedReport, HandleNodeStatusChange,
           Plain, Failure

LEMMA ReportsSoundPreserved ==
  TypeOK /\ RegistryInv /\ ReportsAreSound /\ [Next]_vars => ReportsAreSound'
<1> SUFFICES ASSUME TypeOK, RegistryInv, ReportsAreSound, [Next]_vars,
                    NEW i \in DOMAIN mailbox', IsReport(mailbox'[i])
             PROVE  /\ mailbox'[i].status.kind \in {"WeaklyConnected", "Connected", "Failure"}
                    /\ started'[mailbox'[i].id] # 0
  BY DEF ReportsAreSound
<1> DEFINE Sound(m) == /\ m \in Messages
                       /\ m.status.kind \in {"WeaklyConnected", "Connected", "Failure"}
                       /\ started[m.id] # 0
<1>0. mailbox \in Seq(Messages)
  BY DEF TypeOK
<1>1. \A m : Sound(m) /\ IsReport(m) => started'[m.id] # 0
  BY StartedGrows, MessageShapes DEF IsReport
<1>2. \A j \in DOMAIN mailbox : IsReport(mailbox[j]) => Sound(mailbox[j])
  BY <1>0 DEF ReportsAreSound
<1>3. CASE UNCHANGED mailbox
  BY <1>1, <1>2, <1>3
<1>4. CASE Outside
  <2>1. PICK m \in Messages : Send(m) /\ ~IsReport(m)
    BY <1>4, OutsideSends
  <2>2. mailbox'[i] = mailbox[i] /\ i \in DOMAIN mailbox
    BY <1>0, <2>1, SendEffect
  <2> QED BY <1>1, <1>2, <2>2
<1>5. CASE NetworkStep
  <2>1. mailbox'[i] = mailbox[i + 1] /\ i + 1 \in DOMAIN mailbox
    BY <1>0, <1>5, ReceiveEffect
  <2> QED BY <1>1, <1>2, <2>1
<1>6. ASSUME NEW id \in NodeIds, NEW a \in Addrs, NodeStep(id, a), mailbox' # mailbox
      PROVE  Sound(mailbox'[i])
  <2>1. started[id] # 0
    BY <1>6, NodeStepEffect DEF RegistryInv, BornNodesCounted, Addrs, TypeOK
  <2>2. PICK m : /\ Send(m)
                 /\ m \in {WeakReport(id), ConnectedReport(id),
                           HandleNodeStatusChange(id, Failure(1))}
    BY <1>6, ReportsOfNodeStep
  <2>3. m \in Messages /\ Sound(m)
    BY <2>1, <2>2, ReportShapes
  <2>4. mailbox'[i] = m \/ (i \in DOMAIN mailbox /\ mailbox'[i] = mailbox[i])
    BY <1>0, <2>2, <2>3, SendEffect
  <2> HIDE DEF Sound
  <2> QED BY <1>2, <2>3, <2>4
<1>7. UpdateProximity => UNCHANGED mailbox
  BY DEF UpdateProximity
<1> QED BY <1>1, <1>3, <1>4, <1>5, <1>6, <1>7 DEF Next, vars

LEMMA WeakThenConnectedPreserved ==
  TypeOK /\ WeakThenConnected /\ [Next]_vars => WeakThenConnected'
<1> SUFFICES ASSUME TypeOK, WeakThenConnected, [Next]_vars, NEW id \in NodeIds,
                    NEW i \in DOMAIN mailbox', mailbox'[i] = WeakReport(id)
             PROVE  \/ \E j \in DOMAIN mailbox' : j > i /\ mailbox'[j] = ConnectedReport(id)
                    \/ \E a \in Addrs : actors'[id][a].step = "weak"
  BY DEF WeakThenConnected, WeakReport, ConnectedReport
<1>0. mailbox \in Seq(Messages)
  BY DEF TypeOK
<1>1. CASE Outside
  <2>1. PICK m \in Messages : Send(m) /\ ~IsReport(m)
    BY <1>1, OutsideSends
  <2>2. /\ i \in DOMAIN mailbox /\ mailbox[i] = WeakReport(id)
        /\ \A j \in DOMAIN mailbox : j \in DOMAIN mailbox' /\ mailbox'[j] = mailbox[j]
    BY <1>0, <2>1, SendEffect, ReportShapes
  <2>3. UNCHANGED actors
    BY <1>1, OutsideSends DEF nodeVars
  <2> QED BY <2>2, <2>3 DEF WeakThenConnected
<1>2. CASE NetworkStep
  <2>1. ThreadFree /\ i + 1 \in DOMAIN mailbox /\ mailbox[i + 1] = WeakReport(id)
    BY <1>0, <1>2, ReceiveEffect
  <2>2. PICK j \in DOMAIN mailbox : j > i + 1 /\ mailbox[j] = ConnectedReport(id)
    BY <2>1 DEF WeakThenConnected, ThreadFree
  <2>3. j - 1 \in DOMAIN mailbox' /\ j - 1 > i /\ mailbox'[j - 1] = ConnectedReport(id)
    BY <1>0, <1>2, <2>2, ReceiveEffect
  <2> QED BY <2>3
<1>3. ASSUME NEW k \in NodeIds, NEW a \in Addrs, NodeStep(k, a)
      PROVE  \/ \E j \in DOMAIN mailbox' : j > i /\ mailbox'[j] = ConnectedReport(id)
             \/ \E b \in Addrs : actors'[id][b].step = "weak"
  <2> USE DEF Steps
  <2>1. CASE Send(WeakReport(k)) /\ GoTo(k, a, "weak")
    <3>1. CASE k = id
      BY <1>3, <2>1, <3>1, GoToEffect
    <3>2. CASE k # id
      <4>1. /\ i \in DOMAIN mailbox /\ mailbox[i] = WeakReport(id)
            /\ \A j \in DOMAIN mailbox : j \in DOMAIN mailbox' /\ mailbox'[j] = mailbox[j]
        BY <1>0, <1>3, <2>1, <3>2, SendEffect, ReportShapes
      <4>2. \A b \in Addrs : actors'[id][b].step = actors[id][b].step
        BY <1>3, <2>1, <3>2, GoToEffect
      <4> QED BY <4>1, <4>2 DEF WeakThenConnected
    <3> QED BY <3>1, <3>2
  <2>2. ASSUME Send(ConnectedReport(k)), NEW s \in {"linked", "stopped"}, GoTo(k, a, s)
        PROVE  \/ \E j \in DOMAIN mailbox' : j > i /\ mailbox'[j] = ConnectedReport(id)
               \/ \E b \in Addrs : actors'[id][b].step = "weak"
    <3>1. /\ ConnectedReport(k) \in Messages
          /\ ConnectedReport(k).status.kind # WeakReport(id).status.kind
      BY <1>3, ReportShapes
    <3>2. /\ i \in DOMAIN mailbox /\ mailbox[i] = WeakReport(id)
          /\ \A j \in DOMAIN mailbox : j \in DOMAIN mailbox' /\ mailbox'[j] = mailbox[j]
          /\ i \in Nat /\ Len(mailbox) + 1 \in DOMAIN mailbox' /\ Len(mailbox) + 1 > i
          /\ mailbox'[Len(mailbox) + 1] = ConnectedReport(k)
      BY <1>0, <2>2, <3>1, SendEffect
    <3>3. CASE k = id
      BY <3>2, <3>3
    <3>4. CASE k # id
      <4>1. \A b \in Addrs : actors'[id][b].step = actors[id][b].step
        BY <1>3, <2>2, <3>4, GoToEffect
      <4> QED BY <3>2, <4>1 DEF WeakThenConnected
    <3> QED BY <3>3, <3>4
  <2>3. CASE ThreadFree /\ (UNCHANGED mailbox \/ Send(HandleNodeStatusChange(k, Failure(1))))
    <3>1. /\ i \in DOMAIN mailbox /\ mailbox[i] = WeakReport(id)
          /\ \A j \in DOMAIN mailbox : j \in DOMAIN mailbox' /\ mailbox'[j] = mailbox[j]
      <4>1. CASE UNCHANGED mailbox
        BY <4>1
      <4>2. CASE Send(HandleNodeStatusChange(k, Failure(1)))
        <5>1. /\ HandleNodeStatusChange(k, Failure(1)) \in Messages
              /\ HandleNodeStatusChange(k, Failure(1)).status.kind # WeakReport(id).status.kind
          BY <1>3, ReportShapes
        <5> QED BY <1>0, <4>2, <5>1, SendEffect
      <4> QED BY <2>3, <4>1, <4>2
    <3> QED BY <2>3, <3>1 DEF WeakThenConnected, ThreadFree
  <2> QED BY <1>3, <2>1, <2>2, <2>3, ReportsOfNodeStep
<1>4. CASE UpdateProximity
  <2>1. /\ UNCHANGED mailbox
        /\ \A b \in Addrs : actors'[id][b].step = actors[id][b].step
    BY <1>4, UpdateProximityEffect DEF UpdateProximity
  <2> QED BY <2>1 DEF WeakThenConnected
<1>5. CASE UNCHANGED vars
  BY <1>5 DEF vars, nodeVars, WeakThenConnected
<1> QED BY <1>1, <1>2, <1>3, <1>4, <1>5 DEF Next

(* No handler puts a node into both sets, nor one into either of which no  *)
(* report came; and none drops a link.                                     *)
LEMMA HandlerOnLinks ==
  ASSUME TypeOK, NetworkStep
  PROVE  /\ \A id \in state'.connected \cup state'.isolated :
              \/ id \in state.connected \cup state.isolated
              \/ IsReport(Head(mailbox)) /\ id = Head(mailbox).id
         /\ state.connected \cap state.isolated = {} =>
              state'.connected \cap state'.isolated = {}
         /\ state.connected \cup state.isolated \subseteq state'.connected \cup state'.isolated
<1>0. state \in NetworkStates(NodeIds)
  BY DEF TypeOK
<1>1. CASE UNCHANGED state
  BY <1>1
<1>2. ASSUME NEW next \in Statuses, state' = Advance(state, next)
      PROVE  state'.connected = state.connected /\ state'.isolated = state.isolated
  BY <1>0, <1>2, AdvanceLinks
<1>3. ASSUME NEW id \in NodeIds, state' = RestoreNode(state, id)
      PROVE  /\ state'.isolated = state.isolated \ {id}
             /\ state'.connected =
                  state.connected \cup (IF id \in state.isolated THEN {id} ELSE {})
  BY <1>0, <1>3, LinkOperators
<1>4. CASE HandleStatusChange /\ Head(mailbox).id \in NodeIds /\ IsReport(Head(mailbox))
  <2>1. PICK id \in NodeIds : id = Head(mailbox).id
    BY <1>4
  <2>2. CASE state' = IsolateNode(state, id)
    <3>1. /\ state'.isolated = state.isolated \cup {id}
          /\ id \notin state.isolated => state'.connected = state.connected \ {id}
          /\ id \in state.isolated => state'.connected = state.connected
      BY <1>0, <2>2, LinkOperators
    <3> QED BY <1>4, <2>1, <3>1
  <2>3. state' \in {state, RestoreNode(state, id), IsolateNode(state, id)}
    BY <1>4, <2>1 DEF HandleStatusChange, StateOnReport
  <2> QED BY <1>1, <1>3, <2>2, <2>3
<1> QED BY <1>1, <1>2, <1>3, <1>4, HandlerOnState

LEMMA LinksPartitionedPreserved ==
  TypeOK /\ ReportsAreSound /\ LinksArePartitioned /\ [Next]_vars => LinksArePartitioned'
<1> SUFFICES ASSUME TypeOK, ReportsAreSound, LinksArePartitioned, [Next]_vars
             PROVE  LinksArePartitioned'
  OBVIOUS
<1>1. \A id \in NodeIds : started[id] # 0 => started'[id] # 0
  BY StartedGrows
<1>2. state.connected \cup state.isolated \subseteq NodeIds
  BY DEF TypeOK, NetworkStates
<1>3. CASE UNCHANGED state
  BY <1>1, <1>2, <1>3 DEF LinksArePartitioned
<1>4. CASE NetworkStep
  <2>1. IsReport(Head(mailbox)) =>
          started[Head(mailbox).id] # 0 /\ Head(mailbox).id \in NodeIds
    BY <1>4, ReceiveEffect, MessageShapes DEF ReportsAreSound, IsReport, TypeOK
  <2> QED BY <1>1, <1>2, <1>4, <2>1, HandlerOnLinks DEF LinksArePartitioned
<1>5. Outside => UNCHANGED state
  BY OutsideSends DEF networkVars
<1>6. (\E id \in NodeIds, a \in Addrs : NodeStep(id, a)) => UNCHANGED state
  BY NodeStepEffect DEF NodeUnchanged, networkVars
<1>7. UpdateProximity => UNCHANGED state
  BY DEF UpdateProximity, networkVars
<1> QED BY <1>3, <1>4, <1>5, <1>6, <1>7 DEF Next, vars, networkVars

(* A registered node is isolated after a handler only because it was       *)
(* before, or by the first of the two reports of a connection.             *)
LEMMA HandlerIsolates ==
  ASSUME TypeOK, ReportsAreSound, NetworkStep,
         NEW id \in NodeIds, Registered(id)', id \in state'.isolated
  PROVE  \/ /\ Registered(id) /\ id \in state.isolated
            /\ Head(mailbox) # ConnectedReport(id)
         \/ Head(mailbox) = WeakReport(id)
<1>0. state \in NetworkStates(NodeIds) /\ mailbox \in Seq(Messages)
  BY DEF TypeOK
<1>1. IsReport(ConnectedReport(id))
  BY ReportShapes
<1>2. CASE UNCHANGED <<nodes, state>> /\ ~IsReport(Head(mailbox))
  BY <1>1, <1>2 DEF Registered
<1>3. CASE /\ \E next \in Statuses : state' = Advance(state, next)
           /\ UNCHANGED nodes /\ ~IsReport(Head(mailbox))
  BY <1>0, <1>1, <1>3, AdvanceLinks DEF Registered
<1>4. CASE \E k \in NodeIds :
             /\ state' = RestoreNode(state, k) /\ ~IsReport(Head(mailbox))
             /\ \A j \in NodeIds \ {k} : nodes'[j] = nodes[j]
  <2>1. PICK k \in NodeIds :
             /\ state' = RestoreNode(state, k) /\ ~IsReport(Head(mailbox))
             /\ \A j \in NodeIds \ {k} : nodes'[j] = nodes[j]
    BY <1>4
  <2>2. state'.isolated = state.isolated \ {k}
    BY <1>0, <2>1, LinkOperators
  <2> QED BY <1>1, <2>1, <2>2 DEF Registered
<1>5. CASE \E k \in NodeIds :
             /\ UNCHANGED state /\ ~Registered(k)' /\ ~IsReport(Head(mailbox))
             /\ \A j \in NodeIds \ {k} : nodes'[j] = nodes[j]
  BY <1>1, <1>5 DEF Registered
<1>6. CASE /\ HandleStatusChange /\ UNCHANGED nodes
           /\ Head(mailbox).id \in NodeIds /\ IsReport(Head(mailbox))
  <2> DEFINE m == Head(mailbox)
  <2>1. /\ m = HandleNodeStatusChange(m.id, m.status) /\ m.status \in NodeStatuses
        /\ m.status.kind \in {"WeaklyConnected", "Connected", "Failure"}
    BY <1>0, <1>6, ReceiveEffect, MessageShapes DEF ReportsAreSound, IsReport
  <2>2. Registered(id)
    BY <1>6 DEF Registered
  <2>3. CASE m.status.kind = "Failure" \/ m.id # id
    <3>1. id \in state.isolated
      <4>1. PICK k \in NodeIds : k = m.id
        BY <1>6
      <4>2. \/ state' = state
            \/ k # id /\ state' \in {RestoreNode(state, k), IsolateNode(state, k)}
        BY <1>6, <2>3, <4>1 DEF HandleStatusChange, StateOnReport
      <4> QED BY <1>0, <4>2, LinkOperators
    <3>2. m # ConnectedReport(id)
      BY <2>3, ReportShapes
    <3> QED BY <2>2, <3>1, <3>2
  <2>4. CASE m.status.kind = "Connected" /\ m.id = id
    <3>1. state' = RestoreNode(state, id)
      BY <1>6, <2>2, <2>4 DEF HandleStatusChange, StateOnReport
    <3> QED BY <1>0, <3>1, LinkOperators
  <2>5. CASE m.status.kind = "WeaklyConnected" /\ m.id = id
    <3>1. m.status = Plain("WeaklyConnected")
      BY <2>1, <2>5 DEF NodeStatuses, Plain, Failure
    <3> QED BY <2>1, <2>5, <3>1 DEF WeakReport
  <2> QED BY <2>1, <2>3, <2>4, <2>5
<1> QED BY <1>2, <1>3, <1>4, <1>5, <1>6, HandlerOnState

LEMMA IsolationPreserved ==
  TypeOK /\ ReportsAreSound /\ WeakThenConnected /\ IsolationIsTransient /\ [Next]_vars
    => IsolationIsTransient'
<1> SUFFICES ASSUME TypeOK, ReportsAreSound, WeakThenConnected, IsolationIsTransient,
                    [Next]_vars, NEW id \in NodeIds, Registered(id)', id \in state'.isolated
             PROVE  RestoreUnderway(id)'
  BY DEF IsolationIsTransient
<1> USE DEF RestoreUnderway
<1>0. mailbox \in Seq(Messages)
  BY DEF TypeOK
<1>1. ASSUME UNCHANGED <<nodes, state>> PROVE RestoreUnderway(id)
  BY <1>1 DEF IsolationIsTransient, Registered
<1>2. ConnectedReport(id)' = ConnectedReport(id)
  BY DEF ConnectedReport
<1>3. CASE Outside
  <2>1. PICK m \in Messages : Send(m)
    BY <1>3, OutsideSends
  <2>2. \A j \in DOMAIN mailbox : j \in DOMAIN mailbox' /\ mailbox'[j] = mailbox[j]
    BY <1>0, <2>1, SendEffect
  <2>3. UNCHANGED <<nodes, state, actors>>
    BY <1>3, OutsideSends DEF networkVars, nodeVars
  <2> QED BY <1>1, <1>2, <2>2, <2>3
<1>4. CASE NetworkStep
  <2>1. \E j \in DOMAIN mailbox : j # 1 /\ mailbox[j] = ConnectedReport(id)
    <3>1. CASE Registered(id) /\ id \in state.isolated /\ Head(mailbox) # ConnectedReport(id)
      BY <1>0, <1>4, <3>1, ReceiveEffect DEF IsolationIsTransient, ThreadFree
    <3>2. CASE Head(mailbox) = WeakReport(id)
      BY <1>0, <1>4, <3>2, ReceiveEffect DEF WeakThenConnected, ThreadFree
    <3> QED BY <1>4, <3>1, <3>2, HandlerIsolates
  <2>2. PICK j \in DOMAIN mailbox : j # 1 /\ mailbox[j] = ConnectedReport(id)
    BY <2>1
  <2>3. j - 1 \in DOMAIN mailbox' /\ mailbox'[j - 1] = ConnectedReport(id)
    BY <1>0, <1>4, <2>2, ReceiveEffect
  <2> QED BY <1>2, <2>3
<1>5. ASSUME NEW k \in NodeIds, NEW a \in Addrs, NodeStep(k, a) PROVE RestoreUnderway(id)'
  <2> USE DEF Steps
  <2>1. UNCHANGED <<nodes, state>>
    BY <1>5, NodeStepEffect DEF NodeUnchanged, networkVars
  <2>2. \A j \in DOMAIN mailbox : j \in DOMAIN mailbox' /\ mailbox'[j] = mailbox[j]
    <3>1. ASSUME NEW m \in Messages, Send(m)
          PROVE  \A j \in DOMAIN mailbox : j \in DOMAIN mailbox' /\ mailbox'[j] = mailbox[j]
      BY <1>0, <3>1, SendEffect
    <3> QED BY <1>5, <3>1, ReportsOfNodeStep, ReportShapes
  <2>3. CASE \E j \in DOMAIN mailbox : mailbox[j] = ConnectedReport(id)
    BY <1>2, <2>2, <2>3
  <2>4. ASSUME NEW b \in Addrs, actors[id][b].step = "weak" PROVE RestoreUnderway(id)'
    <3>1. CASE Send(WeakReport(k)) /\ GoTo(k, a, "weak")
      BY <1>5, <2>4, <3>1, GoToEffect
    <3>2. ASSUME Send(ConnectedReport(k)), NEW s \in {"linked", "stopped"}, GoTo(k, a, s)
          PROVE  RestoreUnderway(id)'
      <4>1. ConnectedReport(k) \in Messages
        BY <1>5, ReportShapes
      <4>2. /\ Len(mailbox) + 1 \in DOMAIN mailbox'
            /\ mailbox'[Len(mailbox) + 1] = ConnectedReport(k)
        BY <1>0, <3>2, <4>1, SendEffect
      <4>3. k # id => actors'[id][b].step = "weak"
        BY <1>5, <2>4, <3>2, GoToEffect
      <4> QED BY <1>2, <4>2, <4>3
    <3>3. ~ThreadFree
      BY <2>4 DEF ThreadFree
    <3> QED BY <1>5, <3>1, <3>2, <3>3, ReportsOfNodeStep
  <2> QED BY <1>1, <2>1, <2>3, <2>4
<1>6. CASE UpdateProximity
  <2>1. /\ UNCHANGED <<nodes, state, mailbox>>
        /\ \A b \in Addrs : actors'[id][b].step = actors[id][b].step
    BY <1>6, UpdateProximityEffect DEF UpdateProximity, networkVars
  <2> QED BY <1>1, <1>2, <2>1
<1>7. CASE UNCHANGED vars
  BY <1>1, <1>2, <1>7 DEF vars, networkVars, nodeVars
<1> QED BY <1>3, <1>4, <1>5, <1>6, <1>7 DEF Next

LEMMA LinksAlways == Spec => []LinksInv
<1>1. TypeOK /\ RegistryInv /\ LinksInv /\ [Next]_vars => LinksInv'
  BY ReportsSoundPreserved, WeakThenConnectedPreserved, LinksPartitionedPreserved,
     IsolationPreserved DEF LinksInv
<1> QED BY <1>1, Typing, RegistryAlways, LinksInit, PTL DEF Spec

(* A registered node is isolated only while the report that restores it is *)
(* on its way: whatever is registered, disconnected and abandoned, Raft is *)
(* never cut off from a registered peer with nobody left to restore it.    *)
THEOREM IsolationStaysTransient == Spec => []IsolationIsTransient
<1>1. LinksInv => IsolationIsTransient
  BY DEF LinksInv
<1> QED BY <1>1, LinksAlways, PTL

(* No node is ever both connected and isolated, and there is a link only   *)
(* to a node that a Node actor was started for.                            *)
THEOREM LinksStayPartitioned == Spec => []LinksArePartitioned
<1>1. LinksInv => LinksArePartitioned
  BY DEF LinksInv
<1> QED BY <1>1, LinksAlways, PTL

(* A reported connection is only ever given up by isolating the node.      *)
THEOREM ConnectedNeverDropped == Spec => ConnectedOnlyToIsolated
<1>1. TypeOK /\ [Next]_vars =>
        [state.connected \subseteq state'.connected \cup state'.isolated]_vars
  <2> SUFFICES ASSUME TypeOK, Next
               PROVE  state.connected \subseteq state'.connected \cup state'.isolated
    OBVIOUS
  <2>1. CASE NetworkStep
    BY <2>1, HandlerOnLinks
  <2>2. CASE Outside
    BY <2>2, OutsideSends DEF networkVars
  <2>3. CASE \E id \in NodeIds, a \in Addrs : NodeStep(id, a)
    BY <2>3, NodeStepEffect DEF NodeUnchanged, networkVars
  <2>4. CASE UpdateProximity
    BY <2>4 DEF UpdateProximity, networkVars
  <2> QED BY <2>1, <2>2, <2>3, <2>4 DEF Next
<1> QED BY <1>1, Typing, PTL DEF Spec, ConnectedOnlyToIsolated

(***************************************************************************)
(* Nodes with nothing left to do.                                          *)
(***************************************************************************)

(* The present Node of a node that reported WeaklyConnected left a link    *)
(* behind, or that report is still in the mailbox.                         *)
AtWork(step) == step \notin {"weak", "linked"}
ReachedOrReported ==
  \A id \in NodeIds, b \in Addrs :
    nodes[id].addr = b /\ ~AtWork(actors[id][b].step) =>
      \/ id \in state.connected \cup state.isolated
      \/ \E i \in DOMAIN mailbox : mailbox[i] = WeakReport(id)

LEMMA ReachedInit == Init => ReachedOrReported
<1> SUFFICES ASSUME Init, NEW id \in NodeIds, NEW b \in Addrs PROVE AtWork(actors[id][b].step)
  BY DEF ReachedOrReported
<1>1. actors[id][b] \in {NewNode(id, Seeds[id], NoRaft), Unborn}
  BY DEF Init
<1> QED BY <1>1 DEF NewNode, Unborn, AtWork

(* A registration leaves the present Node as it is, or starts one that has *)
(* its connection before it.                                               *)
LEMMA RegisteredAtWork ==
  ASSUME TypeOK, NEW k \in NodeIds, NEW info \in Infos, NEW r \in 0..MaxRafts,
         RegisterNode(k, info, r),
         NEW id \in NodeIds, NEW b \in Addrs, nodes'[id].addr = b,
         ~AtWork(actors'[id][b].step)
  PROVE  nodes[id].addr = b /\ actors'[id][b].step = actors[id][b].step
<1>1. CASE id # k
  BY <1>1, RegisterNodeEffect
<1>2. CASE id = k /\ HasProximity(k, r)
  <2>1. actors'[id][b] = NewNode(k, info, r)
    BY <1>2, RegisterNodeEffect
  <2> QED BY <2>1 DEF NewNode, AtWork
<1>3. CASE id = k /\ ~HasProximity(k, r)
  BY <1>3, RegisterNodeEffect
<1> QED BY <1>1, <1>2, <1>3

LEMMA HandlerAtWork ==
  ASSUME TypeOK, NetworkStep,
         NEW id \in NodeIds, NEW b \in Addrs, nodes'[id].addr = b,
         ~AtWork(actors'[id][b].step)
  PROVE  nodes[id].addr = b /\ actors'[id][b].step = actors[id][b].step
<1> USE HostAssumption DEF networkVars, nodeVars
<1>0. mailbox \in Seq(Messages)
  BY DEF TypeOK
<1>1. CASE HandleBindEndpoint \/ HandleRaftMetrics \/ HandleStatusChange
  BY <1>1 DEF HandleBindEndpoint, HandleRaftMetrics, HandleStatusChange
<1>2. CASE HandleRegisterRaft
  <2>1. CASE RegisterRaftInNode \/ RegisterRaftWithoutOwnEntry
    BY <2>1 DEF RegisterRaftInNode, RegisterRaftWithoutOwnEntry
  <2>2. CASE RegisterRaftAndCreateLocalNode
    <3>1. nodes[Self].info \in Infos /\ Head(mailbox).raft \in 0..MaxRafts
      BY <1>0, <1>2, <2>2, ReceiveTyped, MessageShapes
         DEF HandleRegisterRaft, RegisterRaftAndCreateLocalNode, Registered, TypeOK, NodeRefs
    <3>2. RegisterNode(Self, nodes[Self].info, Head(mailbox).raft)
      BY <2>2 DEF RegisterRaftAndCreateLocalNode
    <3> QED BY <3>1, <3>2, RegisteredAtWork
  <2> QED BY <1>2, <2>1, <2>2 DEF HandleRegisterRaft
<1>3. CASE HandleConnectNode
  <2> DEFINE k == Head(mailbox).id
             info == Head(mailbox).info
  <2>1. k \in NodeIds /\ info \in Infos /\ raft \in 0..MaxRafts
    BY <1>0, <1>3, ReceiveTyped, MessageShapes DEF HandleConnectNode, TypeOK
  <2>2. UNCHANGED <<nodes, actors>> \/ RegisterNode(k, info, raft)
    BY <1>3 DEF HandleConnectNode
  <2> HIDE DEF k, info
  <2> QED BY <2>1, <2>2, RegisteredAtWork
<1>4. CASE HandleDisconnectNode
  <2>1. PICK k \in NodeIds : k = Head(mailbox).id
    BY <1>0, <1>4, ReceiveTyped, MessageShapes DEF HandleDisconnectNode
  <2>2. /\ nodes' = [nodes EXCEPT ![k] = Unregistered]
        /\ actors' = [actors EXCEPT ![k] = Abandon(k, nodes[k].addr)]
    BY <1>4, <2>1 DEF HandleDisconnectNode
  <2>3. id # k
    BY <2>2 DEF TypeOK, Unregistered, NoAddr, Addrs
  <2> QED BY <2>2, <2>3 DEF TypeOK
<1> QED BY <1>1, <1>2, <1>3, <1>4 DEF NetworkStep

(* The report of WeaklyConnected about a registered node isolates it.      *)
LEMMA WeakReportIsolates ==
  ASSUME TypeOK, NetworkStep, NEW id \in NodeIds, Registered(id),
         Head(mailbox) = WeakReport(id)
  PROVE  id \in state'.isolated
<1>1. IsReport(Head(mailbox)) /\ Head(mailbox).id = id
      /\ Head(mailbox).status.kind = "WeaklyConnected"
  BY ReportShapes
<1>2. HandleStatusChange
  BY <1>1, HandlerOnState
<1>3. state' = IsolateNode(state, id)
  BY <1>1, <1>2 DEF HandleStatusChange, StateOnReport
<1> QED BY <1>3, LinkOperators DEF TypeOK

LEMMA ReachedPreserved ==
  TypeOK /\ RegistryInv /\ ReachedOrReported /\ [Next]_vars => ReachedOrReported'
<1> SUFFICES ASSUME TypeOK, RegistryInv, ReachedOrReported, [Next]_vars,
                    NEW id \in NodeIds, NEW b \in Addrs,
                    nodes'[id].addr = b, ~AtWork(actors'[id][b].step)
             PROVE  \/ id \in state'.connected \cup state'.isolated
                    \/ \E i \in DOMAIN mailbox' : mailbox'[i] = WeakReport(id)
  BY DEF ReachedOrReported, WeakReport, AtWork
<1>0. mailbox \in Seq(Messages)
  BY DEF TypeOK
<1>1. ASSUME nodes[id].addr = b, actors'[id][b].step = actors[id][b].step
      PROVE  \/ id \in state.connected \cup state.isolated
             \/ \E i \in DOMAIN mailbox : mailbox[i] = WeakReport(id)
  BY <1>1 DEF ReachedOrReported
<1>2. CASE Outside
  <2>1. PICK m \in Messages : Send(m)
    BY <1>2, OutsideSends
  <2>2. \A j \in DOMAIN mailbox : j \in DOMAIN mailbox' /\ mailbox'[j] = mailbox[j]
    BY <1>0, <2>1, SendEffect
  <2>3. UNCHANGED <<nodes, state, actors>>
    BY <1>2, OutsideSends DEF networkVars, nodeVars
  <2> QED BY <1>1, <2>2, <2>3
<1>3. CASE NetworkStep
  <2>1. nodes[id].addr = b /\ actors'[id][b].step = actors[id][b].step
    BY <1>3, HandlerAtWork
  <2>2. Registered(id)
    BY <2>1 DEF RegistryInv, AddressWhereNode, NoAddr, Addrs
  <2>3. CASE id \in state.connected \cup state.isolated
    BY <1>3, <2>3, HandlerOnLinks
  <2>4. ASSUME NEW i \in DOMAIN mailbox, mailbox[i] = WeakReport(id)
        PROVE  \/ id \in state'.isolated
               \/ \E j \in DOMAIN mailbox' : mailbox'[j] = WeakReport(id)
    <3>1. CASE i = 1
      BY <1>0, <1>3, <2>2, <2>4, <3>1, ReceiveEffect, WeakReportIsolates
    <3>2. CASE i # 1
      <4>1. i - 1 \in DOMAIN mailbox' /\ mailbox'[i - 1] = mailbox[i]
        BY <1>0, <1>3, <3>2, ReceiveEffect
      <4> QED BY <2>4, <4>1
    <3> QED BY <3>1, <3>2
  <2> QED BY <1>1, <2>1, <2>3, <2>4
<1>4. ASSUME NEW k \in NodeIds, NEW a \in Addrs, NodeStep(k, a)
      PROVE  \/ id \in state'.connected \cup state'.isolated
             \/ \E i \in DOMAIN mailbox' : mailbox'[i] = WeakReport(id)
  <2> USE DEF Steps
  <2>1. UNCHANGED <<nodes, state>>
    BY <1>4, NodeStepEffect DEF NodeUnchanged, networkVars
  <2>2. \A j \in DOMAIN mailbox : j \in DOMAIN mailbox' /\ mailbox'[j] = mailbox[j]
    <3>1. ASSUME NEW m \in Messages, Send(m)
          PROVE  \A j \in DOMAIN mailbox : j \in DOMAIN mailbox' /\ mailbox'[j] = mailbox[j]
      BY <1>0, <3>1, SendEffect
    <3> QED BY <1>4, <3>1, ReportsOfNodeStep, ReportShapes
  <2>3. CASE ~AtWork(actors[id][b].step)
    BY <2>1, <2>2, <2>3 DEF ReachedOrReported
  <2>4. CASE AtWork(actors[id][b].step)
    <3>1. CASE Send(WeakReport(k)) /\ GoTo(k, a, "weak")
      <4>1. k = id
        BY <1>4, <2>4, <3>1, GoToEffect DEF AtWork
      <4>2. Len(mailbox) + 1 \in DOMAIN mailbox' /\ mailbox'[Len(mailbox) + 1] = WeakReport(id)
        BY <1>0, <3>1, <4>1, SendEffect, ReportShapes
      <4> QED BY <4>2
    <3>2. ASSUME actors[k][a].step = "weak", NEW s \in {"linked", "stopped"}, GoTo(k, a, s)
          PROVE  FALSE
      BY <1>4, <2>4, <3>2, GoToEffect DEF AtWork
    <3>3. ASSUME NEW s \in {"retry", "connect"}, GoTo(k, a, s) PROVE FALSE
      BY <1>4, <2>4, <3>3, GoToEffect DEF AtWork
    <3> QED BY <1>4, <3>1, <3>2, <3>3, ReportsOfNodeStep
  <2> QED BY <2>3, <2>4
<1>5. CASE UpdateProximity
  <2>1. /\ UNCHANGED <<nodes, state, mailbox>>
        /\ actors'[id][b].step = actors[id][b].step
    BY <1>5, UpdateProximityEffect DEF UpdateProximity, networkVars
  <2> QED BY <1>1, <2>1
<1>6. CASE UNCHANGED vars
  BY <1>1, <1>6 DEF vars, networkVars, nodeVars
<1> QED BY <1>2, <1>3, <1>4, <1>5, <1>6 DEF Next

(* No registered node is given up: where its Node has stopped trying there *)
(* is a connection, or the report of one under way.                        *)
THEOREM IdleNodesStayConnected == Spec => []IdleNodeIsConnected
<1>1. TypeOK /\ RegistryInv /\ LinksInv /\ ReachedOrReported => IdleNodeIsConnected
  <2> SUFFICES ASSUME TypeOK, RegistryInv, LinksInv, ReachedOrReported, NEW id \in NodeIds,
                      nodes[id].addr # NoAddr, actors[id][nodes[id].addr].step = "linked"
               PROVE  id \in state.connected \/ RestoreUnderway(id)
    BY DEF IdleNodeIsConnected
  <2>1. nodes[id].addr \in Addrs
    BY DEF TypeOK, NodeRefs
  <2>2. CASE id \in state.isolated
    BY <2>2 DEF LinksInv, IsolationIsTransient, RegistryInv, AddressWhereNode
  <2>3. CASE \E i \in DOMAIN mailbox : mailbox[i] = WeakReport(id)
    BY <2>3 DEF LinksInv, WeakThenConnected, RestoreUnderway
  <2> QED BY <2>1, <2>2, <2>3 DEF ReachedOrReported, AtWork
<1>2. TypeOK /\ RegistryInv /\ ReachedOrReported /\ [Next]_vars => ReachedOrReported'
  BY ReachedPreserved
<1> QED BY <1>1, <1>2, ReachedInit, Typing, RegistryAlways, LinksAlways, PTL DEF Spec

(***************************************************************************)
(* The Node of the host and the Raft actor it proposes to.                 *)
(***************************************************************************)
LEMMA RaftInit == Init => RaftInv
<1> SUFFICES ASSUME Init PROVE RaftInv
  OBVIOUS
<1>1. updates = <<>> /\ DOMAIN updates = {} /\ nodes[Self].addr = NoAddr
  BY HostAssumption DEF Init
<1> QED BY <1>1 DEF RaftInv, UpdatesEndInCurrent, LocalNodeFollowsRaft

LEMMA UpdatesTyped ==
  ASSUME TypeOK
  PROVE  \A i \in DOMAIN updates : updates[i] \in [addr : Addrs, raft : 1..MaxRafts]
<1> DEFINE U == [addr : Addrs, raft : 1..MaxRafts]
<1>1. updates \in Seq(U)
  BY DEF TypeOK
<1> HIDE DEF U
<1>2. \A i \in DOMAIN updates : updates[i] \in U
  BY <1>1, SeqElements
<1> QED BY <1>2 DEF U

LEMMA RegisterKeepsRaft ==
  ASSUME TypeOK, RegistryInv, RaftInv,
         NEW id \in NodeIds, NEW info \in Infos, NEW r \in 0..MaxRafts,
         RegisterNode(id, info, r), raft' = r, raft = r \/ (id = Self /\ r # NoRaft),
         UNCHANGED updates
  PROVE  RaftInv'
<1> USE HostAssumption
<1>0. \A i \in DOMAIN updates : updates[i] \in [addr : Addrs, raft : 1..MaxRafts]
  BY UpdatesTyped
<1>1. CASE id # Self
  <2>1. \A j \in NodeIds \ {id} :
          nodes'[j] = nodes[j] /\ started'[j] = started[j] /\ actors'[j] = actors[j]
    BY RegisterNodeEffect, Zenon
  <2>2. Self \in NodeIds \ {id} /\ raft' = raft
    BY <1>1
  <2>3. /\ nodes'[Self] = nodes[Self] /\ started'[Self] = started[Self]
        /\ actors'[Self] = actors[Self] /\ raft' = raft
    BY <2>1, <2>2
  <2> QED BY <2>3 DEF RaftInv, UpdatesEndInCurrent, LocalNodeFollowsRaft
<1>2. CASE id = Self /\ HasProximity(id, r)
  <2> DEFINE a == started[Self] + 1
  <2>0. NewNode(Self, info, r).proximity = r
    BY DEF NewNode
  <2>1. /\ a \in Addrs /\ nodes'[Self].addr = a /\ started'[Self] = a
        /\ actors'[Self][a] = NewNode(Self, info, r)
    BY <1>2, RegisterNodeEffect
  <2>2. \A i \in DOMAIN updates : updates[i].addr < a
    <3>1. started[Self] \in Nat
      BY DEF TypeOK, Addrs
    <3>2. \A i \in DOMAIN updates : updates[i].addr \in Nat
      BY <1>0 DEF Addrs
    <3>3. \A i \in DOMAIN updates : updates[i].addr <= started[Self]
      BY DEF RaftInv, UpdatesEndInCurrent
    <3> QED BY <3>1, <3>2, <3>3
  <2>3. UpdatesEndInCurrent'
    BY <1>0, <2>1, <2>2 DEF UpdatesEndInCurrent, Addrs
  <2>4. LocalNodeFollowsRaft'
    BY <2>0, <2>1 DEF LocalNodeFollowsRaft
  <2> QED BY <2>3, <2>4 DEF RaftInv
<1>3. CASE id = Self /\ ~HasProximity(id, r)
  <2>1. /\ nodes'[Self].addr = nodes[Self].addr /\ UNCHANGED <<started, actors>>
        /\ raft = NoRaft
    BY <1>3, RegisterNodeEffect DEF HasProximity
  <2>2. nodes'[Self].addr = NoAddr
    BY <2>1 DEF RegistryInv, AddressWhereNode
  <2> QED BY <1>0, <2>1, <2>2
      DEF RaftInv, UpdatesEndInCurrent, LocalNodeFollowsRaft, Addrs, NoAddr
<1> QED BY <1>1, <1>2, <1>3

LEMMA RaftPreserved == TypeOK /\ RegistryInv /\ RaftInv /\ [Next]_vars => RaftInv'
<1> SUFFICES ASSUME TypeOK, RegistryInv, RaftInv, [Next]_vars PROVE RaftInv'
  OBVIOUS
<1> USE HostAssumption DEF networkVars, nodeVars
<1>0. /\ updates \in Seq([addr : Addrs, raft : 1..MaxRafts])
      /\ \A i \in DOMAIN updates : updates[i] \in [addr : Addrs, raft : 1..MaxRafts]
      /\ nodes[Self].addr \in Addrs \cup {NoAddr}
  BY UpdatesTyped DEF TypeOK, NodeRefs
<1>1. ASSUME UNCHANGED <<raft, updates>>, started'[Self] = started[Self],
             nodes'[Self] = nodes[Self],
             \A b \in Addrs : actors'[Self][b].proximity = actors[Self][b].proximity
      PROVE  RaftInv'
  BY <1>0, <1>1 DEF RaftInv, UpdatesEndInCurrent, LocalNodeFollowsRaft
<1>2. ASSUME nodes'[Self].addr = NoAddr, UNCHANGED <<updates, started>> PROVE RaftInv'
  BY <1>0, <1>2 DEF RaftInv, UpdatesEndInCurrent, LocalNodeFollowsRaft, Addrs, NoAddr
<1>3. CASE Outside
  BY <1>1, <1>3, OutsideSends
<1>4. CASE HandleBindEndpoint \/ HandleRaftMetrics \/ HandleStatusChange
  BY <1>1, <1>4 DEF HandleBindEndpoint, HandleRaftMetrics, HandleStatusChange
<1>5. CASE HandleRegisterRaft
  <2>1. raft' = Head(mailbox).raft /\ raft' \in 1..MaxRafts
    BY <1>5, ReceiveTyped, MessageShapes DEF HandleRegisterRaft, TypeOK
  <2>2. CASE RegisterRaftInNode
    <3> DEFINE u == [addr |-> nodes[Self].addr, raft |-> raft']
    <3>1. /\ updates' = Append(updates, u) /\ UNCHANGED <<nodes, started, actors>>
          /\ nodes[Self].addr \in Addrs
      BY <1>0, <2>1, <2>2 DEF RegisterRaftInNode
    <3>2. u \in [addr : Addrs, raft : 1..MaxRafts]
      BY <2>1, <3>1
    <3>3. /\ DOMAIN updates' = 1..Len(updates) + 1 /\ Len(updates') = Len(updates) + 1
          /\ updates'[Len(updates) + 1] = u /\ updates' # <<>>
          /\ \A i \in 1..Len(updates) : updates'[i] = updates[i] /\ i \in DOMAIN updates
          /\ Len(updates) \in Nat
      <4> HIDE DEF u
      <4> QED BY <1>0, <3>1, <3>2
    <3>4. nodes[Self].addr <= started[Self]
      BY <3>1 DEF RegistryInv, AddressIsCurrent, Addrs, NoAddr
    <3>5. \A i \in DOMAIN updates' : updates'[i].addr <= started'[Self]
      BY <1>0, <3>1, <3>3, <3>4 DEF RaftInv, UpdatesEndInCurrent
    <3> HIDE DEF u
    <3>6. updates'[Len(updates')] = [addr |-> nodes'[Self].addr, raft |-> raft']
      BY <3>1, <3>3 DEF u
    <3> QED BY <3>1, <3>3, <3>5, <3>6 DEF RaftInv, UpdatesEndInCurrent, LocalNodeFollowsRaft
  <2>3. CASE RegisterRaftAndCreateLocalNode
    <3>1. nodes[Self].info \in Infos
      BY <2>3 DEF RegisterRaftAndCreateLocalNode, Registered, TypeOK, NodeRefs
    <3>2. RegisterNode(Self, nodes[Self].info, raft') /\ UNCHANGED updates /\ raft' # NoRaft
      BY <2>1, <2>3 DEF RegisterRaftAndCreateLocalNode, NoRaft
    <3> QED BY <2>1, <3>1, <3>2, RegisterKeepsRaft
  <2>4. CASE RegisterRaftWithoutOwnEntry
    <3>1. nodes'[Self].addr = NoAddr /\ UNCHANGED <<updates, started>>
      BY <2>4 DEF RegisterRaftWithoutOwnEntry, RegistryInv, AddressWhereNode
    <3> QED BY <1>2, <3>1
  <2> QED BY <1>5, <2>2, <2>3, <2>4 DEF HandleRegisterRaft
<1>6. CASE HandleConnectNode
  <2> DEFINE id == Head(mailbox).id
             info == Head(mailbox).info
  <2>1. id \in NodeIds /\ info \in Infos
    BY <1>6, ReceiveTyped, MessageShapes DEF HandleConnectNode, TypeOK
  <2>2. CASE UNCHANGED <<nodes, state, nodeVars>>
    BY <1>1, <1>6, <2>2 DEF HandleConnectNode
  <2>3. CASE RegisterNode(id, info, raft)
    <3>1. raft' = raft /\ raft \in 0..MaxRafts /\ UNCHANGED updates
      BY <1>6 DEF HandleConnectNode, TypeOK
    <3> HIDE DEF id, info
    <3> QED BY <2>1, <2>3, <3>1, RegisterKeepsRaft
  <2> QED BY <1>6, <2>2, <2>3 DEF HandleConnectNode
<1>7. CASE HandleDisconnectNode
  <2>1. PICK id \in NodeIds : id = Head(mailbox).id
    BY <1>7, ReceiveTyped, MessageShapes DEF HandleDisconnectNode, TypeOK
  <2>2. /\ nodes' = [nodes EXCEPT ![id] = Unregistered]
        /\ actors' = [actors EXCEPT ![id] = Abandon(id, nodes[id].addr)]
        /\ UNCHANGED <<raft, updates, started>>
    BY <1>7, <2>1 DEF HandleDisconnectNode
  <2>3. CASE id = Self
    BY <1>2, <2>2, <2>3 DEF TypeOK, Unregistered
  <2>4. CASE id # Self
    BY <1>1, <2>2, <2>4 DEF TypeOK
  <2> QED BY <2>3, <2>4
<1>8. ASSUME NEW id \in NodeIds, NEW a \in Addrs, NodeStep(id, a) PROVE RaftInv'
  BY <1>1, <1>8, NodeStepEffect, GoToEffect DEF NodeUnchanged
<1>9. CASE UpdateProximity
  <2> DEFINE a == nodes[Self].addr
             n == Len(updates)
  <2>1. /\ UNCHANGED <<raft, nodes, started>> /\ updates # <<>> /\ updates' = Tail(updates)
        /\ \A b \in Addrs : actors'[Self][b].proximity =
             IF b = Head(updates).addr THEN Head(updates).raft ELSE actors[Self][b].proximity
    BY <1>9, UpdateProximityEffect DEF UpdateProximity
  <2>2. /\ n \in Nat \ {0} /\ DOMAIN updates = 1..n /\ Head(updates) = updates[1]
        /\ Len(updates') = n - 1 /\ DOMAIN updates' = 1..n - 1
        /\ \A i \in 1..n - 1 : updates'[i] = updates[i + 1] /\ i + 1 \in DOMAIN updates
    BY <1>0, <2>1, HeadAndTail
  <2>3. n > 1 => updates'[n - 1] = updates[n] /\ updates' # <<>>
    BY <2>2
  <2>4. UpdatesEndInCurrent'
    <3>1. ASSUME NEW i \in DOMAIN updates'
          PROVE  /\ updates'[i].addr <= started[Self]
                 /\ updates'[i].addr = a => updates'[n - 1] = [addr |-> a, raft |-> raft]
      BY <2>2, <2>3 DEF RaftInv, UpdatesEndInCurrent
    <3> QED BY <2>1, <2>2, <3>1 DEF UpdatesEndInCurrent
  <2>5. ASSUME a # NoAddr, actors'[Self][a].proximity # raft
        PROVE  updates' # <<>> /\ updates'[n - 1] = [addr |-> a, raft |-> raft]
    <3>1. a \in Addrs
      BY <1>0, <2>5
    <3>2. updates[n] = [addr |-> a, raft |-> raft]
      BY <2>1, <2>2, <2>5, <3>1 DEF RaftInv, UpdatesEndInCurrent, LocalNodeFollowsRaft
    <3>3. n # 1
      BY <2>1, <2>2, <2>5, <3>1, <3>2
    <3> QED BY <2>2, <2>3, <3>2, <3>3
  <2>6. LocalNodeFollowsRaft'
    BY <2>1, <2>2, <2>5 DEF LocalNodeFollowsRaft
  <2> QED BY <2>4, <2>6 DEF RaftInv
<1>10. CASE UNCHANGED vars
  BY <1>1, <1>10 DEF vars
<1> QED BY <1>3, <1>4, <1>5, <1>6, <1>7, <1>8, <1>9, <1>10 DEF Next, NetworkStep

(* However a second RegisterRaft and changes of the own entry overlap, the *)
(* host's Node proposes to the Raft registered last, or is about to.       *)
THEOREM LocalNodeAlwaysFollowsRaft == Spec => []LocalNodeFollowsRaft
<1>1. RaftInv => LocalNodeFollowsRaft
  BY DEF RaftInv
<1> QED BY <1>1, Typing, RegistryAlways, RaftInit, RaftPreserved, PTL DEF Spec

(***************************************************************************)
(* The status of the host.                                                 *)
(***************************************************************************)
LEMMA StatusInit == Init => StatusInv
<1> SUFFICES ASSUME Init PROVE StatusInv
  OBVIOUS
<1>1. /\ state.status = "Joining" /\ state.log = <<[status |-> "Joining", exit |-> "None"]>>
      /\ metrics = {} /\ ~panicked
  BY DEF Init, DefaultState
<1>2. /\ DOMAIN state.log = {1} /\ Len(state.log) = 1 /\ state.log # <<>>
      /\ state.log[1] = [status |-> "Joining", exit |-> "None"]
  BY <1>1
<1> QED BY <1>1, <1>2 DEF StatusInv, StatusFollowsRaft, PanicNeedsOwnEntryGone

(* A report of the Raft actor: no transition it asks for is refused.       *)
LEMMA ReportKeepsStatus ==
  ASSUME TypeOK, StatusFollowsRaft, HandleRaftMetrics
  PROVE  StatusFollowsRaft' /\ panicked' = FALSE
<1> DEFINE m == Head(mailbox).metrics
           now == state.status
           next == StatusOnReport(now, m.state)
           n == Len(state.log)
<1>1. /\ state' = IF next # now /\ (next = now \/ NextStatusAllowed(now, next))
                    THEN Advance(state, next) ELSE state
      /\ panicked' = ~(next = now \/ NextStatusAllowed(now, next))
      /\ metrics' = IF next = now \/ NextStatusAllowed(now, next) THEN {m} ELSE metrics
  BY DEF HandleRaftMetrics
<1>2. \/ next = now
      \/ now = "Joining" /\ next = "Up" /\ m.state # "NonVoter"
      \/ now = "Up" /\ next = "Leaving"
  BY DEF StatusFollowsRaft, StatusOnReport
<1>3. next = now =>
        (now = "Joining" => m.state = "NonVoter") /\ (now = "Up" => m.state # "NonVoter")
  BY DEF StatusOnReport
<1>4. next # now => NextStatusAllowed(now, next)
  BY <1>2 DEF NextStatusAllowed
<1> HIDE DEF next, m, now, n
<1>5. panicked' = FALSE /\ metrics' = {m}
  BY <1>1, <1>4
<1>6. CASE next = now
  <2>1. state' = state
    BY <1>1, <1>6
  <2> QED BY <1>3, <1>5, <1>6, <2>1 DEF StatusFollowsRaft, now
<1>7. CASE next # now
  <2>1. state' = Advance(state, next) /\ NextStatusAllowed(now, next)
    BY <1>1, <1>4, <1>7
  <2>2. next \in Statuses /\ state \in NetworkStates(NodeIds)
    BY <1>2, <1>7 DEF Statuses, TypeOK
  <2>3. /\ n \in Nat \ {0} /\ DOMAIN state.log = 1..n
    BY <2>2 DEF NetworkStates, n
  <2>4. /\ state'.status = next /\ Len(state'.log) = n + 1
        /\ \A i \in 1..n + 1 :
             state'.log[i] =
               IF i = n + 1 THEN [status |-> next, exit |-> "None"]
               ELSE IF i = n THEN [status |-> state.log[i].status, exit |-> "Some"]
               ELSE state.log[i]
        /\ state'.log \in Seq(StatusEntry)
    BY <2>1, <2>2, AdvanceLog DEF n, NetworkStates
  <2>5. DOMAIN state'.log = 1..n + 1 /\ state'.log # <<>>
    BY <2>3, <2>4
  <2>6. /\ state.log[n].status = now
        /\ \A i \in 1..n :
             /\ state.log[i].exit = "None" <=> i = n
             /\ i > 1 => NextStatusAllowed(state.log[i - 1].status, state.log[i].status)
    BY <2>3 DEF StatusFollowsRaft, now, n
  <2>7. ASSUME NEW i \in 1..n + 1
        PROVE  /\ state'.log[i].exit = "None" <=> i = n + 1
               /\ state'.log[i].status = IF i = n + 1 THEN next ELSE state.log[i].status
    <3>1. CASE i = n + 1
      <4>1. state'.log[i] = [status |-> next, exit |-> "None"]
        BY <2>4, <3>1
      <4> QED BY <3>1, <4>1
    <3>2. CASE i = n
      <4>1. i # n + 1 /\ state'.log[i] = [status |-> state.log[i].status, exit |-> "Some"]
        BY <2>3, <2>4, <3>2
      <4> QED BY <4>1
    <3>3. CASE i \in 1..n /\ i # n
      <4>1. i # n + 1
        BY <2>3, <3>3
      <4>2. state'.log[i] = state.log[i]
        BY <2>4, <3>3, <4>1
      <4>3. state.log[i].exit # "None"
        BY <2>6, <3>3
      <4> QED BY <4>1, <4>2, <4>3
    <3> QED BY <2>3, <3>1, <3>2, <3>3
  <2>8. ASSUME NEW i \in 1..n + 1, i > 1
        PROVE  NextStatusAllowed(state'.log[i - 1].status, state'.log[i].status)
    <3>1. i - 1 \in 1..n + 1 /\ i - 1 # n + 1
      BY <2>3, <2>8
    <3>2. state'.log[i - 1].status = state.log[i - 1].status
      BY <2>7, <3>1
    <3>3. CASE i = n + 1
      <4>1. i - 1 = n
        BY <2>3, <3>3
      <4> QED BY <2>1, <2>6, <2>7, <3>2, <3>3, <4>1
    <3>4. CASE i # n + 1
      <4>1. i \in 1..n
        BY <2>3, <3>4
      <4> QED BY <2>6, <2>7, <2>8, <3>2, <3>4, <4>1
    <3> QED BY <3>3, <3>4
  <2> QED BY <1>2, <1>5, <1>7, <2>4, <2>5, <2>7, <2>8 DEF StatusFollowsRaft
<1> QED BY <1>5, <1>6, <1>7

LEMMA StatusPreserved == TypeOK /\ StatusInv /\ [Next]_vars => StatusInv'
<1> SUFFICES ASSUME TypeOK, StatusInv, [Next]_vars PROVE StatusInv'
  OBVIOUS
<1> USE HostAssumption DEF networkVars, nodeVars
<1>0. state \in NetworkStates(NodeIds)
  BY DEF TypeOK
<1>1. ASSUME state'.status = state.status, state'.log = state.log, UNCHANGED metrics
      PROVE  StatusFollowsRaft'
  BY <1>1 DEF StatusInv, StatusFollowsRaft
<1>2. ASSUME NEW id \in NodeIds, state' \in {state, RestoreNode(state, id), IsolateNode(state, id)},
             UNCHANGED <<metrics, panicked>>, ~panicked
      PROVE  StatusInv'
  <2>1. state'.status = state.status /\ state'.log = state.log
    BY <1>0, <1>2, LinkOperators
  <2> QED BY <1>1, <1>2, <2>1 DEF StatusInv, PanicNeedsOwnEntryGone
<1>3. ASSUME UNCHANGED <<state, metrics, panicked, nodes>> PROVE StatusInv'
  BY <1>1, <1>3 DEF StatusInv, PanicNeedsOwnEntryGone, Registered
<1>4. CASE Outside
  BY <1>3, <1>4, OutsideSends
<1>5. CASE HandleRaftMetrics
  BY <1>5, ReportKeepsStatus DEF StatusInv, PanicNeedsOwnEntryGone
<1>6. CASE HandleRegisterRaft
  <2>1. CASE RegisterRaftWithoutOwnEntry
    <3>1. UNCHANGED <<state, metrics, nodes>> /\ ~Registered(Self)
      BY <1>6, <2>1 DEF HandleRegisterRaft, RegisterRaftWithoutOwnEntry
    <3> QED BY <1>1, <3>1 DEF StatusInv, PanicNeedsOwnEntryGone, Registered
  <2>2. CASE RegisterRaftInNode \/ RegisterRaftAndCreateLocalNode
    <3>1. /\ state' \in {state, RestoreNode(state, Self)}
          /\ UNCHANGED <<metrics, panicked>> /\ ~panicked
      BY <1>6, <2>2 DEF HandleRegisterRaft, RegisterRaftInNode,
         RegisterRaftAndCreateLocalNode, RegisterNode, Receive
    <3> QED BY <1>2, <3>1
  <2> QED BY <1>6, <2>1, <2>2 DEF HandleRegisterRaft
<1>7. CASE HandleBindEndpoint
  BY <1>3, <1>7 DEF HandleBindEndpoint
<1>8. CASE HandleStatusChange \/ HandleConnectNode \/ HandleDisconnectNode
  <2>1. PICK id \in NodeIds : id = Head(mailbox).id
    BY <1>8, ReceiveTyped, MessageShapes
       DEF HandleStatusChange, HandleConnectNode, HandleDisconnectNode, TypeOK
  <2>2. /\ state' \in {state, RestoreNode(state, id), IsolateNode(state, id)}
        /\ UNCHANGED <<metrics, panicked>> /\ ~panicked
    BY <1>8, <2>1 DEF HandleStatusChange, HandleConnectNode, HandleDisconnectNode,
       StateOnReport, RegisterNode, Receive
  <2> QED BY <1>2, <2>2
<1>9. CASE \E id \in NodeIds, a \in Addrs : NodeStep(id, a)
  BY <1>3, <1>9, NodeStepEffect DEF NodeUnchanged
<1>10. CASE UpdateProximity \/ UNCHANGED vars
  BY <1>3, <1>10 DEF UpdateProximity, vars
<1> QED BY <1>4, <1>5, <1>6, <1>7, <1>8, <1>9, <1>10 DEF Next, NetworkStep

LEMMA StatusAlways == Spec => []StatusInv
BY Typing, StatusInit, StatusPreserved, PTL DEF Spec

(* The status shown by the host agrees with the last report of Raft, and   *)
(* its timeline is a chain of allowed transitions.                         *)
THEOREM StatusAlwaysFollowsRaft == Spec => []StatusFollowsRaft
<1>1. StatusInv => StatusFollowsRaft
  BY DEF StatusInv
<1> QED BY <1>1, StatusAlways, PTL

(* No report of Raft can panic the Network; only RegisterRaft can, when    *)
(* the host's own entry is gone.                                           *)
THEOREM PanicOnlyWithoutOwnEntry == Spec => []PanicNeedsOwnEntryGone
<1>1. StatusInv => PanicNeedsOwnEntryGone
  BY DEF StatusInv
<1> QED BY <1>1, StatusAlways, PTL

(***************************************************************************)
(* The refinement of Registry.                                             *)
(***************************************************************************)

(* The host's initial state maps to the abstract registry's.               *)
LEMMA MappedInit == Init => Abstract!RegistryInit
<1> SUFFICES ASSUME Init PROVE Abstract!RegistryInit
  OBVIOUS
<1> USE HostAssumption
<1>1. /\ raft = NoRaft /\ metrics = {} /\ panicked = FALSE
      /\ state.connected = {} /\ state.isolated = {}
      /\ \A id \in NodeIds :
           /\ nodes[id].info = Seeds[id]
           /\ nodes[id].addr = IF id = Self \/ Seeds[id] = NoInfo THEN NoAddr ELSE 1
  BY DEF Init, DefaultState
<1>2. \A id \in NodeIds :
        /\ EntryOf(id) \in {"absent", "known", "running"}
        /\ EntryOf(id) = "known" <=> id = Self
  <2> SUFFICES ASSUME NEW id \in NodeIds
               PROVE  EntryOf(id) \in {"absent", "known", "running"}
                      /\ (EntryOf(id) = "known" <=> id = Self)
    OBVIOUS
  <2>1. CASE id = Self
    BY <1>1, <2>1 DEF EntryOf, Registered
  <2>2. CASE id # Self /\ Seeds[id] = NoInfo
    BY <1>1, <2>2 DEF EntryOf, Registered
  <2>3. CASE id # Self /\ Seeds[id] # NoInfo
    BY <1>1, <2>3 DEF EntryOf, Registered, NoAddr
  <2> QED BY <2>1, <2>2, <2>3
<1>3. \A id \in NodeIds : LinkOf(id) = "untracked"
  BY <1>1 DEF LinkOf
<1> QED BY <1>1, <1>2, <1>3 DEF Abstract!RegistryInit, Entries, Links

(* The two maps after a step, from what the step did to one node.          *)
LEMMA EntriesAfter ==
  ASSUME NEW id \in NodeIds, \A j \in NodeIds \ {id} : nodes'[j] = nodes[j]
  PROVE  Entries' = [Entries EXCEPT ![id] = EntryOf(id)']
<1>1. \A j \in NodeIds : EntryOf(j)' = IF j = id THEN EntryOf(id)' ELSE EntryOf(j)
  BY DEF EntryOf, Registered
<1> QED BY <1>1 DEF Entries

LEMMA LinksAfter ==
  ASSUME TypeOK, NEW id \in NodeIds
  PROVE  /\ state' = RestoreNode(state, id) => Links' = Abstract!Restored(id)
         /\ state' = IsolateNode(state, id) => Links' = [Links EXCEPT ![id] = "isolated"]
<1>1. state \in NetworkStates(NodeIds)
  BY DEF TypeOK
<1>2. ASSUME state' = RestoreNode(state, id)
      PROVE  \A j \in NodeIds : LinkOf(j)' =
               IF j = id /\ LinkOf(j) = "isolated" THEN "connected" ELSE LinkOf(j)
  BY <1>1, <1>2, LinkOperators DEF LinkOf
<1>3. ASSUME state' = IsolateNode(state, id)
      PROVE  \A j \in NodeIds : LinkOf(j)' = IF j = id THEN "isolated" ELSE LinkOf(j)
  <2>1. /\ state'.isolated = state.isolated \cup {id}
        /\ id \notin state.isolated => state'.connected = state.connected \ {id}
        /\ id \in state.isolated => state'.connected = state.connected
    BY <1>1, <1>3, LinkOperators
  <2> QED BY <2>1 DEF LinkOf
<1> QED BY <1>2, <1>3 DEF Links, Abstract!Restored

LEMMA LinksUnchanged ==
  ASSUME UNCHANGED <<state.connected, state.isolated>>
  PROVE  Links' = Links
BY DEF Links, LinkOf

(* Registering a node is Register, for the Raft actor known before.        *)
LEMMA MappedRegister ==
  ASSUME TypeOK, RegistryInv, NEW id \in NodeIds, NEW info \in Infos,
         RegisterNode(id, info, raft), UNCHANGED <<raft, metrics, panicked>>, ~panicked
  PROVE  Abstract!Register(id)
<1> USE HostAssumption
<1>1. \A j \in NodeIds \ {id} : nodes'[j] = nodes[j]
  BY RegisterNodeEffect DEF TypeOK
<1>2. RegistryInv'
  <2>1. raft' = raft /\ raft \in 0..MaxRafts
    BY DEF TypeOK
  <2> QED BY <2>1, RegisterKeepsRegistry
<1>3. Registered(id)'
  BY RegisterNodeEffect DEF Registered, TypeOK
<1>4. EntryOf(id)' = IF id # Self \/ raft # NoRaft THEN "running" ELSE "known"
  BY <1>2, <1>3 DEF EntryOf, RegistryInv, AddressWhereNode
<1>5. Entries' = [Entries EXCEPT ![id] = EntryOf(id)']
  BY <1>1, EntriesAfter
<1>6. Links' = Abstract!Restored(id)
  BY LinksAfter DEF RegisterNode
<1> QED BY <1>4, <1>5, <1>6 DEF Abstract!Register

LEMMA MappedHandler ==
  ASSUME TypeOK, RegistryInv, StatusInv, ReportsAreSound, NetworkStep
  PROVE  Abstract!RegistryNext \/ UNCHANGED Abstract!registryVars
<1> USE HostAssumption DEF Abstract!registryVars, Abstract!RegistryNext
<1>0. ~panicked /\ mailbox \in Seq(Messages)
  BY ReceiveEffect DEF TypeOK
<1>1. nodes' = nodes => Entries' = Entries
  BY DEF Entries, EntryOf, Registered
<1>2. state' = state => Links' = Links
  BY LinksUnchanged
<1>3. CASE HandleBindEndpoint
  BY <1>1, <1>2, <1>3 DEF HandleBindEndpoint, networkVars
<1>4. CASE HandleRaftMetrics
  <2> DEFINE m == Head(mailbox).metrics
  <2>1. m \in Reports
    BY <1>0, <1>4, ReceiveTyped, MessageShapes DEF HandleRaftMetrics
  <2>2. panicked' = panicked /\ metrics' = {m} /\ UNCHANGED <<nodes, raft>>
    <3>1. panicked' = FALSE
      BY <1>4, ReportKeepsStatus DEF StatusInv
    <3>2. panicked' = panicked
      BY <1>0, <3>1 DEF TypeOK
    <3>3. metrics' = {m} /\ UNCHANGED <<nodes, raft>>
      BY <1>4, <3>1 DEF HandleRaftMetrics
    <3> QED BY <3>2, <3>3
  <2>3. Links' = Links
    <3>1. state' = state \/ state' = Advance(state, StatusOnReport(state.status, m.state))
      BY <1>4 DEF HandleRaftMetrics
    <3>2. UNCHANGED <<state.connected, state.isolated>>
      BY <3>1, AdvanceLinks DEF TypeOK
    <3> QED BY <3>2, LinksUnchanged
  <2>4. Abstract!LearnMetrics(m)
    <3> HIDE DEF m
    <3> QED BY <1>0, <1>1, <2>2, <2>3 DEF Abstract!LearnMetrics
  <2> QED BY <2>1, <2>4
<1>5. CASE HandleRegisterRaft
  <2>1. raft' \in 1..MaxRafts /\ raft' = Head(mailbox).raft /\ raft' # NoRaft
    BY <1>0, <1>5, ReceiveTyped, MessageShapes DEF HandleRegisterRaft, NoRaft
  <2>2. CASE RegisterRaftInNode
    <3>1. raft # NoRaft
      BY <2>2 DEF RegisterRaftInNode, RegistryInv, AddressWhereNode
    <3> QED BY <1>1, <1>2, <1>5, <2>1, <2>2, <3>1 DEF HandleRegisterRaft, RegisterRaftInNode
  <2>3. CASE RegisterRaftAndCreateLocalNode
    <3>1. /\ raft = NoRaft /\ Registered(Self) /\ nodes[Self].info \in Infos
          /\ UNCHANGED <<metrics, panicked>> /\ RegisterNode(Self, nodes[Self].info, raft')
      BY <1>5, <2>1, <2>3 DEF HandleRegisterRaft, RegisterRaftAndCreateLocalNode, RegistryInv,
         AddressWhereNode, Registered, TypeOK, NodeRefs
    <3>2. \A j \in NodeIds \ {Self} : nodes'[j] = nodes[j]
      BY <2>1, <3>1, RegisterNodeEffect
    <3>3. RegistryInv' /\ Registered(Self)'
      BY <2>1, <3>1, RegisterKeepsRegistry, RegisterNodeEffect DEF Registered
    <3>4. EntryOf(Self)' = "running" /\ EntryOf(Self) # "absent"
      BY <2>1, <3>1, <3>3 DEF EntryOf, RegistryInv, AddressWhereNode
    <3>5. Entries' = [Entries EXCEPT ![Self] = "running"] /\ Entries[Self] # "absent"
      <4>1. Entries' = [Entries EXCEPT ![Self] = EntryOf(Self)']
        BY <3>2, EntriesAfter
      <4> QED BY <3>4, <4>1 DEF Entries
    <3>6. Links' = Abstract!Restored(Self)
      BY <3>1, LinksAfter DEF RegisterNode
    <3> QED BY <1>0, <2>1, <3>1, <3>5, <3>6 DEF Abstract!LearnRaft
  <2>4. CASE RegisterRaftWithoutOwnEntry
    <3>1. UNCHANGED <<nodes, state, metrics>> /\ panicked' = TRUE /\ ~Registered(Self)
      BY <1>5, <2>4 DEF HandleRegisterRaft, RegisterRaftWithoutOwnEntry
    <3>2. Entries[Self] = "absent"
      BY <3>1 DEF Entries, EntryOf
    <3>3. Abstract!Crash
      BY <1>0, <1>1, <1>2, <2>1, <3>1, <3>2 DEF Abstract!Crash
    <3> QED BY <3>3
  <2> QED BY <1>5, <2>2, <2>3, <2>4 DEF HandleRegisterRaft
<1>6. CASE HandleStatusChange
  <2>1. PICK id \in NodeIds : id = Head(mailbox).id
    BY <1>0, <1>6, ReceiveTyped, MessageShapes DEF HandleStatusChange
  <2>2. UNCHANGED <<nodes, raft, metrics, panicked>>
    BY <1>6 DEF HandleStatusChange
  <2>3. \/ state' = state
        \/ Registered(id) /\ state' = IsolateNode(state, id)
        \/ Registered(id) /\ state' = RestoreNode(state, id)
    BY <1>6, <2>1 DEF HandleStatusChange, StateOnReport
  <2>4. Registered(id) => Entries[id] # "absent"
    BY DEF Entries, EntryOf
  <2>5. ASSUME Registered(id), state' = IsolateNode(state, id) PROVE Abstract!Isolate(id)
    BY <1>0, <1>1, <2>2, <2>4, <2>5, LinksAfter DEF Abstract!Isolate
  <2>6. ASSUME Registered(id), state' = RestoreNode(state, id)
        PROVE  Abstract!Restore(id) \/ Links' = Links
    <3>1. Links' = Abstract!Restored(id)
      BY <2>6, LinksAfter
    <3>2. CASE Links[id] = "isolated"
      BY <1>0, <1>1, <2>2, <2>4, <2>6, <3>1, <3>2 DEF Abstract!Restore
    <3>3. CASE Links[id] # "isolated"
      BY <3>1, <3>3 DEF Abstract!Restored, Links
    <3> QED BY <3>2, <3>3
  <2> QED BY <1>1, <1>2, <2>2, <2>3, <2>5, <2>6
<1>7. CASE HandleConnectNode
  <2>1. /\ Head(mailbox).id \in NodeIds /\ Head(mailbox).info \in Infos
        /\ UNCHANGED <<raft, metrics, panicked>>
    BY <1>0, <1>7, ReceiveTyped, MessageShapes DEF HandleConnectNode
  <2>2. CASE UNCHANGED <<nodes, state, nodeVars>>
    BY <1>1, <1>2, <2>1, <2>2
  <2>3. CASE RegisterNode(Head(mailbox).id, Head(mailbox).info, raft)
    <3> DEFINE id == Head(mailbox).id
               info == Head(mailbox).info
    <3>1. RegisterNode(id, info, raft) /\ id \in NodeIds /\ info \in Infos
      BY <2>1, <2>3
    <3> HIDE DEF id, info
    <3> QED BY <1>0, <2>1, <3>1, MappedRegister
  <2> QED BY <1>7, <2>2, <2>3 DEF HandleConnectNode
<1>8. CASE HandleDisconnectNode
  <2>1. PICK id \in NodeIds : id = Head(mailbox).id
    BY <1>0, <1>8, ReceiveTyped, MessageShapes DEF HandleDisconnectNode
  <2>2. /\ nodes' = [nodes EXCEPT ![id] = Unregistered]
        /\ UNCHANGED <<state, raft, metrics, panicked>>
    BY <1>8, <2>1 DEF HandleDisconnectNode
  <2>3. EntryOf(id)' = "absent" /\ \A j \in NodeIds \ {id} : nodes'[j] = nodes[j]
    BY <2>2 DEF TypeOK, Unregistered, EntryOf, Registered
  <2>4. Entries' = [Entries EXCEPT ![id] = "absent"]
    BY <2>3, EntriesAfter
  <2>5. Entries[id] = "absent" => Entries' = Entries
    BY <2>4 DEF Entries
  <2> QED BY <1>0, <1>2, <2>2, <2>4, <2>5 DEF Abstract!Disconnect
<1> QED BY <1>3, <1>4, <1>5, <1>6, <1>7, <1>8 DEF NetworkStep

LEMMA MappedStep ==
  ASSUME TypeOK, RegistryInv, StatusInv, ReportsAreSound, [Next]_vars
  PROVE  [Abstract!RegistryNext]_(Abstract!registryVars)
<1>1. ASSUME UNCHANGED <<nodes, state, raft, metrics, panicked>>
      PROVE  UNCHANGED Abstract!registryVars
  BY <1>1 DEF Abstract!registryVars, Entries, Links, EntryOf, LinkOf, Registered
<1>2. CASE Outside
  BY <1>1, <1>2, OutsideSends DEF networkVars
<1>3. CASE NetworkStep
  BY <1>3, MappedHandler
<1>4. CASE \E id \in NodeIds, a \in Addrs : NodeStep(id, a)
  BY <1>1, <1>4, NodeStepEffect DEF NodeUnchanged, networkVars
<1>5. CASE UpdateProximity \/ UNCHANGED vars
  BY <1>1, <1>5 DEF UpdateProximity, vars, networkVars
<1> QED BY <1>2, <1>3, <1>4, <1>5 DEF Next

(* Every behaviour of a host, seen through its entries and links, is one   *)
(* of the abstract registry: routers may be written against Registry.      *)
THEOREM HostImplementsRegistry == Spec => ImplementsRegistry
<1>1. LinksInv => ReportsAreSound
  BY DEF LinksInv
<1> QED
  BY <1>1, MappedInit, MappedStep, Typing, RegistryAlways, StatusAlways, LinksAlways, PTL
     DEF Spec, ImplementsRegistry
=============================================================================
