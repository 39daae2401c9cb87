------------------------------ MODULE Cluster ------------------------------
(***************************************************************************)
(* Hosts that reach each other over HTTP.  Each has one thread for its     *)
(* Network and its Nodes, and a request to a peer blocks that thread until *)
(* the reply or a timeout.  The threads of the HTTP endpoint only put what *)
(* they receive into the Network's mailbox and pass on its answer.         *)
(*                                                                         *)
(* Of every host the module keeps what Registry promises of it, the Node   *)
(* it has for each peer, the mailbox, and the one request under way.       *)
(* Nodes that a new registration left behind call as their successor does, *)
(* one at a time as well: the module keeps one Node per peer.              *)
(***************************************************************************)
EXTENDS Naturals, Sequences, FiniteSets, SequencesExt

CONSTANTS
  Hosts,        \* the hosts, each named by its node identifier
  Seeds,        \* the nodes each host is configured with, itself included
  RpcSenders,   \* bound: the hosts whose Raft sends AppendEntries and Vote
  Snapshotters, \* bound: the hosts whose Raft sends snapshots
  MaxOrphans    \* bound: requests of each host left in a peer's mailbox

ASSUME ClusterAssumption ==
  /\ Seeds \in [Hosts -> SUBSET Hosts]
  /\ \A h \in Hosts : h \in Seeds[h]
  /\ MaxOrphans \in [Hosts -> Nat]

VARIABLES
  boot,       \* how far RaftSystemBuilder.build got
  entry,      \* the entries of each host's registry
  link,       \* and its links, as in Registry
  raftKnown,  \* whether RegisterRaft was handled
  node,       \* where each host's Node of each host stands
  inbox,      \* the Network's mailbox
  replying,   \* requests handled, with their answer still to come
  call,       \* the request each host's thread waits for
  checked,    \* snapshots <<target, leader>> let through, not yet handed on
  crashed     \* whether the thread ended, and by which panic

registries == <<entry, link, raftKnown>>
calls == <<call, replying, checked>>
vars == <<boot, registries, node, inbox, calls, crashed>>

Boots == {"started", "serving", "registered"}
NodeSteps == {"none", "connect", "calling", "retry", "weak", "linked"}
Rpcs == {"rpc", "snapshot"}
RequestKinds == {"connect"} \cup Rpcs
OwnKinds == {"bind", "registerRaft", "weak", "connected"}
Replies ==
  {"awaited", "created", "response", "refusal", "failure", "tooLarge", "timeout",
   "noConnection"}

(* A request of a host in the mailbox of a peer is live while the host     *)
(* waits for its reply.                                                    *)
Requests == [kind : RequestKinds, from : Hosts, live : BOOLEAN]
OwnMessages == [kind : OwnKinds, from : Hosts, live : {FALSE}]
OwnLive(h, kind) == [kind |-> kind, from |-> h, live |-> TRUE]
Own(h, kind) == [kind |-> kind, from |-> h, live |-> FALSE]

(* `after` holds the hosts whose present call is older.                    *)
Calls ==
  [kind : RequestKinds \cup {"none"}, to : Hosts, reply : Replies, after : SUBSET Hosts]
NoCall(h) == [kind |-> "none", to |-> h, reply |-> "response", after |-> {}]

Init ==
  /\ boot = [h \in Hosts |-> "started"]
  /\ entry = [h \in Hosts |-> [p \in Hosts |->
       IF p \notin Seeds[h] THEN "absent" ELSE IF p = h THEN "known" ELSE "running"]]
  /\ link = [h \in Hosts |-> [p \in Hosts |-> "untracked"]]
  /\ raftKnown = [h \in Hosts |-> FALSE]
  /\ node = [h \in Hosts |-> [p \in Hosts |->
       IF p \in Seeds[h] \ {h} THEN "connect" ELSE "none"]]
  /\ inbox = [h \in Hosts |-> <<Own(h, "bind")>>]
  /\ replying = [h \in Hosts |-> {}]
  /\ call = [h \in Hosts |-> NoCall(h)]
  /\ checked = [h \in Hosts |-> {}]
  /\ crashed = [h \in Hosts |-> "no"]

Alive(h) == crashed[h] = "no"
Waits(h) == call[h].kind # "none" /\ call[h].reply = "awaited"

(* The one thread of a host: it serves the mailbox and polls its Nodes     *)
(* when it waits for no reply and no Node is between its two reports.      *)
ThreadFree(h) == Alive(h) /\ call[h].kind = "none" /\ node[h][h] # "weak"

Put(h, msg) == inbox' = [inbox EXCEPT ![h] = Append(@, msg)]

(***************************************************************************)
(* Requests to a peer, and their replies.                                  *)
(***************************************************************************)
(* The blocking `send` of reqwest.  Nothing listens before the endpoint is *)
(* bound; an endpoint whose Network is gone answers 500.                   *)
CallPeer(h, p, kind) ==
  \/ /\ boot[p] # "started" /\ Alive(p)
     /\ call' = [call EXCEPT ![h] =
          [kind |-> kind, to |-> p, reply |-> "awaited", after |-> {w \in Hosts : Waits(w)}]]
     /\ Put(p, [kind |-> kind, from |-> h, live |-> TRUE])
  \/ /\ boot[p] = "started" \/ ~Alive(p)
     /\ call' = [call EXCEPT ![h] =
          [kind  |-> kind, to |-> p,
           reply |-> IF boot[p] = "started" THEN "noConnection" ELSE "failure",
           after |-> {}]]
     /\ UNCHANGED inbox

Replied(h, reply) ==
  call' = [p \in Hosts |->
    IF p = h THEN [call[h] EXCEPT !.reply = reply, !.after = {}]
    ELSE [call[p] EXCEPT !.after = @ \ {h}]]

(* A panic ends the thread.  Who waits for an answer of it gets 500 from   *)
(* the endpoint: the mailbox is closed.                                    *)
Crash(h, panic) ==
  /\ crashed' = [crashed EXCEPT ![h] = panic]
  /\ inbox' = [inbox EXCEPT ![h] = <<>>]
  /\ replying' = [replying EXCEPT ![h] = {}]
  /\ checked' = [checked EXCEPT ![h] = {}]
  /\ LET failed == {p \in Hosts : Waits(p) /\ call[p].to = h} IN
       call' = [p \in Hosts |->
         IF p = h THEN NoCall(h)
         ELSE IF p \in failed THEN [call[p] EXCEPT !.reply = "failure", !.after = {}]
         ELSE [call[p] EXCEPT !.after = @ \ failed]]

(***************************************************************************)
(* The Network serves its mailbox.                                         *)
(***************************************************************************)
Received(h, kind) == ThreadFree(h) /\ inbox[h] # <<>> /\ Head(inbox[h]).kind = kind
Consume(h) == inbox' = [inbox EXCEPT ![h] = Tail(@)]

Restored(h, p) ==
  [link EXCEPT ![h][p] = IF @ = "isolated" THEN "connected" ELSE @]

(* Boot: RaftSystemBuilder.build has the Network bind the endpoint, which  *)
(* Nodes of configured peers may delay, and then registers Raft.           *)
Bind(h) ==
  /\ Received(h, "bind")
  /\ boot' = [boot EXCEPT ![h] = "serving"]
  /\ Consume(h)
  /\ UNCHANGED <<registries, node, calls, crashed>>

SendRegisterRaft(h) ==
  /\ boot[h] = "serving" /\ Alive(h)
  /\ boot' = [boot EXCEPT ![h] = "registered"]
  /\ Put(h, Own(h, "registerRaft"))
  /\ UNCHANGED <<registries, node, calls, crashed>>

(* register_node: a Node is started, and the link restored.                *)
Register(h, p) ==
  /\ entry' = [entry EXCEPT ![h][p] = "running"]
  /\ link' = Restored(h, p)
  /\ node' = [node EXCEPT ![h][p] = IF @ = "none" \/ p = h THEN "connect" ELSE @]

RegistersPath(h, p) == Register(h, h)

(* connect_node_route takes the identifier from the body, where the peer   *)
(* puts its own; in the path it puts that of the host it asks.             *)
RegistersPeer(h, p) == Register(h, p)

(* ConnectNode.  A host that does not lead answers in the same poll, and so *)
(* does one that leads and lacks its own Node; one that has it answers     *)
(* after that Node has taken the change of the cluster.                    *)
HandleConnectNode(h) ==
  /\ Received(h, "connect")
  /\ LET request == Head(inbox[h]) IN
       /\ \/ entry[h][request.from] = "absent" /\ RegistersPeer(h, request.from)
          \/ entry[h][request.from] # "absent" /\ UNCHANGED <<entry, link, node>>
       /\ \/ request.live /\ Replied(request.from, "created") /\ UNCHANGED replying
          \/ /\ request.live /\ entry[h][h] # "running"
             /\ Replied(request.from, "failure") /\ UNCHANGED replying
          \/ /\ request.live /\ entry[h][h] = "running"
             /\ replying' = [replying EXCEPT ![h] = @ \cup {request}]
             /\ UNCHANGED call
          \/ ~request.live /\ UNCHANGED <<call, replying>>
  /\ Consume(h)
  /\ UNCHANGED <<boot, raftKnown, checked, crashed>>

CutOff(h, p) == link[h][h] = "isolated" \/ link[h][p] = "isolated"

DropsOrKeeps(h, request, refused) ==
  \/ /\ request.live /\ ~refused
     /\ replying' = [replying EXCEPT ![h] = @ \cup {request}]
     /\ UNCHANGED call
  \/ (~request.live \/ refused) /\ UNCHANGED <<call, replying>>

(* A Raft RPC is refused, or goes on to the host's own Node, whose answer  *)
(* is still to come.                                                       *)
RefusesOrKeeps(h, request, refused) ==
  \/ request.live /\ refused /\ Replied(request.from, "refusal") /\ UNCHANGED replying
  \/ /\ request.live /\ ~refused
     /\ replying' = [replying EXCEPT ![h] = @ \cup {request}]
     /\ UNCHANGED call
  \/ ~request.live /\ UNCHANGED <<call, replying>>

(* AppendEntries and Vote.                                                 *)
HandleRpc(h) ==
  /\ Received(h, "rpc")
  /\ LET request == Head(inbox[h]) IN
       RefusesOrKeeps(h, request, entry[h][h] # "running" \/ CutOff(h, request.from))
  /\ Consume(h)
  /\ UNCHANGED <<boot, registries, node, checked, crashed>>

(* ignore_in_isolation asks for an entry, and not for its Node.            *)
LetsThrough(h, target, leader) ==
  entry[h][target] # "absent" /\ link[h][target] # "isolated" /\ link[h][leader] # "isolated"

(* InstallSnapshot is checked when it is handled.  It goes on to the Node  *)
(* in a later poll, whether its sender still waits or not.                 *)
HandleSnapshot(h) ==
  /\ Received(h, "snapshot")
  /\ LET request == Head(inbox[h])
         passes == LetsThrough(h, h, request.from)
     IN /\ RefusesOrKeeps(h, request, ~passes)
        /\ checked' = IF passes THEN [checked EXCEPT ![h] = @ \cup {<<h, request.from>>}]
                      ELSE checked
  /\ Consume(h)
  /\ UNCHANGED <<boot, registries, node, crashed>>

HandleRegisterRaft(h) ==
  /\ Received(h, "registerRaft")
  /\ entry[h][h] # "absent"
  /\ raftKnown' = [raftKnown EXCEPT ![h] = TRUE]
  /\ Register(h, h)
  /\ Consume(h)
  /\ UNCHANGED <<boot, calls, crashed>>

RegisterRaftPanics(h) ==
  /\ Received(h, "registerRaft")
  /\ entry[h][h] = "absent"
  /\ raftKnown' = [raftKnown EXCEPT ![h] = TRUE]
  /\ Crash(h, "boot")
  /\ UNCHANGED <<boot, entry, link, node>>

(* The reports of the host's own Node.  Those of other Nodes are failures, *)
(* which change nothing.                                                   *)
HandleWeaklyConnectedUnchecked(h) ==
  /\ Received(h, "weak")
  /\ link' = [link EXCEPT ![h][h] = "isolated"]
  /\ Consume(h)
  /\ UNCHANGED <<boot, entry, raftKnown, node, calls, crashed>>

HandleWeaklyConnected(h) ==
  /\ Received(h, "weak")
  /\ link' = IF entry[h][h] = "absent" THEN link ELSE [link EXCEPT ![h][h] = "isolated"]
  /\ Consume(h)
  /\ UNCHANGED <<boot, entry, raftKnown, node, calls, crashed>>

HandleConnected(h) ==
  /\ Received(h, "connected")
  /\ link' = IF entry[h][h] = "absent" THEN link ELSE Restored(h, h)
  /\ Consume(h)
  /\ UNCHANGED <<boot, entry, raftKnown, node, calls, crashed>>

Serve(h) ==
  \/ Bind(h) \/ HandleConnectNode(h) \/ HandleRpc(h) \/ HandleSnapshot(h)
  \/ HandleRegisterRaft(h) \/ RegisterRaftPanics(h)
  \/ HandleWeaklyConnected(h) \/ HandleConnected(h)

(* DELETE of a node by a client.                                           *)
Disconnect(h, p) ==
  /\ boot[h] # "started" /\ ThreadFree(h) /\ entry[h][p] # "absent"
  /\ entry' = [entry EXCEPT ![h][p] = "absent"]
  /\ UNCHANGED <<boot, link, raftKnown, node, inbox, calls, crashed>>

(* The later poll of a snapshot that was let through.  The Node is taken   *)
(* from the entry without a look whether it is still there.                *)
HandOver(h, from) ==
  /\ ThreadFree(h) /\ <<h, from>> \in checked[h] /\ entry[h][h] = "running"
  /\ checked' = [checked EXCEPT ![h] = @ \ {<<h, from>>}]
  /\ UNCHANGED <<boot, registries, node, inbox, call, replying, crashed>>

HandOverPanics(h) ==
  /\ ThreadFree(h)
  /\ \E handed \in checked[h] : entry[h][handed[1]] # "running"
  /\ Crash(h, "snapshot")
  /\ UNCHANGED <<boot, registries, node>>

(***************************************************************************)
(* Answers that come in a later poll.                                      *)
(***************************************************************************)
AnswerWith(h, request, reply) ==
  /\ ThreadFree(h) /\ request \in replying[h]
  /\ replying' = [replying EXCEPT ![h] = @ \ {request}]
  /\ Replied(request.from, reply)
  /\ UNCHANGED <<boot, registries, node, inbox, checked, crashed>>

Acknowledge(h, request) == request.kind = "connect" /\ AnswerWith(h, request, "created")

(* The own entry was removed, and its Node stopped before it answered.     *)
FailConnect(h, request) ==
  /\ request.kind = "connect" /\ entry[h][h] = "absent"
  /\ AnswerWith(h, request, "failure")

AtRaft(h, request) ==
  \/ request.kind = "rpc"
  \/ request.kind = "snapshot" /\ <<h, request.from>> \notin checked[h]

RaftResponds(h, request) == AtRaft(h, request) /\ AnswerWith(h, request, "response")

(* An error of Raft is answered as a refusal is.                           *)
RaftFails(h, request) == AtRaft(h, request) /\ AnswerWith(h, request, "refusal")

Answer(h) ==
  \E request \in replying[h] :
    \/ Acknowledge(h, request) \/ FailConnect(h, request)
    \/ RaftResponds(h, request) \/ RaftFails(h, request)

(***************************************************************************)
(* The Nodes.                                                              *)
(***************************************************************************)
(* RemoteNode.connect.                                                     *)
ConnectRemote(h, p) ==
  /\ ThreadFree(h) /\ p # h /\ node[h][p] = "connect"
  /\ CallPeer(h, p, "connect")
  /\ node' = [node EXCEPT ![h][p] = "calling"]
  /\ UNCHANGED <<boot, registries, replying, checked, crashed>>

(* No reply is one that RemoteNode.connect can read: the endpoint answers  *)
(* with an empty body or an error text.  The Node tries again later.       *)
ConnectFails(h) ==
  /\ Alive(h) /\ call[h].kind = "connect" /\ call[h].reply # "awaited"
  /\ node' = [node EXCEPT ![h][call[h].to] = "retry"]
  /\ call' = [call EXCEPT ![h] = NoCall(h)]
  /\ UNCHANGED <<boot, registries, inbox, replying, checked, crashed>>

RetryConnect(h, p) ==
  /\ ThreadFree(h) /\ node[h][p] = "retry"
  /\ node' = [node EXCEPT ![h][p] = "connect"]
  /\ UNCHANGED <<boot, registries, inbox, calls, crashed>>

(* LocalNode.connect succeeds, and is reported in two messages.            *)
ConnectLocal(h) ==
  /\ ThreadFree(h) /\ node[h][h] = "connect"
  /\ node' = [node EXCEPT ![h][h] = "weak"]
  /\ Put(h, Own(h, "weak"))
  /\ UNCHANGED <<boot, registries, calls, crashed>>

ReportConnected(h) ==
  /\ Alive(h) /\ node[h][h] = "weak"
  /\ node' = [node EXCEPT ![h][h] = "linked"]
  /\ Put(h, Own(h, "connected"))
  /\ UNCHANGED <<boot, registries, calls, crashed>>

(* Raft sends an RPC, and the Network hands it to the Node of the peer.    *)
SendRpc(h, p) ==
  /\ h \in RpcSenders /\ raftKnown[h] /\ ThreadFree(h)
  /\ p # h /\ entry[h][p] = "running" /\ ~CutOff(h, p)
  /\ CallPeer(h, p, "rpc")
  /\ UNCHANGED <<boot, registries, node, replying, checked, crashed>>

(* Raft sends a snapshot, a chunk to one peer at a time: checked first,    *)
(* handed to the Node of the peer in a later poll.                         *)
CheckSnapshot(h, p) ==
  /\ h \in Snapshotters /\ raftKnown[h] /\ ThreadFree(h)
  /\ p # h /\ <<p, h>> \notin checked[h] /\ LetsThrough(h, p, h)
  /\ checked' = [checked EXCEPT ![h] = @ \cup {<<p, h>>}]
  /\ UNCHANGED <<boot, registries, node, inbox, call, replying, crashed>>

SendSnapshot(h, p) ==
  /\ ThreadFree(h) /\ p # h /\ <<p, h>> \in checked[h] /\ entry[h][p] = "running"
  /\ CallPeer(h, p, "snapshot")
  /\ checked' = [checked EXCEPT ![h] = @ \ {<<p, h>>}]
  /\ UNCHANGED <<boot, registries, node, replying, crashed>>

(* A chunk above the JSON limit of the peer's endpoint is rejected there,  *)
(* and never seen by the Network.                                          *)
SendLargeChunk(h, p) ==
  /\ ThreadFree(h) /\ p # h /\ <<p, h>> \in checked[h] /\ entry[h][p] = "running"
  /\ boot[p] # "started"
  /\ call' = [call EXCEPT ![h] =
       [kind |-> "snapshot", to |-> p, reply |-> "tooLarge", after |-> {}]]
  /\ checked' = [checked EXCEPT ![h] = @ \ {<<p, h>>}]
  /\ UNCHANGED <<boot, registries, node, inbox, replying, crashed>>

FatalWithTimeout == {"refusal", "failure", "tooLarge", "timeout"}
Fatal == {"refusal", "failure", "tooLarge"}

(* A timeout and a failed connection are logged.                           *)
RpcEnds(h) ==
  /\ Alive(h) /\ call[h].kind \in Rpcs /\ call[h].reply \notin Fatal \cup {"awaited"}
  /\ call' = [call EXCEPT ![h] = NoCall(h)]
  /\ UNCHANGED <<boot, registries, node, inbox, replying, checked, crashed>>

(* A reply that is not the JSON of a response is a panic.                  *)
RpcPanics(h) ==
  /\ Alive(h) /\ call[h].kind \in Rpcs /\ call[h].reply \in Fatal
  /\ Crash(h, "rpc")
  /\ UNCHANGED <<boot, registries, node>>

(* The timeout of the HTTP client.  All requests have the same, so the one *)
(* that waited longest is the first to end.  The peer's endpoint notices,  *)
(* and takes the request out of the mailbox, or does not.                  *)
RequestOf(h) == [kind |-> call[h].kind, from |-> h, live |-> TRUE]

Orphans(h, p) == {i \in DOMAIN inbox[p] : inbox[p][i].from = h /\ ~inbox[p][i].live}

NeverTimesOut(h) == FALSE /\ UNCHANGED vars

TimesOut(h) ==
  /\ Waits(h) /\ call[h].after = {}
  /\ Replied(h, "timeout")
  /\ LET p == call[h].to IN
       \/ /\ replying' = [replying EXCEPT ![p] = @ \ {RequestOf(h)}]
          /\ RequestOf(h) \in replying[p] /\ UNCHANGED inbox
       \/ /\ \E i \in DOMAIN inbox[p] :
               /\ inbox[p][i] = RequestOf(h)
               /\ \/ inbox' = [inbox EXCEPT ![p] = RemoveAt(@, i)]
                  \/ /\ Cardinality(Orphans(h, p)) < MaxOrphans[h]
                     /\ inbox' = [inbox EXCEPT ![p][i].live = FALSE]
          /\ UNCHANGED replying
  /\ UNCHANGED <<boot, registries, node, checked, crashed>>

(* A poll that was blocked goes on once its reply is there.                *)
Resume(h) == ReportConnected(h) \/ ConnectFails(h) \/ RpcEnds(h) \/ RpcPanics(h)

HostStep(h) ==
  \/ SendRegisterRaft(h) \/ Serve(h) \/ Answer(h)
  \/ ConnectLocal(h) \/ Resume(h) \/ TimesOut(h) \/ HandOverPanics(h)

PeerStep(h, p) ==
  \/ ConnectRemote(h, p) \/ RetryConnect(h, p) \/ Disconnect(h, p) \/ HandOver(h, p)
  \/ SendRpc(h, p) \/ CheckSnapshot(h, p) \/ SendSnapshot(h, p) \/ SendLargeChunk(h, p)

Next ==
  \/ \E h \in Hosts : HostStep(h)
  \/ \E h, p \in Hosts : PeerStep(h, p)

(* Timeouts go off, and a thread that is free again and again polls, in    *)
(* the order of their waking, whoever has something to do: where RPCs      *)
(* arrive, they do not for ever use up the turns of the joins.  Nothing is *)
(* assumed of Raft, nor of the answers that depend on it.                  *)
Fairness ==
  /\ \A h \in Hosts : WF_vars(TimesOut(h)) /\ WF_vars(Resume(h))
  /\ \A h \in Hosts : SF_vars(Serve(h))
  /\ \A s \in RpcSenders : \A h \in Hosts \ {s} : SF_vars(HandleConnectNode(h))
  /\ \A h \in Hosts : \A p \in Hosts \ {h} :
       SF_vars(ConnectRemote(h, p) \/ RetryConnect(h, p))

Spec == Init /\ [][Next]_vars
FairSpec == Spec /\ Fairness

(***************************************************************************)
(* Properties.                                                             *)
(***************************************************************************)
(* Type invariant.                                                         *)
TypeOK ==
  /\ boot \in [Hosts -> Boots]
  /\ entry \in [Hosts -> [Hosts -> {"absent", "known", "running"}]]
  /\ link \in [Hosts -> [Hosts -> {"untracked", "isolated", "connected"}]]
  /\ raftKnown \in [Hosts -> BOOLEAN]
  /\ node \in [Hosts -> [Hosts -> NodeSteps]]
  /\ inbox \in [Hosts -> Seq(Requests \cup OwnMessages)]
  /\ replying \in [Hosts -> SUBSET Requests]
  /\ call \in [Hosts -> Calls]
  /\ checked \in [Hosts -> SUBSET (Hosts \X Hosts)]
  /\ crashed \in [Hosts -> {"no", "boot", "rpc", "snapshot"}]

(* No host waits for a reply that nobody owes it, and no Network works for *)
(* a reply that nobody waits for: a live request is in one place, once,    *)
(* and its host waits for it.  Replies, timeouts, cancelled requests and   *)
(* the end of a peer's thread keep the two sides of every call together.   *)
Owing(p) == {i \in DOMAIN inbox[p] : inbox[p][i].live}

CallsAreOwed ==
  \A h, p \in Hosts :
    LET queued == {i \in Owing(p) : inbox[p][i].from = h}
        handled == {request \in replying[p] : request.from = h}
    IN IF Waits(h) /\ call[h].to = p
         THEN \/ handled = {} /\ \E i \in queued : queued = {i} /\ inbox[p][i] = RequestOf(h)
              \/ handled = {RequestOf(h)} /\ queued = {}
         ELSE queued = {} /\ handled = {}

(* However many hosts wait for each other, in circles too, each of them    *)
(* waits at most for one whose timeout can go off now: of the calls under  *)
(* way none is older than that host's, and its request still is where its  *)
(* timeout finds it.                                                       *)
CanTimeOut(h) ==
  /\ Waits(h) /\ call[h].after = {}
  /\ LET p == call[h].to IN
       \/ RequestOf(h) \in replying[p]
       \/ \E i \in DOMAIN inbox[p] : inbox[p][i] = RequestOf(h)

WaitsCanEnd ==
  \A h \in Hosts : Waits(h) => \E g \in call[h].after \cup {h} : CanTimeOut(g)

(* Hosts that wait for each other do not wait for ever.                    *)
WaitsEnd == \A h \in Hosts : Waits(h) ~> ~Waits(h)

(* A host that has a Node for a peer becomes known to that peer, again     *)
(* after every removal, although no reply ever tells it so: for as long as *)
(* the network does not fail to deliver to a thread that is free.  Hosts   *)
(* that block each other, and requests that peers time out of, do not      *)
(* prevent it for ever, nor do RPCs.  It rests on the identifier in the    *)
(* body of the request being the one that is registered; the one in the    *)
(* path, which connect_node_route logs as the one that is used, is that of *)
(* the host that is asked.                                                 *)
TimesOutUnserved(h) == TimesOut(h) /\ ~Waits(call[h].to)

JoinsSpread ==
  <>[][\A h \in Hosts : ~TimesOutUnserved(h)]_vars
    => \A h \in Hosts : \A p \in Hosts \ {h} :
         node[h][p] # "none" ~> (entry[p][h] # "absent" \/ ~Alive(p) \/ ~Alive(h))

(* Once every host has booted, no reply that is on its way is fatal and    *)
(* whoever has a snapshot to hand over has the Node to hand it to, all     *)
(* hosts stay up, isolate no node and refuse no RPC, unless one of four    *)
(* things happens: the removal of a host's own entry, the removal of a     *)
(* peer between the check of a snapshot for it and the next poll, an error *)
(* of Raft, a chunk above the JSON limit.  A connection that fails, a      *)
(* timeout, an orphaned request and the removal of a peer at any other     *)
(* time do it no harm, in any order.                                       *)
Steady(h) ==
  /\ Alive(h) /\ boot[h] = "registered" /\ raftKnown[h]
  /\ entry[h][h] = "running" /\ node[h][h] = "linked"
  /\ \A p \in Hosts : entry[h][p] # "known" /\ link[h][p] # "isolated"
  /\ \A i \in DOMAIN inbox[h] : inbox[h][i].kind \in RequestKinds
  /\ ~(call[h].kind \in Rpcs /\ call[h].reply \in Fatal)
  /\ \A handed \in checked[h] : entry[h][handed[1]] = "running"

AllSteady == \A h \in Hosts : Steady(h)

Disturbs(h) ==
  \/ Disconnect(h, h)
  \/ \E handed \in checked[h] : Disconnect(h, handed[1])
  \/ \E p \in Hosts : SendLargeChunk(h, p)
  \/ \E r \in Requests : RaftFails(h, r)

SteadyStaysUp ==
  [][AllSteady /\ (\A h \in Hosts : ~Disturbs(h)) => AllSteady']_vars

(* Each host keeps the registry's promise to those that route by it, with  *)
(* a thread that is blocked most of the time.                              *)
R(h) == INSTANCE Registry WITH
  NodeIds   <- Hosts,
  Self      <- h,
  Reports   <- {},
  entry     <- entry[h],
  link      <- link[h],
  raftKnown <- raftKnown[h],
  metrics   <- {},
  crashed   <- crashed[h] = "boot"

HostsImplementRegistry ==
  /\ \A h \in Hosts : R(h)!RegistryInit
  /\ [][\A h \in Hosts : R(h)!RegistryNext \/ UNCHANGED R(h)!registryVars]_vars

(* The comment of RaftAppendEntriesResponse: "The Raft spec assigns no      *)
(* significance to failures during the handling or sending of RPCs".       *)
RpcFailureIsHarmless == \A h \in Hosts : crashed[h] # "rpc"
=============================================================================
