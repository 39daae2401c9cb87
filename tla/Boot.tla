-------------------------------- MODULE Boot --------------------------------
(***************************************************************************)
(* From the sources of its configuration to an initialised Raft, for one   *)
(* host.  The thread that builds the system waits while the Network, on a  *)
(* thread of its own, binds the endpoint; from then on the Network serves  *)
(* peers and clients as well.  A node is named by its identifier.          *)
(***************************************************************************)
EXTENDS Configuration, Sequences

CONSTANTS
  Nodes,          \* the nodes that are configured or connect
  Applications, References, Environments,  \* the sources there may be
  MaxRequests,    \* bound: messages in the mailbox when one is added
  None

ASSUME BootAssumption ==
  /\ Host \in Nodes /\ MaxRequests \in Nat
  /\ \A source \in ((Applications \cup References) \ {Missing}) \cup Environments :
       "nodes" \in DOMAIN source => source.nodes \subseteq Nodes

VARIABLES
  given,      \* the builder's settings, the sources, and the address
  config,     \* the Configuration, once it is loaded
  main,       \* how far the building thread got
  reply,      \* the Network's reply to the request that thread waits for
  mailbox,    \* of the Network
  network,    \* whether the Network runs
  entries,    \* the nodes in its registry
  serving,    \* whether the endpoint is bound
  raftKnown,  \* whether the Network has Raft's address
  raft,       \* whether the Raft actor exists
  system,     \* how far RaftSystem.started got
  seeds       \* the nodes the Network answered it with

registry == <<entries, serving, raftKnown>>
start == <<system, seeds>>
vars == <<given, config, main, reply, mailbox, network, registry, raft, start>>

Inputs ==
  [configured : BOOLEAN, storage : BOOLEAN, network : BOOLEAN, portFree : BOOLEAN,
   application : Applications, reference : References, environment : Environments]

MainSteps == {"start", "loaded", "binding", "registering", "built", "failed", "panicked"}
SystemSteps == {"none", "asking", "initialising", "initialised", "failed"}

Init ==
  /\ given \in Inputs
  /\ config = None /\ main = "start" /\ reply = "none" /\ mailbox = <<>>
  /\ network = IF given.network THEN "running" ELSE "none"
  /\ entries = {Host}
  /\ serving = FALSE /\ raftKnown = FALSE /\ raft = "none"
  /\ system = "none" /\ seeds = {}

(***************************************************************************)
(* The building thread.                                                    *)
(***************************************************************************)
Merge == Loaded(given.application, given.reference, given.environment)

FilesFound == Found(given.application, given.reference)

LoadUnconverted ==
  /\ main = "start" /\ FilesFound /\ Complete(Merge) /\ Parses(Merge)
  /\ config' = Merge
  /\ main' = "loaded"
  /\ UNCHANGED <<given, reply, mailbox, network, registry, raft, start>>

Load ==
  /\ main = "start" /\ FilesFound /\ Complete(Merge) /\ Parses(Merge)
  /\ config' = FromSchema(Merge)
  /\ main' = "loaded"
  /\ UNCHANGED <<given, reply, mailbox, network, registry, raft, start>>

End(step) ==
  /\ main' = step
  /\ UNCHANGED <<given, config, reply, mailbox, network, registry, raft, start>>

LoadFails == main = "start" /\ FilesFound /\ ~Complete(Merge) /\ End("failed")

LoadPanics ==
  /\ main = "start"
  /\ FilesFound => Complete(Merge) /\ ~Parses(Merge)
  /\ End("panicked")

(* check_requirements.                                                     *)
Prepared == given.configured /\ given.storage
BuildFails == main = "loaded" /\ ~Prepared /\ End("failed")

(* A Network of its own needs the host's information.                      *)
HostPanics ==
  main = "loaded" /\ Prepared /\ ~given.network /\ ~HostListed(config) /\ End("panicked")

StartNetwork ==
  /\ main = "loaded" /\ Prepared /\ (given.network \/ HostListed(config))
  /\ network' = "running"
  /\ entries' = IF given.network THEN entries ELSE entries \cup config.seed_nodes
  /\ UNCHANGED <<given, config, reply, serving, raftKnown, start>>

(* build_raft: Raft's configuration is made once the Network is started.   *)
ConfigPanics ==
  /\ StartNetwork /\ ~Validates(config)
  /\ main' = "panicked"
  /\ UNCHANGED <<raft, mailbox>>

CreateRaftUnchecked ==
  /\ StartNetwork
  /\ raft' = "created" /\ main' = "binding"
  /\ mailbox' = Append(mailbox, "bind")

CreateRaft ==
  /\ StartNetwork /\ Validates(config)
  /\ raft' = "created" /\ main' = "binding"
  /\ mailbox' = Append(mailbox, "bind")

(* A log line of bind_raft_endpoint unwraps the host's information, if the *)
(* log is enabled: with a Network that was given it may be missing.        *)
LogPanics ==
  /\ StartNetwork /\ Validates(config) /\ ~HostListed(config)
  /\ raft' = "created" /\ main' = "panicked"
  /\ UNCHANGED mailbox

RegisterAnyway ==
  /\ main = "binding" /\ reply # "none"
  /\ main' = "registering" /\ reply' = "none"
  /\ mailbox' = Append(mailbox, "registerRaft")
  /\ UNCHANGED <<given, config, network, registry, raft, start>>

RegisterRaft ==
  /\ main = "binding" /\ reply = "ok"
  /\ main' = "registering" /\ reply' = "none"
  /\ mailbox' = Append(mailbox, "registerRaft")
  /\ UNCHANGED <<given, config, network, registry, raft, start>>

StepFails ==
  /\ main \in {"binding", "registering"} /\ reply \in {"error", "closed"}
  /\ End("failed")

Build ==
  /\ main = "registering" /\ reply = "ok"
  /\ End(IF HostListed(config) THEN "built" ELSE "failed")

(***************************************************************************)
(* The Network.                                                            *)
(***************************************************************************)
Serves(msg) ==
  network = "running" /\ mailbox # <<>> /\ Head(mailbox) = msg /\ mailbox' = Tail(mailbox)

HandleBind ==
  /\ Serves("bind")
  /\ serving' = given.portFree
  /\ reply' = IF given.portFree THEN "ok" ELSE "error"
  /\ UNCHANGED <<given, config, main, network, entries, raftKnown, raft, start>>

(* The reply comes from the host's Node, which may be stopped by then.     *)
HandleRegisterRaft ==
  /\ Serves("registerRaft") /\ Host \in entries
  /\ raftKnown' = TRUE
  /\ reply' \in {"ok", "error"}
  /\ UNCHANGED <<given, config, main, network, entries, serving, raft, start>>

(* Its thread ends, and whoever waits for it is told so.                   *)
NetworkHangs ==
  /\ network = "running" /\ mailbox # <<>> /\ Head(mailbox) = "registerRaft"
  /\ Host \notin entries
  /\ raftKnown' = TRUE /\ network' = "dead" /\ mailbox' = <<>>
  /\ UNCHANGED <<given, config, main, reply, entries, serving, raft, start>>

NetworkPanics ==
  /\ network = "running" /\ mailbox # <<>> /\ Head(mailbox) = "registerRaft"
  /\ Host \notin entries
  /\ raftKnown' = TRUE /\ network' = "dead" /\ mailbox' = <<>>
  /\ reply' = "closed"
  /\ UNCHANGED <<given, config, main, entries, serving, raft, start>>

(* ConnectNode of a peer, and DisconnectNode of any node.                  *)
Request ==
  /\ serving /\ network = "running" /\ Len(mailbox) < MaxRequests
  /\ mailbox' = Append(mailbox, "request")
  /\ UNCHANGED <<given, config, main, reply, network, registry, raft, start>>

HandleRequest ==
  /\ Serves("request")
  /\ \/ \E peer \in Nodes \ {Host} : entries' = entries \cup {peer}
     \/ \E node \in Nodes : entries' = entries \ {node}
  /\ UNCHANGED <<given, config, main, reply, network, serving, raftKnown, raft, start>>

(***************************************************************************)
(* RaftSystem.started, for the system that was built.                      *)
(***************************************************************************)
AskNodes ==
  /\ main = "built" /\ system = "none"
  /\ system' = "asking"
  /\ mailbox' = Append(mailbox, "getNodes")
  /\ UNCHANGED <<given, config, main, reply, network, registry, raft, seeds>>

HandleGetNodes ==
  /\ Serves("getNodes")
  /\ seeds' = entries /\ system' = "initialising"
  /\ UNCHANGED <<given, config, main, reply, network, registry, raft>>

(* InitWithConfig.  Raft refuses it once it has heard of a leader.         *)
InitRaft ==
  /\ system = "initialising"
  /\ system' \in {"initialised", "failed"}
  /\ UNCHANGED <<given, config, main, reply, mailbox, network, registry, raft, seeds>>

MainStep ==
  \/ Load \/ LoadFails \/ LoadPanics \/ BuildFails \/ HostPanics \/ ConfigPanics
  \/ CreateRaft \/ LogPanics \/ RegisterRaft \/ StepFails \/ Build

NetworkStep ==
  HandleBind \/ HandleRegisterRaft \/ NetworkPanics \/ HandleRequest \/ HandleGetNodes

Next == MainStep \/ NetworkStep \/ Request \/ AskNodes \/ InitRaft

(* Every thread goes on when it has something to do.                       *)
Fairness == WF_vars(MainStep) /\ WF_vars(NetworkStep) /\ WF_vars(InitRaft)

Spec == Init /\ [][Next]_vars
FairSpec == Spec /\ Fairness

(***************************************************************************)
(* Properties.                                                             *)
(***************************************************************************)
(* Type invariant.                                                         *)
TypeOK ==
  /\ given \in Inputs
  /\ config # None => DOMAIN config =
       (Keys \ {"nodes", "discovery_host_address"}) \cup {"seed_nodes", "discovery_host"}
  /\ main \in MainSteps /\ system \in SystemSteps
  /\ reply \in {"none", "ok", "error", "closed"}
  /\ mailbox \in Seq({"bind", "registerRaft", "request", "getNodes"})
  /\ network \in {"none", "running", "dead"} /\ raft \in {"none", "created"}
  /\ entries \subseteq Nodes /\ seeds \subseteq Nodes
  /\ serving \in BOOLEAN /\ raftKnown \in BOOLEAN

(* A build that succeeds has a Network that runs, serves its endpoint and  *)
(* hands RPCs to Raft, whatever peers and clients asked for meanwhile, and *)
(* whichever of its steps failed.                                          *)
BuiltIsServed ==
  main = "built" => network = "running" /\ serving /\ raftKnown /\ raft = "created"

(* Nothing listens, and nobody is told of a Raft, for a host that Raft has *)
(* no valid configuration for: election timeouts that wrap to the wrong    *)
(* order are found before the port is bound.  One that wraps to a value in *)
(* order is served.                                                        *)
InvalidNeverServes ==
  serving \/ raftKnown =>
    IntoRaft(config).election_timeout_min < IntoRaft(config).election_timeout_max

(* Whoever waits for the Network has its reply, or a request of its own in *)
(* the mailbox of a Network that runs: no failed bind, no removal of the   *)
(* host's own entry while the build is under way, and no panic of the      *)
(* Network's thread leaves the building thread or RaftSystem.started       *)
(* waiting for an answer that nobody will give.                            *)
Queued(msg) == \E i \in DOMAIN mailbox : mailbox[i] = msg

WaitsAreOwed ==
  /\ main = "binding" /\ reply = "none" => network = "running" /\ Queued("bind")
  /\ main = "registering" /\ reply = "none" => network = "running" /\ Queued("registerRaft")
  /\ system = "asking" => network = "running" /\ Queued("getNodes")

(* The building thread never waits for ever, also if the Network's thread  *)
(* ends under its feet, and RaftSystem.started comes to an end.            *)
BuildReturns ==
  /\ main \in {"binding", "registering"} ~> main \in {"built", "failed"}
  /\ system = "asking" ~> system \in {"initialised", "failed"}
=============================================================================
