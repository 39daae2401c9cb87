----------------------------- MODULE Boot_proofs -----------------------------
(***************************************************************************)
(* Proofs about Boot, for every set of configuration sources and nodes and *)
(* any number of requests in the mailbox.                                  *)
(***************************************************************************)
EXTENDS Boot, TLAPS

OnlyOnce(msg) ==
  \A i, j \in DOMAIN mailbox : mailbox[i] = msg /\ mailbox[j] = msg => i = j

Messages == {"bind", "registerRaft", "request", "getNodes"}

(* The configuration's nodes are nodes, once there is a configuration.     *)
Configured == main \in {"start", "failed", "panicked"} \/ config.seed_nodes \subseteq Nodes

(* Each of the two requests of the building thread is in the mailbox once, *)
(* while the thread waits for its reply.                                   *)
BindAwaited == Queued("bind") => main = "binding" /\ reply = "none"
RegisterAwaited == Queued("registerRaft") => main = "registering" /\ reply = "none"

(* What has been done for the thread to be where it is.                    *)
Bound == main = "binding" /\ reply = "ok" => serving
Created == main \in {"binding", "registering", "built"} => raft = "created"
Serving == main \in {"registering", "built"} => serving
Known == main = "built" \/ (main = "registering" /\ reply = "ok") => raftKnown
Alive == main = "built" \/ (main \in {"binding", "registering"} /\ reply # "closed")
           => network = "running"

(* Nothing is served or registered before Raft's configuration is made.    *)
Valid ==
  serving \/ raftKnown \/ main \in {"binding", "registering", "built"} => Validates(config)
Fresh == main \in {"start", "loaded"} => ~serving /\ ~raftKnown /\ reply = "none"

BootInv ==
  /\ TypeOK /\ Configured
  /\ BindAwaited /\ OnlyOnce("bind") /\ RegisterAwaited /\ OnlyOnce("registerRaft")
  /\ Bound /\ Created /\ Serving /\ Known /\ Alive /\ Valid /\ Fresh
(***************************************************************************)
(* The mailbox.                                                            *)
(***************************************************************************)
LEMMA Appended ==
  ASSUME mailbox \in Seq(Messages), NEW m \in Messages, mailbox' = Append(mailbox, m)
  PROVE  /\ mailbox' \in Seq(Messages)
         /\ \A k : Queued(k)' => Queued(k) \/ k = m
         /\ \A k : OnlyOnce(k) /\ (k = m => ~Queued(k)) => OnlyOnce(k)'
<1>1. /\ mailbox' \in Seq(Messages)
      /\ DOMAIN mailbox = 1..Len(mailbox) /\ DOMAIN mailbox' = 1..(Len(mailbox) + 1)
      /\ \A i \in 1..Len(mailbox) : mailbox'[i] = mailbox[i]
      /\ mailbox'[Len(mailbox) + 1] = m /\ Len(mailbox) \in Nat
  OBVIOUS
<1>2. \A i \in DOMAIN mailbox' : i \in DOMAIN mailbox \/ i = Len(mailbox) + 1
  BY <1>1
<1> QED BY <1>1, <1>2 DEF Queued, OnlyOnce

LEMMA Served ==
  ASSUME mailbox \in Seq(Messages), NEW m, Serves(m)
  PROVE  /\ mailbox' \in Seq(Messages) /\ Queued(m)
         /\ \A k : Queued(k)' => Queued(k)
         /\ \A k : OnlyOnce(k) => OnlyOnce(k)'
         /\ OnlyOnce(m) => ~Queued(m)'
<1>1. /\ mailbox' \in Seq(Messages) /\ 1 \in DOMAIN mailbox /\ mailbox[1] = m
      /\ DOMAIN mailbox' \subseteq Nat \ {0}
      /\ \A i \in DOMAIN mailbox' : i + 1 \in DOMAIN mailbox /\ mailbox'[i] = mailbox[i + 1]
  BY DEF Serves
<1>2. \A i \in DOMAIN mailbox' : i + 1 # 1
  BY <1>1
<1>3. \A i, j \in DOMAIN mailbox' : i + 1 = j + 1 => i = j
  BY <1>1
<1> QED BY <1>1, <1>2, <1>3 DEF Queued, OnlyOnce

LEMMA Emptied ==
  ASSUME mailbox' = <<>>
  PROVE  /\ mailbox' \in Seq(Messages) /\ \A k : ~Queued(k)' /\ OnlyOnce(k)'
BY DEF Queued, OnlyOnce

(* A key of a merged configuration comes from one of its sources.          *)
LEMMA MergedNodes ==
  ASSUME given \in Inputs, FilesFound, Complete(Merge)
  PROVE  Merge.nodes \subseteq Nodes
<1>1. /\ given.application \in Applications /\ given.reference \in References
      /\ given.environment \in Environments
      /\ given.application # Missing /\ given.reference # Missing
  BY DEF Inputs, FilesFound, Found
<1>2. "nodes" \in DOMAIN Merge
  BY DEF Complete, Keys
<1> QED BY <1>1, <1>2, BootAssumption DEF BootAssumption, Merge, Loaded, Merged, Empty

LEMMA BootInvInit == Init => BootInv
<1> SUFFICES ASSUME Init PROVE BootInv
  OBVIOUS
<1>1. TypeOK
  <2>1. given \in Inputs /\ config = None /\ main = "start" /\ reply = "none"
        /\ serving = FALSE /\ raftKnown = FALSE /\ raft = "none" /\ system = "none"
    BY DEF Init
  <2>2. network \in {"none", "running", "dead"}
    BY DEF Init
  <2>3. entries \subseteq Nodes /\ seeds \subseteq Nodes
    BY BootAssumption DEF BootAssumption, Init
  <2>4. mailbox \in Seq({"bind", "registerRaft", "request", "getNodes"})
    BY DEF Init
  <2> QED
    BY <2>1, <2>2, <2>3, <2>4 DEF TypeOK, MainSteps, SystemSteps
<1>2. \A k : ~Queued(k) /\ OnlyOnce(k)
  BY DEF Init, Queued, OnlyOnce
<1> QED
  BY <1>1, <1>2
  DEF Init, BootInv, Configured, BindAwaited, RegisterAwaited, Bound, Created, Serving,
      Known, Alive, Valid, Fresh

(***************************************************************************)
(* The building thread.                                                    *)
(***************************************************************************)
(* A step that leaves the mailbox and the Network alone preserves the      *)
(* invariant unless it goes on to what needs more.                         *)
LEMMA MainStepInv == BootInv /\ MainStep => BootInv'
<1> SUFFICES ASSUME BootInv, MainStep PROVE BootInv'
  OBVIOUS
<1> USE DEF BootInv
<1>1. CASE Load
  <2>1. config'.seed_nodes \subseteq Nodes
    BY <1>1, MergedNodes DEF Load, FromSchema, TypeOK
  <2>2. TypeOK'
    BY <1>1 DEF Load, FromSchema, TypeOK, MainSteps, Keys, registry, start
  <2> QED
    BY <1>1, <2>1, <2>2
    DEF Load, registry, start, Configured, BindAwaited, RegisterAwaited, OnlyOnce, Queued,
        Bound, Created, Serving, Known, Alive, Valid, Fresh
<1>2. ASSUME NEW s \in {"failed", "panicked"}, End(s),
             main = "loaded" \/ main = "start" \/ reply # "none"
      PROVE  BootInv'
  BY <1>2
  DEF End, TypeOK, MainSteps, registry, start, Configured, BindAwaited, RegisterAwaited, OnlyOnce,
      Queued, Bound, Created, Serving, Known, Alive, Valid, Fresh
<1>3. CASE LoadFails \/ LoadPanics \/ BuildFails \/ HostPanics \/ StepFails
  <2>1. PICK s \in {"failed", "panicked"} :
          /\ End(s)
          /\ main = "loaded" \/ main = "start" \/ reply # "none"
    BY <1>3 DEF LoadFails, LoadPanics, BuildFails, HostPanics, StepFails
  <2> QED BY <1>2, <2>1
<1>4. ASSUME StartNetwork
      PROVE  /\ main = "loaded" /\ reply = "none" /\ ~serving /\ ~raftKnown
             /\ network' = "running" /\ entries' \subseteq Nodes
             /\ UNCHANGED <<given, config, reply, serving, raftKnown, system, seeds>>
  BY <1>4 DEF StartNetwork, TypeOK, Configured, Fresh, start
<1>5. CASE ConfigPanics
  BY <1>4, <1>5
  DEF ConfigPanics, TypeOK, MainSteps, Configured, BindAwaited, RegisterAwaited, OnlyOnce,
      Queued, Bound, Created, Serving, Known, Alive, Valid, Fresh
<1>6. CASE LogPanics
  BY <1>4, <1>6
  DEF LogPanics, TypeOK, MainSteps, Configured, BindAwaited, RegisterAwaited, OnlyOnce,
      Queued, Bound, Created, Serving, Known, Alive, Valid, Fresh
<1>7. CASE CreateRaft
  <2>1. /\ mailbox' \in Seq(Messages)
        /\ \A k : Queued(k)' => Queued(k) \/ k = "bind"
        /\ \A k : OnlyOnce(k) /\ (k = "bind" => ~Queued(k)) => OnlyOnce(k)'
    BY <1>7, Appended DEF CreateRaft, TypeOK, Messages
  <2>2. ~Queued("bind") /\ ~Queued("registerRaft")
    BY <1>4, <1>7 DEF CreateRaft, BindAwaited, RegisterAwaited
  <2>3. TypeOK'
    BY <1>4, <1>7, <2>1 DEF CreateRaft, TypeOK, MainSteps, Messages
  <2>4. Validates(config)'
    BY <1>4, <1>7 DEF CreateRaft, Validates, IntoRaft, U16
  <2> QED
    BY <1>4, <1>7, <2>1, <2>2, <2>3, <2>4
    DEF CreateRaft, Configured, BindAwaited, RegisterAwaited, Bound, Created, Serving, Known,
        Alive, Valid, Fresh
<1>8. CASE RegisterRaft
  <2>1. /\ mailbox' \in Seq(Messages)
        /\ \A k : Queued(k)' => Queued(k) \/ k = "registerRaft"
        /\ \A k : OnlyOnce(k) /\ (k = "registerRaft" => ~Queued(k)) => OnlyOnce(k)'
    BY <1>8, Appended DEF RegisterRaft, TypeOK, Messages
  <2>2. ~Queued("bind") /\ ~Queued("registerRaft")
    BY <1>8 DEF RegisterRaft, BindAwaited, RegisterAwaited
  <2>3. TypeOK'
    BY <1>8, <2>1 DEF RegisterRaft, TypeOK, MainSteps, Messages, registry, start
  <2> QED
    BY <1>8, <2>1, <2>2, <2>3
    DEF RegisterRaft, registry, Configured, BindAwaited, RegisterAwaited, Bound, Created, Serving,
        Known, Alive, Valid, Fresh
<1>9. CASE Build
  BY <1>9
  DEF Build, End, TypeOK, MainSteps, registry, start, Configured, BindAwaited, RegisterAwaited,
      OnlyOnce, Queued, Bound, Created, Serving, Known, Alive, Valid, Fresh
<1> QED
  BY <1>1, <1>3, <1>5, <1>6, <1>7, <1>8, <1>9 DEF MainStep

(***************************************************************************)
(* The Network, its clients, and RaftSystem.started.                       *)
(***************************************************************************)
LEMMA NetworkStepInv == BootInv /\ NetworkStep => BootInv'
<1> SUFFICES ASSUME BootInv, NetworkStep PROVE BootInv'
  OBVIOUS
<1> USE DEF BootInv
<1>1. mailbox \in Seq(Messages)
  BY DEF TypeOK, Messages
<1>2. ASSUME NEW m, Serves(m)
      PROVE  /\ mailbox' \in Seq(Messages) /\ Queued(m) /\ network = "running"
             /\ \A k : Queued(k)' => Queued(k)
             /\ \A k : OnlyOnce(k) => OnlyOnce(k)'
             /\ OnlyOnce(m) => ~Queued(m)'
  BY <1>1, <1>2, Served DEF Serves
<1>3. CASE HandleBind
  <2>1. Serves("bind") /\ main = "binding" /\ reply = "none"
    BY <1>2, <1>3 DEF HandleBind, BindAwaited
  <2>2. given.portFree \in BOOLEAN
    BY DEF TypeOK, Inputs
  <2>3. TypeOK'
    BY <1>2, <1>3, <2>1, <2>2 DEF HandleBind, TypeOK, Messages, start
  <2> QED
    BY <1>2, <1>3, <2>1, <2>2, <2>3
    DEF HandleBind, start, Configured, BindAwaited, RegisterAwaited, Bound, Created, Serving,
        Known, Alive, Valid, Fresh
<1>4. CASE HandleRegisterRaft
  <2>1. Serves("registerRaft") /\ main = "registering" /\ reply = "none"
    BY <1>2, <1>4 DEF HandleRegisterRaft, RegisterAwaited
  <2>2. TypeOK'
    BY <1>2, <1>4, <2>1 DEF HandleRegisterRaft, TypeOK, Messages, start
  <2> QED
    BY <1>2, <1>4, <2>1, <2>2
    DEF HandleRegisterRaft, start, Configured, BindAwaited, RegisterAwaited, Bound, Created,
        Serving, Known, Alive, Valid, Fresh
<1>5. CASE NetworkPanics
  <2>1. main = "registering" /\ reply = "none"
    <3>1. 1 \in DOMAIN mailbox /\ mailbox[1] = "registerRaft"
      BY <1>1, <1>5 DEF NetworkPanics
    <3> QED BY <3>1 DEF Queued, RegisterAwaited
  <2>2. \A k : ~Queued(k)' /\ OnlyOnce(k)'
    BY <1>5, Emptied DEF NetworkPanics
  <2>3. TypeOK'
    BY <1>5 DEF NetworkPanics, TypeOK, start
  <2> QED
    BY <1>5, <2>1, <2>2, <2>3
    DEF NetworkPanics, start, Configured, BindAwaited, RegisterAwaited, Bound, Created, Serving,
        Known, Alive, Valid, Fresh
<1>6. CASE HandleRequest
  <2>1. entries' \subseteq Nodes
    BY <1>6 DEF HandleRequest, TypeOK
  <2>2. TypeOK'
    BY <1>2, <1>6, <2>1 DEF HandleRequest, TypeOK, Messages, start
  <2> QED
    BY <1>2, <1>6, <2>2
    DEF HandleRequest, start, Configured, BindAwaited, RegisterAwaited, Bound, Created, Serving,
        Known, Alive, Valid, Fresh
<1>7. CASE HandleGetNodes
  <2>1. TypeOK'
    BY <1>2, <1>7 DEF HandleGetNodes, TypeOK, Messages, registry, SystemSteps
  <2> QED
    BY <1>2, <1>7, <2>1
    DEF HandleGetNodes, registry, Configured, BindAwaited, RegisterAwaited, Bound, Created,
        Serving, Known, Alive, Valid, Fresh
<1> QED
  BY <1>3, <1>4, <1>5, <1>6, <1>7 DEF NetworkStep

LEMMA OtherStepInv == BootInv /\ (Request \/ AskNodes \/ InitRaft) => BootInv'
<1> SUFFICES ASSUME BootInv, Request \/ AskNodes \/ InitRaft PROVE BootInv'
  OBVIOUS
<1> USE DEF BootInv
<1>1. ASSUME NEW m \in {"request", "getNodes"}, mailbox' = Append(mailbox, m)
      PROVE  /\ mailbox' \in Seq(Messages)
             /\ (Queued("bind")' => Queued("bind"))
             /\ (Queued("registerRaft")' => Queued("registerRaft"))
             /\ OnlyOnce("bind")' /\ OnlyOnce("registerRaft")'
  <2>1. mailbox \in Seq(Messages) /\ m \in Messages
    BY DEF TypeOK, Messages
  <2>2. \A k : Queued(k)' => Queued(k) \/ k = m
    BY <1>1, <2>1, Appended
  <2>3. \A k : OnlyOnce(k) /\ (k = m => ~Queued(k)) => OnlyOnce(k)'
    BY <1>1, <2>1, Appended
  <2>4. mailbox' \in Seq(Messages)
    BY <1>1, <2>1
  <2> QED BY <2>2, <2>3, <2>4
<1>2. CASE Request
  <2>1. TypeOK'
    BY <1>1, <1>2 DEF Request, TypeOK, Messages, registry, start
  <2> QED
    BY <1>1, <1>2, <2>1
    DEF Request, registry, start, Configured, BindAwaited, RegisterAwaited, Bound, Created,
        Serving, Known, Alive, Valid, Fresh
<1>3. CASE AskNodes
  <2>1. TypeOK'
    BY <1>1, <1>3 DEF AskNodes, TypeOK, Messages, registry, SystemSteps
  <2> QED
    BY <1>1, <1>3, <2>1
    DEF AskNodes, registry, Configured, BindAwaited, RegisterAwaited, Bound, Created, Serving,
        Known, Alive, Valid, Fresh
<1>4. CASE InitRaft
  BY <1>4
  DEF InitRaft, registry, TypeOK, SystemSteps, Configured, BindAwaited, RegisterAwaited,
      OnlyOnce, Queued, Bound, Created, Serving, Known, Alive, Valid, Fresh
<1> QED BY <1>2, <1>3, <1>4

LEMMA BootInvStep == BootInv /\ [Next]_vars => BootInv'
<1>1. BootInv /\ Next => BootInv'
  BY MainStepInv, NetworkStepInv, OtherStepInv DEF Next
<1>2. BootInv /\ UNCHANGED vars => BootInv'
  BY DEF vars, registry, start, BootInv, TypeOK, Configured, BindAwaited, RegisterAwaited,
         OnlyOnce, Queued, Bound, Created, Serving, Known, Alive, Valid, Fresh
<1> QED BY <1>1, <1>2

LEMMA BootInvariant == Spec => []BootInv
BY BootInvInit, BootInvStep, PTL DEF Spec

(***************************************************************************)
(* The theorems.                                                           *)
(***************************************************************************)
(* The building thread, the Network and what is between them keep their    *)
(* types: every configuration that is loaded is made of the schema.        *)
THEOREM BootTyping == Spec => []TypeOK
<1>1. BootInv => TypeOK
  BY DEF BootInv
<1> QED BY <1>1, BootInvariant, PTL

(* RaftSystemBuilder.build returns a system only if its Network runs,      *)
(* serves its endpoint, knows the Raft actor and that actor exists,        *)
(* whatever was requested of the Network in between.                       *)
THEOREM BuiltSystemIsServed == Spec => []BuiltIsServed
<1>1. BootInv => BuiltIsServed
  BY DEF BootInv, BuiltIsServed, Created, Serving, Known, Alive
<1> QED BY <1>1, BootInvariant, PTL

(* A configuration whose election timeouts, as 16-bit numbers, are not in  *)
(* order stops the build before the endpoint is bound or Raft registered.  *)
THEOREM InvalidConfigurationNeverServes == Spec => []InvalidNeverServes
<1>1. BootInv => InvalidNeverServes
  BY DEF BootInv, InvalidNeverServes, Valid, Validates
<1> QED BY <1>1, BootInvariant, PTL

(***************************************************************************)
(* Nobody waits in vain.                                                   *)
(***************************************************************************)
(* Nothing in the mailbox is lost but by the end of the Network's thread.  *)
LEMMA StaysQueued ==
  ASSUME mailbox \in Seq(Messages), NEW k, Queued(k)
  PROVE  /\ \A m \in Messages : mailbox' = Append(mailbox, m) => Queued(k)'
         /\ \A m \in Messages \ {k} : Serves(m) => Queued(k)'
<1>1. PICK i \in DOMAIN mailbox : mailbox[i] = k
  BY DEF Queued
<1>2. ASSUME NEW m \in Messages, mailbox' = Append(mailbox, m) PROVE Queued(k)'
  <2>1. i \in DOMAIN mailbox' /\ mailbox'[i] = mailbox[i]
    BY <1>2
  <2> QED BY <1>1, <2>1 DEF Queued
<1>3. ASSUME NEW m \in Messages \ {k}, Serves(m) PROVE Queued(k)'
  <2>1. mailbox # <<>> /\ mailbox[1] = m /\ mailbox' = Tail(mailbox)
    BY <1>3 DEF Serves
  <2>2. i # 1
    BY <1>1, <1>3, <2>1
  <2>3. i - 1 \in DOMAIN mailbox' /\ mailbox'[i - 1] = mailbox[i]
    BY <2>1, <2>2
  <2> QED BY <1>1, <2>3 DEF Queued
<1> QED BY <1>2, <1>3

LEMMA NewIsQueued ==
  ASSUME mailbox \in Seq(Messages), NEW m \in Messages, mailbox' = Append(mailbox, m)
  PROVE  Queued(m)'
<1>1. Len(mailbox) + 1 \in DOMAIN mailbox' /\ mailbox'[Len(mailbox) + 1] = m
  OBVIOUS
<1> QED BY <1>1 DEF Queued

(* RaftSystem.started runs only for a system that was built, when no       *)
(* message that could end the Network is left.                             *)
StartedOnceBuilt == system # "none" \/ Queued("getNodes") => main = "built"
OwedInv == WaitsAreOwed /\ StartedOnceBuilt

LEMMA OwedInvInit == Init => OwedInv
BY DEF Init, OwedInv, WaitsAreOwed, StartedOnceBuilt, Queued

LEMMA OwedInvStep == BootInv /\ OwedInv /\ [Next]_vars => OwedInv'
<1> SUFFICES ASSUME BootInv, OwedInv, [Next]_vars PROVE OwedInv'
  OBVIOUS
<1>1. mailbox \in Seq(Messages) /\ {"bind", "registerRaft", "request", "getNodes"} = Messages
  BY DEF BootInv, TypeOK, Messages
<1>2. WaitsAreOwed /\ StartedOnceBuilt
  BY DEF OwedInv
<1>3. CASE UNCHANGED vars
  BY <1>2, <1>3 DEF vars, start, OwedInv, WaitsAreOwed, StartedOnceBuilt, Queued
<1>4. CASE MainStep
  <2>1. CASE Load \/ LoadFails \/ LoadPanics \/ BuildFails \/ HostPanics \/ StepFails \/ Build
    BY <1>2, <2>1
    DEF Load, LoadFails, LoadPanics, BuildFails, HostPanics, StepFails, Build, End, start, OwedInv,
        WaitsAreOwed, StartedOnceBuilt, Queued
  <2>2. CASE ConfigPanics \/ LogPanics
    BY <1>2, <2>2
    DEF ConfigPanics, LogPanics, StartNetwork, start, OwedInv, WaitsAreOwed,
        StartedOnceBuilt, Queued
  <2>3. CASE CreateRaft
    <3>1. Queued("bind")'
      BY <1>1, <2>3, NewIsQueued DEF CreateRaft
    <3>2. main' = "binding" /\ network' = "running" /\ system' = "none"
      BY <1>2, <2>3 DEF CreateRaft, StartNetwork, start, StartedOnceBuilt
    <3>3. ~Queued("getNodes")'
      BY <1>1, <1>2, <2>3, Appended DEF CreateRaft, StartNetwork, StartedOnceBuilt
    <3> QED BY <3>1, <3>2, <3>3 DEF OwedInv, WaitsAreOwed, StartedOnceBuilt
  <2>4. CASE RegisterRaft
    <3>1. Queued("registerRaft")'
      BY <1>1, <2>4, NewIsQueued DEF RegisterRaft
    <3>2. /\ main' = "registering" /\ network' = "running" /\ system' = "none"
      BY <1>2, <2>4 DEF RegisterRaft, start, StartedOnceBuilt, BootInv, Alive
    <3>3. ~Queued("getNodes")'
      BY <1>1, <1>2, <2>4, Appended DEF RegisterRaft, StartedOnceBuilt
    <3> QED BY <3>1, <3>2, <3>3 DEF OwedInv, WaitsAreOwed, StartedOnceBuilt
  <2> QED BY <1>4, <2>1, <2>2, <2>3, <2>4 DEF MainStep
<1>5. CASE NetworkStep
  <2>1. ASSUME NEW k \in Messages, Serves(k)
        PROVE  \A m \in Messages \ {k} : Queued(m) => Queued(m)'
    BY <1>1, <2>1, StaysQueued
  <2>2. ASSUME NEW k \in Messages, Serves(k)
        PROVE  Queued(k) /\ (Queued("getNodes")' => Queued("getNodes"))
    BY <1>1, <2>2, Served
  <2>3. CASE HandleBind
    <3>1. main = "binding" /\ reply' # "none" /\ main' = main /\ UNCHANGED system
      BY <1>1, <2>2, <2>3 DEF HandleBind, BootInv, BindAwaited, start
    <3>2. Queued("getNodes")' => Queued("getNodes")
      BY <1>1, <2>2, <2>3 DEF HandleBind
    <3> QED BY <1>2, <3>1, <3>2 DEF OwedInv, WaitsAreOwed, StartedOnceBuilt
  <2>4. CASE HandleRegisterRaft
    <3>1. main = "registering" /\ reply' # "none" /\ main' = main /\ UNCHANGED system
      BY <1>1, <2>2, <2>4 DEF HandleRegisterRaft, BootInv, RegisterAwaited, start
    <3>2. Queued("getNodes")' => Queued("getNodes")
      BY <1>1, <2>2, <2>4 DEF HandleRegisterRaft
    <3> QED BY <1>2, <3>1, <3>2 DEF OwedInv, WaitsAreOwed, StartedOnceBuilt
  <2>5. CASE NetworkPanics
    <3>1. 1 \in DOMAIN mailbox /\ mailbox[1] = "registerRaft"
      BY <1>1, <2>5 DEF NetworkPanics
    <3>2. main = "registering" /\ reply' # "none" /\ main' = main /\ UNCHANGED system
      BY <2>5, <3>1 DEF NetworkPanics, BootInv, RegisterAwaited, Queued, start
    <3>3. ~Queued("getNodes")'
      BY <2>5, Emptied DEF NetworkPanics
    <3> QED BY <1>2, <3>2, <3>3 DEF OwedInv, WaitsAreOwed, StartedOnceBuilt
  <2>6. CASE HandleRequest
    <3>1. /\ Queued("bind") => Queued("bind")'
          /\ Queued("registerRaft") => Queued("registerRaft")'
          /\ Queued("getNodes") <=> Queued("getNodes")'
      BY <1>1, <2>1, <2>2, <2>6 DEF HandleRequest
    <3>2. UNCHANGED <<main, reply, network, system>>
      BY <2>6 DEF HandleRequest, start
    <3> QED BY <1>2, <3>1, <3>2 DEF OwedInv, WaitsAreOwed, StartedOnceBuilt
  <2>7. CASE HandleGetNodes
    <3>1. /\ Queued("bind") => Queued("bind")'
          /\ Queued("registerRaft") => Queued("registerRaft")'
      BY <1>1, <2>1, <2>7 DEF HandleGetNodes
    <3>2. UNCHANGED <<main, reply, network>> /\ system' = "initialising" /\ main = "built"
      BY <1>1, <1>2, <2>2, <2>7 DEF HandleGetNodes, StartedOnceBuilt
    <3> QED BY <1>2, <3>1, <3>2 DEF OwedInv, WaitsAreOwed, StartedOnceBuilt
  <2> QED BY <1>5, <2>3, <2>4, <2>5, <2>6, <2>7 DEF NetworkStep
<1>6. CASE Request \/ AskNodes \/ InitRaft
  <2>1. CASE InitRaft
    BY <1>2, <2>1 DEF InitRaft, OwedInv, WaitsAreOwed, StartedOnceBuilt, Queued
  <2>2. CASE Request
    <3>1. \A m \in Messages : Queued(m) => Queued(m)'
      BY <1>1, <2>2, StaysQueued DEF Request
    <3>2. Queued("getNodes")' => Queued("getNodes")
      BY <1>1, <2>2, Appended DEF Request
    <3> QED
      BY <1>1, <1>2, <2>2, <3>1, <3>2
      DEF Request, start, OwedInv, WaitsAreOwed, StartedOnceBuilt
  <2>3. CASE AskNodes
    <3>1. Queued("getNodes")'
      BY <1>1, <2>3, NewIsQueued DEF AskNodes
    <3>2. main = "built" /\ main' = main /\ network' = "running"
      BY <2>3 DEF AskNodes, BootInv, Alive
    <3> QED BY <3>1, <3>2 DEF OwedInv, WaitsAreOwed, StartedOnceBuilt
  <2> QED BY <1>6, <2>1, <2>2, <2>3
<1> QED BY <1>3, <1>4, <1>5, <1>6 DEF Next

(* Neither the building thread nor RaftSystem.started waits for a reply    *)
(* that the Network will not give, whatever it is asked or ends by.        *)
THEOREM WaitsStayOwed == Spec => []WaitsAreOwed
<1>1. OwedInv => WaitsAreOwed
  BY DEF OwedInv
<1> QED BY <1>1, OwedInvInit, OwedInvStep, BootInvariant, PTL DEF Spec
=============================================================================
