------------------------ MODULE LeaderRequests_proofs ------------------------
(***************************************************************************)
(* Proofs about LeaderRequests, for every set of hosts, of requests and of *)
(* reports, and every number of attempts.                                  *)
(***************************************************************************)
EXTENDS LeaderRequests, Registry_proofs

LeaderInv == LeaderTypeOK /\ KnownOnlyBeforeRaft

LEMMA LeaderInvInit == LeaderInit => LeaderInv
  BY EntriesInvInit, RequestsAssumption
  DEF LeaderInit, LeaderInv, LeaderTypeOK, EntriesInv, Idle, RequestSteps, RequestsAssumption

(* Moving a request to a known step keeps the requests well typed.         *)
LEMMA MoveType ==
  ASSUME LeaderTypeOK, NEW r \in Requests, NEW s \in RequestSteps, Move(r, s)
  PROVE  requests' \in [Requests -> [step : RequestSteps, attempts : 0..Attempts]]
  BY DEF LeaderTypeOK, Move

(* A step of the registry, or none, keeps its part of the invariant.       *)
LEMMA RegistryPart ==
  ASSUME LeaderInv, [RegistryNext]_registryVars
  PROVE  RegistryTypeOK' /\ KnownOnlyBeforeRaft'
  BY EntriesInvStep DEF LeaderInv, LeaderTypeOK, EntriesInv

LEMMA LeaderInvStep == LeaderInv /\ [LeaderNext]_leaderVars => LeaderInv'
<1> SUFFICES ASSUME LeaderInv, [LeaderNext]_leaderVars PROVE LeaderInv'
  OBVIOUS
<1>t. LeaderTypeOK
  BY DEF LeaderInv
<1>1. CASE RegistryNext /\ UNCHANGED <<requests, proposals>>
  BY <1>1, <1>t, RegistryPart DEF LeaderInv, LeaderTypeOK
<1>2. ASSUME NEW r \in Requests, NEW id \in NodeIds, HandleConnectNode(r, id)
      PROVE  LeaderInv'
  <2>1. [RegistryNext]_registryVars
    BY <1>2 DEF HandleConnectNode, RegistryNext
  <2>2. "registered" \in RequestSteps
    BY DEF RequestSteps
  <2>3. requests' \in [Requests -> [step : RequestSteps, attempts : 0..Attempts]]
    BY <1>2, <1>t, <2>2, MoveType DEF HandleConnectNode
  <2> QED
    BY <1>2, <1>t, <2>1, <2>3, RegistryPart DEF HandleConnectNode, LeaderInv, LeaderTypeOK
<1>3. ASSUME NEW r \in Requests, DelegateToLeader(r) PROVE LeaderInv'
  <2>1. [RegistryNext]_registryVars
    BY <1>3 DEF DelegateToLeader
  <2>2. PICK s \in RequestSteps : Move(r, s)
    BY <1>3 DEF DelegateToLeader, Delegation, RequestSteps, Ends
  <2>3. requests' \in [Requests -> [step : RequestSteps, attempts : 0..Attempts]]
    BY <1>t, <2>2, MoveType
  <2> QED
    BY <1>3, <1>t, <2>1, <2>3, RegistryPart DEF DelegateToLeader, LeaderInv, LeaderTypeOK
<1>4. ASSUME NEW r \in Requests, ChangeClusterConfig(r) PROVE LeaderInv'
  <2>1. [RegistryNext]_registryVars /\ "proposed" \in RequestSteps
    BY <1>4 DEF ChangeClusterConfig, RequestSteps
  <2>2. requests' \in [Requests -> [step : RequestSteps, attempts : 0..Attempts]]
    BY <1>4, <1>t, <2>1, MoveType DEF ChangeClusterConfig
  <2> QED
    BY <1>4, <1>t, <2>1, <2>2, RegistryPart DEF ChangeClusterConfig, LeaderInv, LeaderTypeOK
<1>5. ASSUME NEW r \in Requests, Acknowledge(r) PROVE LeaderInv'
  <2>1. [RegistryNext]_registryVars /\ "acked" \in RequestSteps
    BY <1>5 DEF Acknowledge, RequestSteps, Ends
  <2>2. requests' \in [Requests -> [step : RequestSteps, attempts : 0..Attempts]]
    BY <1>5, <1>t, <2>1, MoveType DEF Acknowledge
  <2> QED
    BY <1>5, <1>t, <2>1, <2>2, RegistryPart DEF Acknowledge, LeaderInv, LeaderTypeOK
<1>6. ASSUME NEW r \in Requests, RaftAnswers(r) PROVE LeaderInv'
  <2>1. [RegistryNext]_registryVars
    BY <1>6 DEF RaftAnswers
  <2> QED
    BY <1>6, <1>t, <2>1, RegistryPart DEF RaftAnswers, LeaderInv, LeaderTypeOK
<1>7. ASSUME NEW r \in Requests, RequestLeader(r) PROVE LeaderInv'
  <2>1. [RegistryNext]_registryVars /\ "asked" \in RequestSteps
    BY <1>7 DEF RequestLeader, RequestSteps
  <2>2. requests' \in [Requests -> [step : RequestSteps, attempts : 0..Attempts]]
    BY <1>7, <1>t, <2>1, MoveType DEF RequestLeader
  <2> QED
    BY <1>7, <1>t, <2>1, <2>2, RegistryPart DEF RequestLeader, LeaderInv, LeaderTypeOK
<1>8. ASSUME NEW r \in Requests, HandleGetCurrentLeader(r) PROVE LeaderInv'
  <2>1. [RegistryNext]_registryVars
    BY <1>8 DEF HandleGetCurrentLeader
  <2>2. PICK s \in RequestSteps : Move(r, s)
    BY <1>8 DEF HandleGetCurrentLeader, RequestSteps, Ends
  <2>3. requests' \in [Requests -> [step : RequestSteps, attempts : 0..Attempts]]
    BY <1>t, <2>2, MoveType
  <2> QED
    BY <1>8, <1>t, <2>1, <2>3, RegistryPart DEF HandleGetCurrentLeader, LeaderInv, LeaderTypeOK
<1>9. ASSUME NEW r \in Requests, RetryGetCurrentLeader(r) PROVE LeaderInv'
  <2>1. CASE AskAgain(r)
    <3>1. requests[r].attempts - 1 \in 0..Attempts
      BY <1>t, <2>1, RequestsAssumption DEF AskAgain, LeaderTypeOK, RequestsAssumption
    <3>2. requests' \in [Requests -> [step : RequestSteps, attempts : 0..Attempts]]
      BY <1>t, <2>1, <3>1 DEF AskAgain, LeaderTypeOK, RequestSteps
    <3>3. [RegistryNext]_registryVars
      BY <2>1 DEF AskAgain
    <3> QED
      BY <1>9, <1>t, <3>2, <3>3, RegistryPart DEF RetryGetCurrentLeader, LeaderInv, LeaderTypeOK
  <2>2. CASE OutOfAttempts(r)
    <3>1. "panicked" \in RequestSteps
      BY DEF RequestSteps, Ends
    <3>2. requests' \in [Requests -> [step : RequestSteps, attempts : 0..Attempts]]
      BY <1>t, <2>2, <3>1, MoveType DEF OutOfAttempts
    <3>3. RegistryTypeOK' /\ KnownOnlyBeforeRaft'
      BY <2>2 DEF OutOfAttempts, LeaderInv, LeaderTypeOK, RegistryTypeOK, KnownOnlyBeforeRaft
    <3> QED
      BY <1>9, <1>t, <3>2, <3>3 DEF RetryGetCurrentLeader, LeaderInv, LeaderTypeOK
  <2> QED BY <1>9, <2>1, <2>2 DEF RetryGetCurrentLeader
<1>10. CASE UNCHANGED leaderVars
  BY <1>10, <1>t, RegistryPart DEF leaderVars, LeaderInv, LeaderTypeOK
<1> QED
  BY <1>1, <1>2, <1>3, <1>4, <1>5, <1>6, <1>7, <1>8, <1>9, <1>10 DEF LeaderNext, RequestStep

(* The type invariant: no lookup counts its attempts below zero.           *)
THEOREM LeaderTyping == LeaderSpec => []LeaderTypeOK
<1>1. LeaderInv => LeaderTypeOK
  BY DEF LeaderInv
<1> QED BY <1>1, LeaderInvInit, LeaderInvStep, PTL DEF LeaderSpec

(* Registrations by ConnectNode leave no entry without a Node either.      *)
THEOREM ConnectedEntriesGetNodes == LeaderSpec => []KnownOnlyBeforeRaft
<1>1. LeaderInv => KnownOnlyBeforeRaft
  BY DEF LeaderInv
<1> QED BY <1>1, LeaderInvInit, LeaderInvStep, PTL DEF LeaderSpec

(* Who may fail: only a ConnectNode that finds its own host leading while  *)
(* its entry has no Node, and such an entry needs Raft to be unknown.      *)
THEOREM ConnectNeverFailsAfterRaft == LeaderSpec => ConnectFailsOnlyBeforeRaft
<1> DEFINE FailsBeforeRaft ==
      \A r \in Requests :
        requests'[r].step = "failed" /\ requests[r].step # "failed" => ~raftKnown
<1>1. LeaderInv /\ [LeaderNext]_leaderVars => [FailsBeforeRaft]_leaderVars
  <2> SUFFICES ASSUME LeaderInv, LeaderNext, NEW q \in Requests,
                      requests'[q].step = "failed", requests[q].step # "failed"
               PROVE  ~raftKnown
    BY DEF leaderVars
  <2>t. requests \in [Requests -> [step : RequestSteps, attempts : 0..Attempts]]
    BY DEF LeaderInv, LeaderTypeOK
  <2>1. CASE RegistryNext /\ UNCHANGED <<requests, proposals>>
    BY <2>1
  <2>m. ASSUME NEW r \in Requests, NEW s, s # "failed", Move(r, s) PROVE FALSE
    BY <2>m, <2>t DEF Move
  <2>2. ASSUME NEW r \in Requests, DelegateToLeader(r) PROVE ~raftKnown
    <3>1. CASE Self \in LeaderRefs /\ entry[Self] = "known" /\ Move(r, "failed")
      BY <3>1, RequestsAssumption DEF LeaderInv, KnownOnlyBeforeRaft, RequestsAssumption
    <3> QED BY <2>2, <3>1, <2>m DEF DelegateToLeader, Delegation
  <2>3. ASSUME NEW r \in Requests,
               \/ \E id \in NodeIds : HandleConnectNode(r, id)
               \/ ChangeClusterConfig(r) \/ Acknowledge(r) \/ RequestLeader(r)
               \/ HandleGetCurrentLeader(r) \/ OutOfAttempts(r)
        PROVE  FALSE
    BY <2>3, <2>m DEF HandleConnectNode, ChangeClusterConfig, Acknowledge, RequestLeader,
                      HandleGetCurrentLeader, OutOfAttempts
  <2>4. ASSUME NEW r \in Requests, AskAgain(r) PROVE FALSE
    BY <2>4, <2>t DEF AskAgain
  <2>5. ASSUME NEW r \in Requests, RaftAnswers(r) PROVE FALSE
    BY <2>5 DEF RaftAnswers
  <2> QED
    BY <2>1, <2>2, <2>3, <2>4, <2>5 DEF LeaderNext, RequestStep, RetryGetCurrentLeader
<1> QED
  BY <1>1, LeaderInvInit, LeaderInvStep, PTL DEF LeaderSpec, ConnectFailsOnlyBeforeRaft
=============================================================================
