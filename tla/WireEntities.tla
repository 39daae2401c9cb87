---------------------------- MODULE WireEntities ----------------------------
(***************************************************************************)
(* What Raft's messages become on the wire and back.  An entity is written *)
(* as JSON: a record here, with the names the fields have there.  An enum  *)
(* is a tag with its value, an Option its value or None.                   *)
(***************************************************************************)
EXTENDS Naturals, Sequences

CONSTANTS
  Ids,          \* node identifiers
  Numbers,      \* terms, indexes and offsets
  Data,         \* commands of the application
  Unencodable,  \* those that cbor::to_vec fails on
  Undecodable,  \* those whose bytes cbor::from_slice fails on
  Paths,        \* of snapshot files
  Chunks,       \* bytes of a snapshot
  Texts,        \* names and addresses
  None

ASSUME DataAssumption == Unencodable \subseteq Data /\ Undecodable \subseteq Data

Opt(S) == S \cup {None}
Mapped(f(_), s) == [i \in 1..Len(s) |-> f(s[i])]

(***************************************************************************)
(* Nodes.                                                                  *)
(***************************************************************************)
NodeInfos ==
  [name : Texts, cluster_address : Texts, app_address : Texts, public_address : Texts]

NodeIdToWire(id) == [id |-> id]
NodeIdFromWire(w) == w.id

NodeInfoToWire(info) ==
  [name           |-> info.name,
   clusterAddress |-> info.cluster_address,
   appAddress     |-> info.app_address,
   publicAddress  |-> info.public_address]

NodeInfoFromWire(w) ==
  [name            |-> w.name,
   cluster_address |-> w.clusterAddress,
   app_address     |-> w.appAddress,
   public_address  |-> w.publicAddress]

(***************************************************************************)
(* Log entries.                                                            *)
(***************************************************************************)
Memberships ==
  [is_in_joint_consensus : BOOLEAN,
   members : Seq(Ids), non_voters : Seq(Ids), removing : Seq(Ids)]

Payloads ==
  [variant : {"Blank"}, content : {None}] \cup
  [variant : {"Normal"}, content : Data] \cup
  [variant : {"ConfigChange"}, content : Memberships] \cup
  [variant : {"SnapshotPointer"}, content : Paths]

Entries == [term : Numbers, index : Numbers, payload : Payloads]

MembershipToWire(m) ==
  [isInJointConsensus |-> m.is_in_joint_consensus,
   members            |-> Mapped(NodeIdToWire, m.members),
   nonVoters          |-> Mapped(NodeIdToWire, m.non_voters),
   removing           |-> Mapped(NodeIdToWire, m.removing)]

MembershipFromWire(w) ==
  [is_in_joint_consensus |-> w.isInJointConsensus,
   members               |-> Mapped(NodeIdFromWire, w.members),
   non_voters            |-> Mapped(NodeIdFromWire, w.nonVoters),
   removing              |-> Mapped(NodeIdFromWire, w.removing)]

(* The bytes of a command stand for what decoding them returns.            *)
NormalToWire(data) == [entry |-> [data |-> [value |-> [cbor |-> data]]]]
NormalFromWire(w) == w.entry.data.value.cbor

SnapshotPathToWire(path) == [path |-> path]
SnapshotPathFromWire(w) == w.path

PayloadToWire(p) ==
  [tag   |-> p.variant,
   value |-> CASE p.variant = "Blank"           -> None
               [] p.variant = "Normal"          -> NormalToWire(p.content)
               [] p.variant = "ConfigChange"    -> MembershipToWire(p.content)
               [] p.variant = "SnapshotPointer" -> SnapshotPathToWire(p.content)]

PayloadFromWire(w) ==
  [variant |-> w.tag,
   content |-> CASE w.tag = "Blank"           -> None
                 [] w.tag = "Normal"          -> NormalFromWire(w.value)
                 [] w.tag = "ConfigChange"    -> MembershipFromWire(w.value)
                 [] w.tag = "SnapshotPointer" -> SnapshotPathFromWire(w.value)]

EntryToWire(e) ==
  [term |-> e.term, index |-> e.index, payload |-> PayloadToWire(e.payload)]

EntryFromWire(w) ==
  [term |-> w.term, index |-> w.index, payload |-> PayloadFromWire(w.payload)]

(* An entry without a payload, and bytes that do not decode, are panics.   *)
EntryPanics(w) ==
  \/ w.payload = None
  \/ w.payload.tag = "Normal" /\ NormalFromWire(w.payload.value) \in Undecodable

(***************************************************************************)
(* Requests.                                                               *)
(***************************************************************************)
AppendEntriesRequests ==
  [kind : {"append_entries"}, target : Ids, term : Numbers, leader_id : Ids,
   prev_log_index : Numbers, prev_log_term : Numbers,
   entries : Seq(Entries), leader_commit : Numbers]

InstallSnapshotRequests ==
  [kind : {"install_snapshot"}, target : Ids, term : Numbers, leader_id : Ids,
   last_included_index : Numbers, last_included_term : Numbers,
   offset : Numbers, data : Chunks, done : BOOLEAN]

VoteRequests ==
  [kind : {"vote"}, target : Ids, term : Numbers, candidate_id : Ids,
   last_log_index : Numbers, last_log_term : Numbers]

ConnectRequests == [kind : {"connect"}, id : Ids, info : NodeInfos]

AppendEntriesToWire(m) ==
  [target |-> m.target, term |-> m.term, leaderId |-> m.leader_id,
   prevLogIndex |-> m.prev_log_index, prevLogTerm |-> m.prev_log_term,
   leaderCommit |-> m.leader_commit, entries |-> Mapped(EntryToWire, m.entries)]

AppendEntriesFromWire(w) ==
  [kind |-> "append_entries", target |-> w.target, term |-> w.term,
   leader_id |-> w.leaderId, prev_log_index |-> w.prevLogIndex,
   prev_log_term |-> w.prevLogTerm, leader_commit |-> w.leaderCommit,
   entries |-> Mapped(EntryFromWire, w.entries)]

InstallSnapshotToWire(m) ==
  [target |-> m.target, term |-> m.term, leaderId |-> m.leader_id,
   lastIncludedIndex |-> m.last_included_index, lastIncludedTerm |-> m.last_included_term,
   offset |-> m.offset, data |-> m.data, done |-> m.done]

InstallSnapshotFromWire(w) ==
  [kind |-> "install_snapshot", target |-> w.target, term |-> w.term,
   leader_id |-> w.leaderId, last_included_index |-> w.lastIncludedIndex,
   last_included_term |-> w.lastIncludedTerm, offset |-> w.offset,
   data |-> w.data, done |-> w.done]

VoteToWire(m) ==
  [target |-> m.target, term |-> m.term, candidateId |-> m.candidate_id,
   lastLogIndex |-> m.last_log_index, lastLogTerm |-> m.last_log_term]

(* actix_raft's constructor, by position.                                  *)
NewVoteRequest(target, term, candidate_id, last_log_index, last_log_term) ==
  [kind |-> "vote", target |-> target, term |-> term, candidate_id |-> candidate_id,
   last_log_index |-> last_log_index, last_log_term |-> last_log_term]

VoteFromWireTermFirst(w) ==
  NewVoteRequest(w.target, w.term, w.candidateId, w.lastLogTerm, w.lastLogIndex)

VoteFromWire(w) ==
  NewVoteRequest(w.target, w.term, w.candidateId, w.lastLogIndex, w.lastLogTerm)

NodeInfoMessage(m) == [nodeId |-> NodeIdToWire(m.id), nodeInfo |-> NodeInfoToWire(m.info)]

ConnectNodeFromWire(w) ==
  [kind |-> "connect", id |-> NodeIdFromWire(w.nodeId), info |-> NodeInfoFromWire(w.nodeInfo)]

(***************************************************************************)
(* Responses.                                                              *)
(***************************************************************************)
Conflicts == [term : Numbers, index : Numbers]

AppendEntriesResponses == [term : Numbers, success : BOOLEAN, conflict_opt : Opt(Conflicts)]
InstallSnapshotResponses == [term : Numbers]
VoteResponses ==
  [term : Numbers, vote_granted : BOOLEAN, is_candidate_unknown : BOOLEAN]

ASSUME NoneAssumption ==
  /\ None \notin Conflicts \cup [tag : {"ConflictOpt"}, value : Conflicts]
  /\ None \notin AppendEntriesResponses \cup InstallSnapshotResponses \cup VoteResponses

ConflictToWire(c) == [tag |-> "ConflictOpt", value |-> [term |-> c.term, index |-> c.index]]
ConflictFromWire(w) == [term |-> w.value.term, index |-> w.value.index]

AppendEntriesResponseToWire(r) ==
  [term |-> r.term, success |-> r.success,
   conflict |-> IF r.conflict_opt = None THEN None ELSE ConflictToWire(r.conflict_opt)]

AppendEntriesResponseWithOptFromWire(w) ==
  [term |-> w.term, success |-> w.success, conflict_opt |-> w.conflict]

AppendEntriesResponseFromWire(w) ==
  [term |-> w.term, success |-> w.success,
   conflict_opt |-> IF w.conflict = None THEN None ELSE ConflictFromWire(w.conflict)]

InstallSnapshotResponseToWire(r) == [term |-> r.term]
InstallSnapshotResponseFromWire(w) == [term |-> w.term]

VoteResponseToSnakeCase(r) ==
  [term |-> r.term, vote_granted |-> r.vote_granted,
   is_candidate_unknown |-> r.is_candidate_unknown]

VoteResponseToWire(r) ==
  [term |-> r.term, voteGranted |-> r.vote_granted,
   isCandidateUnknown |-> r.is_candidate_unknown]

VoteResponseFromWire(w) ==
  [term |-> w.term, vote_granted |-> w.voteGranted,
   is_candidate_unknown |-> w.isCandidateUnknown]
=============================================================================
