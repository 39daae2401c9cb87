---------------------------- MODULE RpcExchange ----------------------------
(***************************************************************************)
(* The requests of one host to a peer: converted to an entity, posted as   *)
(* JSON, read by the peer's HTTP endpoint, handed to its Network, and      *)
(* answered the same way back.  The sending thread waits for one reply at  *)
(* a time, and may time out.  The endpoint's threads serve what arrived in *)
(* any order, and go on after a timeout unless they notice it.             *)
(***************************************************************************)
EXTENDS WireEntities

CONSTANTS
  Sendable,   \* what Raft and the Nodes send in a run
  Oversized,  \* those whose JSON is above 32 KB, the limit of web::Json
  MaxCalls    \* bound: requests of a run

ASSUME ExchangeAssumption ==
  /\ Sendable \subseteq
       AppendEntriesRequests \cup InstallSnapshotRequests \cup VoteRequests
         \cup ConnectRequests
  /\ None \notin Sendable
  /\ MaxCalls \in Nat

VARIABLES
  calls,      \* every request posted, and how far it got on both sides
  panic       \* whether the sending thread ended, and at what

vars == <<calls, panic>>

(* The paths of the RPCs and of ConnectNode, and the routes they lead to.  *)
Path == [append_entries |-> "entries", install_snapshot |-> "snapshots",
         vote |-> "vote", connect |-> "nodes"]
Route == [entries |-> "append_entries", snapshots |-> "install_snapshot",
          vote |-> "vote", nodes |-> "connect"]

ToWire(m) ==
  CASE m.kind = "append_entries"   -> AppendEntriesToWire(m)
    [] m.kind = "install_snapshot" -> InstallSnapshotToWire(m)
    [] m.kind = "vote"             -> VoteToWire(m)
    [] m.kind = "connect"          -> NodeInfoMessage(m)

FromWire(kind, w) ==
  CASE kind = "append_entries"   -> AppendEntriesFromWire(w)
    [] kind = "install_snapshot" -> InstallSnapshotFromWire(w)
    [] kind = "vote"             -> VoteFromWire(w)
    [] kind = "connect"          -> ConnectNodeFromWire(w)

(* What Raft responds, per kind.  A connection has no response of its own. *)
Responses ==
  [append_entries   |-> AppendEntriesResponses,
   install_snapshot |-> InstallSnapshotResponses,
   vote             |-> VoteResponses,
   connect          |-> {}]

ResponseToWire(kind, r) ==
  CASE kind = "append_entries"   -> AppendEntriesResponseToWire(r)
    [] kind = "install_snapshot" -> InstallSnapshotResponseToWire(r)
    [] kind = "vote"             -> VoteResponseToWire(r)

ResponseFromWire(kind, w) ==
  CASE kind = "append_entries"   -> AppendEntriesResponseFromWire(w)
    [] kind = "install_snapshot" -> InstallSnapshotResponseFromWire(w)
    [] kind = "vote"             -> VoteResponseFromWire(w)

(* The fields that serde requires: Options may be missing.                 *)
RequestFields ==
  [append_entries   |-> {"target", "term", "leaderId", "prevLogIndex", "prevLogTerm",
                         "entries", "leaderCommit"},
   install_snapshot |-> {"target", "term", "leaderId", "lastIncludedIndex",
                         "lastIncludedTerm", "offset", "data", "done"},
   vote             |-> {"target", "term", "candidateId", "lastLogIndex", "lastLogTerm"},
   connect          |-> {}]

ResponseFields ==
  [append_entries   |-> {"term", "success"},
   install_snapshot |-> {"term"},
   vote             |-> {"term", "voteGranted", "isCandidateUnknown"}]

Forms == {"none", "json", "empty", "tooLarge", "error"}
ReplyOf(form) == [form |-> form, body |-> None]
ReplyJson(w) == [form |-> "json", body |-> w]

Init == calls = <<>> /\ panic = "no"

Waiting == calls # <<>> /\ calls[Len(calls)].end = "waiting"
Ready == panic = "no" /\ ~Waiting

(***************************************************************************)
(* The sending host.                                                       *)
(***************************************************************************)
CommandPanics(m) ==
  /\ m.kind = "append_entries"
  /\ \E i \in DOMAIN m.entries :
       m.entries[i].payload.variant = "Normal" /\ m.entries[i].payload.content \in Unencodable

(* send_raft_command, and RemoteNode.connect.                              *)
SendCommand(m) ==
  /\ Ready /\ ~CommandPanics(m) /\ Len(calls) < MaxCalls
  /\ calls' = Append(calls,
       [path |-> Path[m.kind], body |-> ToWire(m), at |-> "endpoint", handed |-> None,
        reply |-> ReplyOf("none"), end |-> "waiting", got |-> None])
  /\ UNCHANGED panic

EncodingPanics(m) ==
  /\ Ready /\ CommandPanics(m)
  /\ panic' = "encoding"
  /\ UNCHANGED calls

Current == calls[Len(calls)]
CurrentKind == Route[Current.path]
End(end, got) == calls' = [calls EXCEPT ![Len(calls)].end = end, ![Len(calls)].got = got]

Readable ==
  /\ CurrentKind # "connect" /\ Current.reply.form = "json"
  /\ ResponseFields[CurrentKind] \subseteq DOMAIN Current.reply.body

ReadResponse ==
  /\ panic = "no" /\ Waiting /\ Readable
  /\ End("returned", ResponseFromWire(CurrentKind, Current.reply.body))
  /\ UNCHANGED panic

(* An RPC's reply that is not its response is a panic; of a connection, an *)
(* error that is reported.                                                 *)
ReplyPanics ==
  /\ panic = "no" /\ Waiting /\ Current.reply.form # "none"
  /\ CurrentKind # "connect" /\ ~Readable
  /\ End("failed", None)
  /\ panic' = "reply"

ConnectFails ==
  /\ panic = "no" /\ Waiting /\ Current.reply.form # "none" /\ CurrentKind = "connect"
  /\ End("failed", None)
  /\ UNCHANGED panic

(* A timeout, or a connection that closed.                                 *)
RequestFails ==
  /\ panic = "no" /\ Waiting /\ Current.reply.form = "none"
  /\ End("failed", None)
  /\ UNCHANGED panic

(***************************************************************************)
(* The endpoint of the peer, for the n-th request.                         *)
(***************************************************************************)
At(n, place) == calls[n].at = place

KindOf(n) == Route[calls[n].path]

TooLarge(n) == calls[n].body \in {ToWire(m) : m \in Oversized}
Parses(n) == RequestFields[KindOf(n)] \subseteq DOMAIN calls[n].body

BodyPanics(n) ==
  /\ KindOf(n) = "append_entries"
  /\ \E i \in DOMAIN calls[n].body.entries : EntryPanics(calls[n].body.entries[i])

HandOver(n) ==
  /\ At(n, "endpoint") /\ ~TooLarge(n) /\ Parses(n) /\ ~BodyPanics(n)
  /\ calls' = [calls EXCEPT ![n].at = "network",
                            ![n].handed = FromWire(KindOf(n), calls[n].body)]
  /\ UNCHANGED panic

(* A panic of the worker thread closes the connection.                     *)
WorkerPanics(n) ==
  /\ At(n, "endpoint") /\ ~TooLarge(n) /\ Parses(n) /\ BodyPanics(n)
  /\ calls' = [calls EXCEPT ![n].at = "gone"]
  /\ UNCHANGED panic

Reply(n, place, reply) ==
  /\ At(n, place)
  /\ calls' = [calls EXCEPT ![n].at = "gone", ![n].reply = reply]
  /\ UNCHANGED panic

RejectTooLarge(n) == TooLarge(n) /\ Reply(n, "endpoint", ReplyOf("tooLarge"))

(* The mailbox of the Network is closed, before or after it took the RPC.  *)
MailboxClosed(n) ==
  \E place \in {"endpoint", "network"} :
    /\ place = "endpoint" => ~TooLarge(n) /\ Parses(n) /\ ~BodyPanics(n)
    /\ Reply(n, place, ReplyOf("error"))

NetworkAnswers(n) ==
  \E r \in Responses[KindOf(n)] :
    Reply(n, "network", ReplyJson(ResponseToWire(KindOf(n), r)))

(* An error of the Network is 200 with an empty body for an RPC.  Of a     *)
(* ConnectNode it is 500, and success is 201 with an empty body.           *)
NetworkRefuses(n) == KindOf(n) # "connect" /\ Reply(n, "network", ReplyOf("empty"))

ConnectAnswered(n) ==
  /\ KindOf(n) = "connect"
  /\ \E form \in {"empty", "error"} : Reply(n, "network", ReplyOf(form))

(* The endpoint notices that the client closed the connection.             *)
Dropped(n) ==
  /\ calls[n].end # "waiting" /\ calls[n].at # "gone"
  /\ calls' = [calls EXCEPT ![n].at = "gone"]
  /\ UNCHANGED panic

Caller ==
  \/ \E m \in Sendable : SendCommand(m) \/ EncodingPanics(m)
  \/ ReadResponse \/ ReplyPanics \/ ConnectFails \/ RequestFails

Endpoint(n) ==
  \/ HandOver(n) \/ WorkerPanics(n) \/ RejectTooLarge(n) \/ MailboxClosed(n)
  \/ NetworkAnswers(n) \/ NetworkRefuses(n) \/ ConnectAnswered(n) \/ Dropped(n)

Next == Caller \/ \E n \in DOMAIN calls : Endpoint(n)

Spec == Init /\ [][Next]_vars

(***************************************************************************)
(* Properties.                                                             *)
(***************************************************************************)
AnyResponse == AppendEntriesResponses \cup InstallSnapshotResponses \cup VoteResponses

(* Type invariant.                                                         *)
TypeOK ==
  /\ panic \in {"no", "encoding", "reply"}
  /\ \A n \in DOMAIN calls :
       /\ \E m \in Sendable : calls[n].path = Path[m.kind] /\ calls[n].body = ToWire(m)
       /\ calls[n].at \in {"endpoint", "network", "gone"}
       /\ calls[n].handed \in Opt(Sendable)
       /\ calls[n].reply.form \in Forms
       /\ calls[n].end \in {"waiting", "returned", "failed"}
       /\ calls[n].got \in Opt(AnyResponse)

(* Raft is never taken down by what a peer's Raft responded: both sides    *)
(* agree, route by route, on the entities and on how they are written.     *)
ResponsesAreRead ==
  panic = "reply" => Current.reply.form # "json"

(* RPCs and responses arrive as Raft sent them, at most once, and no       *)
(* response is taken for that of another request, with timeouts, late      *)
(* deliveries and threads that overtake each other in the endpoint.  What  *)
(* was sent is what the body means, so the conversions are inverses.       *)
Exchanged(n) ==
  LET kind == KindOf(n) reply == calls[n].reply IN
    [sent      |-> FromWire(kind, calls[n].body),
     delivered |-> calls[n].handed,
     answered  |-> IF reply.form = "json" THEN ResponseFromWire(kind, reply.body) ELSE None,
     end       |-> calls[n].end,
     got       |-> calls[n].got]

Channel == INSTANCE RpcChannel WITH
  Messages <- Sendable,
  Answers  <- [m \in Sendable |-> Responses[m.kind]],
  None     <- None,
  channel  <- [n \in 1..Len(calls) |-> Exchanged(n)]

ImplementsRpcChannel == Channel!ChannelSpec
=============================================================================
