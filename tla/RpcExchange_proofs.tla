------------------------- MODULE RpcExchange_proofs -------------------------
(***************************************************************************)
(* Proofs about RpcExchange, for every content of the messages: the        *)
(* conversions to the entities of the wire and back are inverses, each     *)
(* side can read what the other writes, and the exchange is a channel.     *)
(***************************************************************************)
EXTENDS RpcExchange, TLAPS

(***************************************************************************)
(* The conversions are inverses.                                           *)
(***************************************************************************)
LEMMA IdsRoundTrip ==
  ASSUME NEW s \in Seq(Ids)
  PROVE  Mapped(NodeIdFromWire, Mapped(NodeIdToWire, s)) = s
<1> DEFINE w == [i \in 1..Len(s) |-> [id |-> s[i]]]
<1>1. w \in Seq([id : Ids]) /\ Len(w) = Len(s) /\ \A i \in 1..Len(s) : w[i].id = s[i]
  OBVIOUS
<1>2. Mapped(NodeIdToWire, s) = w
  BY DEF Mapped, NodeIdToWire
<1> HIDE DEF w
<1>3. [i \in 1..Len(w) |-> w[i].id] = [i \in 1..Len(s) |-> s[i]]
  BY <1>1
<1>4. [i \in 1..Len(s) |-> s[i]] = s
  OBVIOUS
<1> QED BY <1>2, <1>3, <1>4 DEF Mapped, NodeIdFromWire

LEMMA MembershipRoundTrip ==
  ASSUME NEW m \in Memberships
  PROVE  MembershipFromWire(MembershipToWire(m)) = m
<1> DEFINE w == MembershipToWire(m)
<1>1. m.members \in Seq(Ids) /\ m.non_voters \in Seq(Ids) /\ m.removing \in Seq(Ids)
  BY DEF Memberships
<1>2. /\ Mapped(NodeIdFromWire, w.members) = m.members
      /\ Mapped(NodeIdFromWire, w.nonVoters) = m.non_voters
      /\ Mapped(NodeIdFromWire, w.removing) = m.removing
      /\ w.isInJointConsensus = m.is_in_joint_consensus
  BY <1>1, IdsRoundTrip DEF MembershipToWire
<1> HIDE DEF w
<1> QED BY <1>2 DEF MembershipFromWire, Memberships, w

LEMMA PayloadRoundTrip ==
  ASSUME NEW p \in Payloads
  PROVE  PayloadFromWire(PayloadToWire(p)) = p
<1> DEFINE w == PayloadToWire(p)
<1>1. w.tag = p.variant
  BY DEF PayloadToWire
<1>2. CASE p \in [variant : {"Blank"}, content : {None}]
  BY <1>2 DEF PayloadToWire, PayloadFromWire
<1>3. CASE p \in [variant : {"Normal"}, content : Data]
  <2>1. w.value = NormalToWire(p.content)
    BY <1>3 DEF PayloadToWire
  <2>2. NormalFromWire(w.value) = p.content
    BY <2>1 DEF NormalToWire, NormalFromWire
  <2> HIDE DEF w
  <2> QED BY <1>1, <1>3, <2>2 DEF PayloadFromWire, w
<1>4. CASE p \in [variant : {"ConfigChange"}, content : Memberships]
  <2>1. w.value = MembershipToWire(p.content)
    BY <1>4 DEF PayloadToWire
  <2>2. MembershipFromWire(w.value) = p.content
    BY <1>4, <2>1, MembershipRoundTrip
  <2> HIDE DEF w
  <2> QED BY <1>1, <1>4, <2>2 DEF PayloadFromWire, w
<1>5. CASE p \in [variant : {"SnapshotPointer"}, content : Paths]
  <2>1. w.value = SnapshotPathToWire(p.content)
    BY <1>5 DEF PayloadToWire
  <2>2. SnapshotPathFromWire(w.value) = p.content
    BY <2>1 DEF SnapshotPathToWire, SnapshotPathFromWire
  <2> HIDE DEF w
  <2> QED BY <1>1, <1>5, <2>2 DEF PayloadFromWire, w
<1> QED BY <1>2, <1>3, <1>4, <1>5 DEF Payloads

LEMMA EntryRoundTrip ==
  ASSUME NEW e \in Entries
  PROVE  EntryFromWire(EntryToWire(e)) = e
<1>1. PayloadFromWire(PayloadToWire(e.payload)) = e.payload
  BY PayloadRoundTrip DEF Entries
<1> QED BY <1>1 DEF EntryFromWire, EntryToWire, Entries

LEMMA EntriesRoundTrip ==
  ASSUME NEW s \in Seq(Entries)
  PROVE  Mapped(EntryFromWire, Mapped(EntryToWire, s)) = s
<1> DEFINE w == [i \in 1..Len(s) |-> EntryToWire(s[i])]
<1>1. /\ Len(w) = Len(s) /\ Len(s) \in Nat
      /\ \A i \in 1..Len(s) : w[i] = EntryToWire(s[i]) /\ s[i] \in Entries
  OBVIOUS
<1>2. Mapped(EntryToWire, s) = w
  BY DEF Mapped
<1> HIDE DEF w
<1>3. \A i \in 1..Len(s) : EntryFromWire(w[i]) = s[i]
  BY <1>1, EntryRoundTrip
<1>4. [i \in 1..Len(w) |-> EntryFromWire(w[i])] = [i \in 1..Len(s) |-> s[i]]
  BY <1>1, <1>3
<1>5. [i \in 1..Len(s) |-> s[i]] = s
  OBVIOUS
<1> QED BY <1>2, <1>4, <1>5 DEF Mapped

LEMMA RequestRoundTrip ==
  ASSUME NEW m \in Sendable
  PROVE  /\ FromWire(m.kind, ToWire(m)) = m
         /\ m.kind \in {"append_entries", "install_snapshot", "vote", "connect"}
<1> USE ExchangeAssumption
<1>1. CASE m \in AppendEntriesRequests
  <2>1. m.kind = "append_entries" /\ m.entries \in Seq(Entries)
    BY <1>1 DEF AppendEntriesRequests
  <2>2. AppendEntriesToWire(m).entries = Mapped(EntryToWire, m.entries)
    BY DEF AppendEntriesToWire
  <2>3. Mapped(EntryFromWire, AppendEntriesToWire(m).entries) = m.entries
    BY <2>1, <2>2, EntriesRoundTrip
  <2>4. AppendEntriesFromWire(AppendEntriesToWire(m)) =
          [kind |-> "append_entries", target |-> m.target, term |-> m.term,
           leader_id |-> m.leader_id, prev_log_index |-> m.prev_log_index,
           prev_log_term |-> m.prev_log_term, leader_commit |-> m.leader_commit,
           entries |-> m.entries]
    BY <2>3 DEF AppendEntriesFromWire, AppendEntriesToWire
  <2>5. AppendEntriesFromWire(AppendEntriesToWire(m)) = m
    BY <1>1, <2>4 DEF AppendEntriesRequests
  <2> QED BY <2>1, <2>5 DEF ToWire, FromWire
<1>2. CASE m \in InstallSnapshotRequests
  <2>1. m.kind = "install_snapshot"
    BY <1>2 DEF InstallSnapshotRequests
  <2>2. InstallSnapshotFromWire(InstallSnapshotToWire(m)) = m
    BY <1>2 DEF InstallSnapshotRequests, InstallSnapshotFromWire, InstallSnapshotToWire
  <2> QED BY <2>1, <2>2 DEF ToWire, FromWire
<1>3. CASE m \in VoteRequests
  <2>1. m.kind = "vote"
    BY <1>3 DEF VoteRequests
  <2>2. VoteFromWire(VoteToWire(m)) = m
    BY <1>3 DEF VoteRequests, VoteFromWire, VoteToWire, NewVoteRequest
  <2> QED BY <2>1, <2>2 DEF ToWire, FromWire
<1>4. CASE m \in ConnectRequests
  <2>1. m.kind = "connect"
    BY <1>4 DEF ConnectRequests
  <2>2. NodeInfoFromWire(NodeInfoToWire(m.info)) = m.info
    BY <1>4 DEF ConnectRequests, NodeInfos, NodeInfoFromWire, NodeInfoToWire
  <2>3. ConnectNodeFromWire(NodeInfoMessage(m)) = m
    BY <1>4, <2>2 DEF ConnectRequests, ConnectNodeFromWire, NodeInfoMessage,
       NodeIdToWire, NodeIdFromWire
  <2> QED BY <2>1, <2>3 DEF ToWire, FromWire
<1> QED BY <1>1, <1>2, <1>3, <1>4

LEMMA ResponseRoundTrip ==
  ASSUME NEW kind \in {"append_entries", "install_snapshot", "vote", "connect"},
         NEW r \in Responses[kind]
  PROVE  /\ kind # "connect" /\ r \in AnyResponse /\ r # None
         /\ ResponseFromWire(kind, ResponseToWire(kind, r)) = r
         /\ ResponseFields[kind] \subseteq DOMAIN ResponseToWire(kind, r)
<1> USE NoneAssumption
<1>1. CASE kind = "append_entries"
  <2>1. r \in AppendEntriesResponses /\ ResponseFields[kind] = {"term", "success"}
    BY <1>1 DEF Responses, ResponseFields
  <2>2. AppendEntriesResponseFromWire(AppendEntriesResponseToWire(r)) = r
    <3>1. CASE r.conflict_opt = None
      BY <2>1, <3>1 DEF AppendEntriesResponses, Opt, AppendEntriesResponseFromWire,
         AppendEntriesResponseToWire
    <3>2. CASE r.conflict_opt # None
      <4>1. r.conflict_opt \in Conflicts
        BY <2>1, <3>2 DEF AppendEntriesResponses, Opt
      <4>2. /\ ConflictToWire(r.conflict_opt) # None
            /\ ConflictFromWire(ConflictToWire(r.conflict_opt)) = r.conflict_opt
        BY <4>1 DEF Conflicts, ConflictToWire, ConflictFromWire
      <4> QED BY <2>1, <3>2, <4>2 DEF AppendEntriesResponses,
              AppendEntriesResponseFromWire, AppendEntriesResponseToWire
    <3> QED BY <3>1, <3>2
  <2>3. ResponseFields[kind] \subseteq DOMAIN AppendEntriesResponseToWire(r)
    BY <2>1 DEF AppendEntriesResponseToWire
  <2> QED BY <1>1, <2>1, <2>2, <2>3 DEF AnyResponse, ResponseToWire, ResponseFromWire
<1>2. CASE kind = "install_snapshot"
  <2>1. r \in InstallSnapshotResponses /\ ResponseFields[kind] = {"term"}
    BY <1>2 DEF Responses, ResponseFields
  <2>2. /\ InstallSnapshotResponseFromWire(InstallSnapshotResponseToWire(r)) = r
        /\ ResponseFields[kind] \subseteq DOMAIN InstallSnapshotResponseToWire(r)
    BY <2>1 DEF InstallSnapshotResponses, InstallSnapshotResponseFromWire,
       InstallSnapshotResponseToWire
  <2> QED BY <1>2, <2>1, <2>2 DEF AnyResponse, ResponseToWire, ResponseFromWire
<1>3. CASE kind = "vote"
  <2>1. r \in VoteResponses /\ ResponseFields[kind] = {"term", "voteGranted", "isCandidateUnknown"}
    BY <1>3 DEF Responses, ResponseFields
  <2>2. /\ VoteResponseFromWire(VoteResponseToWire(r)) = r
        /\ ResponseFields[kind] \subseteq DOMAIN VoteResponseToWire(r)
    BY <2>1 DEF VoteResponses, VoteResponseFromWire, VoteResponseToWire
  <2> QED BY <1>3, <2>1, <2>2 DEF AnyResponse, ResponseToWire, ResponseFromWire
<1>4. CASE kind = "connect"
  BY <1>4 DEF Responses
<1> QED BY <1>1, <1>2, <1>3, <1>4

(***************************************************************************)
(* The inductive invariant.                                                *)
(***************************************************************************)
Kinds == {"append_entries", "install_snapshot", "vote", "connect"}
WireRequests == {ToWire(m) : m \in Sendable}
WireResponses ==
  {AppendEntriesResponseToWire(r) : r \in AppendEntriesResponses} \cup
  {InstallSnapshotResponseToWire(r) : r \in InstallSnapshotResponses} \cup
  {VoteResponseToWire(r) : r \in VoteResponses}

CallRecords ==
  [path : {"entries", "snapshots", "vote", "nodes"}, body : WireRequests,
   at : {"endpoint", "network", "gone"}, handed : Opt(Sendable),
   reply : [form : Forms, body : Opt(WireResponses)],
   end : {"waiting", "returned", "failed"}, got : Opt(AnyResponse)]

Sent(c) == FromWire(Route[c.path], c.body)

(* The body is what was sent, what was handed over is the same, and a      *)
(* reply in JSON is a response to it.                                      *)
Sound(c) ==
  /\ c \in CallRecords
  /\ \E m \in Sendable : c.path = Path[m.kind] /\ c.body = ToWire(m)
  /\ c.handed \in {None, Sent(c)}
  /\ c.at = "endpoint" => c.handed = None
  /\ c.at = "network" => c.handed = Sent(c)
  /\ c.at # "gone" => c.reply.form = "none"
  /\ c.end = "waiting" => c.got = None
  /\ c.reply.form = "json" =>
       /\ c.handed = Sent(c)
       /\ \E r \in Responses[Route[c.path]] : c.reply.body = ResponseToWire(Route[c.path], r)

(* The thread that panicked at a reply keeps it before its eyes.           *)
PanicSeen ==
  panic = "reply" => calls # <<>> /\ Current.reply.form \notin {"none", "json"}

ExchangeInv ==
  /\ calls \in Seq(CallRecords) /\ panic \in {"no", "encoding", "reply"}
  /\ \A n \in DOMAIN calls : Sound(calls[n])
  /\ PanicSeen

LEMMA SentIsSendable ==
  ASSUME NEW c, Sound(c)
  PROVE  /\ Sent(c) \in Sendable /\ Sent(c) # None
         /\ Route[c.path] = Sent(c).kind /\ Route[c.path] \in Kinds
<1>1. PICK m \in Sendable : c.path = Path[m.kind] /\ c.body = ToWire(m)
  BY DEF Sound
<1>2. m.kind \in Kinds /\ FromWire(m.kind, ToWire(m)) = m
  BY RequestRoundTrip DEF Kinds
<1>3. Route[Path[m.kind]] = m.kind
  BY <1>2 DEF Route, Path, Kinds
<1>4. Sent(c) = m
  BY <1>1, <1>2, <1>3 DEF Sent
<1> QED BY <1>1, <1>2, <1>3, <1>4, ExchangeAssumption

LEMMA JsonIsResponse ==
  ASSUME NEW c, Sound(c), c.reply.form = "json"
  PROVE  /\ ResponseFromWire(Route[c.path], c.reply.body) \in Responses[Route[c.path]]
         /\ ResponseFromWire(Route[c.path], c.reply.body) \in AnyResponse
         /\ ResponseFromWire(Route[c.path], c.reply.body) # None
         /\ ResponseFields[Route[c.path]] \subseteq DOMAIN c.reply.body
         /\ Route[c.path] # "connect"
<1>1. Route[c.path] \in Kinds
  BY SentIsSendable
<1>2. PICK r \in Responses[Route[c.path]] : c.reply.body = ResponseToWire(Route[c.path], r)
  BY DEF Sound
<1> QED BY <1>1, <1>2, ResponseRoundTrip DEF Kinds

LEMMA ExchangeInvInit == Init => ExchangeInv
BY DEF Init, ExchangeInv, PanicSeen

(* A step that changes one request.                                        *)
LEMMA OneCall ==
  ASSUME ExchangeInv, NEW n \in DOMAIN calls, NEW c, Sound(c),
         calls' = [calls EXCEPT ![n] = c]
  PROVE  /\ calls' \in Seq(CallRecords) /\ DOMAIN calls' = DOMAIN calls
         /\ Len(calls') = Len(calls) /\ calls'[n] = c
         /\ \A k \in DOMAIN calls : k # n => calls'[k] = calls[k]
         /\ \A k \in DOMAIN calls' : Sound(calls'[k])
<1>1. c \in CallRecords /\ calls \in Seq(CallRecords)
  BY DEF Sound, ExchangeInv
<1>2. /\ calls' \in Seq(CallRecords) /\ DOMAIN calls' = DOMAIN calls
      /\ Len(calls') = Len(calls) /\ calls'[n] = c
      /\ \A k \in DOMAIN calls : k # n => calls'[k] = calls[k]
  BY <1>1
<1>3. \A k \in DOMAIN calls : Sound(calls[k])
  BY DEF ExchangeInv
<1> QED BY <1>2, <1>3

(* What a step does to a request, and whether it is seen in the channel.   *)
Ended(c, end, got) == [c EXCEPT !.end = end, !.got = got]
Served(c, place, reply) == [c EXCEPT !.at = place, !.reply = reply]
HandedOver(c) == [c EXCEPT !.at = "network", !.handed = Sent(c)]

LEMMA EndIsSound ==
  ASSUME NEW c, Sound(c), NEW end \in {"returned", "failed"}, NEW got \in Opt(AnyResponse)
  PROVE  Sound(Ended(c, end, got))
<1>1. Ended(c, end, got) \in CallRecords
  BY DEF Sound, CallRecords, Ended
<1>2. /\ Ended(c, end, got).path = c.path /\ Ended(c, end, got).body = c.body
      /\ Ended(c, end, got).at = c.at /\ Ended(c, end, got).handed = c.handed
      /\ Ended(c, end, got).reply = c.reply /\ Ended(c, end, got).end = end
  BY DEF Sound, CallRecords, Ended
<1> QED BY <1>1, <1>2 DEF Sound, Sent

LEMMA HandOverIsSound ==
  ASSUME NEW c, Sound(c), c.at = "endpoint"
  PROVE  Sound(HandedOver(c))
<1> DEFINE d == HandedOver(c)
<1>1. Sent(c) \in Sendable
  BY SentIsSendable
<1>2. /\ d \in CallRecords /\ d.path = c.path /\ d.body = c.body /\ d.at = "network"
      /\ d.handed = Sent(c) /\ d.reply = c.reply /\ d.end = c.end /\ d.got = c.got
  BY <1>1 DEF Sound, CallRecords, HandedOver, Opt
<1> HIDE DEF d
<1>3. Sent(d) = Sent(c) /\ d.reply.form = "none"
  BY <1>2 DEF Sent, Sound
<1> QED BY <1>2, <1>3 DEF Sound, d

(* An answer that is no JSON, or the response of a request handed over.    *)
LEMMA ServedIsSound ==
  ASSUME NEW c, Sound(c), NEW reply,
         \/ reply = c.reply /\ (reply.form = "json" => c.at = "gone")
         \/ \E form \in Forms \ {"json"} : reply = ReplyOf(form)
         \/ /\ c.at = "network"
            /\ \E r \in Responses[Route[c.path]] :
                 reply = ReplyJson(ResponseToWire(Route[c.path], r))
  PROVE  Sound(Served(c, "gone", reply))
<1> DEFINE d == Served(c, "gone", reply)
<1>1. c \in CallRecords /\ Route[c.path] \in Kinds
  BY SentIsSendable DEF Sound
<1>2. reply \in [form : Forms, body : Opt(WireResponses)]
  <2>1. CASE reply = c.reply
    BY <1>1, <2>1 DEF CallRecords
  <2>2. CASE \E form \in Forms \ {"json"} : reply = ReplyOf(form)
    BY <2>2 DEF ReplyOf, Opt
  <2>3. CASE \E r \in Responses[Route[c.path]] :
               reply = ReplyJson(ResponseToWire(Route[c.path], r))
    <3>1. PICK r \in Responses[Route[c.path]] :
            reply = ReplyJson(ResponseToWire(Route[c.path], r))
      BY <2>3
    <3>2. ResponseToWire(Route[c.path], r) \in WireResponses
      <4>1. CASE Route[c.path] = "append_entries"
        BY <4>1 DEF Responses, ResponseToWire, WireResponses
      <4>2. CASE Route[c.path] = "install_snapshot"
        BY <4>2 DEF Responses, ResponseToWire, WireResponses
      <4>3. CASE Route[c.path] = "vote"
        BY <4>3 DEF Responses, ResponseToWire, WireResponses
      <4>4. CASE Route[c.path] = "connect"
        BY <4>4 DEF Responses
      <4> QED BY <1>1, <4>1, <4>2, <4>3, <4>4 DEF Kinds
    <3> QED BY <3>1, <3>2 DEF ReplyJson, Opt, Forms
  <2> QED BY <2>1, <2>2, <2>3
<1>3. /\ d \in CallRecords /\ d.path = c.path /\ d.body = c.body /\ d.at = "gone"
      /\ d.handed = c.handed /\ d.reply = reply /\ d.end = c.end /\ d.got = c.got
  BY <1>1, <1>2 DEF CallRecords, Served
<1> HIDE DEF d
<1>4. Sent(d) = Sent(c)
  BY <1>3 DEF Sent
<1>5. d.reply.form = "json" =>
       /\ d.handed = Sent(d)
       /\ \E r \in Responses[Route[d.path]] : d.reply.body = ResponseToWire(Route[d.path], r)
  BY <1>3, <1>4 DEF Sound, ReplyOf, ReplyJson, Forms
<1> QED BY <1>3, <1>4, <1>5 DEF Sound, d

(***************************************************************************)
(* The channel.                                                            *)
(***************************************************************************)
ExchangedOf(c) ==
  [sent      |-> Sent(c),
   delivered |-> c.handed,
   answered  |-> IF c.reply.form = "json"
                   THEN ResponseFromWire(Route[c.path], c.reply.body) ELSE None,
   end       |-> c.end,
   got       |-> c.got]

Abs == [n \in 1..Len(calls) |-> Exchanged(n)]
ChannelStep == Channel!ChannelNext \/ UNCHANGED Abs

LEMMA ExchangedIs ==
  ASSUME NEW n \in DOMAIN calls
  PROVE  Exchanged(n) = ExchangedOf(calls[n])
BY DEF Exchanged, ExchangedOf, Sent, KindOf

(* Only the caller's end of an exchange depends on how the call ended.     *)
LEMMA ExchangedOfEnded ==
  ASSUME NEW c, NEW d,
         d.path = c.path, d.body = c.body, d.handed = c.handed, d.reply = c.reply
  PROVE  ExchangedOf(d) = [ExchangedOf(c) EXCEPT !.end = d.end, !.got = d.got]
<1> DEFINE answered(x) == IF x.reply.form = "json"
                            THEN ResponseFromWire(Route[x.path], x.reply.body) ELSE None
           of(x, y) == [sent |-> Sent(x), delivered |-> x.handed, answered |-> answered(x),
                        end |-> y.end, got |-> y.got]
<1>1. Sent(d) = Sent(c)
  BY DEF Sent
<1>2. answered(d) = answered(c)
  OBVIOUS
<1>3. ExchangedOf(d) = of(d, d) /\ ExchangedOf(c) = of(c, c)
  BY DEF ExchangedOf
<1> HIDE DEF answered
<1>4. of(d, d) = of(c, d)
  BY <1>1, <1>2
<1> DEFINE sent == Sent(c)
           delivered == c.handed
           answer == answered(c)
           end == c.end
           got == c.got
           x == d.end
           y == d.got
<1>5. /\ of(c, c) = [sent |-> sent, delivered |-> delivered, answered |-> answer,
                    end |-> end, got |-> got]
      /\ of(c, d) = [sent |-> sent, delivered |-> delivered, answered |-> answer,
                    end |-> x, got |-> y]
  OBVIOUS
<1> HIDE DEF of
<1>6. of(c, d) = [of(c, c) EXCEPT !.end = x, !.got = y]
  <2> HIDE DEF sent, delivered, answer, end, got, x, y
  <2> DEFINE r == [sent |-> sent, delivered |-> delivered, answered |-> answer,
                   end |-> end, got |-> got]
             t == [sent |-> sent, delivered |-> delivered, answered |-> answer,
                   end |-> x, got |-> y]
             keys == {"sent", "delivered", "answered", "end", "got"}
  <2>1. [r EXCEPT !.end = x, !.got = y]
          = [k \in DOMAIN r |-> IF k = "got" THEN y ELSE IF k = "end" THEN x ELSE r[k]]
    OBVIOUS
  <2>2. DOMAIN r = keys
    OBVIOUS
  <2>3. [k \in keys |-> IF k = "got" THEN y ELSE IF k = "end" THEN x ELSE r[k]] = t
    OBVIOUS
  <2>4. of(c, c) = r /\ of(c, d) = t
    BY <1>5
  <2> HIDE DEF r, t, keys
  <2> QED BY <2>1, <2>2, <2>3, <2>4
<1> QED BY <1>3, <1>4, <1>6

LEMMA AbsIs ==
  ASSUME calls \in Seq(CallRecords)
  PROVE  /\ Abs \in Seq({ExchangedOf(c) : c \in CallRecords})
         /\ Len(Abs) = Len(calls) /\ DOMAIN Abs = DOMAIN calls
         /\ \A n \in DOMAIN calls : Abs[n] = ExchangedOf(calls[n])
<1>1. DOMAIN calls = 1..Len(calls) /\ Len(calls) \in Nat
      /\ \A n \in DOMAIN calls : calls[n] \in CallRecords
  OBVIOUS
<1>2. \A n \in 1..Len(calls) : Exchanged(n) = ExchangedOf(calls[n])
  BY <1>1, ExchangedIs
<1>3. Abs = [n \in 1..Len(calls) |-> ExchangedOf(calls[n])]
  BY <1>2 DEF Abs
<1> DEFINE S == {ExchangedOf(c) : c \in CallRecords}
<1>4. \A n \in 1..Len(calls) : ExchangedOf(calls[n]) \in S
  BY <1>1
<1> HIDE DEF S
<1>5. Abs \in Seq(S) /\ Len(Abs) = Len(calls) /\ DOMAIN Abs = 1..Len(calls)
  BY <1>1, <1>3, <1>4
<1> QED BY <1>1, <1>3, <1>5 DEF S

LEMMA AbsOneCall ==
  ASSUME ExchangeInv, NEW n \in DOMAIN calls, NEW c, Sound(c),
         calls' = [calls EXCEPT ![n] = c]
  PROVE  Abs' = [Abs EXCEPT ![n] = ExchangedOf(c)]
<1>1. calls \in Seq(CallRecords)
  BY DEF ExchangeInv
<1>2. /\ calls' \in Seq(CallRecords) /\ DOMAIN calls' = DOMAIN calls
      /\ Len(calls') = Len(calls) /\ calls'[n] = c
      /\ \A k \in DOMAIN calls : k # n => calls'[k] = calls[k]
  BY OneCall
<1>3. /\ Len(Abs) = Len(calls) /\ DOMAIN Abs = DOMAIN calls
      /\ \A k \in DOMAIN calls : Abs[k] = ExchangedOf(calls[k])
  BY <1>1, AbsIs
<1>4. Abs' = [k \in DOMAIN calls |-> ExchangedOf(calls'[k])]
  <2>1. \A k \in DOMAIN calls : Exchanged(k)' = ExchangedOf(calls'[k])
    BY <1>2 DEF Exchanged, ExchangedOf, Sent, KindOf
  <2>2. 1..Len(calls') = DOMAIN calls
    BY <1>1, <1>2
  <2> QED BY <2>1, <2>2 DEF Abs
<1>5. Abs = [k \in DOMAIN calls |-> ExchangedOf(calls[k])]
  <2>1. 1..Len(calls) = DOMAIN calls
    BY <1>1
  <2> QED BY <2>1, ExchangedIs DEF Abs
<1> QED BY <1>2, <1>4, <1>5

(* The actions of the channel over its refinement.                         *)
LEMMA Delivers ==
  ASSUME NEW n \in DOMAIN Abs, Abs[n].delivered = None,
         Abs' = [Abs EXCEPT ![n].delivered = Abs[n].sent]
  PROVE  ChannelStep
<1>1. Channel!Deliver
  BY DEF Abs, Channel!Deliver
<1> QED BY <1>1 DEF ChannelStep, Channel!ChannelNext

LEMMA Answers ==
  ASSUME NEW n \in DOMAIN Abs, Abs[n].delivered # None, Abs[n].answered = None,
         Abs[n].sent \in Sendable, NEW a \in Responses[Abs[n].sent.kind],
         Abs' = [Abs EXCEPT ![n].answered = a]
  PROVE  ChannelStep
<1>1. [m \in Sendable |-> Responses[m.kind]][Abs[n].sent] = Responses[Abs[n].sent.kind]
  OBVIOUS
<1>2. Channel!Answer
  BY <1>1 DEF Abs, Channel!Answer
<1> QED BY <1>2 DEF ChannelStep, Channel!ChannelNext

LEMMA Returns ==
  ASSUME Abs # <<>>, Abs[Len(Abs)].end = "waiting", Abs[Len(Abs)].answered # None,
         Abs' = [Abs EXCEPT ![Len(Abs)].end = "returned",
                            ![Len(Abs)].got = Abs[Len(Abs)].answered]
  PROVE  ChannelStep
<1>1. Channel!Return
  BY DEF Abs, Channel!Return, Channel!InExchange
<1> QED BY <1>1 DEF ChannelStep, Channel!ChannelNext

LEMMA GivesUp ==
  ASSUME Abs # <<>>, Abs[Len(Abs)].end = "waiting",
         Abs' = [Abs EXCEPT ![Len(Abs)].end = "failed"]
  PROVE  ChannelStep
<1>1. Channel!GiveUp
  BY DEF Abs, Channel!GiveUp, Channel!InExchange
<1> QED BY <1>1 DEF ChannelStep, Channel!ChannelNext

LEMMA CallsOut ==
  ASSUME ~(Abs # <<>> /\ Abs[Len(Abs)].end = "waiting"), NEW m \in Sendable,
         Abs' = Append(Abs, Channel!NewExchange(m))
  PROVE  ChannelStep
<1>1. Channel!Call
  BY DEF Abs, Channel!Call, Channel!InExchange
<1> QED BY <1>1 DEF ChannelStep, Channel!ChannelNext

(***************************************************************************)
(* The steps.                                                              *)
(***************************************************************************)
Good == ExchangeInv' /\ ChannelStep

LEMMA LastIsSound ==
  ASSUME ExchangeInv, Waiting
  PROVE  /\ Len(calls) \in DOMAIN calls /\ Sound(Current) /\ Current.end = "waiting"
         /\ Current.got = None /\ Current = calls[Len(calls)]
         /\ Abs # <<>> /\ Len(Abs) = Len(calls) /\ Abs[Len(Abs)] = ExchangedOf(Current)
<1>1. /\ calls \in Seq(CallRecords) /\ calls # <<>> /\ Current = calls[Len(calls)]
      /\ Current.end = "waiting"
  BY DEF ExchangeInv, Waiting, Current
<1>2. Len(calls) \in DOMAIN calls
  BY <1>1
<1>3. Sound(Current) /\ Current.got = None
  BY <1>1, <1>2 DEF ExchangeInv, Sound
<1>4. /\ Abs \in Seq({ExchangedOf(c) : c \in CallRecords}) /\ Len(Abs) = Len(calls)
      /\ DOMAIN Abs = DOMAIN calls /\ Abs[Len(calls)] = ExchangedOf(calls[Len(calls)])
  BY <1>1, <1>2, AbsIs
<1>5. Abs # <<>>
  BY <1>2, <1>4
<1> QED BY <1>1, <1>2, <1>3, <1>4, <1>5

LEMMA AppendIs ==
  ASSUME NEW T, NEW s \in Seq(T), NEW x \in T
  PROVE  Append(s, x) = [n \in 1..(Len(s) + 1) |-> IF n = Len(s) + 1 THEN x ELSE s[n]]
<1> DEFINE t == Append(s, x)
<1>1. /\ t \in Seq(T) /\ Len(t) = Len(s) + 1 /\ Len(s) \in Nat /\ t[Len(s) + 1] = x
      /\ \A n \in 1..Len(s) : t[n] = s[n]
  OBVIOUS
<1> HIDE DEF t
<1>2. t = [n \in 1..Len(t) |-> t[n]]
  BY <1>1
<1>3. \A n \in 1..(Len(s) + 1) : t[n] = IF n = Len(s) + 1 THEN x ELSE s[n]
  BY <1>1
<1> QED BY <1>1, <1>2, <1>3 DEF t

LEMMA SendGood ==
  ASSUME ExchangeInv, NEW m \in Sendable, SendCommand(m)
  PROVE  Good
<1> DEFINE c == [path |-> Path[m.kind], body |-> ToWire(m), at |-> "endpoint", handed |-> None,
                 reply |-> ReplyOf("none"), end |-> "waiting", got |-> None]
<1>1. /\ calls' = Append(calls, c) /\ UNCHANGED panic /\ panic = "no" /\ ~Waiting
      /\ calls \in Seq(CallRecords)
  BY DEF SendCommand, Ready, ExchangeInv
<1>2. m.kind \in Kinds /\ FromWire(m.kind, ToWire(m)) = m
  BY RequestRoundTrip DEF Kinds
<1>3. Path[m.kind] \in {"entries", "snapshots", "vote", "nodes"} /\ Route[Path[m.kind]] = m.kind
  BY <1>2 DEF Path, Route, Kinds
<1>4. c \in CallRecords
  BY <1>3 DEF CallRecords, WireRequests, Opt, ReplyOf, Forms
<1>5. Sound(c) /\ ExchangedOf(c) = Channel!NewExchange(m)
  BY <1>2, <1>3, <1>4 DEF Sound, Sent, ExchangedOf, Channel!NewExchange, ReplyOf
<1> HIDE DEF c
<1>6. /\ calls' \in Seq(CallRecords) /\ Len(calls') = Len(calls) + 1
      /\ DOMAIN calls' = 1..(Len(calls) + 1) /\ DOMAIN calls = 1..Len(calls)
      /\ \A n \in 1..Len(calls) : calls'[n] = calls[n]
      /\ calls'[Len(calls) + 1] = c /\ Len(calls) \in Nat
  BY <1>1, <1>4
<1>7. ExchangeInv'
  <2>1. ASSUME NEW n \in DOMAIN calls' PROVE Sound(calls'[n])
    <3>1. CASE n \in 1..Len(calls)
      BY <1>6, <3>1 DEF ExchangeInv
    <3>2. CASE n = Len(calls) + 1
      BY <1>5, <1>6, <3>2
    <3> QED BY <1>6, <3>1, <3>2
  <2> QED BY <1>1, <1>6, <2>1 DEF ExchangeInv, PanicSeen
<1> DEFINE S == {ExchangedOf(d) : d \in CallRecords}
           e == ExchangedOf(c)
<1>8. Abs \in Seq(S) /\ Len(Abs) = Len(calls) /\ e \in S
  BY <1>1, <1>4, AbsIs
<1>9. \A n \in DOMAIN calls' : Exchanged(n)' = ExchangedOf(calls'[n])
  BY <1>6 DEF Exchanged, ExchangedOf, Sent, KindOf
<1>10. Abs' = [n \in 1..(Len(calls) + 1) |-> IF n = Len(calls) + 1 THEN e ELSE Abs[n]]
  <2>1. Abs' = [n \in 1..(Len(calls) + 1) |-> ExchangedOf(calls'[n])]
    BY <1>6, <1>9 DEF Abs
  <2>2. \A n \in 1..Len(calls) : Abs[n] = ExchangedOf(calls[n])
    BY <1>1, <1>6, AbsIs
  <2>3. \A n \in 1..(Len(calls) + 1) : n \in 1..Len(calls) \/ n = Len(calls) + 1
    BY <1>6
  <2>4. \A n \in 1..(Len(calls) + 1) :
          ExchangedOf(calls'[n]) = IF n = Len(calls) + 1 THEN e ELSE Abs[n]
    <3> HIDE DEF e
    <3> SUFFICES ASSUME NEW n \in 1..(Len(calls) + 1)
                 PROVE  ExchangedOf(calls'[n]) = IF n = Len(calls) + 1 THEN e ELSE Abs[n]
      OBVIOUS
    <3>1. CASE n = Len(calls) + 1
      BY <1>6, <3>1 DEF e
    <3>2. CASE n # Len(calls) + 1
      BY <1>6, <2>2, <2>3, <3>2
    <3> QED BY <3>1, <3>2
  <2> QED BY <2>1, <2>4
<1> HIDE DEF S, e
<1>11. Append(Abs, e) = [n \in 1..(Len(calls) + 1) |-> IF n = Len(calls) + 1 THEN e ELSE Abs[n]]
  BY <1>8, AppendIs
<1>12. ~(Abs # <<>> /\ Abs[Len(Abs)].end = "waiting")
  <2>1. CASE calls = <<>>
    BY <1>8, <2>1
  <2>2. CASE calls # <<>>
    <3>1. Len(calls) \in DOMAIN calls
      BY <1>1, <2>2
    <3>2. Abs[Len(calls)] = ExchangedOf(calls[Len(calls)])
      BY <1>1, <3>1, AbsIs
    <3> QED BY <1>1, <1>8, <2>2, <3>2 DEF Waiting, ExchangedOf
  <2> QED BY <2>1, <2>2
<1>13. ChannelStep
  BY <1>5, <1>10, <1>11, <1>12, CallsOut DEF e
<1> QED BY <1>7, <1>13 DEF Good

LEMMA EncodingPanicGood ==
  ASSUME ExchangeInv, NEW m, EncodingPanics(m)
  PROVE  Good
<1>1. UNCHANGED calls /\ panic' = "encoding"
  BY DEF EncodingPanics
<1>2. ExchangeInv'
  BY <1>1 DEF ExchangeInv, PanicSeen
<1>3. UNCHANGED Abs
  BY <1>1 DEF Abs, Exchanged, KindOf
<1> QED BY <1>2, <1>3 DEF Good, ChannelStep

(* The sending thread goes on.                                             *)
LEMMA EndGood ==
  ASSUME ExchangeInv, Waiting, NEW end \in {"returned", "failed"},
         NEW got \in Opt(AnyResponse), End(end, got),
         \/ end = "failed" /\ got = None
         \/ /\ end = "returned" /\ Current.reply.form = "json"
            /\ got = ResponseFromWire(CurrentKind, Current.reply.body) /\ got # None,
         panic' \in {"no", "encoding", "reply"},
         panic' = "reply" => Current.reply.form \notin {"none", "json"}
  PROVE  Good
<1> DEFINE n == Len(calls)
           c == Ended(Current, end, got)
<1>1. /\ n \in DOMAIN calls /\ Sound(Current) /\ Current.end = "waiting"
      /\ Current.got = None /\ Current = calls[n] /\ calls # <<>>
      /\ Abs # <<>> /\ Len(Abs) = n /\ Abs[n] = ExchangedOf(Current)
  BY LastIsSound DEF Waiting
<1>2. Sound(c)
  BY <1>1, EndIsSound
<1>3. calls' = [calls EXCEPT ![n] = c]
  BY <1>1 DEF End, Ended
<1>4. /\ c.reply = Current.reply
      /\ ExchangedOf(c) = [ExchangedOf(Current) EXCEPT !.end = end, !.got = got]
  <2>1. /\ c.path = Current.path /\ c.body = Current.body /\ c.handed = Current.handed
        /\ c.reply = Current.reply /\ c.end = end /\ c.got = got
    BY <1>1 DEF Sound, CallRecords, Ended
  <2> HIDE DEF c
  <2> QED BY <2>1, ExchangedOfEnded
<1> HIDE DEF n, c
<1>5. /\ calls' \in Seq(CallRecords) /\ Len(calls') = n /\ calls'[n] = c
      /\ \A k \in DOMAIN calls' : Sound(calls'[k])
  BY <1>1, <1>2, <1>3, OneCall DEF n
<1>6. ExchangeInv'
  <2>1. Current' = c /\ calls' # <<>>
    BY <1>1, <1>5 DEF Current
  <2> QED BY <1>4, <1>5, <2>1 DEF ExchangeInv, PanicSeen
<1>7. Abs' = [Abs EXCEPT ![n] = ExchangedOf(c)]
  BY <1>1, <1>2, <1>3, AbsOneCall
<1>8. CASE end = "failed" /\ got = None
  <2>1. ExchangedOf(c) = [ExchangedOf(Current) EXCEPT !.end = "failed"]
    <3> DEFINE x == ExchangedOf(Current)
    <3>1. x.got = None
      BY <1>1 DEF ExchangedOf
    <3>2. x = [x EXCEPT !.got = None]
      BY <3>1 DEF ExchangedOf
    <3> HIDE DEF x
    <3>3. [x EXCEPT !.end = "failed", !.got = None] = [x EXCEPT !.end = "failed"]
      BY <3>2
    <3> QED BY <1>4, <1>8, <3>3 DEF x
  <2>2. Abs' = [Abs EXCEPT ![n].end = "failed"]
    BY <1>1, <1>7, <2>1
  <2>3. Abs[Len(Abs)].end = "waiting"
    BY <1>1 DEF ExchangedOf
  <2> QED BY <1>1, <1>6, <2>2, <2>3, GivesUp DEF Good
<1>9. CASE end = "returned" /\ Current.reply.form = "json" /\ got # None
           /\ got = ResponseFromWire(CurrentKind, Current.reply.body)
  <2>1. Abs[n].answered = got /\ Abs[n].end = "waiting"
    BY <1>1, <1>9 DEF ExchangedOf, CurrentKind
  <2>2. Abs' = [Abs EXCEPT ![n].end = "returned", ![n].got = Abs[n].answered]
    BY <1>1, <1>4, <1>7, <1>9, <2>1
  <2> QED BY <1>1, <1>6, <1>9, <2>1, <2>2, Returns DEF Good
<1> QED BY <1>8, <1>9

LEMMA ReadGood ==
  ASSUME ExchangeInv, ReadResponse
  PROVE  Good
<1>1. Waiting /\ Readable /\ UNCHANGED panic /\ panic = "no"
      /\ End("returned", ResponseFromWire(CurrentKind, Current.reply.body))
  BY DEF ReadResponse
<1>2. Sound(Current) /\ Current.reply.form = "json"
  BY <1>1, LastIsSound DEF Readable
<1>3. /\ ResponseFromWire(CurrentKind, Current.reply.body) \in Opt(AnyResponse)
      /\ ResponseFromWire(CurrentKind, Current.reply.body) # None
  BY <1>2, JsonIsResponse DEF CurrentKind, Opt
<1> QED BY <1>1, <1>2, <1>3, EndGood

LEMMA FailsGood ==
  ASSUME ExchangeInv, ReplyPanics \/ ConnectFails \/ RequestFails
  PROVE  Good
<1>1. Waiting /\ End("failed", None) /\ panic = "no" /\ None \in Opt(AnyResponse)
  BY DEF ReplyPanics, ConnectFails, RequestFails, Opt
<1>2. CASE ReplyPanics
  <2>1. Sound(Current) /\ Current.reply.form # "none"
    BY <1>1, <1>2, LastIsSound DEF ReplyPanics
  <2>2. Current.reply.form # "json"
    BY <1>2, <2>1, JsonIsResponse DEF ReplyPanics, Readable, CurrentKind
  <2>3. panic' = "reply"
    BY <1>2 DEF ReplyPanics
  <2> QED BY <1>1, <2>1, <2>2, <2>3, EndGood
<1>3. CASE ConnectFails \/ RequestFails
  <2>1. panic' = "no"
    BY <1>3 DEF ConnectFails, RequestFails
  <2> QED BY <1>1, <2>1, EndGood
<1> QED BY <1>2, <1>3

(* The endpoint goes on with a request.                                    *)
LEMMA EndpointInv ==
  ASSUME ExchangeInv, NEW n \in DOMAIN calls, NEW c, Sound(c), calls[n].at # "gone",
         calls' = [calls EXCEPT ![n] = c], UNCHANGED panic
  PROVE  ExchangeInv'
<1>1. /\ calls' \in Seq(CallRecords) /\ DOMAIN calls' = DOMAIN calls
      /\ Len(calls') = Len(calls)
      /\ \A k \in DOMAIN calls : k # n => calls'[k] = calls[k]
      /\ \A k \in DOMAIN calls' : Sound(calls'[k])
  BY OneCall
<1>2. PanicSeen'
  <2> SUFFICES ASSUME panic = "reply" PROVE calls' # <<>> /\ Current'.reply.form \notin {"none", "json"}
    BY DEF PanicSeen
  <2>1. /\ calls # <<>> /\ Current.reply.form \notin {"none", "json"}
        /\ calls \in Seq(CallRecords)
    BY DEF ExchangeInv, PanicSeen
  <2>2. Len(calls) \in DOMAIN calls /\ Len(calls) # 0
    BY <2>1
  <2>3. Len(calls) # n
    BY <2>1 DEF ExchangeInv, Sound, Current
  <2>4. Current' = Current
    BY <1>1, <2>2, <2>3 DEF Current
  <2>5. calls' # <<>>
    BY <1>1, <2>2
  <2> QED BY <2>1, <2>4, <2>5
<1> QED BY <1>1, <1>2 DEF ExchangeInv

LEMMA HandOverGood ==
  ASSUME ExchangeInv, NEW n \in DOMAIN calls, HandOver(n)
  PROVE  Good
<1> DEFINE c == HandedOver(calls[n])
<1>1. Sound(calls[n]) /\ calls[n].at = "endpoint" /\ UNCHANGED panic
  BY DEF ExchangeInv, HandOver, At
<1>2. Sound(c)
  BY <1>1, HandOverIsSound
<1>3. calls' = [calls EXCEPT ![n] = c]
  BY DEF HandOver, HandedOver, Sent, KindOf
<1>4. /\ calls[n].handed = None /\ calls \in Seq(CallRecords)
      /\ ExchangedOf(c) = [ExchangedOf(calls[n]) EXCEPT !.delivered = Sent(calls[n])]
  <2>1. /\ c.path = calls[n].path /\ c.body = calls[n].body /\ c.handed = Sent(calls[n])
        /\ c.reply = calls[n].reply /\ c.end = calls[n].end /\ c.got = calls[n].got
    BY <1>1 DEF Sound, CallRecords, HandedOver
  <2> HIDE DEF c
  <2> QED BY <1>1, <2>1 DEF ExchangedOf, Sent, Sound, ExchangeInv
<1> HIDE DEF c
<1>5. ExchangeInv'
  BY <1>1, <1>2, <1>3, EndpointInv
<1>6. DOMAIN Abs = DOMAIN calls /\ Abs[n] = ExchangedOf(calls[n])
  BY <1>4, AbsIs
<1>7. Abs[n].delivered = None /\ Abs[n].sent = Sent(calls[n])
  BY <1>4, <1>6 DEF ExchangedOf
<1>8. Abs' = [Abs EXCEPT ![n].delivered = Abs[n].sent]
  <2>1. Abs' = [Abs EXCEPT ![n] = ExchangedOf(c)]
    BY <1>2, <1>3, AbsOneCall
  <2> QED BY <1>4, <1>6, <1>7, <2>1
<1> QED BY <1>5, <1>6, <1>7, <1>8, Delivers DEF Good

(* What is neither an answer of Raft nor a delivery is not seen.           *)
LEMMA UnseenGood ==
  ASSUME ExchangeInv, NEW n \in DOMAIN calls, calls[n].at # "gone", NEW reply,
         reply = calls[n].reply \/ \E form \in Forms \ {"json"} : reply = ReplyOf(form),
         calls' = [calls EXCEPT ![n] = Served(calls[n], "gone", reply)], UNCHANGED panic
  PROVE  Good
<1> DEFINE c == Served(calls[n], "gone", reply)
<1>1. Sound(calls[n]) /\ calls \in Seq(CallRecords)
  BY DEF ExchangeInv
<1>2. calls[n].reply.form = "none"
  BY <1>1 DEF Sound
<1>3. reply.form # "json"
  BY <1>2 DEF ReplyOf, Forms
<1>4. Sound(c)
  BY <1>1, <1>3, ServedIsSound
<1>5. ExchangedOf(c) = ExchangedOf(calls[n])
  <2>1. /\ c.path = calls[n].path /\ c.body = calls[n].body /\ c.handed = calls[n].handed
        /\ c.reply = reply /\ c.end = calls[n].end /\ c.got = calls[n].got
    BY <1>1 DEF Sound, CallRecords, Served
  <2> HIDE DEF c
  <2> QED BY <1>2, <1>3, <2>1 DEF ExchangedOf, Sent
<1> HIDE DEF c
<1>6. ExchangeInv'
  BY <1>4, EndpointInv DEF c
<1>7. Abs' = [Abs EXCEPT ![n] = ExchangedOf(c)]
  BY <1>4, AbsOneCall DEF c
<1>8. /\ DOMAIN Abs = DOMAIN calls /\ Abs[n] = ExchangedOf(calls[n])
      /\ Abs \in Seq({ExchangedOf(d) : d \in CallRecords})
  BY <1>1, AbsIs
<1>9. Abs' = Abs
  BY <1>5, <1>7, <1>8
<1> QED BY <1>6, <1>9 DEF Good, ChannelStep

LEMMA NetworkAnswersGood ==
  ASSUME ExchangeInv, NEW n \in DOMAIN calls, NetworkAnswers(n)
  PROVE  Good
<1>1. PICK r \in Responses[KindOf(n)] :
        Reply(n, "network", ReplyJson(ResponseToWire(KindOf(n), r)))
  BY DEF NetworkAnswers
<1> DEFINE kind == Route[calls[n].path]
           reply == ReplyJson(ResponseToWire(kind, r))
           c == Served(calls[n], "gone", reply)
<1>2. /\ calls[n].at = "network" /\ UNCHANGED panic /\ r \in Responses[kind]
      /\ calls' = [calls EXCEPT ![n] = c]
  BY <1>1 DEF Reply, At, KindOf, Served
<1>3. Sound(calls[n]) /\ calls \in Seq(CallRecords)
  BY DEF ExchangeInv
<1>4. Sound(c)
  BY <1>2, <1>3, ServedIsSound
<1>5. /\ Sent(calls[n]) \in Sendable /\ Sent(calls[n]) # None
      /\ kind = Sent(calls[n]).kind /\ kind \in Kinds
  BY <1>3, SentIsSendable
<1>6. ResponseFromWire(kind, reply.body) = r /\ reply.form = "json"
  BY <1>2, <1>5, ResponseRoundTrip DEF ReplyJson, Kinds
<1>7. ExchangedOf(c) = [ExchangedOf(calls[n]) EXCEPT !.answered = r]
  <2>1. /\ c.path = calls[n].path /\ c.body = calls[n].body /\ c.handed = calls[n].handed
        /\ c.reply = reply /\ c.end = calls[n].end /\ c.got = calls[n].got
    BY <1>3 DEF Sound, CallRecords, Served
  <2> HIDE DEF c, reply
  <2> QED BY <1>6, <2>1 DEF ExchangedOf, Sent
<1>8. /\ DOMAIN Abs = DOMAIN calls /\ Abs[n] = ExchangedOf(calls[n])
  BY <1>3, AbsIs
<1>9. /\ Abs[n].delivered # None /\ Abs[n].answered = None
      /\ Abs[n].sent = Sent(calls[n])
  <2>1. calls[n].handed = Sent(calls[n]) /\ calls[n].reply.form = "none"
    BY <1>2, <1>3 DEF Sound
  <2> QED BY <1>5, <1>8, <2>1 DEF ExchangedOf
<1> HIDE DEF kind, reply, c
<1>10. ExchangeInv'
  BY <1>2, <1>4, EndpointInv
<1>11. Abs' = [Abs EXCEPT ![n] = ExchangedOf(c)]
  BY <1>2, <1>4, AbsOneCall
<1>12. Abs' = [Abs EXCEPT ![n].answered = r]
  BY <1>7, <1>8, <1>11
<1>13. r \in Responses[Abs[n].sent.kind] /\ Abs[n].sent \in Sendable
  BY <1>2, <1>5, <1>9
<1>14. ChannelStep
  BY <1>8, <1>9, <1>12, <1>13, Answers
<1> QED BY <1>10, <1>14 DEF Good

LEMMA OtherRepliesGood ==
  ASSUME ExchangeInv, NEW n \in DOMAIN calls,
         \/ WorkerPanics(n) \/ RejectTooLarge(n) \/ MailboxClosed(n)
         \/ NetworkRefuses(n) \/ ConnectAnswered(n) \/ Dropped(n)
  PROVE  Good
<1>1. CASE WorkerPanics(n) \/ Dropped(n)
  <2>1. /\ calls[n].at # "gone" /\ UNCHANGED panic
        /\ calls' = [calls EXCEPT ![n].at = "gone"]
    BY <1>1 DEF WorkerPanics, Dropped, At
  <2>2. calls[n] \in CallRecords
    BY DEF ExchangeInv, Sound
  <2>3. Served(calls[n], "gone", calls[n].reply) = [calls[n] EXCEPT !.at = "gone"]
    BY <2>2 DEF Served, CallRecords
  <2>4. calls' = [calls EXCEPT ![n] = Served(calls[n], "gone", calls[n].reply)]
    BY <2>1, <2>3
  <2> QED BY <2>1, <2>4, UnseenGood
<1>2. CASE RejectTooLarge(n) \/ MailboxClosed(n) \/ NetworkRefuses(n) \/ ConnectAnswered(n)
  <2>1. PICK place \in {"endpoint", "network"}, form \in {"tooLarge", "error", "empty"} :
          Reply(n, place, ReplyOf(form))
    BY <1>2 DEF RejectTooLarge, MailboxClosed, NetworkRefuses, ConnectAnswered
  <2>2. form \in Forms \ {"json"}
    BY DEF Forms
  <2>3. /\ calls[n].at # "gone" /\ UNCHANGED panic
        /\ calls' = [calls EXCEPT ![n] = Served(calls[n], "gone", ReplyOf(form))]
    BY <2>1 DEF Reply, At, Served
  <2> QED BY <2>2, <2>3, UnseenGood
<1> QED BY <1>1, <1>2

LEMMA StepGood == ExchangeInv /\ [Next]_vars => Good
<1> SUFFICES ASSUME ExchangeInv, [Next]_vars PROVE Good
  OBVIOUS
<1>1. CASE UNCHANGED vars
  <2>1. UNCHANGED <<calls, panic>>
    BY <1>1 DEF vars
  <2>2. ExchangeInv'
    BY <2>1 DEF ExchangeInv, PanicSeen, Current
  <2>3. UNCHANGED Abs
    BY <2>1 DEF Abs, Exchanged, KindOf
  <2> QED BY <2>2, <2>3 DEF Good, ChannelStep
<1>2. CASE Caller
  BY <1>2, SendGood, EncodingPanicGood, ReadGood, FailsGood DEF Caller
<1>3. ASSUME NEW n \in DOMAIN calls, Endpoint(n) PROVE Good
  BY <1>3, HandOverGood, NetworkAnswersGood, OtherRepliesGood DEF Endpoint
<1> QED BY <1>1, <1>2, <1>3 DEF Next

THEOREM ExchangeInvariance == Spec => []ExchangeInv
<1>1. ExchangeInv /\ [Next]_vars => ExchangeInv'
  BY StepGood DEF Good
<1> QED BY <1>1, ExchangeInvInit, PTL DEF Spec

(* Type correctness of both sides of the exchange, for every content of    *)
(* the messages and any number of requests.                                *)
THEOREM ExchangeTyping == Spec => []TypeOK
<1>1. ExchangeInv => TypeOK
  <2> SUFFICES ASSUME ExchangeInv, NEW n \in DOMAIN calls
               PROVE  /\ \E m \in Sendable : calls[n].path = Path[m.kind] /\ calls[n].body = ToWire(m)
                      /\ calls[n].at \in {"endpoint", "network", "gone"}
                      /\ calls[n].handed \in Opt(Sendable)
                      /\ calls[n].reply.form \in Forms
                      /\ calls[n].end \in {"waiting", "returned", "failed"}
                      /\ calls[n].got \in Opt(AnyResponse)
    BY DEF TypeOK, ExchangeInv
  <2> QED BY DEF ExchangeInv, Sound, CallRecords
<1> QED BY <1>1, ExchangeInvariance, PTL

(* A response of a peer's Raft never takes the sender down: whatever is in *)
(* it, its JSON has what the sender requires.                              *)
THEOREM ResponsesAreReadable == Spec => []ResponsesAreRead
<1>1. ExchangeInv => ResponsesAreRead
  BY DEF ExchangeInv, PanicSeen, ResponsesAreRead
<1> QED BY <1>1, ExchangeInvariance, PTL

(* Whatever entries, memberships, snapshots and votes Raft sends, and      *)
(* however timeouts and the endpoint's threads interleave, they arrive as  *)
(* they were sent, at most once, and each response at its own request.     *)
THEOREM ExchangeImplementsChannel == Spec => ImplementsRpcChannel
<1>1. Init => Channel!ChannelInit
  BY DEF Init, Channel!ChannelInit
<1>2. ExchangeInv /\ [Next]_vars =>
        [Channel!ChannelNext]_([n \in 1..Len(calls) |-> Exchanged(n)])
  BY StepGood DEF Good, ChannelStep, Abs
<1> QED BY <1>1, <1>2, ExchangeInvariance, PTL DEF Spec, ImplementsRpcChannel, Channel!ChannelSpec
=============================================================================
