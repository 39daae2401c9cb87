----------------------------- MODULE RpcChannel -----------------------------
(***************************************************************************)
(* What Raft may rely on when it sends RPCs to a peer.  The caller waits   *)
(* for one reply at a time and may give up.  A request is delivered as it  *)
(* was sent and at most once, but maybe after the caller gave up, and      *)
(* after later requests.  The caller gets nothing but the answer to the    *)
(* very request it waits for.                                              *)
(***************************************************************************)
EXTENDS Naturals, Sequences

CONSTANTS
  Messages,   \* requests
  Answers,    \* the answers to each
  None

VARIABLE channel

NewExchange(m) ==
  [sent |-> m, delivered |-> None, answered |-> None, end |-> "waiting", got |-> None]

InExchange == channel # <<>> /\ channel[Len(channel)].end = "waiting"

ChannelInit == channel = <<>>

Call ==
  /\ ~InExchange
  /\ \E m \in Messages : channel' = Append(channel, NewExchange(m))

Deliver ==
  \E n \in DOMAIN channel :
    /\ channel[n].delivered = None
    /\ channel' = [channel EXCEPT ![n].delivered = channel[n].sent]

Answer ==
  \E n \in DOMAIN channel :
    /\ channel[n].delivered # None /\ channel[n].answered = None
    /\ \E a \in Answers[channel[n].sent] :
         channel' = [channel EXCEPT ![n].answered = a]

Return ==
  LET n == Len(channel) IN
    /\ InExchange /\ channel[n].answered # None
    /\ channel' = [channel EXCEPT ![n].end = "returned", ![n].got = channel[n].answered]

GiveUp ==
  InExchange /\ channel' = [channel EXCEPT ![Len(channel)].end = "failed"]

ChannelNext == Call \/ Deliver \/ Answer \/ Return \/ GiveUp

ChannelSpec == ChannelInit /\ [][ChannelNext]_channel
=============================================================================
