--------------------------- MODULE Cluster_proofs ---------------------------
(***************************************************************************)
(* Proofs about Cluster, for any number of hosts, whatever they are        *)
(* configured with, and any number of orphaned requests: calls and what is *)
(* owed for them stay together, and each host implements Registry.         *)
(***************************************************************************)
EXTENDS Cluster, FiniteSetTheorems, SequenceTheorems, TLAPS

Messages == Requests \cup OwnMessages

(***************************************************************************)
(* Requests in a mailbox.                                                  *)
(***************************************************************************)
LiveOf(msg, h) == msg.live /\ msg.from = h

NoneOf(s, h) == \A i \in DOMAIN s : ~LiveOf(s[i], h)
OnceOf(s, h, request) ==
  \E i \in DOMAIN s : s[i] = request /\ \A j \in DOMAIN s : LiveOf(s[j], h) => j = i

(* What is in the mailbox t was in s, each message at an index of its own. *)
Within(t, s) ==
  \E f \in [DOMAIN t -> DOMAIN s] :
    /\ \A i \in DOMAIN t : t[i].kind = s[f[i]].kind /\ t[i].from = s[f[i]].from
    /\ \A i, j \in DOMAIN t : f[i] = f[j] => i = j

Pending(s, kind) == \E i \in DOMAIN s : s[i].kind = kind
Single(s, kind) == \A i, j \in DOMAIN s : s[i].kind = kind /\ s[j].kind = kind => i = j
Foreign(s, h) == \A i \in DOMAIN s : s[i].kind \in RequestKinds => s[i].from # h

LEMMA WithinIsLess ==
  ASSUME NEW s, NEW t, Within(t, s)
  PROVE  /\ \A kind : Pending(t, kind) => Pending(s, kind)
         /\ \A kind : Single(s, kind) => Single(t, kind)
         /\ \A h : Foreign(s, h) => Foreign(t, h)
<1> PICK f \in [DOMAIN t -> DOMAIN s] :
      /\ \A i \in DOMAIN t : t[i].kind = s[f[i]].kind /\ t[i].from = s[f[i]].from
      /\ \A i, j \in DOMAIN t : f[i] = f[j] => i = j
  BY DEF Within
<1> QED BY DEF Pending, Single, Foreign

LEMMA AfterAppend ==
  ASSUME NEW s \in Seq(Messages), NEW m \in Messages, NEW h
  PROVE  /\ Append(s, m) \in Seq(Messages)
         /\ NoneOf(s, h) /\ ~LiveOf(m, h) => NoneOf(Append(s, m), h)
         /\ \A r : OnceOf(s, h, r) /\ ~LiveOf(m, h) => OnceOf(Append(s, m), h, r)
         /\ NoneOf(s, h) => OnceOf(Append(s, m), h, m)
<1> DEFINE t == Append(s, m)
<1>1. /\ t \in Seq(Messages) /\ DOMAIN s = 1..Len(s) /\ DOMAIN t = 1..(Len(s) + 1)
      /\ \A i \in 1..Len(s) : t[i] = s[i]
      /\ t[Len(s) + 1] = m /\ Len(s) \in Nat
  OBVIOUS
<1> HIDE DEF t
<1>2. /\ \A i \in DOMAIN t : i \in DOMAIN s \/ i = Len(s) + 1
      /\ \A i \in DOMAIN s : i \in DOMAIN t /\ t[i] = s[i]
      /\ Len(s) + 1 \in DOMAIN t
  BY <1>1
<1>3. NoneOf(s, h) /\ ~LiveOf(m, h) => NoneOf(t, h)
  BY <1>1, <1>2 DEF NoneOf
<1>4. ASSUME NEW r, OnceOf(s, h, r), ~LiveOf(m, h)
      PROVE  OnceOf(t, h, r)
  BY <1>1, <1>2, <1>4 DEF OnceOf
<1>5. NoneOf(s, h) => OnceOf(t, h, m)
  BY <1>1, <1>2 DEF NoneOf, OnceOf
<1> QED BY <1>1, <1>3, <1>4, <1>5 DEF t

LEMMA AppendIsMore ==
  ASSUME NEW s \in Seq(Messages), NEW m \in Messages
  PROVE  /\ \A kind : Pending(Append(s, m), kind) => Pending(s, kind) \/ m.kind = kind
         /\ \A kind : Single(s, kind) /\ (m.kind = kind => ~Pending(s, kind))
                       => Single(Append(s, m), kind)
         /\ \A p : Foreign(s, p) /\ (m.kind \in RequestKinds => m.from # p)
                    => Foreign(Append(s, m), p)
<1> DEFINE t == Append(s, m)
<1>1. /\ DOMAIN s = 1..Len(s) /\ DOMAIN t = 1..(Len(s) + 1)
      /\ \A i \in 1..Len(s) : t[i] = s[i]
      /\ t[Len(s) + 1] = m /\ Len(s) \in Nat
  OBVIOUS
<1> HIDE DEF t
<1>2. /\ \A i \in DOMAIN t : i \in DOMAIN s \/ i = Len(s) + 1
      /\ \A i \in DOMAIN s : i \in DOMAIN t /\ t[i] = s[i]
  BY <1>1
<1>3. /\ \A kind : Pending(t, kind) => Pending(s, kind) \/ m.kind = kind
      /\ \A kind : Single(s, kind) /\ (m.kind = kind => ~Pending(s, kind)) => Single(t, kind)
      /\ \A p : Foreign(s, p) /\ (m.kind \in RequestKinds => m.from # p) => Foreign(t, p)
  BY <1>1, <1>2 DEF Pending, Single, Foreign
<1> QED BY <1>3 DEF t

LEMMA AfterTail ==
  ASSUME NEW s \in Seq(Messages), s # <<>>, NEW h
  PROVE  /\ Tail(s) \in Seq(Messages) /\ Head(s) \in Messages
         /\ NoneOf(s, h) => NoneOf(Tail(s), h) /\ ~LiveOf(Head(s), h)
         /\ \A r : OnceOf(s, h, r) =>
              IF LiveOf(Head(s), h) THEN Head(s) = r /\ NoneOf(Tail(s), h)
                                    ELSE LiveOf(r, h) => OnceOf(Tail(s), h, r)
<1> DEFINE t == Tail(s)
<1>1. /\ t \in Seq(Messages) /\ Head(s) = s[1] /\ 1 \in DOMAIN s /\ s[1] \in Messages
      /\ \A i \in DOMAIN t : i \in Nat /\ i + 1 \in DOMAIN s /\ t[i] = s[i + 1] /\ i + 1 # 1
      /\ \A i \in DOMAIN s : i \in Nat /\ (i # 1 => i - 1 \in DOMAIN t /\ t[i - 1] = s[i])
  OBVIOUS
<1> HIDE DEF t
<1>2. NoneOf(s, h) => NoneOf(t, h) /\ ~LiveOf(Head(s), h)
  BY <1>1 DEF NoneOf
<1>3. ASSUME NEW r, OnceOf(s, h, r), LiveOf(Head(s), h)
      PROVE  Head(s) = r /\ NoneOf(t, h)
  BY <1>1, <1>3 DEF OnceOf, NoneOf
<1>4. ASSUME NEW r, OnceOf(s, h, r), ~LiveOf(Head(s), h), LiveOf(r, h)
      PROVE  OnceOf(t, h, r)
  <2>1. PICK i \in DOMAIN s : s[i] = r /\ \A j \in DOMAIN s : LiveOf(s[j], h) => j = i
    BY <1>4 DEF OnceOf
  <2>2. i # 1
    BY <1>1, <1>4, <2>1
  <2>3. i - 1 \in DOMAIN t /\ t[i - 1] = r
    BY <1>1, <2>1, <2>2
  <2>4. \A j \in DOMAIN t : LiveOf(t[j], h) => j = i - 1
    <3> SUFFICES ASSUME NEW j \in DOMAIN t, LiveOf(t[j], h) PROVE j = i - 1
      OBVIOUS
    <3>1. j \in Nat /\ j + 1 \in DOMAIN s /\ t[j] = s[j + 1]
      BY <1>1
    <3>2. j + 1 = i
      BY <2>1, <3>1
    <3> QED BY <3>1, <3>2
  <2> QED BY <2>3, <2>4 DEF OnceOf
<1> QED BY <1>1, <1>2, <1>3, <1>4 DEF t

LEMMA TailIsLess ==
  ASSUME NEW s \in Seq(Messages), s # <<>>
  PROVE  /\ Within(Tail(s), s)
         /\ \A kind : Single(s, kind) /\ Head(s).kind = kind => ~Pending(Tail(s), kind)
         /\ \A p : Foreign(s, p) /\ Head(s).kind \in RequestKinds => Head(s).from # p
<1> DEFINE t == Tail(s)
<1>1. /\ Head(s) = s[1] /\ 1 \in DOMAIN s
      /\ \A i \in DOMAIN t : i \in Nat /\ i + 1 \in DOMAIN s /\ t[i] = s[i + 1] /\ i + 1 # 1
  OBVIOUS
<1> HIDE DEF t
<1>2. Within(t, s)
  <2> DEFINE f == [i \in DOMAIN t |-> i + 1]
  <2>1. f \in [DOMAIN t -> DOMAIN s]
    BY <1>1
  <2>2. \A i, j \in DOMAIN t : f[i] = f[j] => i = j
    BY <1>1
  <2> QED BY <1>1, <2>1, <2>2 DEF Within
<1>3. /\ \A kind : Single(s, kind) /\ Head(s).kind = kind => ~Pending(t, kind)
      /\ \A p : Foreign(s, p) /\ Head(s).kind \in RequestKinds => Head(s).from # p
  BY <1>1 DEF Single, Pending, Foreign
<1> QED BY <1>2, <1>3 DEF t

(* The two ends of a request whose sender gave up: it is taken out of the  *)
(* mailbox, or stays there as an orphan.                                   *)
LEMMA AfterRemoveAt ==
  ASSUME NEW s \in Seq(Messages), NEW i \in DOMAIN s, NEW h
  PROVE  /\ RemoveAt(s, i) \in Seq(Messages) /\ Within(RemoveAt(s, i), s)
         /\ NoneOf(s, h) => NoneOf(RemoveAt(s, i), h)
         /\ \A r : OnceOf(s, h, r) =>
              IF LiveOf(s[i], h) THEN NoneOf(RemoveAt(s, i), h)
                                 ELSE LiveOf(r, h) => OnceOf(RemoveAt(s, i), h, r)
<1> DEFINE a == SubSeq(s, 1, i - 1)
           b == SubSeq(s, i + 1, Len(s))
           t == a \o b
           old(j) == IF j < i THEN j ELSE j + 1
           new(j) == IF j < i THEN j ELSE j - 1
<1>1. /\ i \in 1..Len(s) /\ Len(s) \in Nat
      /\ a \in Seq(Messages) /\ b \in Seq(Messages)
      /\ Len(a) = i - 1 /\ Len(b) = Len(s) - i
      /\ \A j \in 1..(i - 1) : a[j] = s[j]
      /\ \A j \in 1..(Len(s) - i) : b[j] = s[j + i]
  <2>1. i \in 1..Len(s) /\ Len(s) \in Nat
    OBVIOUS
  <2>2. /\ a \in Seq(Messages) /\ Len(a) = i - 1
        /\ \A j \in 1..(i - 1) : a[j] = s[j]
    BY <2>1
  <2>3. /\ b \in Seq(Messages) /\ Len(b) = Len(s) - i
        /\ \A j \in 1..(Len(s) - i) : b[j] = s[j + i]
    BY <2>1
  <2> HIDE DEF a, b
  <2> QED BY <2>1, <2>2, <2>3
<1> HIDE DEF a, b
<1>2. /\ t \in Seq(Messages) /\ Len(t) = Len(s) - 1 /\ DOMAIN t = 1..(Len(s) - 1)
      /\ \A j \in 1..(Len(s) - 1) : t[j] = IF j <= Len(a) THEN a[j] ELSE b[j - Len(a)]
  <2>0. a \in Seq(Messages) /\ b \in Seq(Messages)
    BY <1>1
  <2>1. t \in Seq(Messages) /\ Len(t) = Len(a) + Len(b)
    BY <2>0, ConcatProperties
  <2>2. Len(t) = Len(s) - 1
    BY <1>1, <2>1
  <2>3. DOMAIN t = 1..(Len(s) - 1)
    BY <2>1, <2>2
  <2>4. \A j \in 1..(Len(a) + Len(b)) : t[j] = IF j <= Len(a) THEN a[j] ELSE b[j - Len(a)]
    BY <2>0, ConcatProperties
  <2>5. Len(a) + Len(b) = Len(s) - 1
    BY <1>1
  <2> HIDE DEF t
  <2> QED BY <2>1, <2>2, <2>3, <2>4, <2>5
<1>3. RemoveAt(s, i) = t
  BY DEF RemoveAt, a, b
<1> HIDE DEF t
<1>4. ASSUME NEW j \in 1..(Len(s) - 1) PROVE t[j] = s[old(j)]
  <2>1. CASE j < i
    BY <1>1, <1>2, <2>1
  <2>2. CASE ~(j < i)
    <3>1. j - Len(a) \in 1..(Len(s) - i) /\ ~(j <= Len(a)) /\ j - Len(a) + i = j + 1
      BY <1>1, <2>2
    <3>2. b[j - Len(a)] = s[j - Len(a) + i]
      BY <1>1, <3>1
    <3> QED BY <1>2, <2>2, <3>1, <3>2
  <2> QED BY <2>1, <2>2
<1>5. DOMAIN s = 1..Len(s)
  OBVIOUS
<1>6. /\ \A j \in DOMAIN t : /\ j \in Nat /\ old(j) \in DOMAIN s /\ t[j] = s[old(j)]
                             /\ old(j) # i /\ new(old(j)) = j
      /\ \A j \in DOMAIN s : j # i => new(j) \in DOMAIN t /\ old(new(j)) = j
  <2>1. \A j \in 1..(Len(s) - 1) :
          j \in Nat /\ old(j) \in 1..Len(s) /\ old(j) # i /\ new(old(j)) = j
    BY <1>1
  <2>2. \A j \in 1..Len(s) : j # i => new(j) \in 1..(Len(s) - 1) /\ old(new(j)) = j
    BY <1>1
  <2> HIDE DEF old, new
  <2> QED BY <1>2, <1>4, <1>5, <2>1, <2>2
<1>7. \A j \in DOMAIN s : j # i => new(j) \in DOMAIN t /\ t[new(j)] = s[j]
  BY <1>6
<1> HIDE DEF old, new
<1>8. NoneOf(s, h) => NoneOf(t, h)
  BY <1>6 DEF NoneOf
<1>9. ASSUME NEW r, OnceOf(s, h, r), LiveOf(s[i], h)
      PROVE  NoneOf(t, h)
  BY <1>6, <1>9 DEF NoneOf, OnceOf
<1>10. ASSUME NEW r, OnceOf(s, h, r), ~LiveOf(s[i], h), LiveOf(r, h)
      PROVE  OnceOf(t, h, r)
  <2>1. PICK k \in DOMAIN s : s[k] = r /\ \A j \in DOMAIN s : LiveOf(s[j], h) => j = k
    BY <1>10 DEF OnceOf
  <2> k # i
    BY <1>10, <2>1
  <2>2. new(k) \in DOMAIN t /\ t[new(k)] = r
    BY <1>7, <2>1
  <2>3. \A j \in DOMAIN t : LiveOf(t[j], h) => j = new(k)
    BY <1>6, <2>1
  <2> QED BY <2>2, <2>3 DEF OnceOf
<1>11. Within(t, s)
  <2> DEFINE f == [j \in DOMAIN t |-> old(j)]
  <2>1. f \in [DOMAIN t -> DOMAIN s]
    BY <1>6
  <2>2. \A j, k \in DOMAIN t : f[j] = f[k] => j = k
    BY <1>6
  <2> QED BY <1>6, <2>1, <2>2 DEF Within
<1> QED BY <1>2, <1>3, <1>8, <1>9, <1>10, <1>11

LEMMA AfterReplacing ==
  ASSUME NEW s \in Seq(Messages), NEW i \in DOMAIN s, NEW m \in Messages
  PROVE  /\ [s EXCEPT ![i] = m] \in Seq(Messages)
         /\ DOMAIN [s EXCEPT ![i] = m] = DOMAIN s /\ [s EXCEPT ![i] = m][i] = m
         /\ \A j \in DOMAIN s : j # i => [s EXCEPT ![i] = m][j] = s[j]
OBVIOUS

LEMMA AfterOrphaning ==
  ASSUME NEW s \in Seq(Messages), NEW i \in DOMAIN s, s[i] \in Requests, NEW h,
         NEW t, t = [s EXCEPT ![i].live = FALSE]
  PROVE  /\ t \in Seq(Messages) /\ Within(t, s)
         /\ NoneOf(s, h) => NoneOf(t, h)
         /\ \A r : OnceOf(s, h, r) =>
              IF LiveOf(s[i], h) THEN NoneOf(t, h)
                                 ELSE LiveOf(r, h) => OnceOf(t, h, r)
<1> DEFINE orphan == [s[i] EXCEPT !.live = FALSE]
<1>1. orphan \in Messages /\ ~orphan.live /\ orphan.from = s[i].from /\ orphan.kind = s[i].kind
  BY DEF Messages, Requests
<1>0. t = [s EXCEPT ![i] = orphan]
  OBVIOUS
<1> HIDE DEF orphan
<1>2. /\ t \in Seq(Messages) /\ DOMAIN t = DOMAIN s /\ t[i] = orphan
      /\ \A j \in DOMAIN s : j # i => t[j] = s[j]
  <2>1. orphan \in Messages
    BY <1>1
  <2> DEFINE u == [s EXCEPT ![i] = orphan]
  <2>2. /\ u \in Seq(Messages) /\ DOMAIN u = DOMAIN s /\ u[i] = orphan
        /\ \A j \in DOMAIN s : j # i => u[j] = s[j]
    BY <2>1, AfterReplacing
  <2>3. t = u
    BY <1>0
  <2> HIDE DEF u
  <2> QED BY <2>2, <2>3
<1>4. NoneOf(s, h) => NoneOf(t, h)
  BY <1>1, <1>2 DEF NoneOf, LiveOf
<1>5. ASSUME NEW r, OnceOf(s, h, r), LiveOf(s[i], h)
      PROVE  NoneOf(t, h)
  BY <1>1, <1>2, <1>5 DEF NoneOf, OnceOf, LiveOf
<1>6. ASSUME NEW r, OnceOf(s, h, r), ~LiveOf(s[i], h), LiveOf(r, h)
      PROVE  OnceOf(t, h, r)
  BY <1>1, <1>2, <1>6 DEF OnceOf, LiveOf
<1>7. Within(t, s)
  <2> DEFINE f == [j \in DOMAIN t |-> j]
  <2>1. /\ f \in [DOMAIN t -> DOMAIN s]
        /\ \A j, k \in DOMAIN t : f[j] = f[k] => j = k
        /\ \A j \in DOMAIN t : t[j].kind = s[f[j]].kind /\ t[j].from = s[f[j]].from
    BY <1>1, <1>2
  <2> QED BY <2>1 DEF Within
<1> QED BY <1>2, <1>4, <1>5, <1>6, <1>7

(***************************************************************************)
(* The inductive invariant.                                                *)
(***************************************************************************)
Handled(h, p) == {request \in replying[p] : request.from = h}

(* CallsAreOwed for one caller and one peer.                               *)
Owed(h, p) ==
  IF Waits(h) /\ call[h].to = p
    THEN \/ Handled(h, p) = {} /\ OnceOf(inbox[p], h, RequestOf(h))
         \/ Handled(h, p) = {RequestOf(h)} /\ NoneOf(inbox[p], h)
    ELSE Handled(h, p) = {} /\ NoneOf(inbox[p], h)

AllOwed == \A h, p \in Hosts : Owed(h, p)

(* Nobody calls itself, nor finds a request of its own in its mailbox.     *)
CallsPeers ==
  \A h \in Hosts : (call[h].kind # "none" => call[h].to # h) /\ Foreign(inbox[h], h)

(* A thread that ended has nothing to do and waits for nothing.            *)
Silent ==
  \A h \in Hosts : ~Alive(h) => inbox[h] = <<>> /\ replying[h] = {} /\ call[h].kind = "none"

(* The two requests of the boot are sent once each, the second after the   *)
(* first was served, and Raft is known only after that.                    *)
BootInOrder(h) ==
  /\ Single(inbox[h], "bind") /\ Single(inbox[h], "registerRaft")
  /\ Pending(inbox[h], "bind") => boot[h] = "started"
  /\ Pending(inbox[h], "registerRaft") => boot[h] = "registered" /\ ~raftKnown[h]
  /\ raftKnown[h] => boot[h] = "registered"

RaftOnce == \A h \in Hosts : BootInOrder(h)

ClusterInv == TypeOK /\ AllOwed /\ CallsPeers /\ Silent /\ RaftOnce

LEMMA OwedIsCallsAreOwed == TypeOK /\ AllOwed => CallsAreOwed
<1> SUFFICES ASSUME TypeOK, AllOwed, NEW h \in Hosts, NEW p \in Hosts
             PROVE  LET queued == {i \in Owing(p) : inbox[p][i].from = h}
                        handled == {request \in replying[p] : request.from = h}
                    IN IF Waits(h) /\ call[h].to = p
                         THEN \/ handled = {} /\ \E i \in queued :
                                   queued = {i} /\ inbox[p][i] = RequestOf(h)
                              \/ handled = {RequestOf(h)} /\ queued = {}
                         ELSE queued = {} /\ handled = {}
  BY DEF CallsAreOwed
<1> DEFINE queued == {i \in Owing(p) : inbox[p][i].from = h}
<1>1. queued = {i \in DOMAIN inbox[p] : LiveOf(inbox[p][i], h)}
  BY DEF Owing, LiveOf
<1>2. NoneOf(inbox[p], h) => queued = {}
  BY <1>1 DEF NoneOf
<1>3. ASSUME OnceOf(inbox[p], h, RequestOf(h))
      PROVE  \E i \in queued : queued = {i} /\ inbox[p][i] = RequestOf(h)
  <2>1. PICK i \in DOMAIN inbox[p] :
          /\ inbox[p][i] = RequestOf(h)
          /\ \A j \in DOMAIN inbox[p] : LiveOf(inbox[p][j], h) => j = i
    BY <1>3 DEF OnceOf
  <2>2. LiveOf(inbox[p][i], h)
    BY <2>1 DEF LiveOf, RequestOf
  <2> QED BY <1>1, <2>1, <2>2
<1>4. Owed(h, p)
  BY DEF AllOwed
<1> HIDE DEF queued
<1> QED BY <1>2, <1>3, <1>4 DEF Owed, Handled, queued

LEMMA ClusterInvInit == Init => ClusterInv
<1> SUFFICES ASSUME Init PROVE ClusterInv
  OBVIOUS
<1> USE ClusterAssumption
<1>1. ASSUME NEW h \in Hosts
      PROVE  /\ inbox[h] = <<Own(h, "bind")>> /\ Own(h, "bind") \in OwnMessages
             /\ DOMAIN inbox[h] = {1} /\ inbox[h][1] = Own(h, "bind")
             /\ ~inbox[h][1].live /\ inbox[h][1].kind = "bind"
  <2>1. inbox[h] = <<Own(h, "bind")>>
    BY DEF Init
  <2>2. DOMAIN inbox[h] = {1} /\ inbox[h][1] = Own(h, "bind")
    BY <2>1
  <2>3. Own(h, "bind") \in OwnMessages
    BY DEF Own, OwnMessages, OwnKinds
  <2>4. ~Own(h, "bind").live /\ Own(h, "bind").kind = "bind"
    BY DEF Own
  <2> QED BY <2>1, <2>2, <2>3, <2>4
<1>2. TypeOK
  <2>1. inbox \in [Hosts -> Seq(Requests \cup OwnMessages)]
    BY <1>1 DEF Init
  <2>2. call \in [Hosts -> Calls]
    BY DEF Init, NoCall, Calls, Replies
  <2>3. node \in [Hosts -> [Hosts -> NodeSteps]]
    BY DEF Init, NodeSteps
  <2>4. entry \in [Hosts -> [Hosts -> {"absent", "known", "running"}]]
    BY DEF Init
  <2> QED BY <2>1, <2>2, <2>3, <2>4 DEF Init, TypeOK, Boots
<1>3. AllOwed
  <2>1. \A h \in Hosts : ~Waits(h)
    BY DEF Init, Waits, NoCall
  <2>2. \A h, p \in Hosts : NoneOf(inbox[p], h) /\ Handled(h, p) = {}
    BY <1>1 DEF Init, Handled, NoneOf, LiveOf
  <2> QED BY <2>1, <2>2 DEF AllOwed, Owed
<1>4. CallsPeers
  BY <1>1 DEF Init, CallsPeers, NoCall, RequestKinds, Rpcs, Foreign
<1>5. Silent /\ RaftOnce
  BY <1>1 DEF Init, Silent, RaftOnce, BootInOrder, Pending, Single, Alive
<1> QED BY <1>2, <1>3, <1>4, <1>5 DEF ClusterInv

(***************************************************************************)
(* What a step owes.                                                       *)
(***************************************************************************)
SameCall(h) ==
  call'[h].kind = call[h].kind /\ call'[h].to = call[h].to /\ call'[h].reply = call[h].reply

(* A mailbox keeps the live requests of a host.                            *)
Keeps(s, t, h) ==
  /\ NoneOf(s, h) => NoneOf(t, h)
  /\ \A r : LiveOf(r, h) /\ OnceOf(s, h, r) => OnceOf(t, h, r)

LEMMA OwedKept ==
  ASSUME NEW h \in Hosts, NEW p \in Hosts, Owed(h, p), SameCall(h),
         Keeps(inbox[p], inbox'[p], h), Handled(h, p)' = Handled(h, p)
  PROVE  Owed(h, p)'
<1>1. RequestOf(h)' = RequestOf(h) /\ LiveOf(RequestOf(h), h)
  BY DEF SameCall, RequestOf, LiveOf
<1>2. Waits(h)' = Waits(h) /\ call'[h].to = call[h].to
  BY DEF SameCall, Waits
<1> QED BY <1>1, <1>2 DEF Owed, Keeps

LEMMA SameKeeps == \A s, h : Keeps(s, s, h)
BY DEF Keeps

(* Steps that only put messages into one mailbox, or take them out of it,  *)
(* of which none is a live request.                                        *)
LEMMA MailboxOwed ==
  ASSUME ClusterInv, NEW h \in Hosts, UNCHANGED <<call, replying>>,
         \A p \in Hosts \ {h} : inbox'[p] = inbox[p],
         \A j \in Hosts : Keeps(inbox[h], inbox'[h], j)
  PROVE  AllOwed'
<1> SUFFICES ASSUME NEW j \in Hosts, NEW p \in Hosts PROVE Owed(j, p)'
  BY DEF AllOwed
<1>1. Owed(j, p) /\ SameCall(j) /\ Handled(j, p)' = Handled(j, p)
  BY DEF ClusterInv, AllOwed, SameCall, Handled
<1>2. Keeps(inbox[p], inbox'[p], j)
  BY SameKeeps
<1> QED BY <1>1, <1>2, OwedKept

(* A caller gets its reply, or gives up: what was owed for the call is     *)
(* gone, and nothing else.                                                 *)
LEMMA ReplyOwed ==
  ASSUME ClusterInv, NEW k \in Hosts, NEW p \in Hosts, Waits(k), call[k].to = p,
         NEW reply \in Replies \ {"awaited"}, Replied(k, reply),
         \A q \in Hosts \ {p} : inbox'[q] = inbox[q] /\ replying'[q] = replying[q],
         NoneOf(inbox'[p], k), Handled(k, p)' = {},
         \A j \in Hosts \ {k} :
           Keeps(inbox[p], inbox'[p], j) /\ Handled(j, p)' = Handled(j, p)
  PROVE  AllOwed' /\ call' \in [Hosts -> Calls]
                  /\ \A j \in Hosts : call'[j].kind = call[j].kind /\ call'[j].to = call[j].to
<1>1. /\ call'[k] = [call[k] EXCEPT !.reply = reply, !.after = {}]
      /\ \A j \in Hosts \ {k} : call'[j] = [call[j] EXCEPT !.after = @ \ {k}]
      /\ \A j \in Hosts : call[j] \in Calls
  BY DEF Replied, ClusterInv, TypeOK
<1>2. /\ call'[k].reply = reply /\ call'[k].kind = call[k].kind /\ call'[k].to = call[k].to
      /\ call'[k] \in Calls
  BY <1>1 DEF Calls
<1>3. ~Waits(k)'
  BY <1>2 DEF Waits
<1>4. ASSUME NEW j \in Hosts \ {k} PROVE SameCall(j) /\ call'[j] \in Calls
  <2>1. call[j] \in Calls /\ call'[j] = [call[j] EXCEPT !.after = @ \ {k}]
    BY <1>1
  <2> QED BY <2>1 DEF SameCall, Calls
<1>5. call' \in [Hosts -> Calls]
  <2>1. \A j \in Hosts : call'[j] \in Calls
    BY <1>2, <1>4
  <2> QED BY <2>1 DEF Replied
<1>6. ASSUME NEW j \in Hosts, NEW q \in Hosts PROVE Owed(j, q)'
  <2>1. Owed(j, q)
    BY DEF ClusterInv, AllOwed
  <2>2. CASE j = k /\ q = p
    BY <1>3, <2>2 DEF Owed
  <2>3. CASE j = k /\ q # p
    <3>1. Handled(j, q)' = Handled(j, q) /\ inbox'[q] = inbox[q]
      BY <2>3 DEF Handled
    <3> QED BY <1>3, <2>1, <2>3, <3>1 DEF Owed
  <2>4. CASE j # k
    <3>1. Handled(j, q)' = Handled(j, q) /\ Keeps(inbox[q], inbox'[q], j)
      BY <2>4, SameKeeps DEF Handled
    <3> QED BY <1>4, <2>1, <2>4, <3>1, OwedKept
  <2> QED BY <2>2, <2>3, <2>4
<1> QED BY <1>2, <1>4, <1>5, <1>6 DEF AllOwed, SameCall

(* Who is answered waits for that answer.                                  *)
LEMMA LiveIsAwaited ==
  ASSUME ClusterInv, NEW k \in Hosts, NEW p \in Hosts
  PROVE  /\ \A i \in DOMAIN inbox[p] : LiveOf(inbox[p][i], k) =>
              /\ Waits(k) /\ call[k].to = p /\ inbox[p][i] = RequestOf(k)
              /\ Handled(k, p) = {} /\ OnceOf(inbox[p], k, RequestOf(k))
         /\ \A request \in replying[p] : request.from = k =>
              /\ Waits(k) /\ call[k].to = p /\ request = RequestOf(k)
              /\ Handled(k, p) = {RequestOf(k)} /\ NoneOf(inbox[p], k)
<1>1. Owed(k, p)
  BY DEF ClusterInv, AllOwed
<1>2. ASSUME NEW i \in DOMAIN inbox[p], LiveOf(inbox[p][i], k)
      PROVE  /\ Waits(k) /\ call[k].to = p /\ inbox[p][i] = RequestOf(k)
             /\ Handled(k, p) = {} /\ OnceOf(inbox[p], k, RequestOf(k))
  <2>1. ~NoneOf(inbox[p], k)
    BY <1>2 DEF NoneOf
  <2>2. /\ Waits(k) /\ call[k].to = p
        /\ Handled(k, p) = {} /\ OnceOf(inbox[p], k, RequestOf(k))
    BY <1>1, <2>1 DEF Owed
  <2>3. inbox[p][i] = RequestOf(k)
    BY <1>2, <2>2 DEF OnceOf
  <2> QED BY <2>2, <2>3
<1>3. ASSUME NEW request \in replying[p], request.from = k
      PROVE  /\ Waits(k) /\ call[k].to = p /\ request = RequestOf(k)
             /\ Handled(k, p) = {RequestOf(k)} /\ NoneOf(inbox[p], k)
  <2>1. request \in Handled(k, p)
    BY <1>3 DEF Handled
  <2> QED BY <1>1, <2>1 DEF Owed
<1> QED BY <1>2, <1>3

(***************************************************************************)
(* The steps.                                                              *)
(***************************************************************************)
LEMMA Delivered ==
  ASSUME ClusterInv, NEW h \in Hosts, NEW m \in Messages, Put(h, m)
  PROVE  /\ inbox' \in [Hosts -> Seq(Messages)] /\ inbox'[h] = Append(inbox[h], m)
         /\ \A p \in Hosts \ {h} : inbox'[p] = inbox[p]
         /\ inbox[h] \in Seq(Messages)
<1>1. inbox \in [Hosts -> Seq(Messages)] /\ inbox[h] \in Seq(Messages)
  BY DEF ClusterInv, TypeOK, Messages
<1>2. Append(inbox[h], m) \in Seq(Messages)
  BY <1>1
<1> QED BY <1>1, <1>2 DEF Put

LEMMA Consumed ==
  ASSUME ClusterInv, NEW h \in Hosts, inbox[h] # <<>>, Consume(h)
  PROVE  /\ inbox' \in [Hosts -> Seq(Messages)] /\ inbox'[h] = Tail(inbox[h])
         /\ \A p \in Hosts \ {h} : inbox'[p] = inbox[p]
         /\ inbox[h] \in Seq(Messages) /\ Head(inbox[h]) \in Messages
         /\ 1 \in DOMAIN inbox[h] /\ inbox[h][1] = Head(inbox[h])
<1>1. inbox \in [Hosts -> Seq(Messages)] /\ inbox[h] \in Seq(Messages)
  BY DEF ClusterInv, TypeOK, Messages
<1>2. /\ Tail(inbox[h]) \in Seq(Messages) /\ Head(inbox[h]) \in Messages
      /\ 1 \in DOMAIN inbox[h] /\ inbox[h][1] = Head(inbox[h])
  BY <1>1
<1> QED BY <1>1, <1>2 DEF Consume

(* A message of the host itself is sent.                                   *)
LEMMA OwnSent ==
  ASSUME ClusterInv, NEW h \in Hosts, Alive(h), NEW kind \in OwnKinds,
         Put(h, Own(h, kind)), UNCHANGED calls, UNCHANGED crashed
  PROVE  inbox' \in [Hosts -> Seq(Messages)] /\ AllOwed' /\ CallsPeers' /\ Silent'
<1>1. /\ Own(h, kind) \in Messages /\ ~Own(h, kind).live
      /\ Own(h, kind).kind = kind /\ kind \notin RequestKinds
  BY DEF Own, Messages, OwnMessages, OwnKinds, RequestKinds, Rpcs
<1>2. /\ inbox' \in [Hosts -> Seq(Messages)] /\ inbox'[h] = Append(inbox[h], Own(h, kind))
      /\ \A p \in Hosts \ {h} : inbox'[p] = inbox[p]
      /\ inbox[h] \in Seq(Messages)
  BY <1>1, Delivered
<1>3. AllOwed'
  <2>1. \A j \in Hosts : Keeps(inbox[h], inbox'[h], j)
    BY <1>1, <1>2, AfterAppend DEF Keeps, LiveOf
  <2> QED BY <1>2, <2>1, MailboxOwed DEF calls
<1>4. CallsPeers'
  <2>1. Foreign(inbox[h], h) => Foreign(inbox'[h], h)
    BY <1>1, <1>2, AppendIsMore
  <2>2. \A p \in Hosts : Foreign(inbox'[p], p)
    BY <1>2, <2>1 DEF ClusterInv, CallsPeers
  <2> QED BY <2>2 DEF ClusterInv, CallsPeers, calls
<1>5. Silent'
  BY <1>2 DEF ClusterInv, Silent, Alive, calls
<1> QED BY <1>2, <1>3, <1>4, <1>5

(* A message of the host itself is served.                                 *)
LEMMA OwnServed ==
  ASSUME ClusterInv, NEW h \in Hosts, NEW kind \in OwnKinds,
         Received(h, kind), Consume(h), UNCHANGED calls, UNCHANGED crashed
  PROVE  inbox' \in [Hosts -> Seq(Messages)] /\ AllOwed' /\ CallsPeers' /\ Silent'
<1>1. inbox[h] # <<>> /\ Head(inbox[h]).kind = kind /\ Alive(h)
  BY DEF Received, ThreadFree
<1>2. /\ inbox' \in [Hosts -> Seq(Messages)] /\ inbox'[h] = Tail(inbox[h])
      /\ \A p \in Hosts \ {h} : inbox'[p] = inbox[p]
      /\ inbox[h] \in Seq(Messages) /\ Head(inbox[h]) \in Messages
  BY <1>1, Consumed
<1>3. ~Head(inbox[h]).live
  BY <1>1, <1>2 DEF Messages, Requests, OwnMessages, RequestKinds, Rpcs, OwnKinds
<1>4. AllOwed'
  <2>1. \A j \in Hosts : Keeps(inbox[h], inbox'[h], j)
    BY <1>1, <1>2, <1>3, AfterTail DEF Keeps, LiveOf
  <2> QED BY <1>2, <2>1, MailboxOwed DEF calls
<1>5. CallsPeers'
  <2>1. \A p \in Hosts : Foreign(inbox'[p], p)
    BY <1>1, <1>2, TailIsLess, WithinIsLess DEF ClusterInv, CallsPeers
  <2> QED BY <2>1 DEF ClusterInv, CallsPeers, calls
<1>6. Silent'
  BY <1>1, <1>2 DEF ClusterInv, Silent, Alive, calls
<1> QED BY <1>2, <1>4, <1>5, <1>6

(* The order of the boot is kept by what sends or serves other messages.   *)
LEMMA BootKept ==
  ASSUME ClusterInv, NEW p \in Hosts,
         boot'[p] = boot[p], raftKnown'[p] = raftKnown[p],
         \/ inbox'[p] = inbox[p] \/ Within(inbox'[p], inbox[p])
         \/ \E m \in Messages : /\ inbox[p] \in Seq(Messages) /\ inbox'[p] = Append(inbox[p], m)
                                /\ m.kind \notin {"bind", "registerRaft"}
  PROVE  BootInOrder(p)'
<1>1. BootInOrder(p)
  BY DEF ClusterInv, RaftOnce
<1>2. CASE inbox'[p] = inbox[p]
  BY <1>1, <1>2 DEF BootInOrder
<1>3. CASE Within(inbox'[p], inbox[p])
  BY <1>1, <1>3, WithinIsLess DEF BootInOrder
<1>4. ASSUME NEW m \in Messages, inbox[p] \in Seq(Messages), inbox'[p] = Append(inbox[p], m),
             m.kind \notin {"bind", "registerRaft"}
      PROVE  BootInOrder(p)'
  <2>1. /\ \A kind : Pending(inbox'[p], kind) => Pending(inbox[p], kind) \/ m.kind = kind
        /\ \A kind : Single(inbox[p], kind) /\ (m.kind = kind => ~Pending(inbox[p], kind))
                      => Single(inbox'[p], kind)
    BY <1>4, AppendIsMore
  <2> QED BY <1>1, <1>4, <2>1 DEF BootInOrder
<1> QED BY <1>2, <1>3, <1>4

LEMMA RegisterTypes ==
  ASSUME TypeOK, NEW h \in Hosts, NEW p \in Hosts, Register(h, p)
  PROVE  /\ entry' \in [Hosts -> [Hosts -> {"absent", "known", "running"}]]
         /\ link' \in [Hosts -> [Hosts -> {"untracked", "isolated", "connected"}]]
         /\ node' \in [Hosts -> [Hosts -> NodeSteps]]
<1>1. entry' \in [Hosts -> [Hosts -> {"absent", "known", "running"}]]
  BY DEF TypeOK, Register
<1>2. link' \in [Hosts -> [Hosts -> {"untracked", "isolated", "connected"}]]
  BY DEF TypeOK, Register, Restored
<1>3. node' \in [Hosts -> [Hosts -> NodeSteps]]
  BY DEF TypeOK, Register, NodeSteps
<1> QED BY <1>1, <1>2, <1>3

LEMMA BindStep ==
  ASSUME ClusterInv, NEW h \in Hosts, Bind(h)
  PROVE  ClusterInv'
<1>1. inbox' \in [Hosts -> Seq(Messages)] /\ AllOwed' /\ CallsPeers' /\ Silent'
  BY OwnServed DEF Bind, OwnKinds
<1>2. TypeOK'
  BY <1>1 DEF Bind, ClusterInv, TypeOK, Boots, registries, calls, Messages
<1>3. RaftOnce'
  <2> SUFFICES ASSUME NEW p \in Hosts PROVE BootInOrder(p)'
    BY DEF RaftOnce
  <2>1. /\ inbox'[h] = Tail(inbox[h]) /\ \A q \in Hosts \ {h} : inbox'[q] = inbox[q]
        /\ inbox[h] \in Seq(Messages) /\ inbox[h] # <<>> /\ Head(inbox[h]).kind = "bind"
        /\ 1 \in DOMAIN inbox[h] /\ inbox[h][1] = Head(inbox[h])
    BY Consumed DEF Bind, Received
  <2>2. BootInOrder(h) /\ Pending(inbox[h], "bind")
    BY <2>1 DEF ClusterInv, RaftOnce, Pending
  <2>3. /\ ~Pending(inbox'[h], "bind")
        /\ \A kind : Pending(inbox'[h], kind) => Pending(inbox[h], kind)
        /\ \A kind : Single(inbox[h], kind) => Single(inbox'[h], kind)
    BY <2>1, <2>2, TailIsLess, WithinIsLess DEF BootInOrder
  <2>4. boot' \in [Hosts -> Boots] /\ boot'[h] = "serving" /\ UNCHANGED raftKnown
        /\ \A q \in Hosts \ {h} : boot'[q] = boot[q]
    BY <1>2 DEF Bind, ClusterInv, TypeOK, registries
  <2>5. CASE p = h
    BY <2>2, <2>3, <2>4, <2>5 DEF BootInOrder
  <2>6. CASE p # h
    BY <2>1, <2>4, <2>6, BootKept
  <2> QED BY <2>5, <2>6
<1> QED BY <1>1, <1>2, <1>3 DEF ClusterInv

LEMMA SendRegisterRaftStep ==
  ASSUME ClusterInv, NEW h \in Hosts, SendRegisterRaft(h)
  PROVE  ClusterInv'
<1>1. inbox' \in [Hosts -> Seq(Messages)] /\ AllOwed' /\ CallsPeers' /\ Silent'
  BY OwnSent DEF SendRegisterRaft, OwnKinds
<1>2. TypeOK'
  BY <1>1 DEF SendRegisterRaft, ClusterInv, TypeOK, Boots, registries, calls, Messages
<1>3. RaftOnce'
  <2> SUFFICES ASSUME NEW p \in Hosts PROVE BootInOrder(p)'
    BY DEF RaftOnce
  <2> DEFINE m == Own(h, "registerRaft")
  <2>0. m \in Messages /\ m.kind = "registerRaft"
    BY DEF Own, Messages, OwnMessages, OwnKinds
  <2> HIDE DEF m
  <2>1. /\ inbox'[h] = Append(inbox[h], m) /\ \A q \in Hosts \ {h} : inbox'[q] = inbox[q]
        /\ inbox[h] \in Seq(Messages)
    BY <2>0, Delivered DEF SendRegisterRaft, m
  <2>2. BootInOrder(h) /\ boot[h] = "serving"
    BY DEF ClusterInv, RaftOnce, SendRegisterRaft
  <2>3. /\ \A kind : Pending(inbox'[h], kind) => Pending(inbox[h], kind) \/ m.kind = kind
        /\ \A kind : Single(inbox[h], kind) /\ (m.kind = kind => ~Pending(inbox[h], kind))
                      => Single(inbox'[h], kind)
    BY <2>0, <2>1, AppendIsMore
  <2>4. boot'[h] = "registered" /\ UNCHANGED raftKnown
        /\ \A q \in Hosts \ {h} : boot'[q] = boot[q]
    BY DEF SendRegisterRaft, ClusterInv, TypeOK, registries
  <2>5. CASE p = h
    BY <2>0, <2>2, <2>3, <2>4, <2>5 DEF BootInOrder
  <2>6. CASE p # h
    BY <2>1, <2>4, <2>6, BootKept
  <2> QED BY <2>5, <2>6
<1> QED BY <1>1, <1>2, <1>3 DEF ClusterInv

LEMMA HandleRegisterRaftStep ==
  ASSUME ClusterInv, NEW h \in Hosts, HandleRegisterRaft(h)
  PROVE  ClusterInv' /\ ~raftKnown[h]
<1>1. inbox' \in [Hosts -> Seq(Messages)] /\ AllOwed' /\ CallsPeers' /\ Silent'
  BY OwnServed DEF HandleRegisterRaft, OwnKinds
<1>2. TypeOK'
  BY <1>1, RegisterTypes
  DEF HandleRegisterRaft, ClusterInv, TypeOK, calls, Messages
<1>3. RaftOnce' /\ ~raftKnown[h]
  <2>1. /\ inbox'[h] = Tail(inbox[h]) /\ \A q \in Hosts \ {h} : inbox'[q] = inbox[q]
        /\ inbox[h] \in Seq(Messages) /\ inbox[h] # <<>> /\ Head(inbox[h]).kind = "registerRaft"
        /\ 1 \in DOMAIN inbox[h] /\ inbox[h][1] = Head(inbox[h])
    BY Consumed DEF HandleRegisterRaft, Received
  <2>2. BootInOrder(h) /\ Pending(inbox[h], "registerRaft")
    BY <2>1 DEF ClusterInv, RaftOnce, Pending
  <2>3. /\ ~Pending(inbox'[h], "registerRaft")
        /\ \A kind : Pending(inbox'[h], kind) => Pending(inbox[h], kind)
        /\ \A kind : Single(inbox[h], kind) => Single(inbox'[h], kind)
    BY <2>1, <2>2, TailIsLess, WithinIsLess DEF BootInOrder
  <2>4. UNCHANGED boot /\ \A q \in Hosts \ {h} : raftKnown'[q] = raftKnown[q]
    BY DEF HandleRegisterRaft, ClusterInv, TypeOK
  <2>5. BootInOrder(h)'
    BY <2>2, <2>3, <2>4 DEF BootInOrder
  <2>6. \A q \in Hosts \ {h} : BootInOrder(q)'
    BY <2>1, <2>4, BootKept
  <2> QED BY <2>2, <2>5, <2>6 DEF RaftOnce, BootInOrder
<1> QED BY <1>1, <1>2, <1>3 DEF ClusterInv

LEMMA HandleReportStep ==
  ASSUME ClusterInv, NEW h \in Hosts, HandleWeaklyConnected(h) \/ HandleConnected(h)
  PROVE  ClusterInv'
<1>1. PICK kind \in {"weak", "connected"} :
        /\ Received(h, kind) /\ Consume(h)
        /\ UNCHANGED <<boot, entry, raftKnown, node, calls, crashed>>
  BY DEF HandleWeaklyConnected, HandleConnected
<1>2. inbox' \in [Hosts -> Seq(Messages)] /\ AllOwed' /\ CallsPeers' /\ Silent'
  BY <1>1, OwnServed DEF OwnKinds
<1>3. link' \in [Hosts -> [Hosts -> {"untracked", "isolated", "connected"}]]
  <2>1. \/ link' = link \/ link' = [link EXCEPT ![h][h] = "isolated"]
        \/ link' = [link EXCEPT ![h][h] = IF @ = "isolated" THEN "connected" ELSE @]
    BY DEF HandleWeaklyConnected, HandleConnected, Restored
  <2>2. link \in [Hosts -> [Hosts -> {"untracked", "isolated", "connected"}]]
    BY DEF ClusterInv, TypeOK
  <2>3. CASE link' = [link EXCEPT ![h][h] = "isolated"]
    BY <2>2, <2>3
  <2>4. CASE link' = [link EXCEPT ![h][h] = IF @ = "isolated" THEN "connected" ELSE @]
    BY <2>2, <2>4
  <2> QED BY <2>1, <2>2, <2>3, <2>4
<1>4. TypeOK'
  BY <1>1, <1>2, <1>3 DEF ClusterInv, TypeOK, calls, Messages
<1>5. RaftOnce'
  <2>1. /\ inbox'[h] = Tail(inbox[h]) /\ \A q \in Hosts \ {h} : inbox'[q] = inbox[q]
        /\ inbox[h] \in Seq(Messages) /\ inbox[h] # <<>>
    BY <1>1, Consumed DEF Received
  <2>2. Within(inbox'[h], inbox[h])
    BY <2>1, TailIsLess
  <2> QED BY <1>1, <2>1, <2>2, BootKept DEF RaftOnce
<1> QED BY <1>2, <1>4, <1>5 DEF ClusterInv

LEMMA ConnectLocalStep ==
  ASSUME ClusterInv, NEW h \in Hosts, ConnectLocal(h) \/ ReportConnected(h)
  PROVE  ClusterInv'
<1>1. PICK kind \in {"weak", "connected"}, step \in {"weak", "linked"} :
        /\ Alive(h) /\ Put(h, Own(h, kind))
        /\ node' = [node EXCEPT ![h][h] = step]
        /\ UNCHANGED <<boot, registries, calls, crashed>>
  BY DEF ConnectLocal, ReportConnected, ThreadFree
<1>2. inbox' \in [Hosts -> Seq(Messages)] /\ AllOwed' /\ CallsPeers' /\ Silent'
  BY <1>1, OwnSent DEF OwnKinds
<1>3. node' \in [Hosts -> [Hosts -> NodeSteps]]
  BY <1>1 DEF ClusterInv, TypeOK, NodeSteps
<1>4. TypeOK'
  BY <1>1, <1>2, <1>3 DEF ClusterInv, TypeOK, calls, registries, Messages
<1>5. RaftOnce'
  <2>1. Own(h, kind) \in Messages /\ Own(h, kind).kind \notin {"bind", "registerRaft"}
    BY DEF Own, Messages, OwnMessages, OwnKinds
  <2>2. /\ inbox'[h] = Append(inbox[h], Own(h, kind)) /\ inbox[h] \in Seq(Messages)
        /\ \A q \in Hosts \ {h} : inbox'[q] = inbox[q]
    BY <1>1, <2>1, Delivered
  <2> QED BY <1>1, <2>1, <2>2, BootKept DEF RaftOnce, registries
<1> QED BY <1>2, <1>4, <1>5 DEF ClusterInv

(* A request is served: answered in the same poll, kept to be answered     *)
(* later, or dropped as an orphan.                                         *)
LEMMA RequestServed ==
  ASSUME ClusterInv, NEW h \in Hosts, NEW kind \in RequestKinds,
         Received(h, kind), Consume(h), UNCHANGED crashed,
         NEW request, request = Head(inbox[h]),
         NEW reply \in Replies \ {"awaited"},
         \/ request.live /\ Replied(request.from, reply) /\ UNCHANGED replying
         \/ /\ request.live
            /\ replying' = [replying EXCEPT ![h] = @ \cup {request}]
            /\ UNCHANGED call
         \/ ~request.live /\ UNCHANGED <<call, replying>>
  PROVE  /\ inbox' \in [Hosts -> Seq(Messages)] /\ call' \in [Hosts -> Calls]
         /\ replying' \in [Hosts -> SUBSET Requests]
         /\ AllOwed' /\ CallsPeers' /\ Silent'
         /\ request.from \in Hosts \ {h} /\ request \in Requests /\ request.kind = kind
         /\ Within(inbox'[h], inbox[h])
         /\ \A p \in Hosts \ {h} : inbox'[p] = inbox[p]
<1> DEFINE k == request.from
<1>1. inbox[h] # <<>> /\ request.kind = kind /\ Alive(h)
  BY DEF Received, ThreadFree
<1>2. /\ inbox' \in [Hosts -> Seq(Messages)] /\ inbox'[h] = Tail(inbox[h])
      /\ \A p \in Hosts \ {h} : inbox'[p] = inbox[p]
      /\ inbox[h] \in Seq(Messages) /\ request \in Messages
      /\ 1 \in DOMAIN inbox[h] /\ inbox[h][1] = request
  BY <1>1, Consumed
<1>3. request \in Requests
  BY <1>1, <1>2 DEF Messages, OwnMessages, RequestKinds, Rpcs, OwnKinds
<1>4. k \in Hosts \ {h}
  <2>1. Foreign(inbox[h], h)
    BY DEF ClusterInv, CallsPeers
  <2>2. k # h
    BY <1>1, <1>2, <2>1 DEF Foreign
  <2> QED BY <1>3, <2>2 DEF Requests
<1> HIDE DEF k
<1>5. Within(inbox'[h], inbox[h]) /\ \A p \in Hosts : Foreign(inbox'[p], p)
  BY <1>1, <1>2, TailIsLess, WithinIsLess DEF ClusterInv, CallsPeers
<1>6. \A j \in Hosts : ~LiveOf(request, j) => Keeps(inbox[h], inbox'[h], j)
  BY <1>1, <1>2, AfterTail DEF Keeps
<1>7. request.live =>
        /\ LiveOf(request, k) /\ Waits(k) /\ call[k].to = h /\ request = RequestOf(k)
        /\ Handled(k, h) = {} /\ OnceOf(inbox[h], k, RequestOf(k))
  BY <1>2, <1>4, LiveIsAwaited DEF LiveOf, k
<1>8. request.live => NoneOf(inbox'[h], k)
  BY <1>1, <1>2, <1>7, AfterTail
<1>9. \A j \in Hosts \ {k} : Keeps(inbox[h], inbox'[h], j)
  BY <1>6 DEF LiveOf, k
<1>10. TypeOK /\ Silent /\ CallsPeers
  BY DEF ClusterInv
<1>11. CASE request.live /\ Replied(k, reply) /\ UNCHANGED replying
  <2>1. Handled(k, h)' = {} /\ \A j \in Hosts \ {k} : Handled(j, h)' = Handled(j, h)
    BY <1>7, <1>11 DEF Handled
  <2>2. /\ AllOwed' /\ call' \in [Hosts -> Calls]
        /\ \A j \in Hosts : call'[j].kind = call[j].kind /\ call'[j].to = call[j].to
    BY <1>2, <1>4, <1>7, <1>8, <1>9, <1>11, <2>1, ReplyOwed
  <2>3. CallsPeers'
    BY <1>5, <1>10, <2>2 DEF CallsPeers
  <2>4. Silent'
    BY <1>1, <1>2, <1>10, <1>11, <2>2 DEF Silent, Alive
  <2> QED
    BY <1>1, <1>2, <1>3, <1>4, <1>5, <1>10, <1>11, <2>2, <2>3, <2>4 DEF TypeOK, k
<1>12. CASE request.live /\ replying' = [replying EXCEPT ![h] = @ \cup {request}]
            /\ UNCHANGED call
  <2>1. /\ replying' \in [Hosts -> SUBSET Requests]
        /\ replying'[h] = replying[h] \cup {request}
        /\ \A q \in Hosts \ {h} : replying'[q] = replying[q]
    BY <1>3, <1>10, <1>12 DEF TypeOK
  <2>2. ASSUME NEW j \in Hosts, NEW q \in Hosts PROVE Owed(j, q)'
    <3>1. Owed(j, q) /\ SameCall(j)
      BY <1>12 DEF ClusterInv, AllOwed, SameCall
    <3>2. CASE j = k /\ q = h
      <4>1. Handled(k, h)' = {request} /\ Waits(k)' /\ call'[k].to = h
        BY <1>7, <1>12, <2>1 DEF Handled, k, Waits
      <4>2. RequestOf(k)' = request
        BY <1>7, <1>12 DEF RequestOf
      <4> QED BY <1>8, <1>12, <3>2, <4>1, <4>2 DEF Owed
    <3>3. CASE ~(j = k /\ q = h)
      <4>1. Handled(j, q)' = Handled(j, q)
        BY <2>1, <3>3 DEF Handled, k
      <4>2. Keeps(inbox[q], inbox'[q], j)
        <5>1. CASE q = h
          BY <1>9, <3>3, <5>1
        <5>2. CASE q # h
          BY <1>2, <5>2, SameKeeps
        <5> QED BY <5>1, <5>2
      <4> QED BY <3>1, <4>1, <4>2, OwedKept
    <3> QED BY <3>2, <3>3
  <2>3. CallsPeers'
    BY <1>5, <1>10, <1>12 DEF CallsPeers
  <2>4. Silent'
    BY <1>1, <1>2, <1>10, <1>12, <2>1 DEF Silent, Alive
  <2> QED
    BY <1>1, <1>2, <1>3, <1>4, <1>5, <1>10, <1>12, <2>1, <2>2, <2>3, <2>4
    DEF TypeOK, AllOwed, k
<1>13. CASE ~request.live /\ UNCHANGED <<call, replying>>
  <2>1. AllOwed'
    <3>1. \A j \in Hosts : Keeps(inbox[h], inbox'[h], j)
      BY <1>6, <1>13 DEF LiveOf
    <3> QED BY <1>2, <1>13, <3>1, MailboxOwed
  <2>2. CallsPeers'
    BY <1>5, <1>10, <1>13 DEF CallsPeers
  <2>3. Silent'
    BY <1>1, <1>2, <1>10, <1>13 DEF Silent, Alive
  <2> QED
    BY <1>1, <1>2, <1>3, <1>4, <1>5, <1>10, <1>13, <2>1, <2>2, <2>3 DEF TypeOK, k
<1> QED BY <1>11, <1>12, <1>13 DEF k

LEMMA HandleConnectNodeStep ==
  ASSUME ClusterInv, NEW h \in Hosts, HandleConnectNode(h)
  PROVE  ClusterInv' /\ Head(inbox[h]).from \in Hosts \ {h}
<1> DEFINE request == Head(inbox[h])
<1>1. PICK reply \in {"created", "failure"} :
        \/ request.live /\ Replied(request.from, reply) /\ UNCHANGED replying
        \/ /\ request.live
           /\ replying' = [replying EXCEPT ![h] = @ \cup {request}]
           /\ UNCHANGED call
        \/ ~request.live /\ UNCHANGED <<call, replying>>
  BY DEF HandleConnectNode
<1>2. /\ Received(h, "connect") /\ Consume(h) /\ UNCHANGED crashed
      /\ UNCHANGED <<boot, raftKnown, checked>>
      /\ RegistersPeer(h, request.from) \/ UNCHANGED <<entry, link, node>>
  BY DEF HandleConnectNode
<1>3. reply \in Replies \ {"awaited"} /\ "connect" \in RequestKinds
  BY DEF Replies, RequestKinds
<1> HIDE DEF request
<1>4. /\ inbox' \in [Hosts -> Seq(Messages)] /\ call' \in [Hosts -> Calls]
      /\ replying' \in [Hosts -> SUBSET Requests]
      /\ AllOwed' /\ CallsPeers' /\ Silent'
      /\ request.from \in Hosts \ {h}
      /\ Within(inbox'[h], inbox[h])
      /\ \A p \in Hosts \ {h} : inbox'[p] = inbox[p]
  BY <1>1, <1>2, <1>3, RequestServed DEF request
<1>5. /\ entry' \in [Hosts -> [Hosts -> {"absent", "known", "running"}]]
      /\ link' \in [Hosts -> [Hosts -> {"untracked", "isolated", "connected"}]]
      /\ node' \in [Hosts -> [Hosts -> NodeSteps]]
  <2>1. CASE RegistersPeer(h, request.from)
    BY <1>4, <2>1, RegisterTypes DEF RegistersPeer, ClusterInv
  <2>2. CASE UNCHANGED <<entry, link, node>>
    BY <2>2 DEF ClusterInv, TypeOK
  <2> QED BY <1>2, <2>1, <2>2
<1>6. TypeOK'
  BY <1>2, <1>4, <1>5 DEF ClusterInv, TypeOK, Messages
<1>7. RaftOnce'
  BY <1>2, <1>4, BootKept DEF RaftOnce
<1> QED BY <1>4, <1>6, <1>7 DEF ClusterInv, request

LEMMA RpcServed ==
  ASSUME ClusterInv, NEW h \in Hosts, NEW kind \in Rpcs, NEW refused \in BOOLEAN,
         Received(h, kind), RefusesOrKeeps(h, Head(inbox[h]), refused), Consume(h),
         UNCHANGED <<boot, registries, node, crashed>>,
         checked' = checked
           \/ \E from \in {Head(inbox[h]).from} :
                checked' = [checked EXCEPT ![h] = @ \cup {<<h, from>>}]
  PROVE  ClusterInv'
<1> DEFINE request == Head(inbox[h])
<1>1. \/ request.live /\ Replied(request.from, "refusal") /\ UNCHANGED replying
      \/ /\ request.live
         /\ replying' = [replying EXCEPT ![h] = @ \cup {request}]
         /\ UNCHANGED call
      \/ ~request.live /\ UNCHANGED <<call, replying>>
  BY DEF RefusesOrKeeps
<1>2. "refusal" \in Replies \ {"awaited"} /\ kind \in RequestKinds
  BY DEF Replies, RequestKinds
<1> HIDE DEF request
<1>3. /\ inbox' \in [Hosts -> Seq(Messages)] /\ call' \in [Hosts -> Calls]
      /\ replying' \in [Hosts -> SUBSET Requests]
      /\ AllOwed' /\ CallsPeers' /\ Silent'
      /\ request.from \in Hosts
      /\ Within(inbox'[h], inbox[h])
      /\ \A p \in Hosts \ {h} : inbox'[p] = inbox[p]
  BY <1>1, <1>2, RequestServed DEF request
<1>4. checked' \in [Hosts -> SUBSET (Hosts \X Hosts)]
  <2>1. checked \in [Hosts -> SUBSET (Hosts \X Hosts)]
    BY DEF ClusterInv, TypeOK
  <2>2. CASE checked' = [checked EXCEPT ![h] = @ \cup {<<h, request.from>>}]
    BY <1>3, <2>1, <2>2
  <2> QED BY <2>1, <2>2 DEF request
<1>5. TypeOK'
  BY <1>3, <1>4 DEF ClusterInv, TypeOK, Messages, registries
<1>6. RaftOnce'
  BY <1>3, BootKept DEF RaftOnce, registries
<1> QED BY <1>3, <1>5, <1>6 DEF ClusterInv

LEMMA HandleRpcStep ==
  ASSUME ClusterInv, NEW h \in Hosts, HandleRpc(h) \/ HandleSnapshot(h)
  PROVE  ClusterInv'
<1> DEFINE request == Head(inbox[h])
<1>1. CASE HandleRpc(h)
  <2> DEFINE refused == entry[h][h] # "running" \/ CutOff(h, request.from)
  <2>1. /\ Received(h, "rpc") /\ RefusesOrKeeps(h, request, refused) /\ Consume(h)
        /\ UNCHANGED <<boot, registries, node, crashed>> /\ checked' = checked
    BY <1>1 DEF HandleRpc
  <2>2. "rpc" \in Rpcs /\ refused \in BOOLEAN
    BY DEF Rpcs, CutOff
  <2> HIDE DEF refused
  <2> QED BY <2>1, <2>2, RpcServed
<1>2. CASE HandleSnapshot(h)
  <2> DEFINE refused == ~LetsThrough(h, h, request.from)
  <2>1. /\ Received(h, "snapshot") /\ RefusesOrKeeps(h, request, refused) /\ Consume(h)
        /\ UNCHANGED <<boot, registries, node, crashed>>
        /\ \/ checked' = checked
           \/ checked' = [checked EXCEPT ![h] = @ \cup {<<h, request.from>>}]
    BY <1>2 DEF HandleSnapshot
  <2>2. "snapshot" \in Rpcs /\ refused \in BOOLEAN
    BY DEF Rpcs, LetsThrough
  <2> HIDE DEF refused
  <2> QED BY <2>1, <2>2, RpcServed
<1> QED BY <1>1, <1>2

LEMMA AnswerStep ==
  ASSUME ClusterInv, NEW h \in Hosts, NEW request, NEW reply \in Replies \ {"awaited"},
         AnswerWith(h, request, reply)
  PROVE  ClusterInv'
<1> DEFINE k == request.from
<1>1. /\ request \in replying[h] /\ Replied(k, reply) /\ Alive(h)
      /\ replying' = [replying EXCEPT ![h] = @ \ {request}]
      /\ UNCHANGED <<boot, registries, node, inbox, checked, crashed>>
  BY DEF AnswerWith, ThreadFree
<1>2. TypeOK /\ CallsPeers /\ Silent /\ RaftOnce
  BY DEF ClusterInv
<1>3. request \in Requests /\ k \in Hosts
  BY <1>1, <1>2 DEF TypeOK, Requests
<1>4. /\ Waits(k) /\ call[k].to = h /\ request = RequestOf(k)
      /\ Handled(k, h) = {RequestOf(k)} /\ NoneOf(inbox[h], k)
  BY <1>1, <1>3, LiveIsAwaited DEF k
<1>5. /\ replying' \in [Hosts -> SUBSET Requests] /\ replying'[h] = replying[h] \ {request}
      /\ \A q \in Hosts \ {h} : replying'[q] = replying[q]
  BY <1>1, <1>2 DEF TypeOK
<1>6. Handled(k, h)' = {} /\ \A j \in Hosts \ {k} : Handled(j, h)' = Handled(j, h)
  BY <1>4, <1>5 DEF Handled, k
<1> HIDE DEF k
<1>7. /\ AllOwed' /\ call' \in [Hosts -> Calls]
      /\ \A j \in Hosts : call'[j].kind = call[j].kind /\ call'[j].to = call[j].to
  <2>1. \A q \in Hosts \ {h} : inbox'[q] = inbox[q] /\ replying'[q] = replying[q]
    BY <1>1, <1>5
  <2>2. \A j \in Hosts \ {k} : Keeps(inbox[h], inbox'[h], j)
    BY <1>1, SameKeeps
  <2> QED BY <1>1, <1>3, <1>4, <1>6, <2>1, <2>2, ReplyOwed
<1>8. TypeOK'
  BY <1>1, <1>2, <1>5, <1>7 DEF TypeOK, registries
<1>9. CallsPeers'
  BY <1>1, <1>2, <1>7 DEF CallsPeers
<1>10. Silent'
  BY <1>1, <1>2, <1>5, <1>7 DEF Silent, Alive
<1>11. RaftOnce'
  BY <1>1, BootKept DEF RaftOnce, registries
<1> QED BY <1>7, <1>8, <1>9, <1>10, <1>11 DEF ClusterInv

(* A free thread sends a request, and the reply is there before the        *)
(* Network of the peer could see it.                                       *)
LEMMA ShortCallStep ==
  ASSUME ClusterInv, NEW h \in Hosts, NEW p \in Hosts \ {h}, NEW kind \in RequestKinds,
         ThreadFree(h), NEW reply \in Replies \ {"awaited"},
         call' = [call EXCEPT ![h] =
           [kind |-> kind, to |-> p, reply |-> reply, after |-> {}]],
         UNCHANGED <<boot, registries, inbox, replying, crashed>>,
         node' \in [Hosts -> [Hosts -> NodeSteps]],
         checked' \in [Hosts -> SUBSET (Hosts \X Hosts)]
  PROVE  ClusterInv'
<1>1. /\ TypeOK /\ AllOwed /\ CallsPeers /\ Silent
      /\ Alive(h) /\ ~Waits(h) /\ call \in [Hosts -> Calls]
  BY DEF ClusterInv, TypeOK, ThreadFree, Waits
<1>2. /\ call' \in [Hosts -> Calls]
      /\ call'[h].kind = kind /\ call'[h].to = p /\ call'[h].reply # "awaited"
      /\ \A j \in Hosts \ {h} : call'[j] = call[j]
  <2>1. [kind |-> kind, to |-> p, reply |-> reply, after |-> {}] \in Calls
    BY DEF Calls
  <2> QED BY <1>1, <2>1
<1>3. ASSUME NEW j \in Hosts, NEW q \in Hosts PROVE Owed(j, q)'
  <2>1. Handled(j, q)' = Handled(j, q) /\ Owed(j, q)
    BY <1>1 DEF Handled, AllOwed
  <2>2. CASE j = h
    BY <1>1, <1>2, <2>1, <2>2 DEF Owed, Waits
  <2>3. CASE j # h
    <3>1. SameCall(j)
      BY <1>2, <2>3 DEF SameCall
    <3> QED BY <2>1, <3>1, SameKeeps, OwedKept
  <2> QED BY <2>2, <2>3
<1>4. CallsPeers' /\ Silent'
  BY <1>1, <1>2 DEF CallsPeers, Silent, Alive
<1>5. TypeOK'
  BY <1>1, <1>2 DEF TypeOK, registries
<1>6. RaftOnce'
  BY BootKept DEF RaftOnce, registries
<1> QED BY <1>3, <1>4, <1>5, <1>6 DEF ClusterInv, AllOwed

(* A free thread sends a request: what it owes and is owed starts.         *)
LEMMA CallStep ==
  ASSUME ClusterInv, NEW h \in Hosts, NEW p \in Hosts \ {h}, NEW kind \in RequestKinds,
         ThreadFree(h), CallPeer(h, p, kind),
         UNCHANGED <<boot, registries, replying, crashed>>,
         node' \in [Hosts -> [Hosts -> NodeSteps]],
         checked' \in [Hosts -> SUBSET (Hosts \X Hosts)]
  PROVE  ClusterInv'
<1> DEFINE m == [kind |-> kind, from |-> h, live |-> TRUE]
<1>1. /\ TypeOK /\ AllOwed /\ CallsPeers /\ Silent
      /\ Alive(h) /\ ~Waits(h) /\ kind # "none"
      /\ call \in [Hosts -> Calls]
  BY DEF ClusterInv, TypeOK, ThreadFree, Waits, RequestKinds, Rpcs
<1>2. m \in Messages /\ m.kind = kind /\ m.from = h /\ m.live
  BY DEF Messages, Requests
<1>3. \A j \in Hosts : \A q \in Hosts : Handled(j, q)' = Handled(j, q)
  BY DEF Handled
<1>4. NoneOf(inbox[p], h) /\ \A q \in Hosts : NoneOf(inbox[q], h) /\ Handled(h, q) = {}
  BY <1>1 DEF AllOwed, Owed
<1>5. CASE boot[p] # "started" /\ Alive(p)
  <2>1. call' = [call EXCEPT ![h] = [kind |-> kind, to |-> p, reply |-> "awaited",
                                     after |-> {w \in Hosts : Waits(w)}]]
    BY <1>5 DEF CallPeer
  <2>2. /\ call' \in [Hosts -> Calls]
        /\ call'[h].kind = kind /\ call'[h].to = p /\ call'[h].reply = "awaited"
        /\ \A j \in Hosts \ {h} : call'[j] = call[j]
    <3>1. [kind |-> kind, to |-> p, reply |-> "awaited", after |-> {w \in Hosts : Waits(w)}]
            \in Calls
      BY DEF Calls, Replies
    <3> QED BY <1>1, <2>1, <3>1
  <2>3. Put(p, m)
    BY <1>5 DEF CallPeer
  <2> HIDE DEF m
  <2>4. /\ inbox' \in [Hosts -> Seq(Messages)] /\ inbox'[p] = Append(inbox[p], m)
        /\ \A q \in Hosts \ {p} : inbox'[q] = inbox[q]
        /\ inbox[p] \in Seq(Messages)
    BY <1>2, <2>3, Delivered
  <2>5. RequestOf(h)' = m /\ Waits(h)'
    BY <1>1, <2>2 DEF RequestOf, Waits, m
  <2>6. ASSUME NEW j \in Hosts, NEW q \in Hosts PROVE Owed(j, q)'
    <3>1. CASE j = h /\ q = p
      <4>1. OnceOf(inbox'[p], h, m)
        BY <1>2, <1>4, <2>4, AfterAppend
      <4> QED BY <1>3, <1>4, <2>2, <2>5, <3>1, <4>1 DEF Owed
    <3>2. CASE j = h /\ q # p
      BY <1>3, <1>4, <2>2, <2>4, <2>5, <3>2 DEF Owed
    <3>3. CASE j # h
      <4>1. SameCall(j) /\ Owed(j, q)
        BY <1>1, <2>2, <3>3 DEF SameCall, AllOwed
      <4>2. Keeps(inbox[p], inbox'[p], j)
        BY <1>2, <2>4, <3>3, AfterAppend DEF Keeps, LiveOf
      <4>3. Keeps(inbox[q], inbox'[q], j)
        BY <2>4, <4>2, SameKeeps
      <4> QED BY <1>3, <4>1, <4>3, OwedKept
    <3> QED BY <3>1, <3>2, <3>3
  <2>7. CallsPeers'
    <3>1. Foreign(inbox[p], p) => Foreign(inbox'[p], p)
      BY <1>2, <2>4, AppendIsMore
    <3>2. \A q \in Hosts : Foreign(inbox'[q], q)
      BY <1>1, <2>4, <3>1 DEF CallsPeers
    <3> QED BY <1>1, <2>2, <3>2 DEF CallsPeers
  <2>8. Silent'
    BY <1>1, <1>5, <2>2, <2>4 DEF Silent, Alive
  <2>9. TypeOK'
    BY <1>1, <2>2, <2>4 DEF TypeOK, Messages, registries
  <2>10. RaftOnce'
    <3>1. m.kind \notin {"bind", "registerRaft"}
      BY <1>2 DEF RequestKinds, Rpcs
    <3> QED BY <1>2, <2>4, <3>1, BootKept DEF RaftOnce, registries
  <2> QED BY <2>6, <2>7, <2>8, <2>9, <2>10 DEF ClusterInv, AllOwed
<1>6. CASE boot[p] = "started" \/ ~Alive(p)
  <2>1. PICK reply \in {"noConnection", "failure"} :
          /\ call' = [call EXCEPT ![h] =
               [kind |-> kind, to |-> p, reply |-> reply, after |-> {}]]
          /\ UNCHANGED inbox
    BY <1>6 DEF CallPeer
  <2>2. reply \in Replies \ {"awaited"}
    BY DEF Replies
  <2> QED BY <2>1, <2>2, ShortCallStep
<1> QED BY <1>5, <1>6 DEF CallPeer

LEMMA ConnectRemoteStep ==
  ASSUME ClusterInv, NEW h \in Hosts, NEW p \in Hosts, ConnectRemote(h, p)
  PROVE  ClusterInv'
<1>1. node' \in [Hosts -> [Hosts -> NodeSteps]]
  BY DEF ConnectRemote, ClusterInv, TypeOK, NodeSteps
<1>2. checked' \in [Hosts -> SUBSET (Hosts \X Hosts)]
  BY DEF ConnectRemote, ClusterInv, TypeOK
<1>3. p \in Hosts \ {h} /\ "connect" \in RequestKinds
  BY DEF ConnectRemote, RequestKinds
<1> QED BY <1>1, <1>2, <1>3, CallStep DEF ConnectRemote

LEMMA SendRpcStep ==
  ASSUME ClusterInv, NEW h \in Hosts, NEW p \in Hosts, SendRpc(h, p)
  PROVE  ClusterInv'
<1>1. node' \in [Hosts -> [Hosts -> NodeSteps]]
  BY DEF SendRpc, ClusterInv, TypeOK
<1>2. checked' \in [Hosts -> SUBSET (Hosts \X Hosts)]
  BY DEF SendRpc, ClusterInv, TypeOK
<1>3. p \in Hosts \ {h} /\ "rpc" \in RequestKinds
  BY DEF SendRpc, RequestKinds, Rpcs
<1> QED BY <1>1, <1>2, <1>3, CallStep DEF SendRpc

(* One snapshot more is let through, or one less is still to hand over.    *)
LEMMA CheckedTypes ==
  ASSUME TypeOK, NEW h \in Hosts, NEW t \in Hosts, NEW from \in Hosts,
         \/ checked' = [checked EXCEPT ![h] = @ \cup {<<t, from>>}]
         \/ checked' = [checked EXCEPT ![h] = @ \ {<<t, from>>}]
  PROVE  checked' \in [Hosts -> SUBSET (Hosts \X Hosts)]
<1>1. checked \in [Hosts -> SUBSET (Hosts \X Hosts)]
  BY DEF TypeOK
<1> QED BY <1>1

LEMMA SendSnapshotStep ==
  ASSUME ClusterInv, NEW h \in Hosts, NEW p \in Hosts,
         SendSnapshot(h, p) \/ SendLargeChunk(h, p)
  PROVE  ClusterInv'
<1>1. /\ node' \in [Hosts -> [Hosts -> NodeSteps]]
      /\ UNCHANGED <<boot, registries, replying, crashed>> /\ ThreadFree(h)
      /\ checked' = [checked EXCEPT ![h] = @ \ {<<p, h>>}]
      /\ p \in Hosts \ {h}
  BY DEF SendSnapshot, SendLargeChunk, ClusterInv, TypeOK
<1>2. checked' \in [Hosts -> SUBSET (Hosts \X Hosts)]
  BY <1>1, CheckedTypes DEF ClusterInv
<1>3. "snapshot" \in RequestKinds /\ "tooLarge" \in Replies \ {"awaited"}
  BY DEF RequestKinds, Rpcs, Replies
<1>4. CASE SendSnapshot(h, p)
  BY <1>1, <1>2, <1>3, <1>4, CallStep DEF SendSnapshot
<1>5. CASE SendLargeChunk(h, p)
  BY <1>1, <1>2, <1>3, <1>5, ShortCallStep DEF SendLargeChunk
<1> QED BY <1>4, <1>5

(* A poll goes on with the reply of its request.                           *)
LEMMA CallEnds ==
  ASSUME ClusterInv, NEW h \in Hosts, Alive(h), ~Waits(h),
         call' = [call EXCEPT ![h] = NoCall(h)],
         UNCHANGED <<boot, registries, inbox, replying, checked, crashed>>,
         node' \in [Hosts -> [Hosts -> NodeSteps]]
  PROVE  ClusterInv'
<1>1. TypeOK /\ AllOwed /\ CallsPeers /\ Silent /\ call \in [Hosts -> Calls]
  BY DEF ClusterInv, TypeOK
<1>2. NoCall(h) \in Calls
  BY DEF NoCall, Calls, Replies
<1>3. /\ call' \in [Hosts -> Calls] /\ call'[h].kind = "none"
      /\ \A j \in Hosts \ {h} : call'[j] = call[j]
  BY <1>1, <1>2 DEF NoCall
<1>4. ASSUME NEW j \in Hosts, NEW q \in Hosts PROVE Owed(j, q)'
  <2>1. Handled(j, q)' = Handled(j, q) /\ Owed(j, q)
    BY <1>1 DEF Handled, AllOwed
  <2>2. CASE j = h
    BY <1>3, <2>1, <2>2 DEF Owed, Waits
  <2>3. CASE j # h
    <3>1. SameCall(j)
      BY <1>3, <2>3 DEF SameCall
    <3> QED BY <2>1, <3>1, SameKeeps, OwedKept
  <2> QED BY <2>2, <2>3
<1>5. CallsPeers' /\ Silent'
  BY <1>1, <1>3 DEF CallsPeers, Silent, Alive
<1>6. TypeOK'
  BY <1>1, <1>3 DEF TypeOK, registries
<1>7. RaftOnce'
  BY BootKept DEF RaftOnce, registries
<1> QED BY <1>4, <1>5, <1>6, <1>7 DEF ClusterInv, AllOwed

LEMMA ConnectFailsStep ==
  ASSUME ClusterInv, NEW h \in Hosts, ConnectFails(h)
  PROVE  ClusterInv'
<1>1. node' \in [Hosts -> [Hosts -> NodeSteps]]
  BY DEF ConnectFails, ClusterInv, TypeOK, NodeSteps
<1> QED BY <1>1, CallEnds DEF ConnectFails, Waits

LEMMA RpcEndsStep ==
  ASSUME ClusterInv, NEW h \in Hosts, RpcEnds(h)
  PROVE  ClusterInv'
<1>1. node' \in [Hosts -> [Hosts -> NodeSteps]]
  BY DEF RpcEnds, ClusterInv, TypeOK
<1> QED BY <1>1, CallEnds DEF RpcEnds, Waits

(* Neither a mailbox nor a call changes.                                   *)
LEMMA QuietStep ==
  ASSUME ClusterInv, UNCHANGED <<boot, raftKnown, inbox, call, replying, crashed>>, TypeOK'
  PROVE  ClusterInv'
<1>1. AllOwed'
  BY DEF ClusterInv, AllOwed, Owed, Waits, RequestOf, Handled
<1>2. CallsPeers' /\ Silent'
  BY DEF ClusterInv, CallsPeers, Silent, Alive
<1>3. RaftOnce'
  BY DEF ClusterInv, RaftOnce, BootInOrder
<1> QED BY <1>1, <1>2, <1>3 DEF ClusterInv

LEMMA RetryConnectStep ==
  ASSUME ClusterInv, NEW h \in Hosts, NEW p \in Hosts, RetryConnect(h, p)
  PROVE  ClusterInv'
<1>1. TypeOK'
  BY DEF RetryConnect, ClusterInv, TypeOK, NodeSteps, registries, calls
<1> QED BY <1>1, QuietStep DEF RetryConnect, registries, calls

LEMMA DisconnectStep ==
  ASSUME ClusterInv, NEW h \in Hosts, NEW p \in Hosts, Disconnect(h, p)
  PROVE  ClusterInv'
<1>1. TypeOK'
  BY DEF Disconnect, ClusterInv, TypeOK, calls
<1> QED BY <1>1, QuietStep DEF Disconnect, calls

LEMMA CheckStep ==
  ASSUME ClusterInv, NEW h \in Hosts, NEW p \in Hosts, CheckSnapshot(h, p) \/ HandOver(h, p)
  PROVE  ClusterInv'
<1>1. /\ UNCHANGED <<boot, registries, node, inbox, call, replying, crashed>>
      /\ \/ checked' = [checked EXCEPT ![h] = @ \cup {<<p, h>>}]
         \/ checked' = [checked EXCEPT ![h] = @ \ {<<h, p>>}]
  BY DEF CheckSnapshot, HandOver
<1>2. checked' \in [Hosts -> SUBSET (Hosts \X Hosts)]
  BY <1>1, CheckedTypes DEF ClusterInv
<1>3. TypeOK'
  BY <1>1, <1>2 DEF ClusterInv, TypeOK, registries
<1> QED BY <1>1, <1>3, QuietStep DEF registries

(* A thread ends: its mailbox and what it worked at are gone, and whoever  *)
(* waited for it has a failure.                                            *)
LEMMA CrashKeepsOwed ==
  ASSUME ClusterInv, NEW h \in Hosts, NEW panic \in {"boot", "rpc", "snapshot"}, Crash(h, panic),
         ~Waits(h)
  PROVE  /\ AllOwed' /\ CallsPeers' /\ Silent'
         /\ inbox' \in [Hosts -> Seq(Messages)] /\ replying' \in [Hosts -> SUBSET Requests]
         /\ call' \in [Hosts -> Calls] /\ crashed' \in [Hosts -> {"no", "boot", "rpc", "snapshot"}]
         /\ checked' \in [Hosts -> SUBSET (Hosts \X Hosts)]
         /\ inbox'[h] = <<>> /\ \A q \in Hosts \ {h} : inbox'[q] = inbox[q]
<1>1. /\ TypeOK /\ AllOwed /\ CallsPeers /\ Silent
      /\ \A j \in Hosts : call[j] \in Calls
  BY DEF ClusterInv, TypeOK
<1>2. /\ inbox' \in [Hosts -> Seq(Messages)] /\ replying' \in [Hosts -> SUBSET Requests]
      /\ inbox'[h] = <<>> /\ replying'[h] = {}
      /\ \A q \in Hosts \ {h} : inbox'[q] = inbox[q] /\ replying'[q] = replying[q]
      /\ crashed' \in [Hosts -> {"no", "boot", "rpc", "snapshot"}] /\ crashed'[h] = panic
      /\ \A q \in Hosts \ {h} : crashed'[q] = crashed[q]
  <2>1. /\ crashed' = [crashed EXCEPT ![h] = panic]
        /\ inbox' = [inbox EXCEPT ![h] = <<>>]
        /\ replying' = [replying EXCEPT ![h] = {}]
    BY DEF Crash
  <2>2. <<>> \in Seq(Messages)
    OBVIOUS
  <2>3. /\ crashed \in [Hosts -> {"no", "boot", "rpc", "snapshot"}]
        /\ inbox \in [Hosts -> Seq(Messages)] /\ replying \in [Hosts -> SUBSET Requests]
    BY <1>1 DEF TypeOK, Messages
  <2> QED BY <2>1, <2>2, <2>3
<1> DEFINE failed == {q \in Hosts : Waits(q) /\ call[q].to = h}
<1>3. /\ call' = [q \in Hosts |->
           IF q = h THEN NoCall(h)
           ELSE IF q \in failed THEN [call[q] EXCEPT !.reply = "failure", !.after = {}]
           ELSE [call[q] EXCEPT !.after = @ \ failed]]
  BY DEF Crash
<1>4. call'[h] = NoCall(h) /\ NoCall(h) \in Calls /\ ~Waits(h)' /\ call'[h].kind = "none"
  BY <1>3 DEF NoCall, Calls, Replies, Waits
<1>5. ASSUME NEW j \in Hosts \ {h}, j \in failed
      PROVE  call'[j] \in Calls /\ ~Waits(j)' /\ call'[j].kind = call[j].kind
             /\ call'[j].to = call[j].to
  <2>1. call'[j] = [call[j] EXCEPT !.reply = "failure", !.after = {}]
    BY <1>3, <1>5
  <2> HIDE DEF failed
  <2> QED BY <1>1, <2>1 DEF Calls, Replies, Waits
<1>6. ASSUME NEW j \in Hosts \ {h}, j \notin failed
      PROVE  call'[j] \in Calls /\ SameCall(j)
  <2>1. call'[j] = [call[j] EXCEPT !.after = @ \ failed]
    BY <1>3, <1>6
  <2> HIDE DEF failed
  <2> QED BY <1>1, <2>1 DEF Calls, SameCall
<1>7. call' \in [Hosts -> Calls]
  <2>1. \A j \in Hosts : call'[j] \in Calls
    BY <1>4, <1>5, <1>6
  <2> QED BY <1>3, <2>1
<1>8. ASSUME NEW j \in Hosts, NEW q \in Hosts PROVE Owed(j, q)'
  <2>1. Owed(j, q)
    BY <1>1 DEF AllOwed
  <2>2. q = h => Handled(j, q)' = {} /\ NoneOf(inbox'[q], j)
    BY <1>2 DEF Handled, NoneOf
  <2>3. q # h => Handled(j, q)' = Handled(j, q) /\ inbox'[q] = inbox[q]
    BY <1>2 DEF Handled
  <2>4. CASE j = h
    <3>1. Handled(j, q)' = {} /\ NoneOf(inbox'[q], j)
      BY <2>1, <2>2, <2>3, <2>4 DEF Owed
    <3> QED BY <1>4, <2>4, <3>1 DEF Owed
  <2>5. CASE j # h /\ j \in failed
    <3>1. Handled(j, q)' = {} /\ NoneOf(inbox'[q], j)
      BY <2>1, <2>2, <2>3, <2>5 DEF Owed
    <3> QED BY <1>5, <2>5, <3>1 DEF Owed
  <2>6. CASE j # h /\ j \notin failed
    <3>1. SameCall(j)
      BY <1>6, <2>6
    <3>2. CASE q = h
      <4>1. ~(Waits(j)' /\ call'[j].to = q)
        BY <2>6, <3>1, <3>2 DEF SameCall, Waits
      <4> QED BY <2>2, <3>2, <4>1 DEF Owed
    <3>3. CASE q # h
      BY <2>1, <2>3, <3>1, <3>3, SameKeeps, OwedKept
    <3> QED BY <3>2, <3>3
  <2> QED BY <2>4, <2>5, <2>6
<1>9. \A j \in Hosts \ {h} : call'[j].kind = call[j].kind /\ call'[j].to = call[j].to
  BY <1>5, <1>6 DEF SameCall
<1>10. CallsPeers'
  <2>1. Foreign(inbox'[h], h)
    BY <1>2 DEF Foreign
  <2>2. \A q \in Hosts : Foreign(inbox'[q], q)
    BY <1>1, <1>2, <2>1 DEF CallsPeers
  <2> QED BY <1>1, <1>4, <1>9, <2>2 DEF CallsPeers
<1>11. Silent'
  BY <1>1, <1>2, <1>4, <1>9 DEF Silent, Alive
<1>12. checked' \in [Hosts -> SUBSET (Hosts \X Hosts)]
  BY <1>1 DEF Crash, TypeOK
<1> QED BY <1>2, <1>7, <1>8, <1>10, <1>11, <1>12 DEF AllOwed

LEMMA RegisterRaftPanicsStep ==
  ASSUME ClusterInv, NEW h \in Hosts, RegisterRaftPanics(h)
  PROVE  ClusterInv' /\ Alive(h)
<1>1. ~Waits(h) /\ Alive(h) /\ inbox[h] # <<>> /\ Head(inbox[h]).kind = "registerRaft"
  BY DEF RegisterRaftPanics, Received, ThreadFree, Waits
<1>2. /\ AllOwed' /\ CallsPeers' /\ Silent'
      /\ inbox' \in [Hosts -> Seq(Messages)] /\ replying' \in [Hosts -> SUBSET Requests]
      /\ call' \in [Hosts -> Calls] /\ crashed' \in [Hosts -> {"no", "boot", "rpc", "snapshot"}]
      /\ checked' \in [Hosts -> SUBSET (Hosts \X Hosts)]
      /\ inbox'[h] = <<>> /\ \A q \in Hosts \ {h} : inbox'[q] = inbox[q]
  BY <1>1, CrashKeepsOwed DEF RegisterRaftPanics
<1>3. TypeOK'
  BY <1>2 DEF RegisterRaftPanics, ClusterInv, TypeOK, Messages
<1>4. RaftOnce'
  <2>1. 1 \in DOMAIN inbox[h] /\ inbox[h][1] = Head(inbox[h])
    BY <1>1 DEF ClusterInv, TypeOK
  <2>2. boot[h] = "registered"
    BY <1>1, <2>1 DEF ClusterInv, RaftOnce, BootInOrder, Pending
  <2>3. /\ UNCHANGED boot
        /\ \A q \in Hosts \ {h} : raftKnown'[q] = raftKnown[q]
    BY DEF RegisterRaftPanics, ClusterInv, TypeOK
  <2>4. BootInOrder(h)'
    BY <1>2, <2>2, <2>3 DEF BootInOrder, Single, Pending
  <2>5. \A q \in Hosts \ {h} : BootInOrder(q)'
    BY <1>2, <2>3, BootKept
  <2> QED BY <2>4, <2>5 DEF RaftOnce
<1> QED BY <1>1, <1>2, <1>3, <1>4 DEF ClusterInv

LEMMA RpcPanicsStep ==
  ASSUME ClusterInv, NEW h \in Hosts, RpcPanics(h) \/ HandOverPanics(h)
  PROVE  ClusterInv' /\ crashed'[h] \in {"rpc", "snapshot"}
         /\ \A q \in Hosts \ {h} : crashed'[q] = crashed[q]
<1>1. PICK panic \in {"rpc", "snapshot"} :
        ~Waits(h) /\ Crash(h, panic) /\ UNCHANGED <<boot, registries, node>>
  BY DEF RpcPanics, HandOverPanics, ThreadFree, Waits, Fatal
<1>2. /\ AllOwed' /\ CallsPeers' /\ Silent'
      /\ inbox' \in [Hosts -> Seq(Messages)] /\ replying' \in [Hosts -> SUBSET Requests]
      /\ call' \in [Hosts -> Calls]
      /\ crashed' \in [Hosts -> {"no", "boot", "rpc", "snapshot"}]
      /\ checked' \in [Hosts -> SUBSET (Hosts \X Hosts)]
      /\ inbox'[h] = <<>> /\ \A q \in Hosts \ {h} : inbox'[q] = inbox[q]
  BY <1>1, CrashKeepsOwed
<1>3. TypeOK'
  BY <1>1, <1>2 DEF ClusterInv, TypeOK, Messages, registries
<1>4. RaftOnce'
  <2>1. UNCHANGED <<boot, raftKnown>>
    BY <1>1 DEF registries
  <2>2. BootInOrder(h)'
    BY <1>2, <2>1 DEF ClusterInv, RaftOnce, BootInOrder, Single, Pending
  <2>3. \A q \in Hosts \ {h} : BootInOrder(q)'
    BY <1>2, <2>1, BootKept
  <2> QED BY <2>2, <2>3 DEF RaftOnce
<1>5. crashed'[h] \in {"rpc", "snapshot"} /\ \A q \in Hosts \ {h} : crashed'[q] = crashed[q]
  BY <1>1 DEF Crash, ClusterInv, TypeOK
<1> QED BY <1>2, <1>3, <1>4, <1>5 DEF ClusterInv

LEMMA TimesOutStep ==
  ASSUME ClusterInv, NEW h \in Hosts, TimesOut(h)
  PROVE  /\ ClusterInv' /\ \A q \in Hosts : inbox'[q] = inbox[q] \/ Within(inbox'[q], inbox[q])
<1>0. PICK p \in Hosts : p = call[h].to /\ call[h] \in Calls
  BY DEF ClusterInv, TypeOK, Calls
<1>1. /\ Waits(h) /\ Replied(h, "timeout")
      /\ UNCHANGED <<boot, registries, node, checked, crashed>>
      /\ \/ /\ replying' = [replying EXCEPT ![p] = @ \ {RequestOf(h)}]
            /\ RequestOf(h) \in replying[p] /\ UNCHANGED inbox
         \/ /\ \E i \in DOMAIN inbox[p] :
                 /\ inbox[p][i] = RequestOf(h)
                 /\ \/ inbox' = [inbox EXCEPT ![p] = RemoveAt(@, i)]
                    \/ inbox' = [inbox EXCEPT ![p][i].live = FALSE]
            /\ UNCHANGED replying
  BY <1>0 DEF TimesOut
<1>2. TypeOK /\ AllOwed /\ CallsPeers /\ Silent
  BY DEF ClusterInv
<1>3. call[h].to = p /\ "timeout" \in Replies \ {"awaited"}
  BY <1>0 DEF Replies
<1>4. /\ RequestOf(h) \in Requests /\ LiveOf(RequestOf(h), h)
      /\ RequestOf(h).from = h /\ RequestOf(h).live
  BY <1>0, <1>1 DEF RequestOf, Requests, LiveOf, Calls, Waits
<1>5. Owed(h, p) /\ inbox[p] \in Seq(Messages) /\ inbox \in [Hosts -> Seq(Messages)]
  BY <1>2, <1>3 DEF AllOwed, TypeOK, Messages
<1>6. \A q \in Hosts : ~Alive(q) => inbox[q] = <<>> /\ replying[q] = {}
  BY <1>2 DEF Silent
<1>7. /\ inbox' \in [Hosts -> Seq(Messages)] /\ replying' \in [Hosts -> SUBSET Requests]
      /\ \A q \in Hosts \ {p} : inbox'[q] = inbox[q] /\ replying'[q] = replying[q]
      /\ inbox'[p] = inbox[p] \/ Within(inbox'[p], inbox[p])
      /\ NoneOf(inbox'[p], h) /\ Handled(h, p)' = {}
      /\ \A j \in Hosts \ {h} :
           Keeps(inbox[p], inbox'[p], j) /\ Handled(j, p)' = Handled(j, p)
      /\ ~Alive(p) => inbox'[p] = <<>> /\ replying'[p] = {}
  <2>1. CASE /\ replying' = [replying EXCEPT ![p] = @ \ {RequestOf(h)}]
             /\ RequestOf(h) \in replying[p] /\ UNCHANGED inbox
    <3>1. Handled(h, p) = {RequestOf(h)} /\ NoneOf(inbox[p], h)
      BY <1>3, <1>4, <2>1, LiveIsAwaited
    <3>2. /\ replying' \in [Hosts -> SUBSET Requests]
          /\ replying'[p] = replying[p] \ {RequestOf(h)}
          /\ \A q \in Hosts \ {p} : replying'[q] = replying[q]
      BY <1>2, <1>3, <2>1 DEF TypeOK
    <3>3. Handled(h, p)' = {} /\ \A j \in Hosts \ {h} : Handled(j, p)' = Handled(j, p)
      BY <1>4, <3>1, <3>2 DEF Handled
    <3> QED BY <1>3, <1>5, <1>6, <2>1, <3>1, <3>2, <3>3, SameKeeps
  <2>2. CASE UNCHANGED replying /\ \E i \in DOMAIN inbox[p] :
                 /\ inbox[p][i] = RequestOf(h)
                 /\ \/ inbox' = [inbox EXCEPT ![p] = RemoveAt(@, i)]
                    \/ inbox' = [inbox EXCEPT ![p][i].live = FALSE]
    <3>1. PICK i \in DOMAIN inbox[p] :
                 /\ inbox[p][i] = RequestOf(h)
                 /\ \/ inbox' = [inbox EXCEPT ![p] = RemoveAt(@, i)]
                    \/ inbox' = [inbox EXCEPT ![p][i].live = FALSE]
      BY <2>2
    <3>2. LiveOf(inbox[p][i], h) /\ \A j \in Hosts \ {h} : ~LiveOf(inbox[p][i], j)
      BY <1>4, <3>1 DEF LiveOf
    <3>3. Handled(h, p) = {} /\ OnceOf(inbox[p], h, RequestOf(h))
      BY <1>3, <3>2, LiveIsAwaited
    <3>4. \A j \in Hosts : Handled(j, p)' = Handled(j, p)
      BY <2>2 DEF Handled
    <3>5. Alive(p)
      BY <1>3, <1>6
    <3>6. /\ inbox'[p] \in Seq(Messages) /\ Within(inbox'[p], inbox[p])
          /\ NoneOf(inbox'[p], h)
          /\ \A j \in Hosts \ {h} : Keeps(inbox[p], inbox'[p], j)
          /\ inbox' = [inbox EXCEPT ![p] = inbox'[p]]
      <4>1. CASE inbox' = [inbox EXCEPT ![p] = RemoveAt(@, i)]
        <5>1. inbox'[p] = RemoveAt(inbox[p], i) /\ inbox' = [inbox EXCEPT ![p] = inbox'[p]]
          BY <1>3, <1>5, <4>1
        <5>2. inbox'[p] \in Seq(Messages) /\ Within(inbox'[p], inbox[p])
          BY <1>5, <5>1, AfterRemoveAt
        <5>3. NoneOf(inbox'[p], h)
          BY <1>5, <3>2, <3>3, <5>1, AfterRemoveAt
        <5>4. \A j \in Hosts \ {h} : Keeps(inbox[p], inbox'[p], j)
          BY <1>5, <3>2, <5>1, AfterRemoveAt DEF Keeps
        <5> QED BY <5>1, <5>2, <5>3, <5>4
      <4>2. CASE inbox' = [inbox EXCEPT ![p][i].live = FALSE]
        <5>0. inbox[p][i] \in Requests
          BY <1>4, <3>1
        <5>1. /\ inbox'[p] = [inbox[p] EXCEPT ![i].live = FALSE]
              /\ inbox' = [inbox EXCEPT ![p] = inbox'[p]]
          BY <1>3, <1>5, <4>2
        <5>2. inbox'[p] \in Seq(Messages) /\ Within(inbox'[p], inbox[p])
          BY <1>5, <5>0, <5>1, AfterOrphaning
        <5>3. NoneOf(inbox'[p], h)
          BY <1>5, <3>2, <3>3, <5>0, <5>1, AfterOrphaning
        <5>4. \A j \in Hosts \ {h} : Keeps(inbox[p], inbox'[p], j)
          BY <1>5, <3>2, <5>0, <5>1, AfterOrphaning DEF Keeps
        <5> QED BY <5>1, <5>2, <5>3, <5>4
      <4> QED BY <3>1, <4>1, <4>2
    <3>7. /\ inbox' \in [Hosts -> Seq(Messages)]
          /\ \A q \in Hosts \ {p} : inbox'[q] = inbox[q]
      BY <1>3, <1>5, <3>6
    <3>8. replying' \in [Hosts -> SUBSET Requests]
      BY <1>2, <2>2 DEF TypeOK
    <3> QED BY <2>2, <3>3, <3>4, <3>5, <3>6, <3>7, <3>8
  <2> QED BY <1>1, <2>1, <2>2
<1>8. /\ AllOwed' /\ call' \in [Hosts -> Calls]
      /\ \A j \in Hosts : call'[j].kind = call[j].kind /\ call'[j].to = call[j].to
  BY <1>1, <1>3, <1>7, ReplyOwed
<1>9. TypeOK'
  BY <1>1, <1>2, <1>7, <1>8 DEF TypeOK, registries, Messages
<1>10. CallsPeers'
  BY <1>2, <1>7, <1>8, WithinIsLess DEF CallsPeers
<1>11. Silent'
  BY <1>1, <1>2, <1>7, <1>8 DEF Silent, Alive
<1>12. \A q \in Hosts : inbox'[q] = inbox[q] \/ Within(inbox'[q], inbox[q])
  BY <1>7
<1>13. RaftOnce'
  BY <1>1, <1>12, BootKept DEF RaftOnce, registries
<1> QED BY <1>8, <1>9, <1>10, <1>11, <1>12, <1>13 DEF ClusterInv

LEMMA ClusterInvStep == ClusterInv /\ [Next]_vars => ClusterInv'
<1> SUFFICES ASSUME ClusterInv, [Next]_vars PROVE ClusterInv'
  OBVIOUS
<1>1. CASE UNCHANGED vars
  <2>1. UNCHANGED <<boot, entry, link, raftKnown, node, inbox, replying, call, checked, crashed>>
    BY <1>1 DEF vars, registries, calls
  <2>2. TypeOK'
    BY <2>1 DEF ClusterInv, TypeOK
  <2> QED BY <2>1, <2>2, QuietStep
<1>2. ASSUME NEW h \in Hosts, HostStep(h) PROVE ClusterInv'
  <2>1. CASE SendRegisterRaft(h)
    BY <2>1, SendRegisterRaftStep
  <2>2. CASE Serve(h)
    BY <2>2, BindStep, HandleConnectNodeStep, HandleRpcStep, HandleRegisterRaftStep,
       RegisterRaftPanicsStep, HandleReportStep DEF Serve
  <2>3. CASE Answer(h)
    <3>1. PICK request \in replying[h] :
            \E reply \in {"created", "failure", "response", "refusal"} :
              AnswerWith(h, request, reply)
      BY <2>3 DEF Answer, Acknowledge, FailConnect, RaftResponds, RaftFails
    <3>2. {"created", "failure", "response", "refusal"} \subseteq Replies \ {"awaited"}
      BY DEF Replies
    <3> QED BY <3>1, <3>2, AnswerStep
  <2>4. CASE ConnectLocal(h)
    BY <2>4, ConnectLocalStep
  <2>5. CASE Resume(h)
    BY <2>5, ConnectLocalStep, ConnectFailsStep, RpcEndsStep, RpcPanicsStep DEF Resume
  <2>6. CASE TimesOut(h)
    BY <2>6, TimesOutStep
  <2>7. CASE HandOverPanics(h)
    BY <2>7, RpcPanicsStep
  <2> QED BY <1>2, <2>1, <2>2, <2>3, <2>4, <2>5, <2>6, <2>7 DEF HostStep
<1>3. ASSUME NEW h \in Hosts, NEW p \in Hosts, PeerStep(h, p)
      PROVE  ClusterInv'
  BY <1>3, ConnectRemoteStep, RetryConnectStep, SendRpcStep, DisconnectStep, CheckStep,
     SendSnapshotStep DEF PeerStep
<1> QED BY <1>1, <1>2, <1>3 DEF Next

THEOREM ClusterInvariance == Spec => []ClusterInv
<1> QED BY ClusterInvInit, ClusterInvStep, PTL DEF Spec

(* Type correctness of every host's part of the cluster, for any number of *)
(* hosts and any seeds.                                                    *)
THEOREM ClusterTyping == Spec => []TypeOK
<1>1. ClusterInv => TypeOK
  BY DEF ClusterInv
<1> QED BY <1>1, ClusterInvariance, PTL

(* No reply is waited for that nobody owes, and none is owed that nobody   *)
(* waits for: whatever requests, timeouts, orphans and panics cross each   *)
(* other between the blocking clients and the mailboxes of the hosts.      *)
THEOREM CallsStayOwed == Spec => []CallsAreOwed
<1>1. ClusterInv => CallsAreOwed
  BY OwedIsCallsAreOwed DEF ClusterInv
<1> QED BY <1>1, ClusterInvariance, PTL

(***************************************************************************)
(* Of the calls under way one is the oldest, and can end.                  *)
(***************************************************************************)
Waiting == {w \in Hosts : Waits(w)}

(* Calls are ordered by their age: only calls under way are older than     *)
(* another, and what is older than an older call is older too.             *)
AgeOrdered(h) ==
  /\ call[h].after \subseteq Waiting \ {h}
  /\ ~Waits(h) => call[h].after = {}
  /\ \A g \in call[h].after : call[g].after \subseteq call[h].after

AgesInv == IsFiniteSet(Waiting) /\ \A h \in Hosts : AgeOrdered(h)

(* The waits of some hosts end, and nobody's begins.                       *)
Released(D) ==
  /\ D \subseteq Hosts
  /\ \A p \in D : ~Waits(p)' /\ call'[p].after = {}
  /\ \A p \in Hosts \ D : (Waits(p)' <=> Waits(p)) /\ call'[p].after = call[p].after \ D

LEMMA AgesInit == Init => AgesInv
<1> SUFFICES ASSUME Init PROVE AgesInv
  OBVIOUS
<1>1. \A h \in Hosts : call[h].kind = "none" /\ call[h].after = {}
  BY DEF Init, NoCall
<1>2. Waiting = {}
  BY <1>1 DEF Waiting, Waits
<1>3. IsFiniteSet(Waiting)
  BY <1>2, FS_EmptySet
<1>4. \A h \in Hosts : AgeOrdered(h)
  BY <1>1 DEF AgeOrdered
<1> QED BY <1>3, <1>4 DEF AgesInv

LEMMA AgesReleased ==
  ASSUME AgesInv, NEW D, Released(D)
  PROVE  AgesInv'
<1>1. Waiting' = Waiting \ D
  BY DEF Released, Waiting
<1>2. IsFiniteSet(Waiting')
  BY <1>1, FS_Subset DEF AgesInv
<1>3. ASSUME NEW h \in Hosts PROVE AgeOrdered(h)'
  <2>1. CASE h \in D
    BY <2>1 DEF Released, AgeOrdered
  <2>2. CASE h \notin D
    <3>1. (Waits(h)' <=> Waits(h)) /\ call'[h].after = call[h].after \ D
      BY <2>2 DEF Released
    <3>2. AgeOrdered(h)
      BY DEF AgesInv
    <3>3. call'[h].after \subseteq Waiting' \ {h}
      BY <1>1, <3>1, <3>2 DEF AgeOrdered
    <3>4. ASSUME NEW g \in call'[h].after PROVE call'[g].after \subseteq call'[h].after
      <4>1. g \in call[h].after /\ g \in Hosts \ D
        BY <3>1, <3>2, <3>4 DEF AgeOrdered, Waiting
      <4>2. call'[g].after = call[g].after \ D
        BY <4>1 DEF Released
      <4> QED BY <3>1, <3>2, <4>1, <4>2 DEF AgeOrdered
    <3> QED BY <3>1, <3>2, <3>3, <3>4 DEF AgeOrdered
  <2> QED BY <2>1, <2>2
<1> QED BY <1>2, <1>3 DEF AgesInv

LEMMA RepliedReleases ==
  ASSUME TypeOK, NEW k \in Hosts, NEW reply \in Replies \ {"awaited"}, Replied(k, reply)
  PROVE  Released({k})
<1>1. /\ call'[k] = [call[k] EXCEPT !.reply = reply, !.after = {}]
      /\ \A j \in Hosts \ {k} : call'[j] = [call[j] EXCEPT !.after = @ \ {k}]
      /\ \A j \in Hosts : call[j] \in Calls
  BY DEF Replied, TypeOK
<1>2. ~Waits(k)' /\ call'[k].after = {}
  BY <1>1 DEF Waits, Calls
<1>3. ASSUME NEW j \in Hosts \ {k}
      PROVE  (Waits(j)' <=> Waits(j)) /\ call'[j].after = call[j].after \ {k}
  <2>1. call[j] \in Calls /\ call'[j] = [call[j] EXCEPT !.after = @ \ {k}]
    BY <1>1
  <2> QED BY <2>1 DEF Waits, Calls
<1> QED BY <1>2, <1>3 DEF Released

(* The end of a thread ends every wait for it.                             *)
LEMMA CrashReleases ==
  ASSUME TypeOK, AgesInv, NEW h \in Hosts, NEW panic, Crash(h, panic), ~Waits(h)
  PROVE  \E D : Released(D)
<1> DEFINE failed == {q \in Hosts : Waits(q) /\ call[q].to = h}
<1>1. call' = [q \in Hosts |->
        IF q = h THEN NoCall(h)
        ELSE IF q \in failed THEN [call[q] EXCEPT !.reply = "failure", !.after = {}]
        ELSE [call[q] EXCEPT !.after = @ \ failed]]
  BY DEF Crash
<1>2. \A j \in Hosts : call[j] \in Calls
  BY DEF TypeOK
<1>3. h \notin failed /\ failed \subseteq Hosts
  OBVIOUS
<1> HIDE DEF failed
<1>4. ~Waits(h)' /\ call'[h].after = {}
  <2>1. call'[h] = NoCall(h)
    BY <1>1
  <2> QED BY <2>1 DEF NoCall, Waits
<1>5. ASSUME NEW j \in failed PROVE ~Waits(j)' /\ call'[j].after = {}
  <2>1. call[j] \in Calls /\ call'[j] = [call[j] EXCEPT !.reply = "failure", !.after = {}]
    BY <1>1, <1>2, <1>3
  <2> QED BY <2>1 DEF Waits, Calls
<1>6. ASSUME NEW j \in Hosts \ (failed \cup {h})
      PROVE  (Waits(j)' <=> Waits(j)) /\ call'[j].after = call[j].after \ (failed \cup {h})
  <2>1. call[j] \in Calls /\ call'[j] = [call[j] EXCEPT !.after = @ \ failed]
    BY <1>1, <1>2
  <2>2. (Waits(j)' <=> Waits(j)) /\ call'[j].after = call[j].after \ failed
    BY <2>1 DEF Waits, Calls
  <2>3. h \notin call[j].after
    BY DEF AgesInv, AgeOrdered, Waiting
  <2> QED BY <2>2, <2>3
<1>7. Released(failed \cup {h})
  BY <1>3, <1>4, <1>5, <1>6 DEF Released
<1> QED BY <1>7

LEMMA AgesOfCallEnds ==
  ASSUME TypeOK, AgesInv, NEW h \in Hosts, ~Waits(h), call' = [call EXCEPT ![h] = NoCall(h)]
  PROVE  AgesInv'
<1>1. call'[h] = NoCall(h) /\ \A j \in Hosts \ {h} : call'[j] = call[j]
  BY DEF TypeOK
<1>2. ~Waits(h)' /\ call'[h].after = {}
  BY <1>1 DEF NoCall, Waits
<1>3. ASSUME NEW j \in Hosts \ {h}
      PROVE  (Waits(j)' <=> Waits(j)) /\ call'[j].after = call[j].after \ {h}
  <2>1. h \notin call[j].after
    BY DEF AgesInv, AgeOrdered, Waiting
  <2> QED BY <1>1, <2>1 DEF Waits
<1>4. Released({h})
  BY <1>2, <1>3 DEF Released
<1> QED BY <1>4, AgesReleased

LEMMA AgesUnchanged == AgesInv /\ UNCHANGED call => AgesInv'
BY DEF AgesInv, AgeOrdered, Waiting, Waits

(* A call that is over at once is no wait.                                 *)
LEMMA AgesOfShortCall ==
  ASSUME TypeOK, AgesInv, NEW h \in Hosts, ThreadFree(h), NEW kind, NEW p,
         NEW reply, reply # "awaited",
         call' = [call EXCEPT ![h] = [kind |-> kind, to |-> p, reply |-> reply, after |-> {}]]
  PROVE  AgesInv'
<1>1. ~Waits(h) /\ call \in [Hosts -> Calls]
  BY DEF ThreadFree, Waits, TypeOK
<1>2. \A j \in Hosts : h \notin call[j].after
  BY <1>1 DEF AgesInv, AgeOrdered, Waiting
<1>3. /\ call'[h].reply = reply /\ call'[h].after = {}
      /\ \A j \in Hosts \ {h} : call'[j] = call[j]
  BY <1>1
<1>4. Released({h})
  BY <1>2, <1>3 DEF Released, Waits
<1> QED BY <1>4, AgesReleased

(* A call that begins is the youngest.                                     *)
LEMMA AgesOfCall ==
  ASSUME TypeOK, AgesInv, NEW h \in Hosts, NEW p \in Hosts, NEW kind \in RequestKinds,
         ThreadFree(h), CallPeer(h, p, kind)
  PROVE  AgesInv'
<1>1. ~Waits(h) /\ kind # "none" /\ call \in [Hosts -> Calls]
  BY DEF ThreadFree, Waits, RequestKinds, Rpcs, TypeOK
<1>2. \A j \in Hosts : h \notin call[j].after
  BY <1>1 DEF AgesInv, AgeOrdered, Waiting
<1>3. CASE boot[p] # "started" /\ Alive(p)
  <2>1. call' = [call EXCEPT ![h] =
          [kind |-> kind, to |-> p, reply |-> "awaited", after |-> Waiting]]
    BY <1>3 DEF CallPeer, Waiting
  <2>2. call'[h].after = Waiting /\ Waits(h)' /\ \A j \in Hosts \ {h} : call'[j] = call[j]
    BY <1>1, <2>1 DEF Waits
  <2>3. Waiting' = Waiting \cup {h}
    BY <2>2 DEF Waiting, Waits
  <2>4. IsFiniteSet(Waiting')
    BY <2>3, FS_AddElement DEF AgesInv
  <2>5. ASSUME NEW j \in Hosts PROVE AgeOrdered(j)'
    <3>1. \A g \in Waiting : g # h /\ call'[g].after \subseteq Waiting
      BY <1>1, <2>2 DEF AgesInv, AgeOrdered, Waiting
    <3>2. CASE j = h
      BY <2>2, <2>3, <3>1, <3>2 DEF AgeOrdered
    <3>3. CASE j # h
      <4>1. AgeOrdered(j) /\ call'[j] = call[j] /\ (Waits(j)' <=> Waits(j))
        BY <2>2, <3>3 DEF AgesInv, Waits
      <4>2. \A g \in call[j].after : call'[g] = call[g]
        BY <1>2, <2>2, <4>1 DEF AgeOrdered, Waiting
      <4> QED BY <2>3, <4>1, <4>2 DEF AgeOrdered
    <3> QED BY <3>2, <3>3
  <2> QED BY <2>4, <2>5 DEF AgesInv
<1>4. CASE boot[p] = "started" \/ ~Alive(p)
  <2>1. PICK reply \in {"noConnection", "failure"} :
          call' = [call EXCEPT ![h] = [kind |-> kind, to |-> p, reply |-> reply, after |-> {}]]
    BY <1>4 DEF CallPeer
  <2> QED BY <2>1, AgesOfShortCall
<1> QED BY <1>3, <1>4 DEF CallPeer

(* A reply goes to a host, whether the Network gives it at once or later.  *)
LEMMA RepliedToHost ==
  ASSUME ClusterInv, NEW h \in Hosts
  PROVE  /\ inbox[h] # <<>> /\ Head(inbox[h]).kind \in RequestKinds
              => Head(inbox[h]).from \in Hosts
         /\ \A request \in replying[h] : request.from \in Hosts
<1>1. inbox[h] \in Seq(Messages) /\ replying[h] \subseteq Requests
  BY DEF ClusterInv, TypeOK, Messages
<1>2. inbox[h] # <<>> => Head(inbox[h]) \in Messages
  BY <1>1
<1> QED BY <1>1, <1>2 DEF Messages, Requests, OwnMessages

LEMMA AgesStep == ClusterInv /\ AgesInv /\ [Next]_vars => AgesInv'
<1> SUFFICES ASSUME ClusterInv, AgesInv, [Next]_vars PROVE AgesInv'
  OBVIOUS
<1>1. TypeOK
  BY DEF ClusterInv
<1>2. ASSUME NEW k \in Hosts, NEW reply \in Replies, reply # "awaited", Replied(k, reply)
      PROVE  AgesInv'
  BY <1>1, <1>2, RepliedReleases, AgesReleased
<1>3. ASSUME NEW h \in Hosts, NEW panic, ~Waits(h), Crash(h, panic) PROVE AgesInv'
  BY <1>1, <1>3, CrashReleases, AgesReleased
<1>4. {"created", "failure", "refusal", "response", "timeout"} \subseteq Replies \ {"awaited"}
  BY DEF Replies
<1>5. CASE UNCHANGED vars
  BY <1>5, AgesUnchanged DEF vars, calls
<1>6. ASSUME NEW h \in Hosts, Serve(h) PROVE AgesInv'
  <2>1. CASE HandleConnectNode(h)
    <3>1. Head(inbox[h]).from \in Hosts
      BY <2>1, RepliedToHost DEF HandleConnectNode, Received, RequestKinds
    <3> DEFINE k == Head(inbox[h]).from
    <3>2. UNCHANGED call \/ Replied(k, "created") \/ Replied(k, "failure")
      BY <2>1 DEF HandleConnectNode, calls
    <3> QED BY <1>2, <1>4, <3>1, <3>2, AgesUnchanged
  <2>2. CASE HandleRpc(h) \/ HandleSnapshot(h)
    <3>1. Head(inbox[h]).from \in Hosts
      BY <2>2, RepliedToHost DEF HandleRpc, HandleSnapshot, Received, RequestKinds, Rpcs
    <3> DEFINE k == Head(inbox[h]).from
    <3>2. UNCHANGED call \/ Replied(k, "refusal")
      BY <2>2 DEF HandleRpc, HandleSnapshot, RefusesOrKeeps
    <3> QED BY <1>2, <1>4, <3>1, <3>2, AgesUnchanged
  <2>3. CASE RegisterRaftPanics(h)
    <3>1. ~Waits(h) /\ Crash(h, "boot")
      BY <2>3 DEF RegisterRaftPanics, Received, ThreadFree, Waits
    <3> QED BY <1>3, <3>1
  <2>4. CASE Bind(h) \/ HandleRegisterRaft(h) \/ HandleWeaklyConnected(h) \/ HandleConnected(h)
    BY <2>4, AgesUnchanged
       DEF Bind, HandleRegisterRaft, HandleWeaklyConnected, HandleConnected, calls
  <2> QED BY <1>6, <2>1, <2>2, <2>3, <2>4 DEF Serve
<1>7. ASSUME NEW h \in Hosts, Answer(h) PROVE AgesInv'
  <2>1. PICK request \in replying[h] :
          \E reply \in {"created", "failure", "response", "refusal"} :
            AnswerWith(h, request, reply)
    BY <1>7 DEF Answer, Acknowledge, FailConnect, RaftResponds, RaftFails
  <2>2. request.from \in Hosts
    BY RepliedToHost
  <2> QED BY <1>2, <1>4, <2>1, <2>2 DEF AnswerWith
<1>8. ASSUME NEW h \in Hosts, Resume(h) PROVE AgesInv'
  <2>1. CASE ReportConnected(h)
    BY <2>1, AgesUnchanged DEF ReportConnected, calls
  <2>2. CASE ConnectFails(h) \/ RpcEnds(h)
    BY <1>1, <2>2, AgesOfCallEnds DEF ConnectFails, RpcEnds, Waits
  <2>3. CASE RpcPanics(h)
    BY <1>3, <2>3 DEF RpcPanics, Waits, Fatal
  <2> QED BY <1>8, <2>1, <2>2, <2>3 DEF Resume
<1>9. ASSUME NEW h \in Hosts, HostStep(h) PROVE AgesInv'
  <2>1. CASE SendRegisterRaft(h) \/ ConnectLocal(h)
    BY <2>1, AgesUnchanged DEF SendRegisterRaft, ConnectLocal, calls
  <2>2. CASE TimesOut(h)
    BY <1>2, <1>4, <2>2 DEF TimesOut
  <2>3. CASE HandOverPanics(h)
    BY <1>3, <2>3 DEF HandOverPanics, ThreadFree, Waits
  <2> QED BY <1>6, <1>7, <1>8, <1>9, <2>1, <2>2, <2>3 DEF HostStep
<1>10. ASSUME NEW h \in Hosts, NEW p \in Hosts, PeerStep(h, p)
       PROVE  AgesInv'
  <2>1. CASE RetryConnect(h, p) \/ Disconnect(h, p) \/ CheckSnapshot(h, p) \/ HandOver(h, p)
    BY <2>1, AgesUnchanged DEF RetryConnect, Disconnect, CheckSnapshot, HandOver, calls
  <2>2. CASE ConnectRemote(h, p)
    BY <1>1, <2>2, AgesOfCall DEF ConnectRemote, RequestKinds
  <2>3. CASE SendRpc(h, p)
    BY <1>1, <2>3, AgesOfCall DEF SendRpc, RequestKinds, Rpcs
  <2>4. CASE SendSnapshot(h, p)
    BY <1>1, <2>4, AgesOfCall DEF SendSnapshot, RequestKinds, Rpcs
  <2>5. CASE SendLargeChunk(h, p)
    BY <1>1, <2>5, AgesOfShortCall DEF SendLargeChunk
  <2> QED BY <1>10, <2>1, <2>2, <2>3, <2>4, <2>5 DEF PeerStep
<1> QED BY <1>5, <1>9, <1>10 DEF Next

(* What a host waits for is owed, so its timeout finds the request.        *)
LEMMA OldestCanTimeOut ==
  ASSUME ClusterInv, NEW g \in Hosts, Waits(g), call[g].after = {}
  PROVE  CanTimeOut(g)
<1> DEFINE p == call[g].to
<1>1. p \in Hosts
  BY DEF ClusterInv, TypeOK, Calls
<1>2. \/ Handled(g, p) = {} /\ OnceOf(inbox[p], g, RequestOf(g))
      \/ Handled(g, p) = {RequestOf(g)} /\ NoneOf(inbox[p], g)
  BY <1>1 DEF ClusterInv, AllOwed, Owed
<1>3. CASE OnceOf(inbox[p], g, RequestOf(g))
  BY <1>3 DEF OnceOf, CanTimeOut
<1>4. CASE Handled(g, p) = {RequestOf(g)}
  BY <1>4 DEF Handled, CanTimeOut
<1> QED BY <1>2, <1>3, <1>4

(* Strict inclusion of the sets of older calls is well-founded: one of the *)
(* hosts that h waits with, or h, waits with nobody before it.             *)
LEMMA OldestExists ==
  ASSUME AgesInv, NEW h \in Hosts, Waits(h)
  PROVE  \E g \in call[h].after \cup {h} : Waits(g) /\ call[g].after = {}
<1> DEFINE Chain == call[h].after \cup {h}
           Ages == {call[g].after : g \in Chain}
<1>1. /\ Chain \subseteq Waiting /\ Waiting \subseteq Hosts
      /\ \A g \in Chain : call[g].after \subseteq Chain
  BY DEF AgesInv, AgeOrdered, Waiting
<1>2. Ages \subseteq FiniteSubsetsOf(Waiting)
  <2>1. ASSUME NEW g \in Chain PROVE call[g].after \in FiniteSubsetsOf(Waiting)
    <3>1. call[g].after \in SUBSET Waiting
      BY <1>1 DEF AgesInv, AgeOrdered
    <3> QED BY <3>1, FS_Subset DEF AgesInv, FiniteSubsetsOf
  <2> QED BY <2>1
<1>3. PICK a \in Ages : \A b \in Ages : <<b, a>> \notin StrictSubsetOrdering(Waiting)
  <2>1. Ages # {}
    OBVIOUS
  <2>2. IsWellFoundedOn(StrictSubsetOrdering(Waiting), FiniteSubsetsOf(Waiting))
    BY FS_StrictSubsetOrderingWellFounded
  <2> HIDE DEF Ages
  <2> QED BY <1>2, <2>1, <2>2, WFMin
<1>4. PICK g \in Chain : a = call[g].after
  OBVIOUS
<1>5. ASSUME NEW f \in call[g].after PROVE FALSE
  <2>1. f \in Chain /\ f \in Hosts /\ g \in Hosts
    BY <1>1, <1>4, <1>5
  <2>2. /\ call[f].after \subseteq call[g].after /\ f \notin call[f].after
        /\ call[g].after \subseteq Waiting
    BY <1>5, <2>1 DEF AgesInv, AgeOrdered
  <2>3. call[f].after # call[g].after
    BY <1>5, <2>2
  <2>4. <<call[f].after, call[g].after>> \in StrictSubsetOrdering(Waiting)
    BY <2>2, <2>3 DEF StrictSubsetOrdering
  <2> QED BY <1>3, <1>4, <2>1, <2>4
<1>6. Waits(g)
  BY <1>1, <1>4 DEF Waiting
<1> QED BY <1>4, <1>5, <1>6

(* Whatever hosts wait for each other, none waits without one whose        *)
(* timeout can go off at once: with the fairness of TimesOut no circle of  *)
(* blocked threads lasts.                                                  *)
THEOREM WaitsAlwaysCanEnd == Spec => []WaitsCanEnd
<1>1. ClusterInv /\ AgesInv => WaitsCanEnd
  <2> SUFFICES ASSUME ClusterInv, AgesInv, NEW h \in Hosts, Waits(h)
               PROVE  \E g \in call[h].after \cup {h} : CanTimeOut(g)
    BY DEF WaitsCanEnd
  <2>1. PICK g \in call[h].after \cup {h} : Waits(g) /\ call[g].after = {}
    BY OldestExists
  <2>2. g \in Hosts
    BY DEF AgesInv, AgeOrdered, Waiting
  <2> QED BY <2>1, <2>2, OldestCanTimeOut
<1> QED BY <1>1, AgesInit, AgesStep, ClusterInvariance, PTL DEF Spec

(***************************************************************************)
(* Each host implements Registry.                                          *)
(***************************************************************************)
RegistryStep(h) == R(h)!RegistryNext \/ UNCHANGED R(h)!registryVars
AllRegistrySteps == \A h \in Hosts : RegistryStep(h)

LEMMA RegistryKept ==
  ASSUME NEW h \in Hosts,
         entry'[h] = entry[h], link'[h] = link[h], raftKnown'[h] = raftKnown[h],
         (crashed'[h] = "boot") = (crashed[h] = "boot")
  PROVE  RegistryStep(h)
BY DEF RegistryStep, R!registryVars

LEMMA RegistriesKept ==
  ASSUME UNCHANGED <<registries, crashed>>
  PROVE  AllRegistrySteps
BY RegistryKept DEF AllRegistrySteps, registries

(* A step of one host leaves the registries of the others alone.           *)
LEMMA OneRegistryStep ==
  ASSUME NEW h \in Hosts, RegistryStep(h),
         \A q \in Hosts \ {h} :
           /\ entry'[q] = entry[q] /\ link'[q] = link[q]
           /\ raftKnown'[q] = raftKnown[q] /\ crashed'[q] = crashed[q]
  PROVE  AllRegistrySteps
BY RegistryKept DEF AllRegistrySteps

LEMMA HandleConnectNodeRefines ==
  ASSUME ClusterInv, NEW h \in Hosts, HandleConnectNode(h)
  PROVE  AllRegistrySteps
<1>1. PICK p \in Hosts \ {h} :
        /\ RegistersPeer(h, p) \/ UNCHANGED <<entry, link, node>>
        /\ UNCHANGED <<raftKnown, crashed>> /\ Alive(h)
  BY HandleConnectNodeStep DEF HandleConnectNode, Received, ThreadFree
<1>2. CASE UNCHANGED <<entry, link, node>>
  BY <1>1, <1>2, RegistriesKept DEF registries
<1>3. CASE RegistersPeer(h, p)
  <2>1. /\ entry' = [entry EXCEPT ![h] = [entry[h] EXCEPT ![p] = "running"]]
        /\ link' = [link EXCEPT ![h] =
             [link[h] EXCEPT ![p] = IF @ = "isolated" THEN "connected" ELSE @]]
        /\ raftKnown' = [raftKnown EXCEPT ![h] = raftKnown[h]]
    BY <1>1, <1>3 DEF RegistersPeer, Register, Restored, ClusterInv, TypeOK
  <2>2. /\ entry[h] \in [Hosts -> {"absent", "known", "running"}]
        /\ link[h] \in [Hosts -> {"untracked", "isolated", "connected"}]
        /\ entry \in [Hosts -> [Hosts -> {"absent", "known", "running"}]]
        /\ link \in [Hosts -> [Hosts -> {"untracked", "isolated", "connected"}]]
        /\ raftKnown[h] \in BOOLEAN
    BY DEF ClusterInv, TypeOK
  <2>3. /\ entry'[h] = [entry[h] EXCEPT ![p] = "running"]
        /\ link'[h] = [link[h] EXCEPT ![p] = IF @ = "isolated" THEN "connected" ELSE @]
    BY <2>1, <2>2
  <2>4. R(h)!Register(p)
    BY <1>1, <2>3 DEF R!Register, R!Restored, Alive
  <2>5. RegistryStep(h)
    BY <2>4 DEF RegistryStep, R!RegistryNext
  <2>6. \A q \in Hosts \ {h} :
          /\ entry'[q] = entry[q] /\ link'[q] = link[q]
          /\ raftKnown'[q] = raftKnown[q] /\ crashed'[q] = crashed[q]
    BY <1>1, <2>1, <2>2
  <2> QED BY <2>5, <2>6, OneRegistryStep
<1> QED BY <1>1, <1>2, <1>3

LEMMA HandleRegisterRaftRefines ==
  ASSUME ClusterInv, NEW h \in Hosts, HandleRegisterRaft(h)
  PROVE  AllRegistrySteps
<1>1. /\ entry' = [entry EXCEPT ![h] = [entry[h] EXCEPT ![h] = "running"]]
      /\ link' = [link EXCEPT ![h] =
           [link[h] EXCEPT ![h] = IF @ = "isolated" THEN "connected" ELSE @]]
      /\ raftKnown' = [raftKnown EXCEPT ![h] = TRUE]
      /\ UNCHANGED crashed /\ Alive(h) /\ entry[h][h] # "absent" /\ ~raftKnown[h]
  BY HandleRegisterRaftStep
  DEF HandleRegisterRaft, Register, Restored, Received, ThreadFree, ClusterInv, TypeOK
<1>2. /\ entry[h] \in [Hosts -> {"absent", "known", "running"}]
      /\ link[h] \in [Hosts -> {"untracked", "isolated", "connected"}]
      /\ entry \in [Hosts -> [Hosts -> {"absent", "known", "running"}]]
      /\ link \in [Hosts -> [Hosts -> {"untracked", "isolated", "connected"}]]
      /\ raftKnown \in [Hosts -> BOOLEAN]
  BY DEF ClusterInv, TypeOK
<1>3. /\ entry'[h] = [entry[h] EXCEPT ![h] = "running"]
      /\ link'[h] = [link[h] EXCEPT ![h] = IF @ = "isolated" THEN "connected" ELSE @]
      /\ raftKnown'[h] = TRUE
  BY <1>1, <1>2
<1>4. R(h)!LearnRaft
  BY <1>1, <1>3 DEF R!LearnRaft, R!Restored, Alive
<1>5. RegistryStep(h)
  BY <1>4 DEF RegistryStep, R!RegistryNext
<1>6. \A q \in Hosts \ {h} :
        /\ entry'[q] = entry[q] /\ link'[q] = link[q]
        /\ raftKnown'[q] = raftKnown[q] /\ crashed'[q] = crashed[q]
  BY <1>1, <1>2
<1> QED BY <1>5, <1>6, OneRegistryStep

LEMMA HandleReportRefines ==
  ASSUME ClusterInv, NEW h \in Hosts, HandleWeaklyConnected(h) \/ HandleConnected(h)
  PROVE  AllRegistrySteps
<1>1. UNCHANGED <<entry, raftKnown, crashed>> /\ Alive(h)
  BY DEF HandleWeaklyConnected, HandleConnected, Received, ThreadFree
<1>2. /\ link[h] \in [Hosts -> {"untracked", "isolated", "connected"}]
      /\ entry[h] \in [Hosts -> {"absent", "known", "running"}]
      /\ entry \in [Hosts -> [Hosts -> {"absent", "known", "running"}]]
      /\ link \in [Hosts -> [Hosts -> {"untracked", "isolated", "connected"}]]
      /\ raftKnown \in [Hosts -> BOOLEAN]
  BY DEF ClusterInv, TypeOK
<1>3. CASE link' = link
  BY <1>1, <1>3, RegistriesKept DEF registries
<1>4. ASSUME entry[h][h] # "absent", NEW state \in {"isolated", "connected"},
             link' = [link EXCEPT ![h][h] = state],
             state = "connected" => link[h][h] = "isolated"
      PROVE  AllRegistrySteps
  <2>1. /\ entry' = [entry EXCEPT ![h] = entry[h]]
        /\ link' = [link EXCEPT ![h] = [link[h] EXCEPT ![h] = state]]
        /\ raftKnown' = [raftKnown EXCEPT ![h] = raftKnown[h]]
    BY <1>1, <1>2, <1>4
  <2>2. link'[h] = [link[h] EXCEPT ![h] = state] /\ entry'[h] = entry[h]
    BY <1>2, <2>1
  <2>3. R(h)!Isolate(h) \/ R(h)!Restore(h)
    BY <1>1, <1>2, <1>4, <2>2 DEF R!Isolate, R!Restore, R!Restored, Alive
  <2>4. RegistryStep(h)
    BY <2>3 DEF RegistryStep, R!RegistryNext
  <2>5. \A q \in Hosts \ {h} :
          /\ entry'[q] = entry[q] /\ link'[q] = link[q]
          /\ raftKnown'[q] = raftKnown[q] /\ crashed'[q] = crashed[q]
    BY <1>1, <1>2, <2>1
  <2> QED BY <2>4, <2>5, OneRegistryStep
<1>5. CASE HandleWeaklyConnected(h)
  BY <1>3, <1>4, <1>5 DEF HandleWeaklyConnected
<1>6. CASE HandleConnected(h)
  <2>1. CASE entry[h][h] = "absent"
    BY <1>3, <1>6, <2>1 DEF HandleConnected
  <2>2. CASE entry[h][h] # "absent" /\ link[h][h] = "isolated"
    <3>1. link' = [link EXCEPT ![h][h] = "connected"]
      BY <1>2, <1>6, <2>2 DEF HandleConnected, Restored
    <3> QED BY <1>4, <2>2, <3>1
  <2>3. CASE entry[h][h] # "absent" /\ link[h][h] # "isolated"
    <3>1. link' = link
      BY <1>2, <1>6, <2>3 DEF HandleConnected, Restored
    <3> QED BY <1>3, <3>1
  <2> QED BY <2>1, <2>2, <2>3
<1> QED BY <1>5, <1>6

LEMMA RegisterRaftPanicsRefines ==
  ASSUME ClusterInv, NEW h \in Hosts, RegisterRaftPanics(h)
  PROVE  AllRegistrySteps
<1>1. /\ entry[h][h] = "absent" /\ crashed[h] = "no" /\ UNCHANGED <<entry, link>>
      /\ raftKnown' = [raftKnown EXCEPT ![h] = TRUE]
      /\ crashed' = [crashed EXCEPT ![h] = "boot"]
  BY DEF RegisterRaftPanics, Received, ThreadFree, Alive, Crash
<1>2. crashed'[h] = "boot" /\ raftKnown'[h] = TRUE
      /\ \A q \in Hosts \ {h} : crashed'[q] = crashed[q]
  BY <1>1 DEF ClusterInv, TypeOK
<1>3. R(h)!Crash
  BY <1>1, <1>2 DEF R!Crash
<1>4. RegistryStep(h)
  BY <1>3 DEF RegistryStep, R!RegistryNext
<1>5. \A q \in Hosts \ {h} :
        /\ entry'[q] = entry[q] /\ link'[q] = link[q]
        /\ raftKnown'[q] = raftKnown[q] /\ crashed'[q] = crashed[q]
  BY <1>1, <1>2 DEF ClusterInv, TypeOK
<1> QED BY <1>4, <1>5, OneRegistryStep

LEMMA RpcPanicsRefines ==
  ASSUME ClusterInv, NEW h \in Hosts, RpcPanics(h) \/ HandOverPanics(h)
  PROVE  AllRegistrySteps
<1>1. UNCHANGED registries /\ crashed[h] = "no" /\ crashed'[h] \in {"rpc", "snapshot"}
      /\ \A q \in Hosts \ {h} : crashed'[q] = crashed[q]
  BY RpcPanicsStep DEF RpcPanics, HandOverPanics, ThreadFree, Alive
<1>2. \A q \in Hosts : (crashed'[q] = "boot") = (crashed[q] = "boot")
  BY <1>1
<1> QED BY <1>1, <1>2, RegistryKept DEF AllRegistrySteps, registries

LEMMA DisconnectRefines ==
  ASSUME ClusterInv, NEW h \in Hosts, NEW p \in Hosts, Disconnect(h, p)
  PROVE  AllRegistrySteps
<1>1. /\ entry' = [entry EXCEPT ![h] = [entry[h] EXCEPT ![p] = "absent"]]
      /\ entry[h][p] # "absent" /\ crashed[h] = "no"
      /\ UNCHANGED <<link, raftKnown, crashed>>
  BY DEF Disconnect, ThreadFree, Alive, ClusterInv, TypeOK
<1>2. /\ entry \in [Hosts -> [Hosts -> {"absent", "known", "running"}]]
      /\ entry[h] \in [Hosts -> {"absent", "known", "running"}]
  BY <1>1 DEF ClusterInv, TypeOK
<1>3. entry'[h] = [entry[h] EXCEPT ![p] = "absent"]
  BY <1>1, <1>2
<1>4. R(h)!Disconnect(p)
  BY <1>1, <1>3 DEF R!Disconnect
<1>5. RegistryStep(h)
  BY <1>4 DEF RegistryStep, R!RegistryNext
<1>6. \A q \in Hosts \ {h} :
        /\ entry'[q] = entry[q] /\ link'[q] = link[q]
        /\ raftKnown'[q] = raftKnown[q] /\ crashed'[q] = crashed[q]
  BY <1>1, <1>2
<1> QED BY <1>5, <1>6, OneRegistryStep

LEMMA StepRefines == ClusterInv /\ [Next]_vars => AllRegistrySteps
<1> SUFFICES ASSUME ClusterInv, [Next]_vars PROVE AllRegistrySteps
  OBVIOUS
<1>1. CASE UNCHANGED vars
  BY <1>1, RegistriesKept DEF vars
<1>2. ASSUME NEW h \in Hosts, HostStep(h) PROVE AllRegistrySteps
  <2>1. CASE HandleConnectNode(h)
    BY <2>1, HandleConnectNodeRefines
  <2>2. CASE HandleRegisterRaft(h)
    BY <2>2, HandleRegisterRaftRefines
  <2>3. CASE RegisterRaftPanics(h)
    BY <2>3, RegisterRaftPanicsRefines
  <2>4. CASE HandleWeaklyConnected(h) \/ HandleConnected(h)
    BY <2>4, HandleReportRefines
  <2>5. CASE RpcPanics(h) \/ HandOverPanics(h)
    BY <2>5, RpcPanicsRefines
  <2>6. CASE \/ SendRegisterRaft(h) \/ Bind(h) \/ HandleRpc(h) \/ HandleSnapshot(h)
             \/ Answer(h) \/ ConnectLocal(h) \/ ReportConnected(h) \/ ConnectFails(h) \/ RpcEnds(h)
             \/ TimesOut(h)
    <3>1. UNCHANGED <<registries, crashed>>
      BY <2>6 DEF SendRegisterRaft, Bind, HandleRpc, HandleSnapshot, Answer, Acknowledge, FailConnect,
         RaftResponds, RaftFails, AnswerWith, ConnectLocal, ReportConnected, ConnectFails,
         RpcEnds, TimesOut
    <3> QED BY <3>1, RegistriesKept
  <2> QED BY <1>2, <2>1, <2>2, <2>3, <2>4, <2>5, <2>6 DEF HostStep, Serve, Resume
<1>3. ASSUME NEW h \in Hosts, NEW p \in Hosts, PeerStep(h, p)
      PROVE  AllRegistrySteps
  <2>1. CASE Disconnect(h, p)
    BY <2>1, DisconnectRefines
  <2>2. CASE ~Disconnect(h, p)
    BY <1>3, <2>2, RegistriesKept
    DEF PeerStep, ConnectRemote, RetryConnect, HandOver, SendRpc, CheckSnapshot,
        SendSnapshot, SendLargeChunk
  <2> QED BY <2>1, <2>2
<1> QED BY <1>1, <1>2, <1>3 DEF Next

LEMMA InitRefines == Init => \A h \in Hosts : R(h)!RegistryInit
<1> SUFFICES ASSUME Init, NEW h \in Hosts PROVE R(h)!RegistryInit
  OBVIOUS
<1> USE ClusterAssumption
<1>1. /\ entry[h] = [p \in Hosts |->
           IF p \notin Seeds[h] THEN "absent" ELSE IF p = h THEN "known" ELSE "running"]
      /\ link[h] = [p \in Hosts |-> "untracked"]
      /\ raftKnown[h] = FALSE /\ crashed[h] = "no"
  BY DEF Init
<1>2. entry[h] \in [Hosts -> {"absent", "known", "running"}]
  BY <1>1
<1> QED BY <1>1, <1>2 DEF R!RegistryInit

(* Every host of a cluster keeps the promises of Registry to those that    *)
(* route by it, for any number of hosts, although its thread is blocked by *)
(* its own requests and its peers register with it whenever they like.     *)
THEOREM ClusterImplementsRegistry == Spec => HostsImplementRegistry
<1>1. ClusterInv /\ [Next]_vars
        => [\A h \in Hosts : R(h)!RegistryNext \/ UNCHANGED R(h)!registryVars]_vars
  BY StepRefines DEF AllRegistrySteps, RegistryStep
<1> QED BY <1>1, InitRefines, ClusterInvariance, PTL DEF Spec, HostsImplementRegistry

(***************************************************************************)
(* Steady hosts.                                                           *)
(***************************************************************************)
Calm(h) == ~(call[h].kind \in Rpcs /\ call[h].reply \in Fatal)
Handable(h) == \A handed \in checked[h] : entry[h][handed[1]] = "running"
OnlyRequests(s) == \A i \in DOMAIN s : s[i].kind \in RequestKinds

LEMMA SteadyKept ==
  ASSUME AllSteady, UNCHANGED <<boot, raftKnown, crashed>>,
         \A h \in Hosts :
           /\ entry'[h][h] = entry[h][h] /\ node'[h][h] = node[h][h]
           /\ \A p \in Hosts : entry'[h][p] = "known" => entry[h][p] = "known"
           /\ \A p \in Hosts : link'[h][p] = "isolated" => link[h][p] = "isolated"
           /\ OnlyRequests(inbox'[h]) /\ Calm(h)' /\ Handable(h)'
  PROVE  AllSteady'
BY DEF AllSteady, Steady, OnlyRequests, Calm, Handable, Alive

LEMMA ReplyIsCalm ==
  ASSUME ClusterInv, \A h \in Hosts : Calm(h), NEW k \in Hosts, NEW reply, Replied(k, reply),
         call[k].kind \in Rpcs => reply \notin Fatal
  PROVE  \A h \in Hosts : Calm(h)'
<1>1. /\ call'[k] = [call[k] EXCEPT !.reply = reply, !.after = {}]
      /\ \A h \in Hosts \ {k} : call'[h] = [call[h] EXCEPT !.after = @ \ {k}]
      /\ \A h \in Hosts : call[h] \in Calls
  BY DEF Replied, ClusterInv, TypeOK
<1>2. Calm(k)'
  BY <1>1 DEF Calm, Calls
<1>3. ASSUME NEW h \in Hosts \ {k} PROVE Calm(h)'
  <2>1. Calm(h) /\ call[h] \in Calls /\ call'[h] = [call[h] EXCEPT !.after = @ \ {k}]
    BY <1>1
  <2> QED BY <2>1 DEF Calm, Calls
<1> QED BY <1>2, <1>3

LEMMA TailOnlyRequests ==
  ASSUME NEW s \in Seq(Messages), s # <<>>, OnlyRequests(s)
  PROVE  OnlyRequests(Tail(s)) /\ Head(s).kind \in RequestKinds
<1>1. /\ Head(s) = s[1] /\ 1 \in DOMAIN s
      /\ \A i \in DOMAIN Tail(s) : i + 1 \in DOMAIN s /\ Tail(s)[i] = s[i + 1]
  OBVIOUS
<1> QED BY <1>1 DEF OnlyRequests

LEMMA AppendOnlyRequests ==
  ASSUME NEW s \in Seq(Messages), NEW m \in Messages, OnlyRequests(s), m.kind \in RequestKinds
  PROVE  OnlyRequests(Append(s, m))
<1> DEFINE t == Append(s, m)
<1>1. /\ DOMAIN s = 1..Len(s) /\ DOMAIN t = 1..(Len(s) + 1)
      /\ \A i \in 1..Len(s) : t[i] = s[i]
      /\ t[Len(s) + 1] = m /\ Len(s) \in Nat
  OBVIOUS
<1> HIDE DEF t
<1>2. \A i \in DOMAIN t : i \in DOMAIN s \/ i = Len(s) + 1
  BY <1>1
<1>3. OnlyRequests(t)
  BY <1>1, <1>2 DEF OnlyRequests
<1> QED BY <1>3 DEF t

LEMMA WithinOnlyRequests ==
  ASSUME NEW s, NEW t, Within(t, s), OnlyRequests(s)
  PROVE  OnlyRequests(t)
<1> PICK f \in [DOMAIN t -> DOMAIN s] : \A i \in DOMAIN t : t[i].kind = s[f[i]].kind
  BY DEF Within
<1> QED BY DEF OnlyRequests

LEMMA SteadyHosts ==
  ASSUME ClusterInv, AllSteady, NEW h \in Hosts
  PROVE  /\ Alive(h) /\ boot[h] = "registered" /\ entry[h][h] = "running"
         /\ node[h][h] = "linked" /\ \A p \in Hosts : entry[h][p] # "known" /\ link[h][p] # "isolated"
         /\ Calm(h) /\ OnlyRequests(inbox[h]) /\ inbox[h] \in Seq(Messages)
         /\ Handable(h)
         /\ inbox[h] # <<>> => Head(inbox[h]).kind \in RequestKinds
<1>1. /\ Alive(h) /\ boot[h] = "registered" /\ entry[h][h] = "running"
      /\ node[h][h] = "linked" /\ \A p \in Hosts : entry[h][p] # "known" /\ link[h][p] # "isolated"
      /\ Calm(h) /\ OnlyRequests(inbox[h]) /\ inbox[h] \in Seq(Messages) /\ Handable(h)
  BY DEF ClusterInv, TypeOK, Messages, AllSteady, Steady, Calm, Handable, OnlyRequests
<1> QED BY <1>1, TailOnlyRequests

(* Nothing more is let through, and no entry goes.                         *)
LEMMA SteadyHands ==
  ASSUME ClusterInv, AllSteady,
         \A h \in Hosts : checked'[h] \subseteq checked[h],
         \A h, p \in Hosts : entry[h][p] = "running" => entry'[h][p] = "running"
  PROVE  \A h \in Hosts : Handable(h)'
<1> SUFFICES ASSUME NEW h \in Hosts, NEW handed \in checked'[h]
             PROVE  entry'[h][handed[1]] = "running"
  BY DEF Handable
<1>1. handed \in checked[h]
  OBVIOUS
<1>2. handed[1] \in Hosts
  BY <1>1 DEF ClusterInv, TypeOK
<1>3. entry[h][handed[1]] = "running"
  BY <1>1, SteadyHosts DEF Handable
<1> QED BY <1>2, <1>3

LEMMA SteadyHandsKept ==
  ASSUME ClusterInv, AllSteady, UNCHANGED <<entry, checked>>
  PROVE  \A h \in Hosts : Handable(h)'
BY SteadyHands

LEMMA SteadyConsumes ==
  ASSUME ClusterInv, AllSteady, NEW h \in Hosts, inbox[h] # <<>>, Consume(h)
  PROVE  \A q \in Hosts : OnlyRequests(inbox'[q])
<1>1. inbox'[h] = Tail(inbox[h]) /\ \A q \in Hosts \ {h} : inbox'[q] = inbox[q]
  BY Consumed
<1> QED BY <1>1, SteadyHosts, TailOnlyRequests

LEMMA SteadyConnectNode ==
  ASSUME ClusterInv, AllSteady, NEW h \in Hosts, HandleConnectNode(h)
  PROVE  AllSteady'
<1> DEFINE request == Head(inbox[h])
<1>1. /\ inbox[h] # <<>> /\ Consume(h) /\ UNCHANGED <<boot, raftKnown, checked, crashed>>
      /\ request.kind = "connect" /\ request.from \in Hosts \ {h}
  BY HandleConnectNodeStep DEF HandleConnectNode, Received
<1>2. \A q \in Hosts : OnlyRequests(inbox'[q])
  BY <1>1, SteadyConsumes
<1>3. \A q \in Hosts : /\ entry'[q][q] = entry[q][q] /\ node'[q][q] = node[q][q]
                       /\ \A p \in Hosts : link'[q][p] = "isolated" => link[q][p] = "isolated"
                       /\ \A p \in Hosts : entry[q][p] = "running" => entry'[q][p] = "running"
                       /\ \A p \in Hosts : entry'[q][p] = "known" => entry[q][p] = "known"
  <2>1. CASE RegistersPeer(h, request.from)
    BY <1>1, <2>1 DEF RegistersPeer, Register, Restored, ClusterInv, TypeOK
  <2>2. CASE UNCHANGED <<entry, link, node>>
    BY <2>2
  <2> QED BY <2>1, <2>2 DEF HandleConnectNode
<1>4. \A q \in Hosts : Calm(q)'
  <2>1. \A q \in Hosts : Calm(q)
    BY SteadyHosts
  <2>2. CASE UNCHANGED call
    BY <2>1, <2>2 DEF Calm
  <2>3. CASE request.live /\ \E reply : Replied(request.from, reply)
    <3>1. 1 \in DOMAIN inbox[h] /\ inbox[h][1] = request
      BY <1>1, Consumed
    <3>2. request = RequestOf(request.from)
      BY <1>1, <2>3, <3>1, LiveIsAwaited DEF LiveOf
    <3>3. call[request.from].kind \notin Rpcs
      BY <1>1, <3>2 DEF RequestOf, Rpcs
    <3> HIDE DEF request
    <3> QED BY <1>1, <2>1, <2>3, <3>3, ReplyIsCalm
  <2> QED BY <2>2, <2>3 DEF HandleConnectNode
<1>5. \A q \in Hosts : Handable(q)'
  BY <1>1, <1>3, SteadyHands
<1> QED BY <1>1, <1>2, <1>3, <1>4, <1>5, SteadyKept

LEMMA SteadyRpc ==
  ASSUME ClusterInv, AllSteady, NEW h \in Hosts, HandleRpc(h) \/ HandleSnapshot(h)
  PROVE  AllSteady'
<1> DEFINE request == Head(inbox[h])
<1>1. /\ inbox[h] # <<>> /\ Consume(h) /\ UNCHANGED <<boot, registries, node, crashed>>
      /\ \/ checked' = checked
         \/ checked' = [checked EXCEPT ![h] = @ \cup {<<h, request.from>>}]
  BY DEF HandleRpc, HandleSnapshot, Received
<1>2. \A q \in Hosts : OnlyRequests(inbox'[q])
  BY <1>1, SteadyConsumes
<1>3. request.from \in Hosts
  <2>1. request \in Messages
    BY <1>1, Consumed
  <2> QED BY <2>1 DEF Messages, Requests, OwnMessages
<1>4. UNCHANGED call
  <2>1. entry[h][h] = "running" /\ ~CutOff(h, request.from) /\ LetsThrough(h, h, request.from)
    BY <1>3, SteadyHosts DEF CutOff, LetsThrough
  <2> QED BY <2>1 DEF HandleRpc, HandleSnapshot, RefusesOrKeeps
<1>5. \A q \in Hosts : Calm(q)'
  BY <1>4, SteadyHosts DEF Calm
<1>6. \A q \in Hosts : Handable(q)'
  <2>1. CASE checked' = checked
    BY <1>1, <2>1, SteadyHandsKept DEF registries
  <2>2. CASE checked' = [checked EXCEPT ![h] = @ \cup {<<h, request.from>>}]
    <3>1. /\ checked'[h] = checked[h] \cup {<<h, request.from>>}
          /\ \A q \in Hosts \ {h} : checked'[q] = checked[q]
      BY <2>2 DEF ClusterInv, TypeOK
    <3>2. entry' = entry /\ entry[h][h] = "running" /\ \A q \in Hosts : Handable(q)
      BY <1>1, SteadyHosts DEF registries
    <3> QED BY <3>1, <3>2 DEF Handable
  <2> QED BY <1>1, <2>1, <2>2
<1> QED BY <1>1, <1>2, <1>5, <1>6, SteadyKept DEF registries

LEMMA SteadyAnswer ==
  ASSUME ClusterInv, AllSteady, NEW h \in Hosts, Answer(h),
         \A r \in Requests : ~RaftFails(h, r)
  PROVE  AllSteady'
<1>1. PICK request \in replying[h] :
        \/ Acknowledge(h, request) \/ FailConnect(h, request)
        \/ RaftResponds(h, request) \/ RaftFails(h, request)
  BY DEF Answer
<1>2. request \in Requests /\ request.from \in Hosts
  BY DEF ClusterInv, TypeOK, Requests
<1>3. PICK reply : /\ AnswerWith(h, request, reply)
                   /\ request.kind = "connect" \/ reply = "response"
  BY <1>1, <1>2 DEF Acknowledge, FailConnect, RaftResponds
<1>4. request = RequestOf(request.from)
  BY <1>2, LiveIsAwaited
<1>5. call[request.from].kind \in Rpcs => reply \notin Fatal
  BY <1>3, <1>4 DEF RequestOf, Fatal, Rpcs
<1>6. \A q \in Hosts : Calm(q)'
  BY <1>2, <1>3, <1>5, SteadyHosts, ReplyIsCalm DEF AnswerWith
<1>7. UNCHANGED <<boot, registries, node, inbox, checked, crashed>>
  BY <1>3 DEF AnswerWith
<1>8. \A q \in Hosts : Handable(q)'
  BY <1>7, SteadyHandsKept DEF registries
<1> QED BY <1>6, <1>7, <1>8, SteadyHosts, SteadyKept DEF registries

LEMMA SteadyCall ==
  ASSUME ClusterInv, AllSteady, NEW h \in Hosts, NEW p \in Hosts \ {h},
         NEW kind \in RequestKinds, CallPeer(h, p, kind),
         UNCHANGED <<boot, registries, crashed>>,
         \A q \in Hosts : node'[q][q] = node[q][q],
         \A q \in Hosts : checked'[q] \subseteq checked[q]
  PROVE  AllSteady'
<1> DEFINE m == [kind |-> kind, from |-> h, live |-> TRUE]
<1>1. m \in Messages /\ m.kind \in RequestKinds
  BY DEF Messages, Requests
<1>2. /\ call' = [call EXCEPT ![h] = [kind |-> kind, to |-> p, reply |-> "awaited",
                                      after |-> {w \in Hosts : Waits(w)}]]
      /\ Put(p, m)
  BY SteadyHosts DEF CallPeer
<1> HIDE DEF m
<1>3. /\ inbox'[p] = Append(inbox[p], m) /\ inbox[p] \in Seq(Messages)
      /\ \A q \in Hosts \ {p} : inbox'[q] = inbox[q]
  BY <1>1, <1>2, Delivered
<1>4. OnlyRequests(inbox'[p])
  BY <1>1, <1>3, SteadyHosts, AppendOnlyRequests
<1>5. \A q \in Hosts : OnlyRequests(inbox'[q])
  BY <1>3, <1>4, SteadyHosts
<1>6. call'[h].reply = "awaited" /\ \A q \in Hosts \ {h} : call'[q] = call[q]
  BY <1>2 DEF ClusterInv, TypeOK
<1>7. \A q \in Hosts : Calm(q)'
  BY <1>6, SteadyHosts DEF Calm, Fatal
<1>8. \A q \in Hosts : Handable(q)'
  BY SteadyHands DEF registries
<1> QED BY <1>5, <1>7, <1>8, SteadyKept DEF registries

LEMMA SteadyEnds ==
  ASSUME ClusterInv, AllSteady, NEW h \in Hosts, ConnectFails(h) \/ RpcEnds(h)
  PROVE  AllSteady'
<1>1. /\ UNCHANGED <<boot, registries, inbox, checked, crashed>>
      /\ call' = [call EXCEPT ![h] = NoCall(h)] /\ call[h].kind # "none"
  BY DEF ConnectFails, RpcEnds, Rpcs
<1>2. \A q \in Hosts : Calm(q)'
  <2>1. call'[h] = NoCall(h) /\ \A q \in Hosts \ {h} : call'[q] = call[q]
    BY <1>1 DEF ClusterInv, TypeOK
  <2> QED BY <2>1, SteadyHosts DEF Calm, NoCall, Rpcs
<1>3. \A q \in Hosts : node'[q][q] = node[q][q]
  <2>1. call[h].to # h
    BY <1>1 DEF ClusterInv, CallsPeers
  <2>2. node \in [Hosts -> [Hosts -> NodeSteps]]
    BY DEF ClusterInv, TypeOK
  <2>3. CASE ConnectFails(h)
    <3>1. node' = [node EXCEPT ![h][call[h].to] = "retry"]
      BY <2>3 DEF ConnectFails
    <3> QED BY <2>1, <2>2, <3>1
  <2>4. CASE RpcEnds(h)
    BY <2>4 DEF RpcEnds
  <2> QED BY <2>3, <2>4
<1>4. \A q \in Hosts : Handable(q)'
  BY <1>1, SteadyHandsKept DEF registries
<1> QED BY <1>1, <1>2, <1>3, <1>4, SteadyHosts, SteadyKept DEF registries

LEMMA SteadyTimesOut ==
  ASSUME ClusterInv, AllSteady, NEW h \in Hosts, TimesOut(h)
  PROVE  AllSteady'
<1>1. UNCHANGED <<boot, registries, node, checked, crashed>> /\ Replied(h, "timeout")
  BY DEF TimesOut
<1>2. \A q \in Hosts : OnlyRequests(inbox'[q])
  BY SteadyHosts, TimesOutStep, WithinOnlyRequests
<1>3. \A q \in Hosts : Calm(q)'
  BY <1>1, SteadyHosts, ReplyIsCalm DEF Fatal
<1>4. \A q \in Hosts : Handable(q)'
  BY <1>1, SteadyHandsKept DEF registries
<1> QED BY <1>1, <1>2, <1>3, <1>4, SteadyKept DEF registries

LEMMA SteadyDisconnect ==
  ASSUME ClusterInv, AllSteady, NEW h \in Hosts, NEW p \in Hosts \ {h}, Disconnect(h, p),
         \A handed \in checked[h] : handed[1] # p
  PROVE  AllSteady'
<1>1. /\ UNCHANGED <<boot, link, raftKnown, node, inbox, calls, crashed>>
      /\ entry' = [entry EXCEPT ![h][p] = "absent"]
  BY DEF Disconnect
<1>2. /\ \A q \in Hosts : entry'[q][q] = entry[q][q]
      /\ \A q \in Hosts \ {h} : entry'[q] = entry[q]
      /\ \A t \in Hosts \ {p} : entry'[h][t] = entry[h][t]
      /\ \A q, t \in Hosts : entry'[q][t] = "known" => entry[q][t] = "known"
  BY <1>1 DEF ClusterInv, TypeOK
<1>3. \A q \in Hosts : Calm(q)'
  BY <1>1, SteadyHosts DEF Calm, calls
<1>4. ASSUME NEW q \in Hosts, NEW handed \in checked[q]
      PROVE  entry'[q][handed[1]] = "running"
  <2>1. entry[q][handed[1]] = "running"
    BY SteadyHosts DEF Handable
  <2>2. handed[1] \in Hosts
    BY DEF ClusterInv, TypeOK
  <2>3. CASE q = h
    <3>1. handed[1] \in Hosts \ {p}
      BY <2>2, <2>3
    <3> QED BY <1>2, <2>1, <2>3, <3>1
  <2>4. CASE q # h
    BY <1>2, <2>1, <2>4
  <2> QED BY <2>3, <2>4
<1>5. \A q \in Hosts : Handable(q)'
  BY <1>1, <1>4 DEF Handable, calls
<1> QED BY <1>1, <1>2, <1>3, <1>5, SteadyHosts, SteadyKept

(* A snapshot is let through, or handed to the host's own Node.            *)
LEMMA SteadyCheck ==
  ASSUME ClusterInv, AllSteady, NEW h \in Hosts, NEW p \in Hosts,
         \/ CheckSnapshot(h, p) /\ entry[h][p] = "running"
         \/ HandOver(h, p)
  PROVE  AllSteady'
<1>1. UNCHANGED <<boot, registries, node, inbox, call, replying, crashed>>
  BY DEF CheckSnapshot, HandOver
<1>2. \A q \in Hosts : Calm(q)'
  BY <1>1, SteadyHosts DEF Calm
<1>3. \A q \in Hosts : Handable(q)'
  <2>1. /\ \A q \in Hosts : Handable(q)
        /\ checked \in [Hosts -> SUBSET (Hosts \X Hosts)] /\ entry' = entry
    BY <1>1, SteadyHosts DEF ClusterInv, TypeOK, registries
  <2>2. CASE CheckSnapshot(h, p) /\ entry[h][p] = "running"
    <3>1. /\ checked'[h] = checked[h] \cup {<<p, h>>}
          /\ \A q \in Hosts \ {h} : checked'[q] = checked[q]
      BY <2>1, <2>2 DEF CheckSnapshot
    <3> QED BY <2>1, <2>2, <3>1 DEF Handable
  <2>3. CASE HandOver(h, p)
    <3>1. \A q \in Hosts : checked'[q] \subseteq checked[q]
      BY <2>1, <2>3 DEF HandOver
    <3> QED BY <2>1, <3>1, SteadyHands
  <2> QED BY <2>2, <2>3
<1> QED BY <1>1, <1>2, <1>3, SteadyHosts, SteadyKept DEF registries

LEMMA SteadyHostStep ==
  ASSUME ClusterInv, AllSteady, NEW h \in Hosts, HostStep(h), ~Disturbs(h)
  PROVE  AllSteady'
<1>1. /\ ~SendRegisterRaft(h) /\ ~ConnectLocal(h) /\ ~ReportConnected(h) /\ ~RpcPanics(h)
      /\ ~Bind(h) /\ ~HandleRegisterRaft(h) /\ ~RegisterRaftPanics(h)
      /\ ~HandleWeaklyConnected(h) /\ ~HandleConnected(h) /\ ~HandOverPanics(h)
  <2>1. \A kind : Received(h, kind) => kind \in RequestKinds
    BY SteadyHosts DEF Received
  <2>2. \A kind \in OwnKinds : ~Received(h, kind)
    BY <2>1 DEF OwnKinds, RequestKinds, Rpcs
  <2>3. ~HandOverPanics(h)
    BY SteadyHosts DEF HandOverPanics, Handable
  <2> QED
    BY <2>2, <2>3, SteadyHosts
    DEF SendRegisterRaft, ConnectLocal, ReportConnected, RpcPanics, Bind, Calm, OwnKinds,
        HandleRegisterRaft, RegisterRaftPanics, HandleWeaklyConnected, HandleConnected
<1>2. \A r \in Requests : ~RaftFails(h, r)
  BY DEF Disturbs
<1> QED
  BY <1>1, <1>2, SteadyConnectNode, SteadyRpc, SteadyAnswer, SteadyEnds, SteadyTimesOut
  DEF HostStep, Serve, Resume

LEMMA SteadyPeerStep ==
  ASSUME ClusterInv, AllSteady, NEW h \in Hosts, NEW p \in Hosts, PeerStep(h, p), ~Disturbs(h)
  PROVE  AllSteady'
<1>0. checked \in [Hosts -> SUBSET (Hosts \X Hosts)]
  BY DEF ClusterInv, TypeOK
<1>1. CASE ConnectRemote(h, p)
  <2>1. p \in Hosts \ {h} /\ "connect" \in RequestKinds
    BY <1>1 DEF ConnectRemote, RequestKinds
  <2>2. \A q \in Hosts : node'[q][q] = node[q][q]
    BY <1>1, <2>1 DEF ConnectRemote, ClusterInv, TypeOK
  <2> QED BY <1>1, <2>1, <2>2, SteadyCall DEF ConnectRemote
<1>2. CASE SendRpc(h, p)
  <2>1. p \in Hosts \ {h} /\ "rpc" \in RequestKinds
    BY <1>2 DEF SendRpc, RequestKinds, Rpcs
  <2> QED BY <1>2, <2>1, SteadyCall DEF SendRpc
<1>3. CASE SendSnapshot(h, p)
  <2>1. p \in Hosts \ {h} /\ "snapshot" \in RequestKinds
    BY <1>3 DEF SendSnapshot, RequestKinds, Rpcs
  <2>2. \A q \in Hosts : checked'[q] \subseteq checked[q]
    BY <1>0, <1>3 DEF SendSnapshot
  <2> QED BY <1>3, <2>1, <2>2, SteadyCall DEF SendSnapshot
<1>4. CASE RetryConnect(h, p)
  <2>1. p # h
    BY <1>4, SteadyHosts DEF RetryConnect
  <2>2. /\ UNCHANGED <<boot, registries, inbox, calls, crashed>>
        /\ \A q \in Hosts : node'[q][q] = node[q][q]
    BY <1>4, <2>1 DEF RetryConnect, ClusterInv, TypeOK
  <2>3. \A q \in Hosts : Calm(q)'
    BY <2>2, SteadyHosts DEF Calm, calls
  <2>4. \A q \in Hosts : Handable(q)'
    BY <2>2, SteadyHandsKept DEF registries, calls
  <2> QED BY <2>2, <2>3, <2>4, SteadyHosts, SteadyKept DEF registries
<1>5. CASE Disconnect(h, p)
  <2>1. p # h /\ \A handed \in checked[h] : handed[1] # p
    BY <1>5 DEF Disturbs
  <2> QED BY <1>5, <2>1, SteadyDisconnect
<1>6. CASE CheckSnapshot(h, p)
  <2>1. entry[h][p] = "running"
    BY <1>6, SteadyHosts DEF CheckSnapshot, LetsThrough, ClusterInv, TypeOK
  <2> QED BY <1>6, <2>1, SteadyCheck
<1>7. CASE HandOver(h, p)
  BY <1>7, SteadyCheck
<1>8. CASE SendLargeChunk(h, p)
  BY <1>8 DEF Disturbs
<1> QED BY <1>1, <1>2, <1>3, <1>4, <1>5, <1>6, <1>7, <1>8 DEF PeerStep

LEMMA SteadyStep ==
  ASSUME ClusterInv, AllSteady, Next, \A h \in Hosts : ~Disturbs(h)
  PROVE  AllSteady'
BY SteadyHostStep, SteadyPeerStep DEF Next

(* Once all hosts have booted, no order of timeouts, orphans, refused      *)
(* connections, snapshots and removals of peers takes one down, isolates a *)
(* node or makes a host refuse an RPC, for any number of hosts: only the   *)
(* removal of a host's own entry does, that of a peer between the check of *)
(* a snapshot for it and the next poll, an error of Raft, and a chunk      *)
(* above the JSON limit.                                                   *)
THEOREM SteadyClusterStaysUp == Spec => SteadyStaysUp
<1>1. ClusterInv /\ [Next]_vars =>
        [AllSteady /\ (\A h \in Hosts : ~Disturbs(h)) => AllSteady']_vars
  BY SteadyStep
<1> QED BY <1>1, ClusterInvariance, PTL DEF Spec, SteadyStaysUp
=========================================================================
