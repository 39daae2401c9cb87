------------------------ MODULE MemoryStorage_proofs ------------------------
(***************************************************************************)
(* Proofs about MemoryStorage, for every last index, terms and committed   *)
(* entries.                                                                *)
(***************************************************************************)
EXTENDS MemoryStorage, SequenceTheorems, TLAPS

(***************************************************************************)
(* The inductive invariant.  CleanupIsCovered is a part of it as it        *)
(* stands; the other properties follow from parts that say what the steps  *)
(* under way, in the two queues and in Raft's hands, will find.            *)
(***************************************************************************)

(* The entries are those of a snapshot of index i: the last one is i's,    *)
(* and each has the term of the one that was committed.                    *)
Follows(entries, i) ==
  /\ DOMAIN entries \subseteq 1..i /\ i \in DOMAIN entries
  /\ \A k \in DOMAIN entries : entries[k].term = TermOf[k]

(* At most one snapshot is under creation, ahead of the one that is        *)
(* installed; and while a file is read for a rebuild, nothing else is.     *)
InOrder ==
  /\ \A k \in DOMAIN jobs :
       IF jobs[k].op = "create"
       THEN k = 1 /\ done = <<>> /\ "creating" \in raft
       ELSE /\ k = Len(jobs) /\ "installing" \in raft
            /\ jobs[k].op = "read" => k = 1 /\ done = <<>>
  /\ \A k \in DOMAIN done :
       IF done[k].job.op = "create"
       THEN k = 1 /\ "creating" \in raft
       ELSE /\ k = Len(done) /\ jobs = <<>> /\ "installing" \in raft
            /\ done[k].job.op = "read" => k = 1

(* A snapshot that is written is newer than the current one; one that is   *)
(* created is of applied entries, and one that is installed is not.        *)
Writes(job) ==
  /\ Follows(job.entries, job.index) /\ job.term = TermOf[job.index]
  /\ IF job.op = "create" THEN job.index <= applied ELSE applied < job.index
  /\ snapshot # None => snapshot.index < job.index

(* A file that is read is the current snapshot's, and the log starts at    *)
(* it; its entries are not applied yet.                                    *)
Rereads(job) ==
  /\ snapshot # None /\ snapshot.index = job.index /\ applied < job.index
  /\ job.index \in DOMAIN log /\ log[job.index].term = TermOf[job.index]
  /\ \A k \in DOMAIN log : job.index <= k

JobOK(job) == IF job.op = "read" THEN Rereads(job) ELSE Writes(job)

ResultOK(result) ==
  /\ JobOK(result.job)
  /\ result.ok => IF result.job.op = "read"
                  THEN Follows(result.job.entries, result.job.index)
                  ELSE files[result.job.index] = result.job.entries

PendingOK ==
  /\ \A k \in DOMAIN jobs : JobOK(jobs[k])
  /\ \A k \in DOMAIN done : ResultOK(done[k])

(* A snapshot of entries that are not applied is the one being installed.  *)
SnapshotOK ==
  snapshot # None =>
    /\ files[snapshot.index] \in Logs
    /\ Follows(files[snapshot.index], snapshot.index)
    /\ snapshot.term = TermOf[snapshot.index]
    /\ snapshot.index <= applied \/ "installing" \in raft

LogOK == \A k \in DOMAIN log : k <= committed => log[k].term = TermOf[k]

AppliedOK ==
  /\ \A k \in DOMAIN sm : k <= applied /\ sm[k].term = TermOf[k]
  /\ \A k \in 1..applied : k \in DOMAIN sm \/ (snapshot # None /\ k <= snapshot.index)

(* The entries that were fetched are those after the last applied one,     *)
(* without a gap, unless a snapshot that covers them was installed since;  *)
(* and a snapshot that is being installed goes beyond them.                *)
Overtaken ==
  snapshot # None /\ \A k \in DOMAIN payload : k < snapshot.index /\ k <= applied

Beyond(job) == job.op # "create" => \A k \in DOMAIN payload : k < job.index

PayloadOK ==
  payload # None =>
    /\ \A k \in DOMAIN payload : payload[k].term = TermOf[k]
    /\ \/ \E c \in (applied + 1)..committed : DOMAIN payload = (applied + 1)..c
       \/ Overtaken
    /\ \A k \in DOMAIN jobs : Beyond(jobs[k])
    /\ \A k \in DOMAIN done : Beyond(done[k].job)

StorageInv ==
  /\ TypeOK /\ InOrder /\ PendingOK /\ SnapshotOK /\ LogOK /\ AppliedOK /\ PayloadOK
  /\ CleanupIsCovered

(***************************************************************************)
(* Logs.                                                                   *)
(***************************************************************************)

(* What is known of a member of Logs.                                      *)
LEMMA LogFacts ==
  ASSUME NEW f \in Logs
  PROVE  /\ f # None /\ f # Broken
         /\ DOMAIN f \subseteq Indexes
         /\ \A k \in DOMAIN f : f[k] \in LogEntries /\ f[k].term \in Terms
<1>1. f # None /\ f # Broken
  BY StorageAssumption
<1>2. PICK S \in SUBSET Indexes : f \in [S -> LogEntries]
  BY DEF Logs
<1>3. DOMAIN f = S /\ \A k \in S : f[k] \in LogEntries
  BY <1>2
<1>4. \A e \in LogEntries : e.term \in Terms
  BY DEF LogEntries
<1> QED BY <1>1, <1>3, <1>4

LEMMA IsLog ==
  ASSUME NEW S \in SUBSET Indexes, NEW f \in [S -> LogEntries]
  PROVE  f \in Logs
BY DEF Logs

LEMMA KeptLog ==
  ASSUME NEW f \in Logs, NEW S
  PROVE  /\ Kept(f, S) \in Logs
         /\ DOMAIN Kept(f, S) = DOMAIN f \cap S
         /\ \A k \in DOMAIN f \cap S : Kept(f, S)[k] = f[k]
<1>1. DOMAIN f \cap S \in SUBSET Indexes
  BY LogFacts
<1>2. Kept(f, S) \in [DOMAIN f \cap S -> LogEntries]
  BY LogFacts DEF Kept
<1> QED BY <1>1, <1>2, IsLog DEF Kept

LEMMA WithLog ==
  ASSUME NEW f \in Logs, NEW g \in Logs
  PROVE  /\ With(f, g) \in Logs
         /\ DOMAIN With(f, g) = DOMAIN f \cup DOMAIN g
         /\ \A k \in DOMAIN g : With(f, g)[k] = g[k]
         /\ \A k \in DOMAIN f \ DOMAIN g : With(f, g)[k] = f[k]
<1>1. DOMAIN f \cup DOMAIN g \in SUBSET Indexes
  BY LogFacts
<1>2. With(f, g) \in [DOMAIN f \cup DOMAIN g -> LogEntries]
  BY LogFacts DEF With
<1>3. With(f, g) \in Logs
  BY <1>1, <1>2, IsLog
<1> QED BY <1>3 DEF With

LEMMA EntryTyped ==
  ASSUME NEW t \in Terms
  PROVE  /\ Entry(t) \in LogEntries /\ Entry(t).term = t
         /\ Pointer(t) \in LogEntries /\ Pointer(t).term = t
BY DEF Entry, Pointer, LogEntries

LEMMA PutLog ==
  ASSUME NEW f \in Logs, NEW i \in Indexes, NEW e \in LogEntries
  PROVE  /\ Put(f, i, e) \in Logs
         /\ DOMAIN Put(f, i, e) = DOMAIN f \cup {i}
         /\ Put(f, i, e)[i] = e
         /\ \A k \in DOMAIN f \ {i} : Put(f, i, e)[k] = f[k]
<1> DEFINE g == [j \in {i} |-> e]
<1>1. g \in Logs
  <2>1. {i} \in SUBSET Indexes /\ g \in [{i} -> LogEntries]
    OBVIOUS
  <2> QED BY <2>1, IsLog
<1>2. DOMAIN g = {i} /\ g[i] = e
  OBVIOUS
<1>3. Put(f, i, e) = With(f, g)
  BY DEF Put
<1> HIDE DEF g
<1> QED BY <1>1, <1>2, <1>3, WithLog

(* What is left of a log that a snapshot shortens.                         *)
LEMMA ShortenLog ==
  ASSUME log \in Logs, NEW i \in Indexes, NEW t \in Terms
  PROVE  /\ Shorten(i, t) \in Logs
         /\ \A k \in DOMAIN Shorten(i, t) : i <= k
         /\ i \in DOMAIN Shorten(i, t) /\ Shorten(i, t)[i].term = t
         /\ \A k \in DOMAIN log : i < k =>
              k \in DOMAIN Shorten(i, t)
         /\ \A k \in DOMAIN Shorten(i, t) : k # i =>
              k \in DOMAIN log /\ Shorten(i, t)[k] = log[k]
<1> DEFINE kept == Kept(log, i..LastIndex)
<1>1. /\ kept \in Logs /\ DOMAIN kept = DOMAIN log \cap (i..LastIndex)
      /\ \A k \in DOMAIN kept : kept[k] = log[k]
  BY KeptLog
<1>2. Pointer(t) \in LogEntries /\ Pointer(t).term = t
  BY EntryTyped
<1>3. Shorten(i, t) = Put(kept, i, Pointer(t))
  BY DEF Shorten
<1> HIDE DEF kept
<1>4. /\ Shorten(i, t) \in Logs
      /\ DOMAIN Shorten(i, t) = DOMAIN kept \cup {i}
      /\ Shorten(i, t)[i] = Pointer(t)
      /\ \A k \in DOMAIN kept \ {i} : Shorten(i, t)[k] = kept[k]
  BY <1>1, <1>2, <1>3, PutLog
<1>5. \A k \in DOMAIN log : k \in Nat /\ k <= LastIndex
  BY LogFacts, StorageAssumption DEF Indexes
<1>6. i \in Nat /\ LastIndex \in Nat
  BY StorageAssumption DEF Indexes
<1> QED BY <1>1, <1>2, <1>4, <1>5, <1>6

(* The committed entries, and what a leader streams, with a pointer at the *)
(* beginning or without.                                                   *)
LEMMA CommittedLog ==
  ASSUME NEW S \in SUBSET Indexes
  PROVE  /\ Committed(S) \in Logs /\ DOMAIN Committed(S) = S
         /\ \A k \in S : Committed(S)[k].term = TermOf[k]
<1>1. \A k \in S : TermOf[k] \in Terms
  BY StorageAssumption
<1>2. \A k \in S : Entry(TermOf[k]) \in LogEntries /\ Entry(TermOf[k]).term = TermOf[k]
  BY <1>1, EntryTyped
<1>3. Committed(S) \in [S -> LogEntries]
  BY <1>2 DEF Committed
<1> QED BY <1>2, <1>3, IsLog DEF Committed

LEMMA StreamsFollow ==
  ASSUME NEW i \in Indexes, NEW entries \in Streams(i)
  PROVE  entries \in Logs /\ Follows(entries, i)
<1>1. /\ LastIndex \in Nat /\ i \in Nat /\ i >= 1 /\ i <= LastIndex
  BY StorageAssumption DEF Indexes
<1>2. CASE entries = Committed(Through(i))
  <2>1. Through(i) \in SUBSET Indexes /\ i \in Through(i) /\ Through(i) = 1..i
    BY <1>1 DEF Through, Indexes
  <2> QED BY <1>2, <2>1, CommittedLog DEF Follows
<1>3. CASE \E j \in Through(i - 1) :
             entries = With(Committed((j + 1)..i), [k \in {j} |-> Pointer(TermOf[j])])
  <2>1. PICK j \in Through(i - 1) :
          entries = With(Committed((j + 1)..i), [k \in {j} |-> Pointer(TermOf[j])])
    BY <1>3
  <2>2. j \in Nat /\ j >= 1 /\ j < i /\ j \in Indexes
    BY <1>1 DEF Through, Indexes
  <2> DEFINE rest == Committed((j + 1)..i)
             first == Pointer(TermOf[j])
  <2>3. (j + 1)..i \in SUBSET Indexes
    BY <1>1, <2>2 DEF Indexes
  <2>4. /\ rest \in Logs /\ DOMAIN rest = (j + 1)..i
        /\ \A k \in (j + 1)..i : rest[k].term = TermOf[k]
    BY <2>3, CommittedLog
  <2>5. TermOf[j] \in Terms
    BY <2>2, StorageAssumption
  <2>6. first \in LogEntries /\ first.term = TermOf[j]
    BY <2>5, EntryTyped
  <2>7. entries = Put(rest, j, first)
    BY <2>1 DEF Put
  <2> HIDE DEF rest, first
  <2>8. /\ Put(rest, j, first) \in Logs
        /\ DOMAIN Put(rest, j, first) = DOMAIN rest \cup {j}
        /\ Put(rest, j, first)[j] = first
        /\ \A k \in DOMAIN rest \ {j} : Put(rest, j, first)[k] = rest[k]
    BY <2>2, <2>4, <2>6, PutLog
  <2>9. DOMAIN entries \subseteq 1..i /\ i \in DOMAIN entries
    BY <1>1, <2>2, <2>4, <2>7, <2>8
  <2>10. \A k \in DOMAIN entries : entries[k].term = TermOf[k]
    BY <2>4, <2>6, <2>7, <2>8
  <2> QED BY <2>7, <2>8, <2>9, <2>10 DEF Follows
<1> QED BY <1>2, <1>3 DEF Streams

(***************************************************************************)
(* The queues.                                                             *)
(***************************************************************************)
Results == [job : Jobs, ok : BOOLEAN]

(* A job or a result that is added to its queue is the last one, and the   *)
(* others stay where they are.                                             *)
LEMMA Appended ==
  ASSUME NEW S, NEW q \in Seq(S), NEW e \in S
  PROVE  /\ Append(q, e) \in Seq(S) /\ Append(q, e) # <<>>
         /\ Len(Append(q, e)) = Len(q) + 1
         /\ DOMAIN Append(q, e) = DOMAIN q \cup {Len(q) + 1}
         /\ Append(q, e)[Len(q) + 1] = e
         /\ \A k \in DOMAIN q : Append(q, e)[k] = q[k]
<1>1. Append(q, e) \in Seq(S) /\ Len(Append(q, e)) = Len(q) + 1
  OBVIOUS
<1>2. /\ DOMAIN q = 1..Len(q) /\ Len(q) \in Nat
      /\ DOMAIN Append(q, e) = 1..(Len(q) + 1)
  BY <1>1
<1>3. /\ Append(q, e)[Len(q) + 1] = e
      /\ \A k \in 1..Len(q) : Append(q, e)[k] = q[k]
  OBVIOUS
<1>4. 1..(Len(q) + 1) = 1..Len(q) \cup {Len(q) + 1}
  BY <1>2
<1>5. Append(q, e) # <<>>
  BY <1>1, <1>2
<1> QED BY <1>1, <1>2, <1>3, <1>4, <1>5

(* The head leaves a queue, and the others move up.                        *)
LEMMA Removed ==
  ASSUME NEW S, NEW q \in Seq(S), q # <<>>
  PROVE  /\ Tail(q) \in Seq(S) /\ Len(Tail(q)) = Len(q) - 1
         /\ 1 \in DOMAIN q /\ Head(q) = q[1] /\ q[1] \in S
         /\ \A k \in DOMAIN Tail(q) :
              k \in Nat /\ k >= 1 /\ k + 1 \in DOMAIN q /\ Tail(q)[k] = q[k + 1]
         /\ Len(q) = 1 => Tail(q) = <<>>
<1>1. Tail(q) \in Seq(S) /\ Len(Tail(q)) = Len(q) - 1
  OBVIOUS
<1>2. Len(q) \in Nat /\ Len(q) >= 1 /\ DOMAIN q = 1..Len(q) /\ DOMAIN Tail(q) = 1..(Len(q) - 1)
  BY <1>1
<1>3. Head(q) = q[1] /\ q[1] \in S /\ \A k \in 1..(Len(q) - 1) : Tail(q)[k] = q[k + 1]
  BY <1>1, <1>2, HeadTailProperties
<1>4. Tail(q) # <<>> => Len(Tail(q)) \in Nat \ {0}
  BY <1>1, EmptySeq
<1> QED BY <1>1, <1>2, <1>3, <1>4

(* What the queues hold.                                                   *)
LEMMA QueueTypes ==
  ASSUME TypeOK
  PROVE  /\ jobs \in Seq(Jobs) /\ \A k \in DOMAIN jobs : jobs[k] \in Jobs
         /\ done \in Seq(Results)
         /\ \A k \in DOMAIN done : done[k] \in Results /\ done[k].job \in Jobs
<1>1. jobs \in Seq(Jobs) /\ done \in Seq(Results)
  BY DEF TypeOK, Results
<1>2. \A r \in Results : r.job \in Jobs
  BY DEF Results
<1> QED BY <1>1, <1>2

(* Raft has nothing under way in the queues unless it says so.             *)
LEMMA QueuesIdle ==
  ASSUME TypeOK, InOrder
  PROVE  /\ raft \cap {"creating", "installing"} = {} => jobs = <<>> /\ done = <<>>
         /\ "installing" \notin raft =>
              /\ \A k \in DOMAIN jobs : jobs[k].op = "create" /\ k = 1
              /\ \A k \in DOMAIN done : done[k].job.op = "create" /\ k = 1
              /\ Len(jobs) <= 1
<1>1. jobs \in Seq(Jobs) /\ done \in Seq(Results)
  BY DEF TypeOK, Results
<1>2. \A k \in DOMAIN jobs : jobs[k].op = "create" => "creating" \in raft /\ k = 1
  BY DEF InOrder
<1>3. \A k \in DOMAIN jobs : jobs[k].op # "create" => "installing" \in raft
  BY DEF InOrder
<1>4. \A k \in DOMAIN done : done[k].job.op = "create" => "creating" \in raft /\ k = 1
  BY DEF InOrder
<1>5. \A k \in DOMAIN done : done[k].job.op # "create" => "installing" \in raft
  BY DEF InOrder
<1>6. jobs # <<>> => 1 \in DOMAIN jobs
  BY <1>1
<1>7. done # <<>> => 1 \in DOMAIN done
  BY <1>1
<1>8. (\A k \in DOMAIN jobs : k = 1) => Len(jobs) <= 1
  <2> SUFFICES ASSUME Len(jobs) > 1 PROVE 2 \in DOMAIN jobs
    BY <1>1
  <2> QED BY <1>1
<1> QED BY <1>2, <1>3, <1>4, <1>5, <1>6, <1>7, <1>8

(* The result that is taken up next, and, unless it is a creation, nothing *)
(* behind it.                                                              *)
LEMMA NextResult ==
  ASSUME StorageInv, done # <<>>
  PROVE  /\ Head(done) \in Results /\ ResultOK(Head(done))
         /\ Head(done).job.op = "create" => "creating" \in raft
         /\ Head(done).job.op # "create" =>
              "installing" \in raft /\ jobs = <<>> /\ Tail(done) = <<>>
<1>1. done \in Seq(Results)
  BY DEF StorageInv, TypeOK, Results
<1>2. 1 \in DOMAIN done /\ Head(done) = done[1] /\ done[1] \in Results
      /\ (Len(done) = 1 => Tail(done) = <<>>)
  BY <1>1, Removed
<1>3. ResultOK(done[1])
  BY <1>2 DEF StorageInv, PendingOK
<1>4. IF done[1].job.op = "create" THEN "creating" \in raft
      ELSE 1 = Len(done) /\ jobs = <<>> /\ "installing" \in raft
  BY <1>2 DEF StorageInv, InOrder
<1> QED BY <1>2, <1>3, <1>4

(***************************************************************************)
(* The invariant holds initially.                                          *)
(***************************************************************************)

(* Raft's counters.                                                        *)
LEMMA Counters ==
  ASSUME TypeOK
  PROVE  /\ LastIndex \in Nat /\ lastLog \in Nat /\ committed \in Nat /\ applied \in Nat
         /\ applied <= committed /\ committed <= lastLog /\ lastLog <= LastIndex
         /\ Indexes = 1..LastIndex
         /\ snapshot # None =>
              snapshot.index \in Indexes /\ snapshot.term \in Terms /\ snapshot.index \in Nat
BY StorageAssumption DEF TypeOK, Indexes, Snapshots

LEMMA NoEntriesLog == NoEntries \in Logs /\ DOMAIN NoEntries = {}
<1>1. {} \in SUBSET Indexes /\ NoEntries \in [{} -> LogEntries]
  BY DEF NoEntries
<1> QED BY <1>1, IsLog DEF NoEntries

LEMMA InvInit == Init => StorageInv
<1> SUFFICES ASSUME Init PROVE StorageInv
  OBVIOUS
<1>1. /\ log = NoEntries /\ sm = NoEntries /\ snapshot = None /\ payload = None
      /\ jobs = <<>> /\ done = <<>> /\ raft = {}
      /\ lastLog = 0 /\ committed = 0 /\ applied = 0
  BY DEF Init
<1>2. TypeOK
  <2>1. files \in [Indexes -> Logs \cup {None, Broken}]
    BY DEF Init
  <2>2. jobs \in Seq(Jobs) /\ done \in Seq([job : Jobs, ok : BOOLEAN])
    BY <1>1
  <2>3. LastIndex \in Nat
    BY StorageAssumption
  <2> QED BY <1>1, <2>1, <2>2, <2>3, NoEntriesLog DEF TypeOK
<1>3. DOMAIN jobs = {} /\ DOMAIN done = {} /\ DOMAIN log = {} /\ DOMAIN sm = {}
  BY <1>1, NoEntriesLog
<1>4. InOrder /\ PendingOK
  BY <1>3 DEF InOrder, PendingOK
<1>5. SnapshotOK /\ LogOK /\ PayloadOK
  BY <1>1, <1>3 DEF SnapshotOK, LogOK, PayloadOK
<1>6. AppliedOK /\ CleanupIsCovered
  BY <1>1, <1>3 DEF AppliedOK, CleanupIsCovered
<1> QED BY <1>2, <1>4, <1>5, <1>6 DEF StorageInv

(***************************************************************************)
(* The log, and its application, preserve it.                              *)
(***************************************************************************)

(* What is pending stays as it is when neither the queues nor anything it  *)
(* is about changes.                                                       *)
LEMMA PendingFrame ==
  ASSUME StorageInv, UNCHANGED <<snapshot, files, jobs, done, log, applied>>
  PROVE  PendingOK'
BY DEF StorageInv, PendingOK, ResultOK, JobOK, Rereads, Writes, Follows

LEMMA InvReplicate ==
  ASSUME StorageInv, NEW i \in Indexes, NEW term \in Terms, Replicate(i, term)
  PROVE  StorageInv'
<1> USE DEF StorageInv
<1>1. /\ "installing" \notin raft /\ i \in (committed + 1)..(lastLog + 1)
      /\ log' = Put(log, i, Entry(term)) /\ lastLog' = i
      /\ UNCHANGED <<sm, snapshot, actor, committed, applied, payload, raft>>
  BY DEF Replicate
<1>2. UNCHANGED <<sm, snapshot, files, jobs, done, committed, applied, payload, raft>>
  BY <1>1 DEF actor
<1>3. log \in Logs
  BY DEF TypeOK
<1> DEFINE e == Entry(term)
<1>4. e \in LogEntries
  BY EntryTyped
<1> HIDE DEF e
<1>5. /\ Put(log, i, e) \in Logs /\ DOMAIN Put(log, i, e) = DOMAIN log \cup {i}
      /\ \A k \in DOMAIN log \ {i} : Put(log, i, e)[k] = log[k]
  BY <1>3, <1>4, PutLog
<1>6. log' = Put(log, i, e)
  BY <1>1 DEF e
<1>7. /\ log' \in Logs /\ DOMAIN log' = DOMAIN log \cup {i}
      /\ \A k \in DOMAIN log \ {i} : log'[k] = log[k]
  BY <1>5, <1>6
<1>8. /\ committed \in Nat /\ lastLog \in Nat /\ i \in Nat
      /\ committed < i /\ i <= lastLog + 1 /\ i <= LastIndex /\ LastIndex \in Nat
      /\ \A k \in DOMAIN log : k \in Nat
  BY <1>1, <1>3, Counters, LogFacts DEF Indexes
<1>9. TypeOK'
  BY <1>1, <1>2, <1>7, <1>8 DEF TypeOK
<1>10. InOrder'
  BY <1>2 DEF InOrder
<1>11. PendingOK'
  <2>1. /\ \A k \in DOMAIN jobs : jobs[k].op = "create"
        /\ \A k \in DOMAIN done : done[k].job.op = "create"
    BY <1>1, QueuesIdle
  <2>2. \A j : Writes(j) => Writes(j)'
    BY <1>2 DEF Writes, Follows
  <2> QED BY <1>2, <2>1, <2>2 DEF PendingOK, ResultOK, JobOK
<1>12. SnapshotOK'
  BY <1>2 DEF SnapshotOK, Follows
<1>13. LogOK'
  BY <1>2, <1>7, <1>8 DEF LogOK
<1>14. AppliedOK' /\ PayloadOK'
  BY <1>2 DEF AppliedOK, PayloadOK, Overtaken, Beyond
<1>15. CleanupIsCovered'
  <2> SUFFICES ASSUME NEW k \in 1..lastLog'
               PROVE  k \in DOMAIN log' \/ (snapshot' # None /\ k <= snapshot'.index)
    BY DEF CleanupIsCovered
  <2>1. k = i \/ k \in 1..lastLog
    BY <1>1, <1>8
  <2> QED BY <1>2, <1>7, <2>1 DEF CleanupIsCovered
<1> QED BY <1>9, <1>10, <1>11, <1>12, <1>13, <1>14, <1>15

LEMMA InvCommit ==
  ASSUME StorageInv, NEW i \in Indexes, Commit(i)
  PROVE  StorageInv'
<1> USE DEF StorageInv
<1>1. /\ i = committed + 1 /\ i <= lastLog /\ log[i] = Entry(TermOf[i])
      /\ committed' = i
      /\ UNCHANGED <<storage, actor, lastLog, applied, payload, raft>>
  BY DEF Commit
<1>2. UNCHANGED <<log, sm, snapshot, files, jobs, done, lastLog, applied, payload, raft>>
  BY <1>1 DEF actor, storage
<1>3. /\ committed \in Nat /\ lastLog \in Nat /\ i \in Nat /\ applied \in Nat
      /\ applied <= committed
  BY <1>1, Counters
<1>4. TypeOK'
  BY <1>1, <1>2, <1>3 DEF TypeOK
<1>5. InOrder' /\ PendingOK'
  BY <1>2, PendingFrame DEF InOrder
<1>6. SnapshotOK'
  BY <1>2 DEF SnapshotOK, Follows
<1>7. LogOK'
  <2>1. TermOf[i] \in Terms
    BY StorageAssumption
  <2>2. log[i].term = TermOf[i]
    BY <1>1, <2>1, EntryTyped
  <2>3. \A k \in DOMAIN log : k \in Nat
    <3>1. log \in Logs
      BY DEF TypeOK
    <3> QED BY <3>1, LogFacts DEF Indexes
  <2> QED BY <1>1, <1>2, <1>3, <2>2, <2>3 DEF LogOK
<1>8. AppliedOK'
  BY <1>2 DEF AppliedOK
<1>9. PayloadOK'
  BY <1>1, <1>2, <1>3 DEF PayloadOK, Overtaken, Beyond
<1>10. CleanupIsCovered'
  BY <1>2 DEF CleanupIsCovered
<1> QED BY <1>4, <1>5, <1>6, <1>7, <1>8, <1>9, <1>10

LEMMA InvFetchEntries ==
  ASSUME StorageInv, FetchEntries
  PROVE  StorageInv'
<1> USE DEF StorageInv
<1>1. /\ "installing" \notin raft /\ applied < committed
      /\ UNCHANGED <<log, sm, snapshot, files, jobs, done, lastLog, committed, applied, raft>>
  BY DEF FetchEntries, storage, actor
<1>2. log \in Logs
  BY DEF TypeOK
<1> DEFINE fetched == Kept(log, (applied + 1)..committed)
<1>3. /\ fetched \in Logs /\ DOMAIN fetched = DOMAIN log \cap ((applied + 1)..committed)
      /\ \A k \in DOMAIN fetched : fetched[k] = log[k]
  BY <1>2, KeptLog
<1> HIDE DEF fetched
<1>4. applied \in Nat /\ committed \in Nat /\ lastLog \in Nat /\ committed <= lastLog
  BY Counters
<1>5. \A k \in (applied + 1)..committed : k \in DOMAIN log
  <2> SUFFICES ASSUME NEW k \in (applied + 1)..committed PROVE k \in DOMAIN log
    OBVIOUS
  <2>1. k \in 1..lastLog /\ k > applied
    BY <1>4
  <2>2. snapshot # None => snapshot.index <= applied /\ snapshot.index \in Nat
    BY <1>1, Counters DEF SnapshotOK
  <2>3. k \in DOMAIN log \/ (snapshot # None /\ k <= snapshot.index)
    BY <2>1 DEF CleanupIsCovered
  <2> QED BY <1>4, <2>1, <2>2, <2>3
<1>6. payload' = fetched /\ DOMAIN fetched = (applied + 1)..committed
  BY <1>3, <1>5 DEF FetchEntries, fetched
<1>7. TypeOK'
  BY <1>1, <1>3, <1>6 DEF TypeOK
<1>8. InOrder' /\ PendingOK'
  BY <1>1, PendingFrame DEF InOrder
<1>9. SnapshotOK'
  BY <1>1 DEF SnapshotOK, Follows
<1>10. LogOK' /\ AppliedOK' /\ CleanupIsCovered'
  BY <1>1 DEF LogOK, AppliedOK, CleanupIsCovered
<1>11. PayloadOK'
  <2>1. committed \in (applied + 1)..committed
    BY <1>1, <1>4
  <2>2. \A k \in DOMAIN payload' : payload'[k].term = TermOf[k]
    BY <1>3, <1>4, <1>6 DEF LogOK
  <2>3. /\ \A k \in DOMAIN jobs : jobs[k].op = "create"
        /\ \A k \in DOMAIN done : done[k].job.op = "create"
    BY <1>1, QueuesIdle
  <2> QED BY <1>1, <1>6, <2>1, <2>2, <2>3 DEF PayloadOK, Beyond
<1> QED BY <1>7, <1>8, <1>9, <1>10, <1>11

LEMMA InvHandEntry ==
  ASSUME StorageInv, HandEntry
  PROVE  StorageInv'
<1> USE DEF StorageInv
<1>1. /\ "installing" \notin raft /\ applied < committed
      /\ UNCHANGED <<log, sm, snapshot, files, jobs, done, lastLog, committed, applied, raft>>
  BY DEF HandEntry, storage, actor
<1>2. applied \in Nat /\ committed \in Nat /\ committed <= LastIndex /\ LastIndex \in Nat
  BY Counters
<1> DEFINE i == applied + 1
           e == Entry(TermOf[i])
           handed == Put(NoEntries, i, e)
<1>3. i = applied + 1 /\ i \in Indexes
  BY <1>1, <1>2 DEF Indexes
<1>4. e \in LogEntries /\ e.term = TermOf[i]
  <2>1. TermOf[i] \in Terms
    BY <1>3, StorageAssumption
  <2> QED BY <2>1, EntryTyped
<1>5. payload' = handed
  BY DEF HandEntry
<1> HIDE DEF i, e
<1>6. /\ handed \in Logs /\ DOMAIN handed = DOMAIN NoEntries \cup {i}
      /\ handed[i] = e
  BY <1>3, <1>4, NoEntriesLog, PutLog
<1> HIDE DEF handed
<1>7. payload' \in Logs /\ DOMAIN payload' = {i} /\ payload'[i].term = TermOf[i]
  <2>1. DOMAIN handed = {i}
    BY <1>6, NoEntriesLog
  <2> QED BY <1>4, <1>5, <1>6, <2>1
<1>8. TypeOK'
  BY <1>1, <1>7 DEF TypeOK
<1>9. InOrder' /\ PendingOK'
  BY <1>1, PendingFrame DEF InOrder
<1>10. SnapshotOK'
  BY <1>1 DEF SnapshotOK, Follows
<1>11. LogOK' /\ AppliedOK' /\ CleanupIsCovered'
  BY <1>1 DEF LogOK, AppliedOK, CleanupIsCovered
<1>12. PayloadOK'
  <2>1. i \in i..committed /\ {i} = i..i
    BY <1>1, <1>2, <1>3
  <2>3. /\ \A k \in DOMAIN jobs : jobs[k].op = "create"
        /\ \A k \in DOMAIN done : done[k].job.op = "create"
    BY <1>1, QueuesIdle
  <2> QED BY <1>1, <1>3, <1>7, <2>1, <2>3 DEF PayloadOK, Beyond
<1> QED BY <1>8, <1>9, <1>10, <1>11, <1>12

(* What was fetched and not overtaken is not applied already.              *)
LEMMA NothingAgain ==
  ASSUME StorageInv, NEW c \in (applied + 1)..committed, DOMAIN payload = (applied + 1)..c
  PROVE  DOMAIN payload \cap DOMAIN sm = {}
<1>1. applied \in Nat /\ committed \in Nat
  BY Counters DEF StorageInv
<1>2. \A k \in DOMAIN sm : k <= applied
  BY DEF StorageInv, AppliedOK
<1> QED BY <1>1, <1>2

LEMMA HighestOf ==
  ASSUME NEW S \in SUBSET Nat, NEW m \in S, \A j \in S : j <= m
  PROVE  Highest(S) = m
<1>1. \A i \in S : (\A j \in S : j <= i) => i = m
  OBVIOUS
<1> QED BY <1>1 DEF Highest

(* What an application leaves.  Of entries that an installation has        *)
(* overtaken nothing counts; the others are applied to the last.           *)
LEMMA AfterApply ==
  ASSUME StorageInv, ApplyEntries
  PROVE  /\ sm' \in Logs /\ raft' \in {raft, raft \cup {"stopped"}}
         /\ \A k \in DOMAIN sm : k \in DOMAIN sm'
         /\ \A k \in DOMAIN sm' :
              k \in DOMAIN sm \cup DOMAIN payload /\ sm'[k].term = TermOf[k]
         /\ \/ Overtaken /\ applied' = applied
            \/ \E c \in (applied + 1)..committed :
                 /\ applied' = c /\ DOMAIN payload = (applied + 1)..c
                 /\ \A k \in DOMAIN payload : k \in DOMAIN sm'
<1> USE DEF StorageInv
<1> DEFINE again == DOMAIN payload \cap DOMAIN sm
           first == CHOOSE i \in again : \A j \in again : i <= j
           taken == IF again = {} THEN payload ELSE Kept(payload, Through(first))
<1>1. /\ payload # None /\ sm' = With(sm, taken)
      /\ raft' = IF again = {} THEN raft ELSE raft \cup {"stopped"}
      /\ applied' = IF again = {} THEN Highest(DOMAIN payload \cup {applied}) ELSE applied
  BY DEF ApplyEntries
<1>2. sm \in Logs /\ payload \in Logs
  BY <1>1 DEF TypeOK
<1> HIDE DEF again, first
<1>3. /\ taken \in Logs /\ DOMAIN taken \subseteq DOMAIN payload
      /\ \A k \in DOMAIN taken : taken[k] = payload[k]
      /\ again = {} => taken = payload
  BY <1>2, KeptLog
<1> HIDE DEF taken
<1>4. /\ sm' \in Logs /\ DOMAIN sm' = DOMAIN sm \cup DOMAIN taken
      /\ \A k \in DOMAIN taken : sm'[k] = taken[k]
      /\ \A k \in DOMAIN sm \ DOMAIN taken : sm'[k] = sm[k]
  BY <1>1, <1>2, <1>3, WithLog
<1>5. /\ \A k \in DOMAIN payload : payload[k].term = TermOf[k]
      /\ \A k \in DOMAIN sm : sm[k].term = TermOf[k]
  BY <1>1 DEF PayloadOK, AppliedOK
<1>6. \A k \in DOMAIN sm' :
        k \in DOMAIN sm \cup DOMAIN payload /\ sm'[k].term = TermOf[k]
  BY <1>3, <1>4, <1>5
<1>7. applied \in Nat /\ committed \in Nat
  BY Counters
<1>8. DOMAIN payload \subseteq Nat
  BY <1>2, LogFacts DEF Indexes
<1>9. ASSUME Overtaken PROVE applied' = applied
  <2>1. \A k \in DOMAIN payload : k <= applied
    BY <1>9 DEF Overtaken
  <2>2. Highest(DOMAIN payload \cup {applied}) = applied
    BY <1>7, <1>8, <2>1, HighestOf
  <2> QED BY <1>1, <2>2
<1>10. ASSUME NEW c \in (applied + 1)..committed, DOMAIN payload = (applied + 1)..c
       PROVE  applied' = c /\ \A k \in DOMAIN payload : k \in DOMAIN sm'
  <2>1. again = {}
    BY <1>10, NothingAgain DEF again
  <2> DEFINE reach == DOMAIN payload \cup {applied}
  <2>2. reach \in SUBSET Nat /\ c \in reach /\ \A j \in reach : j <= c
    BY <1>7, <1>8, <1>10
  <2> HIDE DEF reach
  <2>3. Highest(reach) = c
    BY <2>2, HighestOf
  <2>4. applied' = c
    BY <1>1, <2>1, <2>3 DEF reach
  <2> QED BY <1>3, <1>4, <2>1, <2>4
<1>11. \/ Overtaken
       \/ \E c \in (applied + 1)..committed : DOMAIN payload = (applied + 1)..c
  BY <1>1 DEF PayloadOK
<1>12. raft' \in {raft, raft \cup {"stopped"}} /\ \A k \in DOMAIN sm : k \in DOMAIN sm'
  BY <1>1, <1>4
<1> QED BY <1>4, <1>6, <1>9, <1>10, <1>11, <1>12

LEMMA InvApplyEntries ==
  ASSUME StorageInv, ApplyEntries
  PROVE  StorageInv'
<1> USE DEF StorageInv
<1>1. /\ payload # None /\ payload' = None
      /\ UNCHANGED <<log, snapshot, files, jobs, done, lastLog, committed>>
  BY DEF ApplyEntries, actor
<1>2. /\ sm' \in Logs /\ raft' \in {raft, raft \cup {"stopped"}}
      /\ \A k \in DOMAIN sm : k \in DOMAIN sm'
      /\ \A k \in DOMAIN sm' :
           k \in DOMAIN sm \cup DOMAIN payload /\ sm'[k].term = TermOf[k]
      /\ \/ Overtaken /\ applied' = applied
         \/ \E c \in (applied + 1)..committed :
              /\ applied' = c /\ DOMAIN payload = (applied + 1)..c
              /\ \A k \in DOMAIN payload : k \in DOMAIN sm'
  BY AfterApply
<1>3. applied \in Nat /\ committed \in Nat
  BY Counters
<1>4. /\ applied' \in Nat /\ applied <= applied' /\ applied' <= committed
      /\ \A k \in DOMAIN payload : k <= applied'
  <2>1. CASE Overtaken /\ applied' = applied
    <3>1. applied <= committed
      BY Counters
    <3> QED BY <1>3, <2>1, <3>1 DEF Overtaken
  <2>2. CASE \E c \in (applied + 1)..committed :
               applied' = c /\ DOMAIN payload = (applied + 1)..c
    BY <1>3, <2>2
  <2> QED BY <1>2, <2>1, <2>2
<1>5. \A j \in Jobs : j.index \in Nat
  BY DEF Jobs, Indexes
(* An installation, or a rebuild, is still ahead of what is applied.       *)
<1>6. ASSUME NEW j \in Jobs, Beyond(j), JobOK(j) PROVE JobOK(j)'
  <2>1. j.index \in Nat
    BY <1>5
  <2>2. j.op # "create" => applied < j.index
    BY <1>6 DEF JobOK, Writes, Rereads
  <2>3. j.op # "create" => applied' < j.index
    <3>1. CASE Overtaken /\ applied' = applied
      BY <2>2, <3>1
    <3>2. CASE \E c \in (applied + 1)..committed :
                 applied' = c /\ DOMAIN payload = (applied + 1)..c
      <4>1. applied' \in DOMAIN payload
        BY <1>3, <3>2
      <4> QED BY <1>6, <4>1 DEF Beyond
    <3> QED BY <1>2, <3>1, <3>2
  <2>4. j.op = "create" => j.index <= applied'
    BY <1>3, <1>4, <1>6, <2>1 DEF JobOK, Writes
  <2>5. CASE j.op = "read"
    BY <1>1, <1>6, <2>3, <2>5 DEF JobOK, Rereads
  <2>6. CASE j.op # "read"
    BY <1>1, <1>6, <2>3, <2>4, <2>6 DEF JobOK, Writes, Follows
  <2> QED BY <2>5, <2>6
<1>7. /\ \A k \in DOMAIN jobs : jobs[k] \in Jobs /\ Beyond(jobs[k])
      /\ \A k \in DOMAIN done : done[k].job \in Jobs /\ Beyond(done[k].job)
  BY <1>1, QueueTypes DEF PayloadOK
<1>8. PendingOK'
  <2>1. \A k \in DOMAIN jobs : JobOK(jobs[k])'
    BY <1>1, <1>6, <1>7 DEF PendingOK
  <2>2. \A k \in DOMAIN done : JobOK(done[k].job)'
    BY <1>1, <1>6, <1>7 DEF PendingOK, ResultOK
  <2>3. \A k \in DOMAIN done : ResultOK(done[k])'
    BY <1>1, <2>2 DEF PendingOK, ResultOK, Follows
  <2> QED BY <1>1, <2>1, <2>3 DEF PendingOK
<1>9. TypeOK'
  BY <1>1, <1>2, <1>3, <1>4 DEF TypeOK
<1>10. InOrder'
  BY <1>1, <1>2 DEF InOrder
<1>11. SnapshotOK'
  <2>1. snapshot # None => snapshot.index <= applied' \/ "installing" \in raft'
    BY <1>2, <1>3, <1>4, Counters DEF SnapshotOK
  <2> QED BY <1>1, <2>1 DEF SnapshotOK, Follows
<1>12. LogOK' /\ PayloadOK' /\ CleanupIsCovered'
  BY <1>1 DEF LogOK, PayloadOK, CleanupIsCovered
<1>13. AppliedOK'
  <2>1. \A k \in DOMAIN sm : k \in Nat /\ k <= applied
    <3>1. sm \in Logs
      BY DEF TypeOK
    <3> QED BY <3>1, LogFacts DEF Indexes, AppliedOK
  <2>2. \A k \in DOMAIN sm' : k <= applied' /\ sm'[k].term = TermOf[k]
    BY <1>2, <1>3, <1>4, <2>1
  <2>3. \A k \in 1..applied : k \in DOMAIN sm' \/ (snapshot # None /\ k <= snapshot.index)
    BY <1>2 DEF AppliedOK
  <2>4. \A k \in 1..applied' : k \in 1..applied \/ k \in DOMAIN sm'
    BY <1>2, <1>3
  <2> QED BY <1>1, <2>2, <2>3, <2>4 DEF AppliedOK
<1> QED BY <1>8, <1>9, <1>10, <1>11, <1>12, <1>13

(***************************************************************************)
(* Starting a snapshot, and the snapshot actor, preserve it.               *)
(***************************************************************************)

(* A job that is added changes nothing of what is pending, and is the last.*)
LEMMA PendingWithJob ==
  ASSUME StorageInv, NEW job \in Jobs, JobOK(job), jobs' = Append(jobs, job),
         UNCHANGED <<snapshot, files, done, log, applied>>
  PROVE  PendingOK' /\ jobs' \in Seq(Jobs) /\ jobs' # <<>> /\ Len(jobs') = Len(jobs) + 1
<1>1. jobs \in Seq(Jobs)
  BY QueueTypes DEF StorageInv
<1>2. /\ jobs' \in Seq(Jobs) /\ jobs' # <<>> /\ Len(jobs') = Len(jobs) + 1
      /\ DOMAIN jobs' = DOMAIN jobs \cup {Len(jobs) + 1}
      /\ jobs'[Len(jobs) + 1] = job
      /\ \A k \in DOMAIN jobs : jobs'[k] = jobs[k]
  BY <1>1, Appended
<1>3. \A j : JobOK(j) => JobOK(j)'
  BY DEF JobOK, Rereads, Writes, Follows
<1>4. \A r : ResultOK(r) => ResultOK(r)'
  BY <1>3 DEF ResultOK, Follows
<1>5. \A k \in DOMAIN jobs' : JobOK(jobs'[k])
  BY <1>2 DEF StorageInv, PendingOK
<1>6. \A k \in DOMAIN jobs' : JobOK(jobs[k])'
  BY <1>3, <1>5
<1>7. \A k \in DOMAIN done : ResultOK(done[k])'
  BY <1>4 DEF StorageInv, PendingOK
<1> QED BY <1>2, <1>6, <1>7 DEF PendingOK

LEMMA InvCreateSnapshot ==
  ASSUME StorageInv, CreateSnapshot
  PROVE  StorageInv'
<1> USE DEF StorageInv
<1> DEFINE entries == Kept(log, Through(applied))
           job == Create(applied, log[applied].term, entries)
<1>1. /\ raft = {} /\ raft' = {"creating"} /\ applied \in DOMAIN log
      /\ snapshot # None => snapshot.index < applied
      /\ jobs' = Append(jobs, job)
      /\ UNCHANGED <<log, sm, snapshot, files, done, lastLog, committed, applied, payload>>
  BY DEF CreateSnapshot, storage, progress
<1>2. log \in Logs
  BY DEF TypeOK
<1>3. /\ applied \in Indexes /\ applied \in Nat /\ applied >= 1 /\ applied <= committed
      /\ committed \in Nat /\ log[applied].term \in Terms
      /\ \A k \in DOMAIN log : k \in Nat /\ k >= 1
  BY <1>1, <1>2, LogFacts, Counters DEF Indexes
<1>4. /\ entries \in Logs /\ DOMAIN entries = DOMAIN log \cap Through(applied)
      /\ \A k \in DOMAIN log \cap Through(applied) : entries[k] = log[k]
  BY <1>2, KeptLog
<1>5. jobs = <<>> /\ done = <<>>
  BY <1>1, QueuesIdle
<1> HIDE DEF entries
<1>6. /\ job \in Jobs /\ job.op = "create" /\ job.index = applied
      /\ job.term = log[applied].term /\ job.entries = entries
  BY <1>3, <1>4 DEF Create, Jobs
<1> HIDE DEF job
<1>7. Follows(entries, applied)
  BY <1>1, <1>3, <1>4 DEF Follows, Through, LogOK
<1>8. JobOK(job)
  BY <1>1, <1>3, <1>6, <1>7 DEF JobOK, Writes, LogOK
<1>9. PendingOK' /\ jobs' \in Seq(Jobs)
  BY <1>1, <1>6, <1>8, PendingWithJob
<1>10. TypeOK'
  BY <1>1, <1>9 DEF TypeOK
<1>11. InOrder'
  <2>1. Len(jobs) = 0 /\ DOMAIN jobs = {} /\ jobs \in Seq(Jobs)
    BY <1>5
  <2>2. DOMAIN jobs' = {1} /\ jobs'[1] = job
    BY <1>1, <1>6, <2>1, Appended
  <2>3. DOMAIN done' = {} /\ done' = <<>>
    BY <1>1, <1>5
  <2> QED BY <1>1, <1>6, <2>2, <2>3 DEF InOrder
<1>12. SnapshotOK'
  BY <1>1 DEF SnapshotOK, Follows
<1>13. LogOK' /\ AppliedOK' /\ CleanupIsCovered'
  BY <1>1 DEF LogOK, AppliedOK, CleanupIsCovered
<1>14. PayloadOK'
  <2>1. jobs \in Seq(Jobs) /\ Len(jobs) = 0 /\ DOMAIN jobs = {}
    BY <1>5
  <2>2. DOMAIN jobs' = {1} /\ jobs'[1] = job
    BY <1>1, <1>6, <2>1, Appended
  <2>3. DOMAIN done' = {}
    BY <1>1, <1>5
  <2> QED BY <1>1, <1>6, <2>2, <2>3 DEF PayloadOK, Overtaken, Beyond
<1> QED BY <1>9, <1>10, <1>11, <1>12, <1>13, <1>14

LEMMA InvInstallSnapshot ==
  ASSUME StorageInv, NEW i \in Indexes, NEW entries \in Streams(i),
         InstallSnapshot(i, entries)
  PROVE  StorageInv'
<1> USE DEF StorageInv
<1> DEFINE job == Install(i, TermOf[i], entries)
<1>1. /\ "installing" \notin raft /\ i > applied
      /\ payload # None => \A k \in DOMAIN payload : k < i
      /\ jobs' = Append(jobs, job) /\ raft' = raft \cup {"installing"}
      /\ UNCHANGED <<log, sm, snapshot, files, done, lastLog, committed, applied, payload>>
  BY DEF InstallSnapshot, storage, progress
<1>2. entries \in Logs /\ Follows(entries, i)
  BY StreamsFollow
<1>3. TermOf[i] \in Terms
  BY StorageAssumption
<1>4. /\ job \in Jobs /\ job.op = "install" /\ job.index = i
      /\ job.term = TermOf[i] /\ job.entries = entries
  BY <1>2, <1>3 DEF Install, Jobs
<1> HIDE DEF job
<1>5. i \in Nat /\ applied \in Nat /\ (snapshot # None => snapshot.index \in Nat)
  BY Counters DEF Indexes
<1>6. snapshot # None => snapshot.index < i
  BY <1>1, <1>5 DEF SnapshotOK
<1>7. JobOK(job)
  BY <1>1, <1>2, <1>4, <1>5, <1>6 DEF JobOK, Writes
<1>8. PendingOK' /\ jobs' \in Seq(Jobs) /\ Len(jobs') = Len(jobs) + 1
  BY <1>1, <1>4, <1>7, PendingWithJob
<1>9. TypeOK'
  BY <1>1, <1>8 DEF TypeOK
<1>10. InOrder'
  <2>1. jobs \in Seq(Jobs)
    BY QueueTypes
  <2>2. /\ DOMAIN jobs' = DOMAIN jobs \cup {Len(jobs) + 1} /\ jobs'[Len(jobs) + 1] = job
        /\ \A k \in DOMAIN jobs : jobs'[k] = jobs[k]
    BY <1>1, <1>4, <2>1, Appended
  <2>3. /\ \A k \in DOMAIN jobs : jobs[k].op = "create" /\ k = 1
        /\ \A k \in DOMAIN done : done[k].job.op = "create" /\ k = 1
    BY <1>1, QueuesIdle
  <2>4. \A k \in DOMAIN jobs : done = <<>> /\ "creating" \in raft
    BY <2>3 DEF InOrder
  <2>5. \A k \in DOMAIN done : "creating" \in raft
    BY <2>3 DEF InOrder
  <2> QED BY <1>1, <1>4, <1>8, <2>2, <2>3, <2>4, <2>5 DEF InOrder
<1>11. SnapshotOK'
  BY <1>1 DEF SnapshotOK, Follows
<1>12. LogOK' /\ AppliedOK' /\ CleanupIsCovered'
  BY <1>1 DEF LogOK, AppliedOK, CleanupIsCovered
<1>13. PayloadOK'
  <2>1. jobs \in Seq(Jobs)
    BY QueueTypes
  <2>2. /\ DOMAIN jobs' = DOMAIN jobs \cup {Len(jobs) + 1} /\ jobs'[Len(jobs) + 1] = job
        /\ \A k \in DOMAIN jobs : jobs'[k] = jobs[k]
    BY <1>1, <1>4, <2>1, Appended
  <2>3. payload # None => Beyond(job)
    BY <1>1, <1>4 DEF Beyond
  <2> QED BY <1>1, <2>2, <2>3 DEF PayloadOK, Overtaken, Beyond
<1> QED BY <1>8, <1>9, <1>10, <1>11, <1>12, <1>13

(* What the snapshot actor returns of a job, and what it leaves in the     *)
(* files.                                                                  *)
LEMMA JobResult ==
  ASSUME StorageInv, NEW ok \in BOOLEAN, DoJob(ok)
  PROVE  \E result \in Results :
           /\ done' = Append(done, result)
           /\ result.job.op = Head(jobs).op /\ result.job.index = Head(jobs).index
           /\ Head(jobs).op = "read" => files' = files
           /\ Head(jobs).op # "read" =>
                /\ result.job = Head(jobs)
                /\ files' \in [Indexes -> Logs \cup {None, Broken}]
                /\ result.ok => files'[Head(jobs).index] = Head(jobs).entries
                /\ \A i \in Indexes \ {Head(jobs).index} : files'[i] = files[i]
           /\ Head(jobs).op = "read" /\ result.ok =>
                result.job.entries = files[Head(jobs).index]
<1> DEFINE job == Head(jobs)
           read == job.op = "read"
           readable == files[job.index] \notin {None, Broken}
           returned == IF read /\ readable THEN [job EXCEPT !.entries = files[job.index]]
                       ELSE job
           result == [job |-> returned, ok |-> ok /\ (read => readable)]
<1>1. job \in Jobs
  BY QueueTypes, Removed DEF StorageInv, DoJob
<1>2. /\ files' = IF read THEN files
                  ELSE [files EXCEPT ![job.index] = IF ok THEN job.entries ELSE Broken]
      /\ done' = Append(done, result)
  BY DEF DoJob, Performed
<1> HIDE DEF job
<1>3. job.index \in Indexes /\ job.entries \in Logs
  BY <1>1 DEF Jobs
<1>4. files \in [Indexes -> Logs \cup {None, Broken}]
  BY DEF StorageInv, TypeOK
<1>5. readable => files[job.index] \in Logs
  BY <1>3, <1>4
<1>6. /\ returned \in Jobs /\ returned.op = job.op /\ returned.index = job.index
      /\ read /\ readable => returned.entries = files[job.index]
      /\ ~read => returned = job
  BY <1>1, <1>5 DEF Jobs
<1> HIDE DEF returned
<1>7. /\ result \in Results /\ result.job = returned
      /\ result.ok => ok /\ (read => readable)
  BY <1>6 DEF Results
<1>8. ~read =>
        /\ files' \in [Indexes -> Logs \cup {None, Broken}]
        /\ ok => files'[job.index] = job.entries
        /\ \A i \in Indexes \ {job.index} : files'[i] = files[i]
  BY <1>2, <1>3, <1>4
<1> HIDE DEF result
<1>9. /\ done' = Append(done, result) /\ result \in Results
      /\ result.job.op = job.op /\ result.job.index = job.index
      /\ read => files' = files
      /\ ~read =>
           /\ result.job = job
           /\ files' \in [Indexes -> Logs \cup {None, Broken}]
           /\ result.ok => files'[job.index] = job.entries
           /\ \A i \in Indexes \ {job.index} : files'[i] = files[i]
      /\ read /\ result.ok => result.job.entries = files[job.index]
  BY <1>2, <1>6, <1>7, <1>8
<1> QED BY <1>9 DEF job

LEMMA InvDoJob ==
  ASSUME StorageInv, NEW ok \in BOOLEAN, DoJob(ok)
  PROVE  StorageInv'
<1> USE DEF StorageInv
<1>1. /\ jobs # <<>> /\ jobs' = Tail(jobs)
      /\ UNCHANGED <<log, sm, snapshot, lastLog, committed, applied, payload, raft>>
  BY DEF DoJob, Performed, storage, progress
<1>2. /\ jobs \in Seq(Jobs) /\ done \in Seq(Results)
      /\ \A k \in DOMAIN done : done[k].job \in Jobs
  BY QueueTypes
<1> DEFINE job == Head(jobs)
<1>3. PICK result \in Results :
        /\ done' = Append(done, result)
        /\ result.job.op = job.op /\ result.job.index = job.index
        /\ job.op = "read" => files' = files
        /\ job.op # "read" =>
             /\ result.job = job
             /\ files' \in [Indexes -> Logs \cup {None, Broken}]
             /\ result.ok => files'[job.index] = job.entries
             /\ \A i \in Indexes \ {job.index} : files'[i] = files[i]
        /\ job.op = "read" /\ result.ok => result.job.entries = files[job.index]
  BY JobResult
<1>4. /\ Tail(jobs) \in Seq(Jobs) /\ Len(Tail(jobs)) = Len(jobs) - 1
      /\ 1 \in DOMAIN jobs /\ job = jobs[1] /\ job \in Jobs
      /\ \A k \in DOMAIN Tail(jobs) :
           k \in Nat /\ k >= 1 /\ k + 1 \in DOMAIN jobs /\ Tail(jobs)[k] = jobs[k + 1]
      /\ Len(jobs) = 1 => Tail(jobs) = <<>>
  BY <1>1, <1>2, Removed
<1> HIDE DEF job
<1>5. /\ done' \in Seq(Results) /\ done' # <<>> /\ Len(done') = Len(done) + 1
      /\ DOMAIN done' = DOMAIN done \cup {Len(done) + 1}
      /\ done'[Len(done) + 1] = result
      /\ \A k \in DOMAIN done : done'[k] = done[k]
  BY <1>2, <1>3, Appended
<1>6. /\ job.index \in Indexes /\ job.index \in Nat /\ Len(jobs) \in Nat
      /\ applied \in Nat /\ (snapshot # None => snapshot.index \in Indexes)
      /\ (snapshot # None => snapshot.index \in Nat)
  BY <1>2, <1>4, Counters DEF Jobs, Indexes
<1>7. JobOK(job)
  BY <1>4 DEF PendingOK
(* What is ahead of the job, and what is behind it.                        *)
<1>8. /\ job.op = "create" => done = <<>> /\ "creating" \in raft
      /\ job.op # "create" =>
           /\ Tail(jobs) = <<>> /\ "installing" \in raft
           /\ \A k \in DOMAIN done : done[k].job.op = "create" /\ k = 1
      /\ job.op = "read" => done = <<>>
  <2>1. IF job.op = "create" THEN done = <<>> /\ "creating" \in raft
        ELSE 1 = Len(jobs) /\ "installing" \in raft /\ (job.op = "read" => done = <<>>)
    BY <1>4 DEF InOrder
  <2>2. \A k \in DOMAIN done : done[k].job.op = "create" /\ k = 1
    BY <1>1 DEF InOrder
  <2> QED BY <1>4, <2>1, <2>2
<1>9. \A k \in DOMAIN Tail(jobs) :
        /\ Tail(jobs)[k].op \notin {"create", "read"}
        /\ k = Len(Tail(jobs)) /\ "installing" \in raft
  <2> TAKE k \in DOMAIN Tail(jobs)
  <2>1. k + 1 # 1 /\ k + 1 \in DOMAIN jobs /\ Tail(jobs)[k] = jobs[k + 1] /\ k \in Nat
    BY <1>4
  <2>2. /\ jobs[k + 1].op # "create" /\ jobs[k + 1].op # "read"
        /\ k + 1 = Len(jobs) /\ "installing" \in raft
    BY <2>1 DEF InOrder
  <2>3. Len(Tail(jobs)) = Len(jobs) - 1
    BY <1>4
  <2>4. k = Len(Tail(jobs))
    BY <1>6, <2>1, <2>2, <2>3
  <2> QED BY <2>1, <2>2, <2>4
<1>10. TypeOK'
  <2>1. files' \in [Indexes -> Logs \cup {None, Broken}]
    BY <1>3 DEF TypeOK
  <2> QED BY <1>1, <1>4, <1>5, <2>1 DEF TypeOK, Results
<1>11. InOrder'
  <2>1. \A k \in DOMAIN jobs' :
          IF jobs'[k].op = "create"
          THEN k = 1 /\ done' = <<>> /\ "creating" \in raft'
          ELSE /\ k = Len(jobs') /\ "installing" \in raft'
               /\ jobs'[k].op = "read" => k = 1 /\ done' = <<>>
    BY <1>1, <1>9
  <2>2. \A k \in DOMAIN done :
          /\ done[k].job.op = "create" /\ k = 1 /\ "creating" \in raft
    BY <1>1 DEF InOrder
  <2>3. IF result.job.op = "create"
        THEN Len(done) + 1 = 1 /\ "creating" \in raft'
        ELSE /\ Len(done) + 1 = Len(done') /\ jobs' = <<>> /\ "installing" \in raft'
             /\ result.job.op = "read" => Len(done) + 1 = 1
    BY <1>1, <1>3, <1>5, <1>8
  <2>4. \A k \in DOMAIN done' :
          IF done'[k].job.op = "create"
          THEN k = 1 /\ "creating" \in raft'
          ELSE /\ k = Len(done') /\ jobs' = <<>> /\ "installing" \in raft'
               /\ done'[k].job.op = "read" => k = 1
    BY <1>1, <1>5, <2>2, <2>3
  <2> QED BY <2>1, <2>4 DEF InOrder
<1>12. \A j : JobOK(j) => JobOK(j)'
  BY <1>1 DEF JobOK, Rereads, Writes, Follows
(* The file that is written is none that is in use.                        *)
<1>13. \A i \in Indexes : i # job.index \/ job.op = "read" => files'[i] = files[i]
  BY <1>3
<1>14. \A k \in DOMAIN done : files'[done[k].job.index] = files[done[k].job.index]
  <2> TAKE k \in DOMAIN done
  <2>1. done[k].job.index \in Indexes /\ done[k].job.index \in Nat
    BY <1>2 DEF Jobs, Indexes
  <2>2. done[k].job.op = "create" /\ Writes(done[k].job)
    BY <1>1 DEF InOrder, PendingOK, ResultOK, JobOK
  <2>3. CASE job.op = "install"
    <3>1. applied < job.index /\ done[k].job.index <= applied
      BY <1>7, <2>2, <2>3 DEF JobOK, Writes
    <3> QED BY <1>6, <1>13, <2>1, <3>1
  <2>4. CASE job.op # "install"
    BY <1>4, <1>8, <1>13, <2>1, <2>4 DEF Jobs
  <2> QED BY <2>3, <2>4
<1>15. snapshot # None => files'[snapshot.index] = files[snapshot.index]
  <2>1. snapshot # None /\ job.op # "read" => snapshot.index < job.index
    BY <1>7 DEF JobOK, Writes
  <2> QED BY <1>6, <1>13, <2>1
<1>16. SnapshotOK'
  BY <1>1, <1>15 DEF SnapshotOK, Follows
<1>17. PendingOK'
  <2>1. \A k \in DOMAIN jobs' : JobOK(jobs[k])'
    <3>1. \A k \in DOMAIN jobs' : JobOK(jobs'[k])
      BY <1>1, <1>4 DEF PendingOK
    <3> QED BY <1>12, <3>1
  <2>2. \A k \in DOMAIN done : ResultOK(done[k]) /\ done'[k] = done[k]
    BY <1>5 DEF PendingOK
  <2>3. \A k \in DOMAIN done : ResultOK(done[k])'
    BY <1>12, <1>14, <2>2 DEF ResultOK, Follows
  <2>4. JobOK(result.job)'
    <3>1. JobOK(result.job)
      BY <1>3, <1>7 DEF JobOK, Rereads
    <3> QED BY <1>12, <3>1
  <2>5. result.ok => IF result.job.op = "read"
                     THEN Follows(result.job.entries, result.job.index)
                     ELSE files'[result.job.index] = result.job.entries
    <3>1. job.op = "read" => snapshot # None /\ snapshot.index = job.index
      BY <1>7 DEF JobOK, Rereads
    <3> QED BY <1>3, <3>1 DEF SnapshotOK
  <2>6. ASSUME NEW k \in DOMAIN done' PROVE ResultOK(done[k])'
    <3>1. CASE k \in DOMAIN done
      BY <2>3, <3>1
    <3>2. CASE k = Len(done) + 1
      BY <1>5, <2>4, <2>5, <3>2 DEF ResultOK, Follows
    <3> QED BY <1>5, <3>1, <3>2
  <2> QED BY <2>1, <2>6 DEF PendingOK
<1>18. LogOK' /\ AppliedOK' /\ CleanupIsCovered'
  BY <1>1 DEF LogOK, AppliedOK, CleanupIsCovered
<1>19. PayloadOK'
  <2>1. payload # None => Beyond(job) /\ Beyond(result.job)
    BY <1>3, <1>4 DEF PayloadOK, Beyond
  <2>2. payload # None => \A k \in DOMAIN jobs' : Beyond(jobs'[k])
    BY <1>1, <1>4 DEF PayloadOK
  <2>3. payload # None => \A k \in DOMAIN done' : Beyond(done'[k].job)
    BY <1>5, <2>1 DEF PayloadOK
  <2> QED BY <1>1, <2>2, <2>3 DEF PayloadOK, Overtaken, Beyond
<1> QED BY <1>10, <1>11, <1>16, <1>17, <1>18, <1>19

(***************************************************************************)
(* Taking up the results preserves it.                                     *)
(***************************************************************************)

(* What is left in the queue of results when the first is taken up: only   *)
(* an installation is behind a creation, and nothing behind the others.    *)
LEMMA AfterTakeUp ==
  ASSUME StorageInv, done # <<>>, TakeUp
  PROVE  /\ done' \in Seq(Results)
         /\ \A k \in DOMAIN done' :
              /\ k = 1 /\ k = Len(done') /\ jobs = <<>> /\ "installing" \in raft
              /\ done'[k].job.op \notin {"create", "read"} /\ ResultOK(done'[k])
         /\ \A k \in DOMAIN jobs :
              /\ k = Len(jobs) /\ "installing" \in raft
              /\ jobs[k].op \notin {"create", "read"} /\ JobOK(jobs[k])
<1> USE DEF StorageInv
<1>1. done \in Seq(Results)
  BY QueueTypes
<1>2. /\ done' \in Seq(Results) /\ Len(done') = Len(done) - 1
      /\ \A k \in DOMAIN done' :
           k \in Nat /\ k >= 1 /\ k + 1 \in DOMAIN done /\ done'[k] = done[k + 1]
  BY <1>1, Removed DEF TakeUp
<1>3. Len(done) \in Nat
  BY <1>1
<1>4. ASSUME NEW k \in DOMAIN done'
      PROVE  /\ k = Len(done') /\ jobs = <<>> /\ "installing" \in raft
             /\ done'[k].job.op \notin {"create", "read"} /\ ResultOK(done'[k])
  <2>1. k + 1 # 1 /\ k + 1 \in DOMAIN done /\ done'[k] = done[k + 1] /\ k \in Nat
    BY <1>2, <1>4
  <2>2. /\ done[k + 1].job.op # "create" /\ done[k + 1].job.op # "read"
        /\ k + 1 = Len(done) /\ jobs = <<>> /\ "installing" \in raft
    BY <2>1 DEF InOrder
  <2>3. ResultOK(done[k + 1])
    BY <2>1 DEF PendingOK
  <2>4. k = Len(done')
    BY <1>2, <1>3, <2>1, <2>2
  <2> QED BY <2>1, <2>2, <2>3, <2>4
<1>5. \A k \in DOMAIN done' : k = 1
  BY <1>2, <1>4
<1>6. \A k \in DOMAIN jobs :
        /\ k = Len(jobs) /\ "installing" \in raft
        /\ jobs[k].op \notin {"create", "read"} /\ JobOK(jobs[k])
  BY DEF InOrder, PendingOK
<1> QED BY <1>2, <1>4, <1>5, <1>6

(* The entries fetched stay behind the snapshots that are pending.         *)
LEMMA PayloadAfterTakeUp ==
  ASSUME StorageInv, payload # None, done # <<>>, TakeUp
  PROVE  /\ Beyond(Head(done).job)
         /\ \A k \in DOMAIN done' : Beyond(done'[k].job)
         /\ \A k \in DOMAIN jobs : Beyond(jobs[k])
<1>1. done \in Seq(Results)
  BY QueueTypes DEF StorageInv
<1>2. /\ 1 \in DOMAIN done /\ Head(done) = done[1]
      /\ \A k \in DOMAIN done' : k + 1 \in DOMAIN done /\ done'[k] = done[k + 1]
  BY <1>1, Removed DEF TakeUp
<1> QED BY <1>2 DEF StorageInv, PayloadOK

LEMMA InvJobFails ==
  ASSUME StorageInv, JobFails
  PROVE  StorageInv'
<1> USE DEF StorageInv
<1>1. /\ done # <<>> /\ TakeUp /\ raft' = raft \cup {"stopped"}
      /\ UNCHANGED <<log, sm, snapshot, files, jobs, lastLog, committed, applied, payload>>
  BY DEF JobFails, storage, progress
<1>2. /\ done' \in Seq(Results)
      /\ \A k \in DOMAIN done' :
           /\ k = 1 /\ k = Len(done') /\ jobs = <<>> /\ "installing" \in raft
           /\ done'[k].job.op \notin {"create", "read"} /\ ResultOK(done'[k])
      /\ \A k \in DOMAIN jobs :
           /\ k = Len(jobs) /\ "installing" \in raft
           /\ jobs[k].op \notin {"create", "read"} /\ JobOK(jobs[k])
  BY <1>1, AfterTakeUp
<1>3. TypeOK'
  BY <1>1, <1>2 DEF TypeOK, Results
<1>4. InOrder'
  BY <1>1, <1>2 DEF InOrder
<1>5. \A j : JobOK(j) => JobOK(j)'
  BY <1>1 DEF JobOK, Rereads, Writes, Follows
<1>6. \A r : ResultOK(r) => ResultOK(r)'
  BY <1>1, <1>5 DEF ResultOK, Follows
<1>7. PendingOK'
  <2>1. \A k \in DOMAIN jobs' : JobOK(jobs[k])'
    BY <1>1, <1>2, <1>5
  <2>2. \A k \in DOMAIN done' : ResultOK(done[k])'
    BY <1>2, <1>6
  <2> QED BY <2>1, <2>2 DEF PendingOK
<1>8. SnapshotOK'
  BY <1>1 DEF SnapshotOK, Follows
<1>9. LogOK' /\ AppliedOK' /\ CleanupIsCovered'
  BY <1>1 DEF LogOK, AppliedOK, CleanupIsCovered
<1>10. PayloadOK'
  BY <1>1, PayloadAfterTakeUp DEF PayloadOK, Overtaken, Beyond
<1> QED BY <1>3, <1>4, <1>7, <1>8, <1>9, <1>10

(* The log and the current snapshot after the last step of either kind of  *)
(* snapshot: shortening takes no entry that the new snapshot does not      *)
(* cover.                                                                  *)
LEMMA AfterShorten ==
  ASSUME StorageInv, NEW job \in Jobs, Writes(job),
         log' = Shorten(job.index, job.term), Cache(job)
  PROVE  /\ log' \in Logs /\ snapshot' \in Snapshots /\ snapshot' # None
         /\ snapshot'.index = job.index /\ snapshot'.term = job.term
         /\ job.index \in Indexes /\ job.index \in Nat /\ job.term \in Terms
         /\ job.term = TermOf[job.index]
         /\ job.index \in DOMAIN log' /\ log'[job.index].term = job.term
         /\ \A k \in DOMAIN log' : job.index <= k /\ k \in Nat
         /\ \A k \in DOMAIN log' \ {job.index} : k \in DOMAIN log /\ log'[k] = log[k]
         /\ snapshot # None => snapshot.index < job.index
         /\ \A k \in 1..lastLog : k \in DOMAIN log' \/ k <= job.index
<1> USE DEF StorageInv
<1>1. /\ job.index \in Indexes /\ job.index \in Nat /\ job.term = TermOf[job.index]
      /\ snapshot # None => snapshot.index < job.index
  BY DEF Jobs, Indexes, Writes
<1>2. job.term \in Terms
  BY <1>1, StorageAssumption
<1>3. /\ snapshot' \in Snapshots /\ snapshot'.index = job.index
      /\ snapshot'.term = job.term
  BY <1>1, <1>2 DEF Cache, Snapshots
<1>4. snapshot' # None
  BY <1>3, StorageAssumption
<1>5. log \in Logs
  BY DEF TypeOK
<1> DEFINE i == job.index
           t == job.term
<1>6. i \in Indexes /\ t \in Terms /\ log' = Shorten(i, t)
  BY <1>1, <1>2
<1> HIDE DEF i, t
<1>7. /\ Shorten(i, t) \in Logs
      /\ \A k \in DOMAIN Shorten(i, t) : i <= k
      /\ i \in DOMAIN Shorten(i, t) /\ Shorten(i, t)[i].term = t
      /\ \A k \in DOMAIN log : i < k => k \in DOMAIN Shorten(i, t)
      /\ \A k \in DOMAIN Shorten(i, t) : k # i =>
           k \in DOMAIN log /\ Shorten(i, t)[k] = log[k]
  BY <1>5, <1>6, ShortenLog
<1>8. /\ log' \in Logs /\ i \in DOMAIN log' /\ log'[i].term = t
      /\ \A k \in DOMAIN log' : i <= k
      /\ \A k \in DOMAIN log' \ {i} : k \in DOMAIN log /\ log'[k] = log[k]
      /\ \A k \in DOMAIN log : i < k => k \in DOMAIN log'
  BY <1>6, <1>7
<1>9. \A k \in DOMAIN log' : k \in Nat
  BY <1>8, LogFacts DEF Indexes
<1>10. \A k \in 1..lastLog : k \in DOMAIN log' \/ k <= job.index
  <2> TAKE k \in 1..lastLog
  <2>1. k \in Nat /\ (snapshot # None => snapshot.index \in Nat)
    BY Counters
  <2>2. k \in DOMAIN log \/ (snapshot # None /\ k <= snapshot.index)
    BY DEF CleanupIsCovered
  <2> QED BY <1>1, <1>8, <2>1, <2>2 DEF i
<1> QED BY <1>1, <1>2, <1>3, <1>4, <1>8, <1>9, <1>10 DEF i, t

LEMMA InvCreated ==
  ASSUME StorageInv, Created
  PROVE  StorageInv'
<1> USE DEF StorageInv
<1> DEFINE job == Head(done).job
<1>1. /\ done # <<>> /\ Head(done).ok /\ job.op = "create"
      /\ log' = Shorten(job.index, job.term) /\ Cache(job) /\ TakeUp
      /\ raft' = raft \ {"creating"}
      /\ UNCHANGED <<sm, files, jobs, lastLog, committed, applied, payload>>
  BY DEF Created, Result, progress
<1>2. /\ job \in Jobs /\ ResultOK(Head(done))
  BY <1>1, NextResult DEF Results
<1>3. Writes(job) /\ files[job.index] = job.entries /\ job.index <= applied
  BY <1>1, <1>2 DEF ResultOK, JobOK, Writes
<1>4. Follows(job.entries, job.index)
  BY <1>3 DEF Writes
<1>5. job.entries \in Logs
  BY <1>2 DEF Jobs
<1> HIDE DEF job
<1>6. /\ log' \in Logs /\ snapshot' \in Snapshots /\ snapshot' # None
      /\ snapshot'.index = job.index /\ snapshot'.term = job.term
      /\ job.index \in Indexes /\ job.index \in Nat /\ job.term \in Terms
      /\ job.term = TermOf[job.index]
      /\ job.index \in DOMAIN log' /\ log'[job.index].term = job.term
      /\ \A k \in DOMAIN log' : job.index <= k /\ k \in Nat
      /\ \A k \in DOMAIN log' \ {job.index} : k \in DOMAIN log /\ log'[k] = log[k]
      /\ snapshot # None => snapshot.index < job.index
      /\ \A k \in 1..lastLog : k \in DOMAIN log' \/ k <= job.index
  BY <1>1, <1>2, <1>3, AfterShorten
<1>7. /\ done' \in Seq(Results)
      /\ \A k \in DOMAIN done' :
           /\ k = 1 /\ k = Len(done') /\ jobs = <<>> /\ "installing" \in raft
           /\ done'[k].job.op \notin {"create", "read"} /\ ResultOK(done'[k])
      /\ \A k \in DOMAIN jobs :
           /\ k = Len(jobs) /\ "installing" \in raft
           /\ jobs[k].op \notin {"create", "read"} /\ JobOK(jobs[k])
  BY <1>1, AfterTakeUp
<1>8. applied \in Nat /\ (snapshot # None => snapshot.index \in Nat)
  BY Counters
<1>9. TypeOK'
  BY <1>1, <1>6, <1>7 DEF TypeOK, Results
<1>10. InOrder'
  BY <1>1, <1>7 DEF InOrder
<1>11. PendingOK'
  <2>1. ASSUME NEW j \in Jobs, j.op \notin {"create", "read"}, JobOK(j)
        PROVE  JobOK(j)'
    <3>1. j.index \in Nat /\ Writes(j) /\ applied < j.index
      BY <2>1 DEF Jobs, Indexes, JobOK, Writes
    <3>2. snapshot'.index < j.index
      BY <1>3, <1>6, <1>8, <3>1
    <3>3. Writes(j)'
      BY <1>1, <3>1, <3>2 DEF Writes, Follows
    <3> QED BY <2>1, <3>3 DEF JobOK
  <2>2. \A k \in DOMAIN jobs' : JobOK(jobs[k])'
    BY <1>1, <1>7, <2>1, QueueTypes
  <2>3. \A k \in DOMAIN done' : JobOK(done[k].job)'
    <3>1. \A r \in Results : r.job \in Jobs
      BY DEF Results
    <3>2. \A k \in DOMAIN done' : done'[k] \in Results
      BY <1>7
    <3>3. \A k \in DOMAIN done' : done'[k].job \in Jobs /\ JobOK(done'[k].job)
      BY <1>7, <3>1, <3>2 DEF ResultOK
    <3> QED BY <1>7, <2>1, <3>3
  <2>4. \A k \in DOMAIN done' : ResultOK(done[k])'
    BY <1>1, <1>7, <2>3 DEF ResultOK
  <2> QED BY <2>2, <2>4 DEF PendingOK
<1>12. SnapshotOK'
  BY <1>1, <1>3, <1>4, <1>5, <1>6 DEF SnapshotOK, Follows
<1>13. LogOK'
  BY <1>1, <1>6 DEF LogOK
<1>14. AppliedOK'
  <2>1. \A k \in 1..applied : k \in DOMAIN sm \/ k <= job.index
    <3> TAKE k \in 1..applied
    <3>1. k \in DOMAIN sm \/ (snapshot # None /\ k <= snapshot.index)
      BY DEF AppliedOK
    <3> QED BY <1>6, <1>8, <3>1
  <2> QED BY <1>1, <1>6, <2>1 DEF AppliedOK
<1>15. PayloadOK'
  <2>1. payload # None =>
          /\ \A k \in DOMAIN done' : Beyond(done'[k].job)
          /\ \A k \in DOMAIN jobs : Beyond(jobs[k])
    BY <1>1, PayloadAfterTakeUp
  <2>2. payload # None => DOMAIN payload \subseteq Nat
    BY LogFacts DEF TypeOK, Indexes
  <2>3. payload # None /\ Overtaken => Overtaken'
    BY <1>1, <1>6, <1>8, <2>2 DEF Overtaken
  <2> QED BY <1>1, <2>1, <2>3 DEF PayloadOK, Beyond
<1>16. CleanupIsCovered'
  BY <1>1, <1>6 DEF CleanupIsCovered
<1> QED BY <1>9, <1>10, <1>11, <1>12, <1>13, <1>14, <1>15, <1>16

(* Raft's counters after an installation.                                  *)
LEMMA AfterFinish ==
  ASSUME TypeOK, NEW index \in Indexes, Finish(index)
  PROVE  /\ applied' = index /\ raft' = raft \ {"installing"}
         /\ lastLog' \in 0..LastIndex /\ committed' \in 0..lastLog'
         /\ applied' \in 0..committed'
         /\ committed' = committed \/ committed' = index
         /\ lastLog' = lastLog \/ lastLog' = index
<1>1. /\ lastLog \in Nat /\ committed \in Nat /\ LastIndex \in Nat
      /\ committed <= lastLog /\ lastLog <= LastIndex
      /\ index \in Nat /\ index <= LastIndex
  BY Counters DEF Indexes
<1>2. /\ applied' = index /\ raft' = raft \ {"installing"}
      /\ committed' = IF committed < index THEN index ELSE committed
      /\ lastLog' = IF lastLog < index THEN index ELSE lastLog
  BY DEF Finish
<1> QED BY <1>1, <1>2

LEMMA InvInstalledOverEntry ==
  ASSUME StorageInv, InstalledOverEntry
  PROVE  StorageInv'
<1> USE DEF StorageInv
<1> DEFINE job == Head(done).job
<1>1. /\ done # <<>> /\ Head(done).ok /\ job.op = "install"
      /\ log' = Shorten(job.index, job.term) /\ Cache(job) /\ Finish(job.index) /\ TakeUp
      /\ UNCHANGED <<sm, files, jobs, payload>>
  BY DEF InstalledOverEntry, Result
<1>2. /\ job \in Jobs /\ ResultOK(Head(done))
      /\ jobs = <<>> /\ Tail(done) = <<>> /\ "installing" \in raft
  BY <1>1, NextResult DEF Results
<1>3. Writes(job) /\ files[job.index] = job.entries /\ applied < job.index
  BY <1>1, <1>2 DEF ResultOK, JobOK, Writes
<1>4. Follows(job.entries, job.index)
  BY <1>3 DEF Writes
<1>5. job.entries \in Logs
  BY <1>2 DEF Jobs
<1> HIDE DEF job
<1>6. /\ log' \in Logs /\ snapshot' \in Snapshots /\ snapshot' # None
      /\ snapshot'.index = job.index /\ snapshot'.term = job.term
      /\ job.index \in Indexes /\ job.index \in Nat /\ job.term \in Terms
      /\ job.term = TermOf[job.index]
      /\ job.index \in DOMAIN log' /\ log'[job.index].term = job.term
      /\ \A k \in DOMAIN log' : job.index <= k /\ k \in Nat
      /\ \A k \in DOMAIN log' \ {job.index} : k \in DOMAIN log /\ log'[k] = log[k]
      /\ snapshot # None => snapshot.index < job.index
      /\ \A k \in 1..lastLog : k \in DOMAIN log' \/ k <= job.index
  BY <1>1, <1>2, <1>3, AfterShorten
<1>7. /\ applied' = job.index /\ raft' = raft \ {"installing"}
      /\ lastLog' \in 0..LastIndex /\ committed' \in 0..lastLog'
      /\ applied' \in 0..committed'
      /\ committed' = committed \/ committed' = job.index
      /\ lastLog' = lastLog \/ lastLog' = job.index
  BY <1>1, <1>6, AfterFinish
<1>8. applied \in Nat /\ committed \in Nat
  BY Counters
<1>9. jobs' = <<>> /\ done' = <<>> /\ DOMAIN jobs' = {} /\ DOMAIN done' = {}
  BY <1>1, <1>2 DEF TakeUp
<1>10. TypeOK'
  <2>1. jobs' \in Seq(Jobs) /\ done' \in Seq([job : Jobs, ok : BOOLEAN])
    BY <1>9
  <2> QED BY <1>1, <1>6, <1>7, <2>1 DEF TypeOK
<1>11. InOrder' /\ PendingOK'
  BY <1>9 DEF InOrder, PendingOK
<1>12. SnapshotOK'
  BY <1>1, <1>3, <1>4, <1>5, <1>6, <1>7 DEF SnapshotOK, Follows
<1>13. LogOK'
  BY <1>6, <1>7, <1>8 DEF LogOK
<1>14. AppliedOK'
  <2>1. \A k \in DOMAIN sm : k \in Nat
    <3>1. sm \in Logs
      BY DEF TypeOK
    <3> QED BY <3>1, LogFacts DEF Indexes
  <2>2. \A k \in DOMAIN sm : k <= job.index /\ sm[k].term = TermOf[k]
    BY <1>3, <1>6, <1>8, <2>1 DEF AppliedOK
  <2>3. \A k \in 1..job.index : k <= job.index
    BY <1>6
  <2> QED BY <1>1, <1>6, <1>7, <2>2, <2>3 DEF AppliedOK
<1>15. PayloadOK'
  <2>1. payload # None => DOMAIN payload \subseteq Nat /\ Beyond(Head(done).job)
    BY <1>1, PayloadAfterTakeUp, LogFacts DEF TypeOK, Indexes
  <2>2. payload # None => \A k \in DOMAIN payload : k < job.index /\ k <= job.index
    BY <1>1, <1>6, <2>1 DEF Beyond, job
  <2>3. payload # None => Overtaken'
    BY <1>1, <1>6, <1>7, <2>2 DEF Overtaken
  <2> QED BY <1>1, <1>9, <2>3 DEF PayloadOK, Beyond
<1>16. CleanupIsCovered'
  <2>1. \A k \in 1..lastLog' : k \in 1..lastLog \/ k <= job.index
    BY <1>6, <1>7
  <2> QED BY <1>6, <2>1 DEF CleanupIsCovered
<1> QED BY <1>10, <1>11, <1>12, <1>13, <1>14, <1>15, <1>16

LEMMA InvInstalled ==
  ASSUME StorageInv, Installed
  PROVE  StorageInv'
<1> USE DEF StorageInv
<1> DEFINE job == Head(done).job
           read == ReadFile(job.index)
<1>1. /\ done # <<>> /\ Head(done).ok /\ job.op = "install"
      /\ log' = Shorten(job.index, job.term) /\ Cache(job) /\ TakeUp
      /\ jobs' = Append(jobs, read)
      /\ UNCHANGED <<sm, files, lastLog, committed, applied, payload, raft>>
  BY DEF Installed, Result, progress
<1>2. /\ job \in Jobs /\ ResultOK(Head(done))
      /\ jobs = <<>> /\ Tail(done) = <<>> /\ "installing" \in raft
  BY <1>1, NextResult DEF Results
<1>3. Writes(job) /\ files[job.index] = job.entries /\ applied < job.index
  BY <1>1, <1>2 DEF ResultOK, JobOK, Writes
<1>4. Follows(job.entries, job.index)
  BY <1>3 DEF Writes
<1>5. job.entries \in Logs /\ job.index \in Indexes
  BY <1>2 DEF Jobs
<1> HIDE DEF job
<1>6. /\ log' \in Logs /\ snapshot' \in Snapshots /\ snapshot' # None
      /\ snapshot'.index = job.index /\ snapshot'.term = job.term
      /\ job.index \in Indexes /\ job.index \in Nat /\ job.term \in Terms
      /\ job.term = TermOf[job.index]
      /\ job.index \in DOMAIN log' /\ log'[job.index].term = job.term
      /\ \A k \in DOMAIN log' : job.index <= k /\ k \in Nat
      /\ \A k \in DOMAIN log' \ {job.index} : k \in DOMAIN log /\ log'[k] = log[k]
      /\ snapshot # None => snapshot.index < job.index
      /\ \A k \in 1..lastLog : k \in DOMAIN log' \/ k <= job.index
  BY <1>1, <1>2, <1>3, AfterShorten
<1>7. read \in Jobs /\ read.op = "read" /\ read.index = job.index
  BY <1>5, NoEntriesLog DEF ReadFile, Jobs
<1> HIDE DEF read
<1>8. done' = <<>> /\ DOMAIN done' = {}
  BY <1>1, <1>2 DEF TakeUp
<1>9. /\ jobs' \in Seq(Jobs) /\ DOMAIN jobs' = {1} /\ jobs'[1] = read /\ Len(jobs') = 1
  <2>1. jobs \in Seq(Jobs) /\ Len(jobs) = 0 /\ DOMAIN jobs = {}
    BY <1>2
  <2> QED BY <1>1, <1>7, <2>1, Appended
<1>10. TypeOK'
  <2>1. done' \in Seq([job : Jobs, ok : BOOLEAN])
    BY <1>8
  <2> QED BY <1>1, <1>6, <1>9, <2>1 DEF TypeOK
<1>11. InOrder'
  BY <1>1, <1>2, <1>7, <1>8, <1>9 DEF InOrder
<1>12. PendingOK'
  <2>1. JobOK(jobs[1])'
    BY <1>1, <1>3, <1>6, <1>7, <1>9 DEF JobOK, Rereads
  <2> QED BY <1>8, <1>9, <2>1 DEF PendingOK
<1>13. SnapshotOK'
  BY <1>1, <1>2, <1>3, <1>4, <1>5, <1>6 DEF SnapshotOK, Follows
<1>14. LogOK'
  BY <1>1, <1>6 DEF LogOK
<1>15. AppliedOK'
  <2>1. \A k \in 1..applied : k \in DOMAIN sm \/ k <= job.index
    <3> TAKE k \in 1..applied
    <3>1. applied \in Nat /\ (snapshot # None => snapshot.index \in Nat)
      BY Counters
    <3>2. k \in DOMAIN sm \/ (snapshot # None /\ k <= snapshot.index)
      BY DEF AppliedOK
    <3> QED BY <1>6, <3>1, <3>2
  <2> QED BY <1>1, <1>6, <2>1 DEF AppliedOK
<1>16. PayloadOK'
  <2>1. payload # None => DOMAIN payload \subseteq Nat /\ Beyond(Head(done).job)
    BY <1>1, PayloadAfterTakeUp, LogFacts DEF TypeOK, Indexes
  <2>2. payload # None => \A k \in DOMAIN payload : k < job.index
    BY <1>1, <2>1 DEF Beyond, job
  <2>3. payload # None /\ Overtaken => Overtaken'
    BY <1>1, <1>6, <2>2 DEF Overtaken
  <2>4. payload # None => \A k \in DOMAIN jobs' : Beyond(jobs'[k])
    BY <1>7, <1>9, <2>2 DEF Beyond
  <2> QED BY <1>1, <1>8, <2>3, <2>4 DEF PayloadOK, Beyond
<1>17. CleanupIsCovered'
  BY <1>1, <1>6 DEF CleanupIsCovered
<1> QED BY <1>10, <1>11, <1>12, <1>13, <1>14, <1>15, <1>16, <1>17

LEMMA InvRebuilt ==
  ASSUME StorageInv, Rebuilt
  PROVE  StorageInv'
<1> USE DEF StorageInv
<1> DEFINE job == Head(done).job
<1>1. /\ done # <<>> /\ Head(done).ok /\ job.op = "read"
      /\ sm' = job.entries /\ Finish(job.index) /\ TakeUp
      /\ UNCHANGED <<log, snapshot, files, jobs, payload>>
  BY DEF Rebuilt, Result
<1>2. /\ job \in Jobs /\ ResultOK(Head(done))
      /\ jobs = <<>> /\ Tail(done) = <<>> /\ "installing" \in raft
  BY <1>1, NextResult DEF Results
<1>3. Rereads(job) /\ Follows(job.entries, job.index)
  BY <1>1, <1>2 DEF ResultOK, JobOK
<1>4. job.entries \in Logs /\ job.index \in Indexes /\ job.index \in Nat
  BY <1>2 DEF Jobs, Indexes
<1> HIDE DEF job
<1>5. /\ snapshot # None /\ snapshot.index = job.index
      /\ job.index \in DOMAIN log /\ log[job.index].term = TermOf[job.index]
      /\ \A k \in DOMAIN log : job.index <= k
      /\ \A k \in DOMAIN job.entries : k \in 1..job.index /\ job.entries[k].term = TermOf[k]
  BY <1>3 DEF Rereads, Follows
<1>6. /\ applied' = job.index /\ raft' = raft \ {"installing"}
      /\ lastLog' \in 0..LastIndex /\ committed' \in 0..lastLog'
      /\ applied' \in 0..committed'
      /\ committed' = committed \/ committed' = job.index
      /\ lastLog' = lastLog \/ lastLog' = job.index
  BY <1>1, <1>4, AfterFinish
<1>7. jobs' = <<>> /\ done' = <<>> /\ DOMAIN jobs' = {} /\ DOMAIN done' = {}
  BY <1>1, <1>2 DEF TakeUp
<1>8. TypeOK'
  <2>1. jobs' \in Seq(Jobs) /\ done' \in Seq([job : Jobs, ok : BOOLEAN])
    BY <1>7
  <2> QED BY <1>1, <1>4, <1>6, <2>1 DEF TypeOK
<1>9. InOrder' /\ PendingOK'
  BY <1>7 DEF InOrder, PendingOK
<1>10. SnapshotOK'
  BY <1>1, <1>4, <1>5, <1>6 DEF SnapshotOK, Follows
<1>11. LogOK'
  <2>1. \A k \in DOMAIN log : k \in Nat
    <3>1. log \in Logs
      BY DEF TypeOK
    <3> QED BY <3>1, LogFacts DEF Indexes
  <2> QED BY <1>1, <1>4, <1>5, <1>6, <2>1 DEF LogOK
<1>12. AppliedOK'
  <2>1. \A k \in 1..job.index : k <= job.index
    BY <1>4
  <2> QED BY <1>1, <1>4, <1>5, <1>6, <2>1 DEF AppliedOK
<1>13. PayloadOK'
  <2>1. payload # None => DOMAIN payload \subseteq Nat /\ Beyond(Head(done).job)
    BY <1>1, PayloadAfterTakeUp, LogFacts DEF TypeOK, Indexes
  <2>2. payload # None => \A k \in DOMAIN payload : k < job.index /\ k <= job.index
    BY <1>1, <1>4, <2>1 DEF Beyond, job
  <2>3. payload # None => Overtaken'
    BY <1>1, <1>5, <1>6, <2>2 DEF Overtaken
  <2> QED BY <1>1, <1>7, <2>3 DEF PayloadOK, Beyond
<1>14. CleanupIsCovered'
  <2>1. \A k \in 1..lastLog' : k \in 1..lastLog \/ k <= job.index
    BY <1>4, <1>6
  <2> QED BY <1>1, <1>5, <2>1 DEF CleanupIsCovered
<1> QED BY <1>8, <1>9, <1>10, <1>11, <1>12, <1>13, <1>14

(***************************************************************************)
(* The theorems.                                                           *)
(***************************************************************************)
LEMMA InvStep == StorageInv /\ [Next]_vars => StorageInv'
<1> SUFFICES ASSUME StorageInv, [Next]_vars PROVE StorageInv'
  OBVIOUS
<1>1. ASSUME NEW i \in Indexes, NEW term \in Terms, Replicate(i, term) PROVE StorageInv'
  BY <1>1, InvReplicate
<1>2. ASSUME NEW i \in Indexes, Commit(i) PROVE StorageInv'
  BY <1>2, InvCommit
<1>3. CASE FetchEntries
  BY <1>3, InvFetchEntries
<1>4. CASE ApplyEntries
  BY <1>4, InvApplyEntries
<1>14. CASE HandEntry
  BY <1>14, InvHandEntry
<1>5. CASE CreateSnapshot
  BY <1>5, InvCreateSnapshot
<1>6. ASSUME NEW i \in Indexes, NEW entries \in Streams(i), InstallSnapshot(i, entries)
      PROVE  StorageInv'
  BY <1>6, InvInstallSnapshot
<1>7. ASSUME NEW ok \in BOOLEAN, DoJob(ok) PROVE StorageInv'
  BY <1>7, InvDoJob
<1>8. CASE JobFails
  BY <1>8, InvJobFails
<1>9. CASE Created
  BY <1>9, InvCreated
<1>10. CASE InstalledOverEntry
  BY <1>10, InvInstalledOverEntry
<1>11. CASE Installed
  BY <1>11, InvInstalled
<1>12. CASE Rebuilt
  BY <1>12, InvRebuilt
<1>13. CASE UNCHANGED vars
  <2>1. UNCHANGED <<log, sm, snapshot, files, jobs, done, lastLog, committed, applied,
                    payload, raft>>
    BY <1>13 DEF vars, storage, actor, progress
  <2>2. TypeOK' /\ InOrder'
    BY <2>1 DEF StorageInv, TypeOK, InOrder
  <2>3. PendingOK'
    BY <2>1, PendingFrame
  <2>4. SnapshotOK' /\ LogOK'
    BY <2>1 DEF StorageInv, SnapshotOK, Follows, LogOK
  <2>5. AppliedOK' /\ PayloadOK' /\ CleanupIsCovered'
    BY <2>1 DEF StorageInv, AppliedOK, PayloadOK, Overtaken, Beyond, CleanupIsCovered
  <2> QED BY <2>2, <2>3, <2>4, <2>5 DEF StorageInv
<1> QED BY <1>1, <1>2, <1>3, <1>4, <1>5, <1>6, <1>7, <1>8, <1>9, <1>10, <1>11, <1>12,
           <1>13, <1>14 DEF Next

(* Whatever is replicated, applied, created, installed, or fails, and in   *)
(* whatever order results are taken up, the parts of the invariant hold.   *)
THEOREM StorageInvariance == Spec => []StorageInv
<1> QED BY InvInit, InvStep, PTL DEF Spec

(* The storage keeps its types: every log holds entries of known indexes   *)
(* and terms, and Raft's counters are in order.                            *)
THEOREM StorageTyping == Spec => []TypeOK
<1>1. StorageInv => TypeOK
  BY DEF StorageInv
<1> QED BY <1>1, StorageInvariance, PTL

(* The current snapshot's file was written to its end and ends with the    *)
(* entry the snapshot is named for.                                        *)
THEOREM CurrentSnapshotIsWhole == Spec => []SnapshotMatchesFile
<1>1. StorageInv => SnapshotMatchesFile
  <2> SUFFICES ASSUME StorageInv, snapshot # None
               PROVE  /\ files[snapshot.index] \notin {None, Broken}
                      /\ snapshot.index \in DOMAIN files[snapshot.index]
                      /\ files[snapshot.index][snapshot.index].term = snapshot.term
                      /\ \A i \in DOMAIN files[snapshot.index] : i <= snapshot.index
    BY DEF SnapshotMatchesFile
  <2>1. /\ files[snapshot.index] \in Logs
        /\ Follows(files[snapshot.index], snapshot.index)
        /\ snapshot.term = TermOf[snapshot.index]
    BY DEF StorageInv, SnapshotOK
  <2>2. snapshot.index \in Nat
    BY Counters DEF StorageInv
  <2>3. files[snapshot.index] \notin {None, Broken}
    BY <2>1, LogFacts
  <2> QED BY <2>1, <2>2, <2>3 DEF Follows
<1> QED BY <1>1, StorageInvariance, PTL

(* No entry of Raft's log is lost but to a snapshot that covers it.        *)
THEOREM NothingIsLost == Spec => []CleanupIsCovered
<1>1. StorageInv => CleanupIsCovered
  BY DEF StorageInv
<1> QED BY <1>1, StorageInvariance, PTL

(* An entry is applied over one in the state machine only if an installed  *)
(* snapshot covers all that was fetched with it, and it is the same entry. *)
THEOREM OnlyItselfIsOverwritten == Spec => []OverwritesOnlyItself
<1>1. StorageInv => OverwritesOnlyItself
  <2> SUFFICES ASSUME StorageInv, payload # None,
                      NEW k \in DOMAIN payload \cap DOMAIN sm
               PROVE  /\ payload[k].term = sm[k].term
                      /\ snapshot # None /\ \A j \in DOMAIN payload : j < snapshot.index
    BY DEF OverwritesOnlyItself
  <2>1. payload[k].term = TermOf[k] /\ sm[k].term = TermOf[k]
    BY DEF StorageInv, PayloadOK, AppliedOK
  <2>2. ~\E c \in (applied + 1)..committed : DOMAIN payload = (applied + 1)..c
    BY NothingAgain
  <2>3. Overtaken
    BY <2>2 DEF StorageInv, PayloadOK
  <2> QED BY <2>1, <2>3 DEF Overtaken
<1> QED BY <1>1, StorageInvariance, PTL

(* The state machine holds committed entries only, and lacks none of those *)
(* that count as applied but what the current snapshot covers.             *)
THEOREM OnlyCommittedIsApplied == Spec => []StateMachineFollows
<1>1. StorageInv => StateMachineFollows
  <2> SUFFICES ASSUME StorageInv PROVE StateMachineFollows
    OBVIOUS
  <2>1. \A i \in DOMAIN sm : i <= committed
    <3>1. sm \in Logs
      BY DEF StorageInv, TypeOK
    <3>2. \A i \in DOMAIN sm : i \in Nat /\ i <= applied
      BY <3>1, LogFacts DEF Indexes, StorageInv, AppliedOK
    <3> QED BY <3>2, Counters DEF StorageInv
  <2> QED BY <2>1 DEF StorageInv, AppliedOK, StateMachineFollows
<1> QED BY <1>1, StorageInvariance, PTL

(* The current snapshot is only ever replaced by a newer one: at both      *)
(* places it is written what was waited for is newer than what is there.   *)
THEOREM SnapshotsGrow == Spec => SnapshotOnlyGrows
<1>1. StorageInv /\ [Next]_vars =>
        (snapshot # None /\ snapshot' # snapshot => snapshot.index < snapshot'.index)
  <2> SUFFICES ASSUME StorageInv, [Next]_vars, snapshot # None, snapshot' # snapshot
               PROVE  snapshot.index < snapshot'.index
    OBVIOUS
  <2> DEFINE job == Head(done).job
  <2>1. Created \/ InstalledOverEntry \/ Installed
    BY DEF Next, vars, storage, progress, Replicate, Commit, FetchEntries, HandEntry,
           ApplyEntries,
           CreateSnapshot, InstallSnapshot, DoJob, Performed, JobFails, Rebuilt
  <2>2. done # <<>> /\ Head(done).ok /\ job.op \in {"create", "install"} /\ Cache(job)
    BY <2>1 DEF Created, InstalledOverEntry, Installed, Result
  <2>3. ResultOK(Head(done))
    BY <2>2, NextResult
  <2>4. snapshot.index < job.index
    BY <2>2, <2>3 DEF ResultOK, JobOK, Writes
  <2> QED BY <2>2, <2>4 DEF Cache
<1> QED BY <1>1, StorageInvariance, PTL DEF Spec, SnapshotOnlyGrows

(***************************************************************************)
(* The refinement of CompactedLog.                                         *)
(***************************************************************************)

(* What the mapped log holds: a snapshot's entries, and without a gap      *)
(* those after it.                                                         *)
LEMMA MappedFacts ==
  ASSUME StorageInv
  PROVE  /\ Base \in Nat /\ Base <= LastIndex
         /\ snapshot # None => Base = snapshot.index
         /\ \A k \in (Base + 1)..lastLog : k \in DOMAIN log /\ log[k].term \in Terms
         /\ "installing" \notin raft =>
              /\ Base <= applied
              /\ AtLeastBase(applied) = applied /\ AtLeastBase(committed) = committed
              /\ AtLeastBase(lastLog) = lastLog
<1>1. /\ LastIndex \in Nat /\ lastLog \in Nat /\ committed \in Nat /\ applied \in Nat
      /\ applied <= committed /\ committed <= lastLog
      /\ snapshot # None => snapshot.index \in Nat /\ snapshot.index <= LastIndex
  BY Counters DEF StorageInv
<1>2. /\ Base \in Nat /\ Base <= LastIndex
      /\ snapshot # None => Base = snapshot.index
      /\ snapshot = None => Base = 0
  BY <1>1 DEF Base
<1>3. ASSUME NEW k \in (Base + 1)..lastLog PROVE k \in DOMAIN log
  <2>1. k \in Nat /\ k \in 1..lastLog /\ Base < k
    BY <1>1, <1>2
  <2> QED BY <1>2, <2>1 DEF StorageInv, CleanupIsCovered
<1>4. \A k \in DOMAIN log : log[k].term \in Terms
  <2>1. log \in Logs
    BY DEF StorageInv, TypeOK
  <2> QED BY <2>1, LogFacts
<1>5. ASSUME "installing" \notin raft PROVE Base <= applied
  <2>1. snapshot # None => snapshot.index <= applied
    BY <1>5 DEF StorageInv, SnapshotOK
  <2> QED BY <1>1, <1>2, <2>1
<1>6. ASSUME "installing" \notin raft
      PROVE  /\ AtLeastBase(applied) = applied /\ AtLeastBase(committed) = committed
             /\ AtLeastBase(lastLog) = lastLog
  BY <1>1, <1>2, <1>5, <1>6 DEF AtLeastBase
<1> QED BY <1>2, <1>3, <1>4, <1>5, <1>6

(* The mapped log is gapless and its counters are in order.                *)
LEMMA MappedTyping == StorageInv => Abstract!LogTypeOK
<1> SUFFICES ASSUME StorageInv PROVE Abstract!LogTypeOK
  OBVIOUS
<1>1. /\ LastIndex \in Nat /\ lastLog \in Nat /\ committed \in Nat /\ applied \in Nat
      /\ applied <= committed /\ committed <= lastLog /\ lastLog <= LastIndex
  BY Counters DEF StorageInv
<1>2. /\ Base \in Nat /\ Base <= LastIndex
      /\ \A k \in (Base + 1)..lastLog : log[k].term \in Terms
  BY MappedFacts
<1>3. \A k \in (Base + 1)..AtLeastBase(lastLog) : k \in (Base + 1)..lastLog
  BY <1>1, <1>2 DEF AtLeastBase
<1>4. TermsAfterBase \in [(Base + 1)..AtLeastBase(lastLog) -> Terms]
  BY <1>2, <1>3 DEF TermsAfterBase
<1>5. /\ AtLeastBase(applied) \in Base..LastIndex
      /\ AtLeastBase(committed) \in AtLeastBase(applied)..LastIndex
      /\ AtLeastBase(lastLog) \in AtLeastBase(committed)..LastIndex
  BY <1>1, <1>2 DEF AtLeastBase
<1> QED BY <1>2, <1>4, <1>5 DEF Abstract!LogTypeOK

LEMMA MappedInit == Init => Abstract!LogInit
<1> SUFFICES ASSUME Init PROVE Abstract!LogInit
  OBVIOUS
<1>1. Base = 0 /\ lastLog = 0 /\ committed = 0 /\ applied = 0
  BY DEF Init, Base
<1>2. /\ AtLeastBase(lastLog) = 0 /\ AtLeastBase(committed) = 0 /\ AtLeastBase(applied) = 0
  BY <1>1 DEF AtLeastBase
<1>3. (0 + 1)..0 = {}
  OBVIOUS
<1>4. TermsAfterBase = [k \in (Base + 1)..AtLeastBase(lastLog) |-> 0]
  BY <1>1, <1>2, <1>3 DEF TermsAfterBase
<1> QED BY <1>1, <1>2, <1>4 DEF Abstract!LogInit

(* A step that leaves the log, the snapshot and the counters alone.        *)
LEMMA MappedStutter ==
  ASSUME UNCHANGED <<log, snapshot, lastLog, committed, applied>>
  PROVE  UNCHANGED Abstract!logVars
BY DEF Abstract!logVars, Base, AtLeastBase, TermsAfterBase

LEMMA MappedReplicate ==
  ASSUME StorageInv, NEW i \in Indexes, NEW term \in Terms, Replicate(i, term)
  PROVE  Abstract!AppendEntry(i, term)
<1>1. /\ "installing" \notin raft /\ i \in (committed + 1)..(lastLog + 1)
      /\ log' = Put(log, i, Entry(term)) /\ lastLog' = i
      /\ UNCHANGED <<snapshot, committed, applied>>
  BY DEF Replicate
<1>2. /\ Base \in Nat /\ Base <= applied
      /\ AtLeastBase(applied) = applied /\ AtLeastBase(committed) = committed
      /\ AtLeastBase(lastLog) = lastLog
      /\ \A k \in (Base + 1)..lastLog : k \in DOMAIN log
  BY <1>1, MappedFacts
<1>3. /\ applied \in Nat /\ committed \in Nat /\ lastLog \in Nat /\ applied <= committed
      /\ i \in Nat /\ committed < i /\ i <= lastLog + 1
  BY <1>1, Counters DEF StorageInv
<1>4. UNCHANGED <<Base, AtLeastBase(committed), AtLeastBase(applied)>>
  BY <1>1 DEF Base, AtLeastBase
<1>5. AtLeastBase(lastLog)' = i
  BY <1>1, <1>2, <1>3, <1>4 DEF AtLeastBase
<1>6. /\ log'[i].term = term
      /\ \A k \in DOMAIN log \ {i} : log'[k] = log[k]
  <2> DEFINE e == Entry(term)
  <2>1. e \in LogEntries /\ e.term = term
    BY EntryTyped
  <2>2. log \in Logs /\ log' = Put(log, i, e)
    BY <1>1 DEF StorageInv, TypeOK
  <2> HIDE DEF e
  <2>3. Put(log, i, e)[i] = e /\ \A k \in DOMAIN log \ {i} : Put(log, i, e)[k] = log[k]
    BY <2>1, <2>2, PutLog
  <2> QED BY <2>1, <2>2, <2>3
<1>7. \A k \in (Base + 1)..i :
        log'[k].term = IF k = i THEN term ELSE TermsAfterBase[k]
  <2> TAKE k \in (Base + 1)..i
  <2>1. k # i => k \in (Base + 1)..lastLog
    BY <1>2, <1>3
  <2> QED BY <1>2, <1>6, <2>1 DEF TermsAfterBase
<1>8. TermsAfterBase' =
        [k \in (Base + 1)..i |-> IF k = i THEN term ELSE TermsAfterBase[k]]
  BY <1>4, <1>5, <1>7 DEF TermsAfterBase
<1> QED BY <1>1, <1>2, <1>4, <1>5, <1>8 DEF Abstract!AppendEntry

LEMMA MappedCommit ==
  ASSUME StorageInv, NEW i \in Indexes, Commit(i)
  PROVE  Abstract!CommitNext
<1>1. /\ "installing" \notin raft /\ i = committed + 1 /\ i <= lastLog /\ committed' = i
      /\ UNCHANGED <<log, snapshot, lastLog, applied>>
  BY DEF Commit, storage
<1>2. /\ Base \in Nat /\ Base <= applied
      /\ AtLeastBase(committed) = committed /\ AtLeastBase(lastLog) = lastLog
  BY <1>1, MappedFacts
<1>3. /\ applied \in Nat /\ committed \in Nat /\ lastLog \in Nat /\ applied <= committed
  BY Counters DEF StorageInv
<1>4. UNCHANGED <<Base, TermsAfterBase, AtLeastBase(lastLog), AtLeastBase(applied)>>
  BY <1>1 DEF Base, TermsAfterBase, AtLeastBase
<1>5. AtLeastBase(committed)' = i
  BY <1>1, <1>2, <1>3, <1>4 DEF AtLeastBase
<1> QED BY <1>1, <1>2, <1>3, <1>4, <1>5 DEF Abstract!CommitNext

LEMMA MappedApply ==
  ASSUME StorageInv, ApplyEntries
  PROVE  \/ UNCHANGED Abstract!logVars
         \/ \E i \in 1..LastIndex : Abstract!ApplyThrough(i)
<1>1. UNCHANGED <<log, snapshot, lastLog, committed>>
  BY DEF ApplyEntries
<1>2. CASE applied' = applied
  BY <1>1, <1>2, MappedStutter
<1>3. ASSUME NEW c \in (applied + 1)..committed, applied' = c
      PROVE  \/ UNCHANGED Abstract!logVars
             \/ \E i \in 1..LastIndex : Abstract!ApplyThrough(i)
  <2>1. /\ applied \in Nat /\ committed \in Nat /\ c \in Nat /\ applied < c /\ c <= committed
        /\ c <= LastIndex /\ LastIndex \in Nat /\ Base \in Nat
    BY Counters, MappedFacts DEF StorageInv
  <2>2. UNCHANGED <<Base, TermsAfterBase, AtLeastBase(lastLog), AtLeastBase(committed)>>
    BY <1>1 DEF Base, TermsAfterBase, AtLeastBase
  <2>3. AtLeastBase(applied)' = IF c < Base THEN Base ELSE c
    BY <1>3, <2>2 DEF AtLeastBase
  <2>4. CASE Base < c
    <3>1. c \in (AtLeastBase(applied) + 1)..AtLeastBase(committed)
      BY <2>1, <2>4 DEF AtLeastBase
    <3>2. AtLeastBase(applied)' = c
      BY <2>1, <2>3, <2>4
    <3>3. Abstract!ApplyThrough(c)
      BY <2>2, <3>1, <3>2 DEF Abstract!ApplyThrough
    <3> QED BY <2>1, <3>3
  <2>5. CASE c <= Base
    <3>1. AtLeastBase(applied) = Base /\ AtLeastBase(applied)' = Base
      BY <2>1, <2>3, <2>5 DEF AtLeastBase
    <3> QED BY <2>2, <3>1 DEF Abstract!logVars
  <2> QED BY <2>1, <2>4, <2>5
<1> QED BY <1>2, <1>3, AfterApply

(* The base moves up to the new snapshot, and what is after it stays.      *)
LEMMA MappedShorten ==
  ASSUME StorageInv, NEW job \in Jobs, Writes(job),
         log' = Shorten(job.index, job.term), Cache(job)
  PROVE  /\ Base' = job.index /\ Base < job.index
         /\ job.index \in Nat /\ job.index <= LastIndex
         /\ \A k \in (job.index + 1)..lastLog : log'[k].term = TermsAfterBase[k]
<1>1. /\ snapshot' # None /\ snapshot'.index = job.index
      /\ job.index \in Indexes /\ job.index \in Nat
      /\ \A k \in DOMAIN log' \ {job.index} : k \in DOMAIN log /\ log'[k] = log[k]
      /\ snapshot # None => snapshot.index < job.index
      /\ \A k \in 1..lastLog : k \in DOMAIN log' \/ k <= job.index
  BY AfterShorten
<1>2. /\ Base \in Nat /\ lastLog \in Nat /\ LastIndex \in Nat
      /\ snapshot # None => Base = snapshot.index
  BY MappedFacts, Counters DEF StorageInv
<1>3. Base' = job.index
  BY <1>1 DEF Base
<1>4. Base < job.index /\ job.index <= LastIndex
  <2>1. job.index >= 1 /\ job.index <= LastIndex
    BY <1>1, <1>2 DEF Indexes
  <2>2. snapshot = None => Base = 0
    BY DEF Base
  <2> QED BY <1>1, <1>2, <2>1, <2>2
<1>5. ASSUME NEW k \in (job.index + 1)..lastLog
      PROVE  log'[k].term = TermsAfterBase[k]
  <2>1. k \in 1..lastLog /\ ~(k <= job.index) /\ k # job.index
    BY <1>1, <1>2
  <2>2. log'[k] = log[k]
    BY <1>1, <2>1
  <2>3. k \in (Base + 1)..AtLeastBase(lastLog)
    BY <1>1, <1>2, <1>4 DEF AtLeastBase
  <2> QED BY <2>2, <2>3 DEF TermsAfterBase
<1> QED BY <1>1, <1>3, <1>4, <1>5

LEMMA MappedCreated ==
  ASSUME StorageInv, Created
  PROVE  \E i \in 1..LastIndex : Abstract!Compact(i)
<1> DEFINE job == Head(done).job
           i == job.index
<1>1. /\ done # <<>> /\ Head(done).ok /\ job.op = "create"
      /\ log' = Shorten(job.index, job.term) /\ Cache(job)
      /\ UNCHANGED <<lastLog, committed, applied>>
  BY DEF Created, Result, progress
<1>2. job \in Jobs /\ Writes(job) /\ job.index <= applied
  BY <1>1, NextResult DEF Results, ResultOK, JobOK, Writes
<1> HIDE DEF job
<1>3. /\ Base' = i /\ Base < i /\ i \in Nat /\ i <= LastIndex
      /\ \A k \in (i + 1)..lastLog : log'[k].term = TermsAfterBase[k]
  BY <1>1, <1>2, MappedShorten
<1>4. /\ applied \in Nat /\ committed \in Nat /\ lastLog \in Nat /\ i <= applied
      /\ applied <= committed /\ committed <= lastLog /\ Base \in Nat /\ LastIndex \in Nat
  BY <1>2, Counters, MappedFacts DEF StorageInv
<1> HIDE DEF i
<1>5. /\ AtLeastBase(applied) = applied /\ AtLeastBase(applied)' = applied
      /\ AtLeastBase(committed) = committed /\ AtLeastBase(committed)' = committed
      /\ AtLeastBase(lastLog) = lastLog /\ AtLeastBase(lastLog)' = lastLog
  BY <1>1, <1>3, <1>4 DEF AtLeastBase
<1>6. TermsAfterBase' = [k \in (i + 1)..lastLog |-> TermsAfterBase[k]]
  BY <1>3, <1>5 DEF TermsAfterBase
<1>7. i \in (Base + 1)..applied /\ i \in 1..LastIndex
  BY <1>3, <1>4
<1>8. Abstract!Compact(i)
  BY <1>3, <1>5, <1>6, <1>7 DEF Abstract!Compact
<1> QED BY <1>7, <1>8

(* An installation counts from when the snapshot is the current one, with  *)
(* Raft's counters raised then or only after the rebuild.                  *)
LEMMA MappedInstalled ==
  ASSUME StorageInv, InstalledOverEntry \/ Installed
  PROVE  \E i \in 1..LastIndex : Abstract!InstallThrough(i)
<1> DEFINE job == Head(done).job
           i == job.index
<1>1. /\ done # <<>> /\ Head(done).ok /\ job.op = "install"
      /\ log' = Shorten(job.index, job.term) /\ Cache(job)
      /\ Finish(job.index) \/ UNCHANGED <<lastLog, committed, applied>>
  BY DEF InstalledOverEntry, Installed, Result, progress
<1>2. job \in Jobs /\ Writes(job) /\ applied < job.index
  BY <1>1, NextResult DEF Results, ResultOK, JobOK, Writes
<1>3. job.index \in Indexes
  BY <1>2 DEF Jobs
<1> HIDE DEF job
<1>4. /\ Base' = i /\ Base < i /\ i \in Nat /\ i <= LastIndex
      /\ \A k \in (i + 1)..lastLog : log'[k].term = TermsAfterBase[k]
  BY <1>1, <1>2, MappedShorten
<1>5. /\ applied \in Nat /\ committed \in Nat /\ lastLog \in Nat /\ applied < i
      /\ applied <= committed /\ committed <= lastLog /\ Base \in Nat /\ LastIndex \in Nat
  BY <1>2, Counters, MappedFacts DEF StorageInv
<1>6. \/ /\ applied' = i
         /\ committed' = IF committed < i THEN i ELSE committed
         /\ lastLog' = IF lastLog < i THEN i ELSE lastLog
      \/ UNCHANGED <<lastLog, committed, applied>>
  BY <1>1 DEF Finish
<1> HIDE DEF i
<1>7. /\ AtLeastBase(applied)' = i /\ AtLeastBase(applied) < i
      /\ AtLeastBase(applied) \in Nat
  BY <1>4, <1>5, <1>6 DEF AtLeastBase
<1>8. /\ AtLeastBase(committed)' = Abstract!Larger(AtLeastBase(committed), i)
      /\ AtLeastBase(lastLog)' = Abstract!Larger(AtLeastBase(lastLog), i)
  <2>1. ASSUME NEW n \in Nat, NEW m \in Nat, m = n \/ m = IF n < i THEN i ELSE n
        PROVE  (IF m < i THEN i ELSE m) = Abstract!Larger(IF n < Base THEN Base ELSE n, i)
    BY <1>4, <1>5, <2>1 DEF Abstract!Larger
  <2>2. committed' \in Nat /\ lastLog' \in Nat
    BY <1>4, <1>5, <1>6
  <2>3. /\ committed' = committed \/ committed' = IF committed < i THEN i ELSE committed
        /\ lastLog' = lastLog \/ lastLog' = IF lastLog < i THEN i ELSE lastLog
    BY <1>6
  <2>4. (IF committed' < i THEN i ELSE committed') = Abstract!Larger(AtLeastBase(committed), i)
    BY <1>5, <2>1, <2>2, <2>3 DEF AtLeastBase
  <2>5. (IF lastLog' < i THEN i ELSE lastLog') = Abstract!Larger(AtLeastBase(lastLog), i)
    BY <1>5, <2>1, <2>2, <2>3 DEF AtLeastBase
  <2> QED BY <1>4, <2>4, <2>5 DEF AtLeastBase
<1>9. TermsAfterBase' =
        [k \in (i + 1)..Abstract!Larger(AtLeastBase(lastLog), i) |-> TermsAfterBase[k]]
  <2>1. \A k \in (i + 1)..Abstract!Larger(AtLeastBase(lastLog), i) : k \in (i + 1)..lastLog
    BY <1>4, <1>5 DEF AtLeastBase, Abstract!Larger
  <2>2. TermsAfterBase' = [k \in (i + 1)..AtLeastBase(lastLog)' |-> log'[k].term]
    BY <1>4 DEF TermsAfterBase
  <2> QED BY <1>4, <1>8, <2>1, <2>2
<1>10. i \in (AtLeastBase(applied) + 1)..LastIndex /\ i \in 1..LastIndex
  BY <1>4, <1>5, <1>7
<1>11. Abstract!InstallThrough(i)
  BY <1>4, <1>7, <1>8, <1>9, <1>10 DEF Abstract!InstallThrough
<1> QED BY <1>10, <1>11

LEMMA MappedRebuilt ==
  ASSUME StorageInv, Rebuilt
  PROVE  UNCHANGED Abstract!logVars
<1> DEFINE job == Head(done).job
           i == job.index
<1>1. /\ done # <<>> /\ Head(done).ok /\ job.op = "read"
      /\ Finish(job.index) /\ UNCHANGED <<log, snapshot>>
  BY DEF Rebuilt, Result
<1>2. Rereads(job)
  BY <1>1, NextResult DEF ResultOK, JobOK
<1> HIDE DEF job
<1>3. snapshot # None /\ snapshot.index = i /\ applied < i
  BY <1>2 DEF Rereads
<1>4. /\ applied' = i
      /\ committed' = IF committed < i THEN i ELSE committed
      /\ lastLog' = IF lastLog < i THEN i ELSE lastLog
  BY <1>1 DEF Finish
<1>5. /\ applied \in Nat /\ committed \in Nat /\ lastLog \in Nat /\ Base \in Nat
      /\ Base = i /\ Base' = i
  BY <1>1, <1>3, Counters, MappedFacts DEF StorageInv, Base
<1> HIDE DEF i
<1>6. /\ AtLeastBase(applied) = i /\ AtLeastBase(applied)' = i
      /\ AtLeastBase(committed)' = AtLeastBase(committed)
      /\ AtLeastBase(lastLog)' = AtLeastBase(lastLog)
  BY <1>3, <1>4, <1>5 DEF AtLeastBase
<1>7. TermsAfterBase' = TermsAfterBase
  BY <1>1, <1>5, <1>6 DEF TermsAfterBase
<1> QED BY <1>5, <1>6, <1>7 DEF Abstract!logVars

LEMMA MappedStep == StorageInv /\ [Next]_vars => [Abstract!LogNext]_(Abstract!logVars)
<1> SUFFICES ASSUME StorageInv, [Next]_vars
             PROVE  [Abstract!LogNext]_(Abstract!logVars)
  OBVIOUS
<1>1. ASSUME NEW i \in Indexes, NEW term \in Terms, Replicate(i, term)
      PROVE  Abstract!LogNext
  BY <1>1, MappedReplicate DEF Abstract!LogNext, Indexes
<1>2. ASSUME NEW i \in Indexes, Commit(i) PROVE Abstract!LogNext
  BY <1>2, MappedCommit DEF Abstract!LogNext
<1>3. CASE ApplyEntries
  BY <1>3, MappedApply DEF Abstract!LogNext
<1>4. CASE Created
  BY <1>4, MappedCreated DEF Abstract!LogNext
<1>5. CASE InstalledOverEntry \/ Installed
  BY <1>5, MappedInstalled DEF Abstract!LogNext
<1>6. CASE Rebuilt
  BY <1>6, MappedRebuilt
<1>7. CASE \/ FetchEntries \/ HandEntry \/ CreateSnapshot \/ JobFails \/ UNCHANGED vars
           \/ \E i \in Indexes : \E entries \in Streams(i) : InstallSnapshot(i, entries)
           \/ \E ok \in BOOLEAN : DoJob(ok)
  <2>1. UNCHANGED <<log, snapshot, lastLog, committed, applied>>
    BY <1>7 DEF FetchEntries, HandEntry, CreateSnapshot, JobFails, vars, storage, progress,
                InstallSnapshot, DoJob, Performed
  <2> QED BY <2>1, MappedStutter
<1> QED BY <1>1, <1>2, <1>3, <1>4, <1>5, <1>6, <1>7 DEF Next

(* Seen through the log, the snapshot and Raft's counters, the storage is  *)
(* a log that snapshots shorten and replace in single steps.               *)
THEOREM StorageImplementsCompactedLog == Spec => ImplementsCompactedLog
<1> QED BY MappedInit, MappedStep, StorageInvariance, PTL
        DEF Spec, ImplementsCompactedLog, Abstract!LogSpec

(* And that log has no gap after the snapshot, with the counters in order: *)
(* what it covers is applied, what is applied is committed, what is        *)
(* committed is in the log.                                                *)
THEOREM CompactedLogTyping == Spec => []Abstract!LogTypeOK
<1> QED BY MappedTyping, StorageInvariance, PTL
=============================================================================
