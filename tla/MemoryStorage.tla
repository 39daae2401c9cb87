--------------------------- MODULE MemoryStorage ---------------------------
(***************************************************************************)
(* The storage of the tests, with the Raft that uses it.  A snapshot is    *)
(* made in steps: the handler takes the entries from the log, an actor     *)
(* with a thread of its own writes the file, and a continuation shortens   *)
(* the log.  That actor does one job after the other, and what it returns  *)
(* is taken up in the same order.  Anything may happen in between.         *)
(*                                                                         *)
(* Raft's side is an assumption.  Entries are committed in order and       *)
(* applied through a fetch from the log, one fetch at a time; the count of *)
(* those applied never goes back.  At most one snapshot is created and at  *)
(* most one is installed at a time.  A leader's snapshot goes beyond what  *)
(* is applied or fetched, and while it is installed nothing is replicated, *)
(* committed, fetched or snapshotted; what is fetched already may still be *)
(* applied, before, during or after that.  An error of the storage stops   *)
(* Raft.                                                                   *)
(***************************************************************************)
EXTENDS Naturals, Sequences

CONSTANTS
  LastIndex,  \* bound: the log's last index
  Terms,      \* the terms an entry may have
  TermOf,     \* the term of the entry committed at each index
  None, Broken   \* no file, and one that was not written to its end

Indexes == 1..LastIndex

Entry(term) == [type |-> "entry", term |-> term]
Pointer(term) == [type |-> "pointer", term |-> term]
LogEntries == [type : {"entry", "pointer"}, term : Terms]
Logs == UNION {[S -> LogEntries] : S \in SUBSET Indexes}
Snapshots == [index : Indexes, term : Terms]

ASSUME StorageAssumption ==
  /\ LastIndex \in Nat /\ Terms \subseteq Nat /\ TermOf \in [Indexes -> Terms]
  /\ None \notin Logs \cup Snapshots /\ Broken \notin Logs

VARIABLES
  log,        \* the entries by index
  sm,         \* those applied
  snapshot,   \* the current snapshot's index and term, the file's name too
  files,      \* what the snapshot files hold
  jobs,       \* for the snapshot actor
  done,       \* its results, not taken up yet
  lastLog,    \* Raft: the last index of its log,
  committed,  \* committed,
  applied,    \* and applied,
  payload,    \* entries fetched to be applied
  raft        \* whether it creates or installs a snapshot, or stopped

storage == <<log, sm, snapshot>>
actor == <<files, jobs, done>>
progress == <<lastLog, committed, applied, payload>>
vars == <<storage, actor, progress, raft>>

NoEntries == [i \in {} |-> None]

Kept(f, S) == [i \in DOMAIN f \cap S |-> f[i]]
With(f, g) == [i \in DOMAIN f \cup DOMAIN g |-> IF i \in DOMAIN g THEN g[i] ELSE f[i]]
Put(f, i, e) == With(f, [j \in {i} |-> e])

Through(index) == 1..index
Committed(S) == [i \in S |-> Entry(TermOf[i])]

Init ==
  /\ log = NoEntries /\ sm = NoEntries /\ snapshot = None
  /\ files = [i \in Indexes |-> None] /\ jobs = <<>> /\ done = <<>>
  /\ lastLog = 0 /\ committed = 0 /\ applied = 0 /\ payload = None
  /\ raft = {}

Running == "stopped" \notin raft

(***************************************************************************)
(* The log, and its application.                                           *)
(***************************************************************************)
(* AppendEntryToLog and ReplicateToLog: the next entry, or another in the  *)
(* place of one that is not committed.  Those after it stay in the log.    *)
Replicate(i, term) ==
  /\ Running /\ "installing" \notin raft
  /\ i \in (committed + 1)..(lastLog + 1)
  /\ log' = Put(log, i, Entry(term))
  /\ lastLog' = i
  /\ UNCHANGED <<sm, snapshot, actor, committed, applied, payload, raft>>

Commit(i) ==
  /\ Running /\ "installing" \notin raft
  /\ i = committed + 1 /\ i <= lastLog /\ log[i] = Entry(TermOf[i])
  /\ committed' = i
  /\ UNCHANGED <<storage, actor, lastLog, applied, payload, raft>>

FetchFromApplied ==
  /\ Running /\ "installing" \notin raft /\ payload = None /\ applied < committed
  /\ payload' = Kept(log, applied..committed)
  /\ UNCHANGED <<storage, actor, lastLog, committed, applied, raft>>

FetchPastStop ==
  /\ Running /\ "installing" \notin raft /\ payload = None /\ applied < committed
  /\ payload' = Kept(log, (applied + 1)..(committed + 1))
  /\ UNCHANGED <<storage, actor, lastLog, committed, applied, raft>>

(* GetLogEntries.                                                          *)
FetchEntries ==
  /\ Running /\ "installing" \notin raft /\ payload = None /\ applied < committed
  /\ payload' = Kept(log, (applied + 1)..committed)
  /\ UNCHANGED <<storage, actor, lastLog, committed, applied, raft>>

(* A leader has the entry it committed at hand, and applies it alone.      *)
HandEntry ==
  /\ Running /\ "installing" \notin raft /\ payload = None /\ applied < committed
  /\ payload' = Put(NoEntries, applied + 1, Entry(TermOf[applied + 1]))
  /\ UNCHANGED <<storage, actor, lastLog, committed, applied, raft>>

Highest(S) == CHOOSE i \in S : \A j \in S : j <= i

(* ReplicateToStateMachine, and ApplyEntryToStateMachine of one entry: the *)
(* first entry that is applied already is overwritten, and it fails with   *)
(* the earlier ones applied.                                               *)
ApplyEntries ==
  /\ Running /\ payload # None
  /\ LET again == DOMAIN payload \cap DOMAIN sm
         first == CHOOSE i \in again : \A j \in again : i <= j
     IN /\ sm' = With(sm, IF again = {} THEN payload ELSE Kept(payload, Through(first)))
        /\ raft' = IF again = {} THEN raft ELSE raft \cup {"stopped"}
        /\ applied' = IF again = {} THEN Highest(DOMAIN payload \cup {applied}) ELSE applied
  /\ payload' = None
  /\ UNCHANGED <<log, snapshot, actor, lastLog, committed>>

(***************************************************************************)
(* Snapshots.                                                              *)
(***************************************************************************)
Create(i, term, entries) ==
  [op |-> "create", index |-> i, term |-> term, entries |-> entries]
Install(i, term, entries) ==
  [op |-> "install", index |-> i, term |-> term, entries |-> entries]
ReadFile(i) == [op |-> "read", index |-> i, term |-> 0, entries |-> NoEntries]

CreateSnapshot ==
  /\ Running /\ raft = {} /\ applied \in DOMAIN log
  /\ snapshot # None => snapshot.index < applied
  /\ jobs' = Append(jobs, Create(applied, log[applied].term, Kept(log, Through(applied))))
  /\ raft' = {"creating"}
  /\ UNCHANGED <<storage, files, done, progress>>

(* A leader's snapshot.  It starts with the pointer to an earlier one if   *)
(* the leader made one before.                                             *)
Streams(i) ==
  {Committed(Through(i))} \cup
  {With(Committed((j + 1)..i), [k \in {j} |-> Pointer(TermOf[j])]) : j \in Through(i - 1)}

InstallSnapshot(i, entries) ==
  /\ Running /\ "installing" \notin raft /\ i > applied
  /\ payload # None => \A k \in DOMAIN payload : k < i
  /\ jobs' = Append(jobs, Install(i, TermOf[i], entries))
  /\ raft' = raft \cup {"installing"}
  /\ UNCHANGED <<storage, files, done, progress>>

(* The snapshot actor: writing a file, writing chunks until the last, or   *)
(* reading a file.  A disk or a stream that fails leaves a broken file.    *)
Performed(job, ok, succeeds) ==
  LET read == job.op = "read"
      readable == files[job.index] \notin {None, Broken}
  IN /\ files' = IF read THEN files
                 ELSE [files EXCEPT ![job.index] = IF ok THEN job.entries ELSE Broken]
     /\ done' = Append(done,
          [job |-> IF read /\ readable THEN [job EXCEPT !.entries = files[job.index]] ELSE job,
           ok  |-> succeeds /\ (read => readable)])
     /\ UNCHANGED <<storage, progress, raft>>

DoJobOfMany(ok) ==
  \E i \in DOMAIN jobs :
    /\ Performed(jobs[i], ok, ok)
    /\ jobs' = SubSeq(jobs, 1, i - 1) \o SubSeq(jobs, i + 1, Len(jobs))

DoJobIgnored(ok) ==
  jobs # <<>> /\ Performed(Head(jobs), ok, TRUE) /\ jobs' = Tail(jobs)

DoJob(ok) ==
  jobs # <<>> /\ Performed(Head(jobs), ok, ok) /\ jobs' = Tail(jobs)

Result(op) ==
  done # <<>> /\ Head(done).ok /\ Head(done).job.op = op
TakeUp == done' = Tail(done)

JobFails ==
  /\ done # <<>> /\ ~Head(done).ok
  /\ TakeUp
  /\ raft' = raft \cup {"stopped"}
  /\ UNCHANGED <<storage, files, jobs, progress>>

ShortenBefore(i, term) == Put(Kept(log, i..LastIndex), i - 1, Pointer(term))

ShortenToApplied(i, term) == Put(Kept(log, (applied + 1)..LastIndex), i, Pointer(term))

(* The log before the snapshot's index goes, and a pointer takes the place *)
(* of the entry.                                                           *)
Shorten(i, term) == Put(Kept(log, i..LastIndex), i, Pointer(term))

Cache(job) == snapshot' = [index |-> job.index, term |-> job.term]

Created ==
  /\ Result("create")
  /\ LET job == Head(done).job IN
       /\ log' = Shorten(job.index, job.term)
       /\ Cache(job)
  /\ TakeUp
  /\ raft' = raft \ {"creating"}
  /\ UNCHANGED <<sm, files, jobs, progress>>

HasEntry(job) == job.index \in DOMAIN log /\ log[job.index].term = job.term

Finish(index) ==
  /\ applied' = index
  /\ committed' = IF committed < index THEN index ELSE committed
  /\ lastLog' = IF lastLog < index THEN index ELSE lastLog
  /\ raft' = raft \ {"installing"}

(* An entry of the snapshot's index and term in the log is taken for a     *)
(* state machine that is up to date.                                       *)
InstalledOverEntry ==
  /\ Result("install") /\ HasEntry(Head(done).job)
  /\ LET job == Head(done).job IN
       log' = Shorten(job.index, job.term) /\ Cache(job) /\ Finish(job.index)
  /\ TakeUp
  /\ UNCHANGED <<sm, files, jobs, payload>>

Installed ==
  /\ Result("install") /\ ~HasEntry(Head(done).job)
  /\ LET job == Head(done).job IN
       /\ log' = Shorten(job.index, job.term) /\ Cache(job)
       /\ jobs' = Append(jobs, ReadFile(job.index))
  /\ TakeUp
  /\ UNCHANGED <<sm, files, progress, raft>>

(* rebuild_state_machine_from_snapshot.                                    *)
Rebuilt ==
  /\ Result("read")
  /\ LET job == Head(done).job IN sm' = job.entries /\ Finish(job.index)
  /\ TakeUp
  /\ UNCHANGED <<log, snapshot, files, jobs, payload>>

Next ==
  \/ \E i \in Indexes, term \in Terms : Replicate(i, term)
  \/ \E i \in Indexes : Commit(i)
  \/ FetchEntries \/ HandEntry \/ ApplyEntries
  \/ CreateSnapshot
  \/ \E i \in Indexes : \E entries \in Streams(i) : InstallSnapshot(i, entries)
  \/ \E ok \in BOOLEAN : DoJob(ok)
  \/ JobFails \/ Created \/ InstalledOverEntry \/ Installed \/ Rebuilt

Spec == Init /\ [][Next]_vars

(***************************************************************************)
(* Properties.                                                             *)
(***************************************************************************)
(* Type invariant.                                                         *)
Jobs ==
  [op : {"create", "install", "read"}, index : Indexes, term : Terms \cup {0},
   entries : Logs]

TypeOK ==
  /\ log \in Logs /\ sm \in Logs
  /\ snapshot \in Snapshots \cup {None}
  /\ files \in [Indexes -> Logs \cup {None, Broken}]
  /\ jobs \in Seq(Jobs) /\ done \in Seq([job : Jobs, ok : BOOLEAN])
  /\ lastLog \in 0..LastIndex /\ committed \in 0..lastLog /\ applied \in 0..committed
  /\ payload \in Logs \cup {None}
  /\ raft \subseteq {"creating", "installing", "stopped"}

(* The current snapshot is one whose file was written to the end, with the *)
(* entry of its index and term the last: what a leader streams from it is  *)
(* what it says, whatever failed since.                                    *)
SnapshotMatchesFile ==
  snapshot # None =>
    /\ files[snapshot.index] \notin {None, Broken}
    /\ snapshot.index \in DOMAIN files[snapshot.index]
    /\ files[snapshot.index][snapshot.index].term = snapshot.term
    /\ \A i \in DOMAIN files[snapshot.index] : i <= snapshot.index

(* No entry leaves the log but for a snapshot that covers it, whatever     *)
(* fails: entries that are replicated, committed and applied between the   *)
(* steps of a snapshot stay.                                               *)
CleanupIsCovered ==
  \A i \in 1..lastLog : i \in DOMAIN log \/ (snapshot # None /\ i <= snapshot.index)

(* What is fetched to be applied was applied by nobody else, but for a     *)
(* snapshot installed since that covers it, all of it; and then it is the  *)
(* same entry.  So no entry is overwritten by another one in the state     *)
(* machine, although Raft's fetch and an installation race each other.     *)
OverwritesOnlyItself ==
  payload # None =>
    \A k \in DOMAIN payload \cap DOMAIN sm :
      /\ payload[k].term = sm[k].term
      /\ snapshot # None /\ \A j \in DOMAIN payload : j < snapshot.index

(* A snapshot is never replaced by an older one.                           *)
SnapshotOnlyGrows ==
  [][snapshot # None /\ snapshot' # snapshot => snapshot.index < snapshot'.index]_vars

(* What was applied is committed, entry by entry, although logs are        *)
(* overwritten and state machines rebuilt under way, and of what Raft      *)
(* counts as applied nothing is missing but what a snapshot covers: an     *)
(* installation over an entry that was not applied yet, and the pointer    *)
(* at the beginning of a leader's second snapshot, leave such gaps.        *)
StateMachineFollows ==
  /\ \A i \in DOMAIN sm : i <= committed /\ sm[i].term = TermOf[i]
  /\ \A i \in 1..applied :
       i \in DOMAIN sm \/ (snapshot # None /\ i <= snapshot.index)

(***************************************************************************)
(* The log it amounts to.                                                  *)
(***************************************************************************)
Base == IF snapshot = None THEN 0 ELSE snapshot.index
AtLeastBase(i) == IF i < Base THEN Base ELSE i
TermsAfterBase == [k \in (Base + 1)..AtLeastBase(lastLog) |-> log[k].term]

Abstract == INSTANCE CompactedLog WITH
  base      <- Base,
  terms     <- TermsAfterBase,
  last      <- AtLeastBase(lastLog),
  committed <- AtLeastBase(committed),
  applied   <- AtLeastBase(applied)

(* Each step is one of a log that is shortened and replaced in single      *)
(* steps, or changes nothing of it: creations, installations and rebuilds  *)
(* that overlap with the log's growth, or fail half way, are never seen    *)
(* half done, and nothing of the log is lost, reordered or taken back.     *)
ImplementsCompactedLog == Abstract!LogSpec
=============================================================================
