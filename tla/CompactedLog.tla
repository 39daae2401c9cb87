---------------------------- MODULE CompactedLog ----------------------------
(***************************************************************************)
(* What a storage promises to the Raft that uses it: one log without a     *)
(* gap, that a snapshot shortens in one step.  Files, the pointers in the  *)
(* log, the entries that are left behind its end, and the steps a snapshot *)
(* takes are hidden.                                                       *)
(***************************************************************************)
EXTENDS Integers

CONSTANTS LastIndex, Terms

VARIABLES
  base,       \* the snapshot covers the entries up to it
  terms,      \* the terms of the entries after it
  last, committed, applied

logVars == <<base, terms, last, committed, applied>>

Larger(i, j) == IF i < j THEN j ELSE i

(* Counters are in order, and of the entries after the snapshot none is    *)
(* missing.                                                                *)
LogTypeOK ==
  /\ base \in 0..LastIndex /\ applied \in base..LastIndex
  /\ committed \in applied..LastIndex /\ last \in committed..LastIndex
  /\ terms \in [(base + 1)..last -> Terms]

LogInit ==
  /\ base = 0 /\ last = 0 /\ committed = 0 /\ applied = 0
  /\ terms = [k \in (base + 1)..last |-> 0]

(* The next entry, or another in the place of one that is not committed;   *)
(* those after it are no longer of the log.                                *)
AppendEntry(i, term) ==
  /\ i \in (committed + 1)..(last + 1)
  /\ last' = i
  /\ terms' = [k \in (base + 1)..i |-> IF k = i THEN term ELSE terms[k]]
  /\ UNCHANGED <<base, committed, applied>>

CommitNext ==
  /\ committed < last /\ committed' = committed + 1
  /\ UNCHANGED <<base, terms, last, applied>>

ApplyThrough(i) ==
  /\ i \in (applied + 1)..committed /\ applied' = i
  /\ UNCHANGED <<base, terms, last, committed>>

(* A snapshot is of applied entries, and newer than the one before.        *)
Compact(i) ==
  /\ i \in (base + 1)..applied /\ base' = i
  /\ terms' = [k \in (i + 1)..last |-> terms[k]]
  /\ UNCHANGED <<last, committed, applied>>

(* A leader's snapshot is of entries that are not applied; it counts as    *)
(* applied at once, and what the log has after it stays.                   *)
InstallThrough(i) ==
  /\ i \in (applied + 1)..LastIndex /\ base' = i /\ applied' = i
  /\ committed' = Larger(committed, i) /\ last' = Larger(last, i)
  /\ terms' = [k \in (i + 1)..Larger(last, i) |-> terms[k]]

LogNext ==
  \/ \E i \in 1..LastIndex, term \in Terms : AppendEntry(i, term)
  \/ CommitNext
  \/ \E i \in 1..LastIndex : ApplyThrough(i) \/ Compact(i) \/ InstallThrough(i)

LogSpec == LogInit /\ [][LogNext]_logVars
=============================================================================
