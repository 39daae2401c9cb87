--------------------------- MODULE Registry_proofs ---------------------------
(***************************************************************************)
(* Proofs about Registry.  Its invariant is preserved by every step of the *)
(* registry, which is what the modules that build on Registry cite.        *)
(***************************************************************************)
EXTENDS Registry, TLAPS

(* Registry's part of the inductive invariants.                            *)
EntriesInv == RegistryTypeOK /\ KnownOnlyBeforeRaft

LEMMA EntriesInvInit == RegistryInit => EntriesInv
  BY DEF RegistryInit, EntriesInv, RegistryTypeOK, KnownOnlyBeforeRaft

(* The links stay links when one of them is restored.                      *)
LEMMA RestoredType ==
  ASSUME RegistryTypeOK, NEW id
  PROVE  Restored(id) \in [NodeIds -> {"untracked", "isolated", "connected"}]
  BY DEF RegistryTypeOK, Restored

LEMMA EntriesInvStep == EntriesInv /\ [RegistryNext]_registryVars => EntriesInv'
<1> SUFFICES ASSUME EntriesInv, [RegistryNext]_registryVars PROVE EntriesInv'
  OBVIOUS
<1> USE DEF EntriesInv
<1>1. ASSUME NEW id \in NodeIds, Register(id) PROVE EntriesInv'
  <2>1. RegistryTypeOK'
    BY <1>1, RestoredType DEF Register, RegistryTypeOK
  <2>2. KnownOnlyBeforeRaft'
    BY <1>1 DEF Register, KnownOnlyBeforeRaft, RegistryTypeOK
  <2> QED BY <2>1, <2>2
<1>2. ASSUME NEW id \in NodeIds, Disconnect(id) PROVE EntriesInv'
  BY <1>2 DEF Disconnect, KnownOnlyBeforeRaft, RegistryTypeOK
<1>3. ASSUME NEW id \in NodeIds, Isolate(id) PROVE EntriesInv'
  BY <1>3 DEF Isolate, KnownOnlyBeforeRaft, RegistryTypeOK
<1>4. ASSUME NEW id \in NodeIds, Restore(id) PROVE EntriesInv'
  <2>1. RegistryTypeOK'
    BY <1>4, RestoredType DEF Restore, RegistryTypeOK
  <2> QED BY <1>4, <2>1 DEF Restore, KnownOnlyBeforeRaft
<1>5. ASSUME NEW m \in Reports, LearnMetrics(m) PROVE EntriesInv'
  BY <1>5 DEF LearnMetrics, KnownOnlyBeforeRaft, RegistryTypeOK
<1>6. CASE LearnRaft
  <2>1. RegistryTypeOK'
    BY <1>6, RestoredType DEF LearnRaft, RegistryTypeOK
  <2>2. KnownOnlyBeforeRaft'
    BY <1>6 DEF LearnRaft, KnownOnlyBeforeRaft, RegistryTypeOK
  <2> QED BY <2>1, <2>2
<1>7. CASE Crash
  BY <1>7 DEF Crash, KnownOnlyBeforeRaft, RegistryTypeOK
<1>8. CASE UNCHANGED registryVars
  BY <1>8 DEF registryVars, KnownOnlyBeforeRaft, RegistryTypeOK
<1> QED
  BY <1>1, <1>2, <1>3, <1>4, <1>5, <1>6, <1>7, <1>8 DEF RegistryNext

(* The registry's type invariant.                                          *)
THEOREM RegistryTyping == RegistrySpec => []RegistryTypeOK
<1>1. EntriesInv => RegistryTypeOK
  BY DEF EntriesInv
<1> QED BY <1>1, EntriesInvInit, EntriesInvStep, PTL DEF RegistrySpec

(* No entry is left that can never be addressed.                           *)
THEOREM EntriesGetNodes == RegistrySpec => []KnownOnlyBeforeRaft
<1>1. EntriesInv => KnownOnlyBeforeRaft
  BY DEF EntriesInv
<1> QED BY <1>1, EntriesInvInit, EntriesInvStep, PTL DEF RegistrySpec
=============================================================================
