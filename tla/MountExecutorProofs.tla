-------------------------- MODULE MountExecutorProofs --------------------------
(***************************************************************************)
(* Proofs about the mount executor for a plan of any length, with any set  *)
(* of read-only entries and whatever steps may fail.                       *)
(*                                                                         *)
(* The strengthening ties the host to the executor's own list: applied is  *)
(* always the prefix 1..Len(applied) of the plan, the host has exactly     *)
(* those mounts and at most the current entry besides, and exactly the     *)
(* read-only ones among them are read-only.                                *)
(***************************************************************************)
EXTENDS MountExecutor, SequenceTheorems, TLAPS

Kept == 1..Len(applied)

AppliedIsPrefix ==
  /\ Len(applied) <= NMounts
  /\ \A n \in Kept : applied[n] = n
  /\ locked = ReadOnly \cap Kept

HostIsPrefix ==
  \/ mounted = Kept
  \/ /\ mounted = Kept \cup {idx}
     /\ idx \in ReadOnly /\ Len(applied) < idx
     /\ mpc \in {"remount", "reject", "rollback", "err"}

(* How far the plan is applied at each place of the loop.                  *)
Progress ==
  /\ mpc = "idle" => idx = 1 /\ Len(applied) = 0
  /\ mpc \in {"validate", "bind", "remount", "reject"} =>
       idx \in 1..NMounts /\ Len(applied) = idx - 1
  /\ mpc = "remount" => idx \in ReadOnly /\ mounted = Kept \cup {idx}
  /\ mpc = "applied" => idx \in 1..NMounts /\ Len(applied) = idx
  /\ mpc = "rollback" => idx \in 1..NMounts /\ Len(applied) < idx
  /\ mpc = "ok" => Len(applied) = NMounts
  /\ mpc = "err" /\ ~keptHook /\ ~stuck => Len(applied) = 0
  /\ mpc # "err" => ~keptHook /\ ~stuck

MountInv == MountTypeOK /\ AppliedIsPrefix /\ HostIsPrefix /\ Progress

-----------------------------------------------------------------------------

LEMMA MountInvInit == MountInit => MountInv
<1> SUFFICES ASSUME MountInit PROVE MountInv
  OBVIOUS
<1>1. Len(applied) = 0 /\ Kept = {}
  BY DEF MountInit, Kept
<1>2. MountTypeOK
  <2>1. <<>> \in Seq(1..NMounts)
    OBVIOUS
  <2>2. QED
    BY <2>1 DEF MountInit, MountTypeOK, MountPc
<1>3. AppliedIsPrefix /\ HostIsPrefix /\ Progress
  BY <1>1, MountAssumption
  DEF MountInit, AppliedIsPrefix, HostIsPrefix, Progress
<1>4. QED
  BY <1>2, <1>3 DEF MountInv

(* The executor's list grows by the current entry.                         *)
LEMMA PushEntry ==
  ASSUME MountTypeOK, AppliedIsPrefix, idx \in 1..NMounts,
         Len(applied) = idx - 1, applied' = Append(applied, idx)
  PROVE  /\ applied' \in Seq(1..NMounts)
         /\ Len(applied') = idx
         /\ Kept' = Kept \cup {idx}
         /\ Kept' = 1..idx
         /\ \A n \in Kept' : applied'[n] = n
<1>1. applied \in Seq(1..NMounts) /\ idx \in Nat /\ NMounts \in Nat
  BY MountAssumption DEF MountTypeOK
<1>2. /\ applied' \in Seq(1..NMounts)
      /\ Len(applied') = idx
      /\ applied'[idx] = idx
      /\ \A n \in 1..(idx - 1) : applied'[n] = applied[n]
  BY <1>1
<1>3. \A n \in 1..(idx - 1) : applied[n] = n
  BY DEF AppliedIsPrefix, Kept
<1>4. Kept' = 1..idx /\ Kept = 1..(idx - 1)
  BY <1>2 DEF Kept
<1>5. 1..idx = (1..(idx - 1)) \cup {idx}
  BY <1>1
<1>6. \A n \in 1..idx : applied'[n] = n
  BY <1>2, <1>3, <1>5
<1>7. QED
  BY <1>2, <1>4, <1>5, <1>6

(* A sequence without its last element.                                    *)
LEMMA DropLast ==
  ASSUME NEW S, NEW s \in Seq(S), Len(s) \in Nat \ {0}
  PROVE  /\ SubSeq(s, 1, Len(s) - 1) \in Seq(S)
         /\ Len(SubSeq(s, 1, Len(s) - 1)) = Len(s) - 1
         /\ \A n \in 1..(Len(s) - 1) : SubSeq(s, 1, Len(s) - 1)[n] = s[n]
<1> DEFINE k == Len(s) - 1
<1>1. k \in Nat /\ k < Len(s) /\ k \in Int /\ 1 \in Int
  OBVIOUS
<1>2. \A n \in 1..k : n \in 1..Len(s)
  BY <1>1
<1>3. \A n \in 1..k : s[n] \in S
  BY <1>2
<1> HIDE DEF k
<1>4. /\ SubSeq(s, 1, k) \in Seq(S)
      /\ Len(SubSeq(s, 1, k)) = IF 1 <= k THEN k - 1 + 1 ELSE 0
      /\ \A n \in 1..(k - 1 + 1) : SubSeq(s, 1, k)[n] = s[1 + n - 1]
  BY <1>1, <1>3, SubSeqProperties
<1>5. k - 1 + 1 = k /\ (~(1 <= k) => k = 0)
  BY <1>1
<1>6. \A n \in 1..k : 1 + n - 1 = n
  BY <1>1
<1>7. /\ SubSeq(s, 1, k) \in Seq(S)
      /\ Len(SubSeq(s, 1, k)) = k
      /\ \A n \in 1..k : SubSeq(s, 1, k)[n] = s[n]
  BY <1>4, <1>5, <1>6
<1>8. QED
  BY <1>7 DEF k

(* rollback_mounts takes the last entry of the list off it.                *)
LEMMA PopEntry ==
  ASSUME MountTypeOK, AppliedIsPrefix, applied # <<>>,
         applied' = SubSeq(applied, 1, Len(applied) - 1)
  PROVE  /\ applied' \in Seq(1..NMounts)
         /\ Len(applied') = Len(applied) - 1
         /\ Len(applied') \in Nat
         /\ RollbackNext = Len(applied)
         /\ Kept' = Kept \ {RollbackNext}
         /\ \A n \in Kept' : applied'[n] = n
<1>1. applied \in Seq(1..NMounts) /\ Len(applied) \in Nat \ {0}
  BY DEF MountTypeOK
<1>2. /\ applied' \in Seq(1..NMounts)
      /\ Len(applied') = Len(applied) - 1
      /\ \A n \in 1..(Len(applied) - 1) : applied'[n] = applied[n]
  BY <1>1, DropLast
<1>3. RollbackNext = Len(applied) /\ \A n \in Kept : applied[n] = n
  BY <1>1 DEF RollbackNext, AppliedIsPrefix, Kept
<1>4. Kept' = 1..(Len(applied) - 1)
  BY <1>2 DEF Kept
<1>5. 1..(Len(applied) - 1) = (1..Len(applied)) \ {Len(applied)}
  BY <1>1
<1>6. \A n \in Kept' : applied'[n] = n
  BY <1>1, <1>2, <1>3, <1>4 DEF Kept
<1>7. QED
  BY <1>1, <1>2, <1>3, <1>4, <1>5, <1>6 DEF Kept

LEMMA MountInvStep == MountInv /\ [MountNext]_mountVars => MountInv'
<1> SUFFICES ASSUME MountInv, [MountNext]_mountVars PROVE MountInv'
  OBVIOUS
<1> USE MountAssumption
<1>0. /\ MountTypeOK /\ AppliedIsPrefix /\ HostIsPrefix /\ Progress
      /\ Len(applied) \in Nat /\ applied \in Seq(1..NMounts)
  BY DEF MountInv, MountTypeOK
<1>1. CASE StartMounts
  <2>1. Kept' = Kept
    BY <1>1 DEF StartMounts, Kept
  <2>2. QED
    BY <1>0, <1>1, <2>1 DEF StartMounts, MountInv, MountTypeOK, MountPc,
      AppliedIsPrefix, HostIsPrefix, Progress
<1>2. ASSUME NEW ok \in BOOLEAN, OnValidated(ok) PROVE MountInv'
  <2>1. Kept' = Kept
    BY <1>2 DEF OnValidated, Kept
  <2>2. QED
    BY <1>0, <1>2, <2>1 DEF OnValidated, MountInv, MountTypeOK, MountPc,
      AppliedIsPrefix, HostIsPrefix, Progress
<1>3. CASE BindMount
  <2>0. mounted = Kept /\ idx \in 1..NMounts /\ Len(applied) = idx - 1
    BY <1>0, <1>3 DEF BindMount, HostIsPrefix, Progress
  <2>1. CASE applied' = applied
    <3>1. Kept' = Kept
      BY <2>1 DEF Kept
    <3>2. MountTypeOK' /\ AppliedIsPrefix'
      BY <1>0, <1>3, <2>0, <2>1, <3>1 DEF BindMount, MountTypeOK, MountPc, AppliedIsPrefix
    <3>3. HostIsPrefix' /\ Progress'
      BY <1>0, <1>3, <2>0, <2>1, <3>1 DEF BindMount, HostIsPrefix, Progress
    <3>4. QED
      BY <3>2, <3>3 DEF MountInv
  <2>2. CASE /\ applied' = Append(applied, idx)
             /\ mounted' = mounted \cup {idx} /\ idx \notin ReadOnly
             /\ mpc' = "applied" /\ UNCHANGED <<idx, locked, keptHook, stuck>>
    <3>1. /\ applied' \in Seq(1..NMounts)
          /\ Len(applied') = idx
          /\ Kept' = Kept \cup {idx}
          /\ Kept' = 1..idx
          /\ \A n \in Kept' : applied'[n] = n
      BY <1>0, <2>0, <2>2, PushEntry
    <3>2. MountTypeOK' /\ AppliedIsPrefix'
      BY <1>0, <2>0, <2>2, <3>1 DEF MountTypeOK, MountPc, AppliedIsPrefix
    <3>3. HostIsPrefix' /\ Progress'
      BY <1>0, <1>3, <2>0, <2>2, <3>1 DEF BindMount, HostIsPrefix, Progress
    <3>4. QED
      BY <3>2, <3>3 DEF MountInv
  <2>3. QED
    BY <1>3, <2>1, <2>2 DEF BindMount
<1>4. CASE RemountReadOnly
  <2>0. /\ mounted = Kept \cup {idx} /\ idx \in ReadOnly
        /\ idx \in 1..NMounts /\ Len(applied) = idx - 1
    BY <1>0, <1>4 DEF RemountReadOnly, Progress
  <2>1. CASE applied' = applied /\ locked' = locked
    <3>1. Kept' = Kept
      BY <2>1 DEF Kept
    <3>2. MountTypeOK' /\ AppliedIsPrefix'
      BY <1>0, <1>4, <2>1, <3>1 DEF RemountReadOnly, MountTypeOK, MountPc, AppliedIsPrefix
    <3>3. HostIsPrefix' /\ Progress'
      BY <1>0, <1>4, <2>0, <2>1, <3>1 DEF RemountReadOnly, HostIsPrefix, Progress
    <3>4. QED
      BY <3>2, <3>3 DEF MountInv
  <2>2. CASE /\ applied' = Append(applied, idx) /\ locked' = locked \cup {idx}
             /\ mpc' = "applied" /\ UNCHANGED <<idx, mounted, keptHook, stuck>>
    <3>1. /\ applied' \in Seq(1..NMounts)
          /\ Len(applied') = idx
          /\ Kept' = Kept \cup {idx}
          /\ Kept' = 1..idx
          /\ \A n \in Kept' : applied'[n] = n
      BY <1>0, <2>0, <2>2, PushEntry
    <3>2. MountTypeOK' /\ AppliedIsPrefix'
      BY <1>0, <2>0, <2>2, <3>1 DEF MountTypeOK, MountPc, AppliedIsPrefix
    <3>3. HostIsPrefix' /\ Progress'
      BY <1>0, <1>4, <2>0, <2>2, <3>1 DEF RemountReadOnly, HostIsPrefix, Progress
    <3>4. QED
      BY <3>2, <3>3 DEF MountInv
  <2>3. QED
    BY <1>4, <2>1, <2>2 DEF RemountReadOnly
<1>5. ASSUME NEW ok \in BOOLEAN, OnApplied(ok) PROVE MountInv'
  <2>0. /\ mounted = Kept /\ idx \in 1..NMounts /\ Len(applied) = idx
    BY <1>0, <1>5 DEF OnApplied, HostIsPrefix, Progress
  <2>1. Kept' = Kept
    BY <1>5 DEF OnApplied, Kept
  <2>2. MountTypeOK' /\ AppliedIsPrefix' /\ HostIsPrefix'
    BY <1>0, <1>5, <2>0, <2>1 DEF OnApplied, MountTypeOK, MountPc,
      AppliedIsPrefix, HostIsPrefix
  <2>3. ASSUME ok PROVE Progress'
    <3>1. ~keptHook' /\ ~stuck' /\ Len(applied') = idx /\ mpc' # "err"
      BY <1>0, <1>5, <2>0, <2>3 DEF OnApplied, Progress
    <3>2. CASE idx = NMounts
      BY <1>5, <2>0, <2>3, <3>1, <3>2 DEF OnApplied, Progress
    <3>3. CASE idx < NMounts
      BY <1>5, <2>0, <2>3, <3>1, <3>3 DEF OnApplied, Progress
    <3>4. QED
      BY <2>0, <3>2, <3>3
  <2>4. ASSUME ~ok PROVE Progress'
    <3>1. keptHook' /\ mpc' = "err"
      BY <1>5, <2>4 DEF OnApplied
    <3>2. QED
      BY <3>1 DEF Progress
  <2>5. QED
    BY <2>2, <2>3, <2>4 DEF MountInv
<1>6. ASSUME NEW ok \in BOOLEAN, OnRejected(ok) PROVE MountInv'
  <2>1. Kept' = Kept
    BY <1>6 DEF OnRejected, Kept
  <2>2. MountTypeOK' /\ AppliedIsPrefix' /\ HostIsPrefix'
    BY <1>0, <1>6, <2>1 DEF OnRejected, MountTypeOK, MountPc,
      AppliedIsPrefix, HostIsPrefix
  <2>3. ASSUME ok PROVE Progress'
    <3>1. ~keptHook' /\ ~stuck' /\ mpc' = "rollback"
      BY <1>0, <1>6, <2>3 DEF OnRejected, Progress
    <3>2. idx' \in 1..NMounts /\ Len(applied') < idx'
      BY <1>0, <1>6 DEF OnRejected, Progress
    <3>3. QED
      BY <3>1, <3>2 DEF Progress
  <2>4. ASSUME ~ok PROVE Progress'
    <3>1. keptHook' /\ mpc' = "err"
      BY <1>6, <2>4 DEF OnRejected
    <3>2. QED
      BY <3>1 DEF Progress
  <2>5. QED
    BY <2>2, <2>3, <2>4 DEF MountInv
<1>7. CASE RollbackOne
  <2>0. idx \in 1..NMounts /\ Len(applied) < idx
    BY <1>0, <1>7 DEF RollbackOne, Progress
  <2>1. CASE applied' = applied /\ UNCHANGED <<mounted, locked>>
    <3>1. Kept' = Kept
      BY <2>1 DEF Kept
    <3>2. applied # <<>> /\ mpc = "rollback"
      BY <1>7 DEF RollbackOne
    <3>3. mpc' = "err" /\ stuck' /\ UNCHANGED <<idx, keptHook>>
      <4>1. SubSeq(applied, 1, Len(applied) - 1) # applied
        BY <1>0, <3>2
      <4>2. QED
        BY <1>7, <2>1, <4>1 DEF RollbackOne
    <3>4. MountTypeOK' /\ AppliedIsPrefix' /\ HostIsPrefix'
      BY <1>0, <2>1, <3>1, <3>2, <3>3 DEF MountTypeOK, MountPc, AppliedIsPrefix, HostIsPrefix
    <3>5. Progress'
      BY <1>0, <2>1, <3>1, <3>2, <3>3 DEF Progress
    <3>6. QED
      BY <3>4, <3>5 DEF MountInv
  <2>2. CASE /\ applied # <<>> /\ applied' = SubSeq(applied, 1, Len(applied) - 1)
             /\ mounted' = mounted \ {RollbackNext}
             /\ locked' = locked \ {RollbackNext}
             /\ mpc = "rollback" /\ UNCHANGED <<mpc, stuck, idx, keptHook>>
    <3>1. /\ applied' \in Seq(1..NMounts)
          /\ Len(applied') = Len(applied) - 1
          /\ Len(applied') \in Nat
          /\ RollbackNext = Len(applied)
          /\ Kept' = Kept \ {RollbackNext}
          /\ \A n \in Kept' : applied'[n] = n
      BY <1>0, <2>2, PopEntry
    <3>2. MountTypeOK' /\ AppliedIsPrefix'
      <4>1. MountTypeOK'
        BY <1>0, <2>2, <3>1 DEF MountTypeOK, MountPc
      <4>2. Len(applied') <= NMounts
        BY <1>0, <3>1 DEF AppliedIsPrefix
      <4>3. locked' = ReadOnly \cap Kept'
        BY <1>0, <2>2, <3>1 DEF AppliedIsPrefix
      <4>4. QED
        BY <3>1, <4>1, <4>2, <4>3 DEF AppliedIsPrefix
    <3>3. HostIsPrefix'
      BY <1>0, <2>0, <2>2, <3>1 DEF HostIsPrefix
    <3>4. Progress'
      BY <1>0, <2>0, <2>2, <3>1 DEF Progress
    <3>5. QED
      BY <3>2, <3>3, <3>4 DEF MountInv
  <2>3. QED
    BY <1>7, <2>1, <2>2 DEF RollbackOne
<1>8. CASE RollbackDone
  <2>1. Kept' = Kept /\ Len(applied) = 0
    BY <1>8 DEF RollbackDone, Kept
  <2>2. MountTypeOK' /\ AppliedIsPrefix' /\ HostIsPrefix'
    BY <1>0, <1>8, <2>1 DEF RollbackDone, MountTypeOK, MountPc,
      AppliedIsPrefix, HostIsPrefix
  <2>3. Progress'
    BY <1>0, <1>8, <2>1 DEF RollbackDone, Progress
  <2>4. QED
    BY <2>2, <2>3 DEF MountInv
<1>9. CASE UNCHANGED mountVars
  <2>1. Kept' = Kept
    BY <1>9 DEF mountVars, Kept
  <2>2. QED
    BY <1>0, <1>9, <2>1 DEF mountVars, MountInv, MountTypeOK, AppliedIsPrefix,
      HostIsPrefix, Progress
<1>10. QED
  BY <1>1, <1>2, <1>3, <1>4, <1>5, <1>6, <1>7, <1>8, <1>9
  DEF MountNext, MountSilentStep, MountHookStep

THEOREM MountInvariant == MountSpec => []MountInv
<1>1. QED
  BY MountInvInit, MountInvStep, PTL DEF MountSpec

-----------------------------------------------------------------------------

(* Every variable keeps its type, for a plan of any length.                *)
THEOREM MountTypes == MountSpec => []MountTypeOK
<1>1. MountInv => MountTypeOK
  BY DEF MountInv
<1>2. QED
  BY <1>1, MountInvariant, PTL

(* Whatever fails, the rollback never leaves a hole under a later mount.   *)
THEOREM MountsHaveNoHoles == MountSpec => []NoHoles
<1>1. MountInv => NoHoles
  <2> SUFFICES ASSUME MountInv PROVE NoHoles
    OBVIOUS
  <2>1. Len(applied) \in 0..NMounts
    BY MountAssumption DEF MountInv, MountTypeOK, AppliedIsPrefix
  <2>2. mounted = Kept \/ (mounted = Kept \cup {idx} /\ idx \in ReadOnly)
    BY DEF MountInv, HostIsPrefix
  <2>3. QED
    BY <2>1, <2>2 DEF NoHoles, Kept
<1>2. QED
  BY <1>1, MountInvariant, PTL

(* A failed plan whose hooks and umounts succeeded leaves at most the      *)
(* mount whose own read-only remount failed.                               *)
THEOREM RollbackExact == MountSpec => []RollbackIsExact
<1>1. MountInv => RollbackIsExact
  <2> SUFFICES ASSUME MountInv, mpc = "err", ~keptHook, ~stuck
               PROVE  \/ mounted = {}
                      \/ mounted = {idx} /\ idx \in ReadOnly \ locked
    BY DEF RollbackIsExact
  <2>1. Kept = {}
    BY DEF MountInv, Progress, Kept
  <2>2. locked = {}
    BY <2>1 DEF MountInv, AppliedIsPrefix
  <2>3. QED
    BY <2>1, <2>2 DEF MountInv, HostIsPrefix
<1>2. QED
  BY <1>1, MountInvariant, PTL

(* A plan that was applied is on the host entirely, its read-only entries  *)
(* read-only.                                                              *)
THEOREM AppliedComplete == MountSpec => []AppliedPlanIsComplete
<1>1. MountInv => AppliedPlanIsComplete
  <2> SUFFICES ASSUME MountInv, mpc = "ok"
               PROVE  mounted = 1..NMounts /\ ReadOnly \subseteq locked
    BY DEF AppliedPlanIsComplete
  <2>1. Kept = 1..NMounts
    BY DEF MountInv, Progress, Kept
  <2>2. QED
    BY <2>1, MountAssumption DEF MountInv, HostIsPrefix, AppliedIsPrefix
<1>2. QED
  BY <1>1, MountInvariant, PTL
=============================================================================
