---------------------------- MODULE MountExecutor ----------------------------
(***************************************************************************)
(* sr-runner's MountExecutor: apply_plan_with_hooks walks a mount plan,    *)
(* bind-mounts each entry and, for a read-only entry, remounts it          *)
(* read-only; a failing entry is reported to the hooks and the entries     *)
(* applied before it are unmounted in reverse order.                       *)
(*                                                                         *)
(* A system call and a hook are each one step, so that the module can be   *)
(* composed with the run that owns it (RunLifecycle supplies the hooks).   *)
(* The targets of a plan are taken to be distinct and not nested, so that  *)
(* unmounting an entry's target removes that entry's mount.                *)
(***************************************************************************)
EXTENDS Integers, Sequences

CONSTANTS
  NMounts,      \* entries of the plan, applied in the order 1..NMounts
  ReadOnly,     \* the entries whose read_only flag is set
  MountFaults   \* the steps that may fail: "bind", "remount", "umount"

ASSUME MountAssumption ==
  /\ NMounts \in Nat
  /\ ReadOnly \subseteq 1..NMounts
  /\ MountFaults \subseteq {"bind", "remount", "umount"}

VARIABLES
  mpc,       \* where apply_plan_with_hooks stands
  idx,       \* the entry of the loop
  mounted,   \* host: the entries whose bind mount is in place
  locked,    \* host: the entries whose mount is read-only
  applied,   \* the executor's own list of applied entries, shrinking as the
             \* rollback walks it from its end
  keptHook,  \* a hook failed, so that the function returned before rolling back
  stuck      \* an umount2 of the rollback failed

mountVars == <<mpc, idx, mounted, locked, applied, keptHook, stuck>>

MountPc == {"idle", "validate", "bind", "remount", "reject", "rollback",
            "applied", "ok", "err"}

MountInit ==
  /\ mpc = "idle"
  /\ idx = 1
  /\ mounted = {}
  /\ locked = {}
  /\ applied = <<>>
  /\ keptHook = FALSE
  /\ stuck = FALSE

-----------------------------------------------------------------------------

(* The loop head: the plan is done, or its next entry is validated.        *)
StartMounts ==
  /\ mpc = "idle"
  /\ mpc' = IF NMounts = 0 THEN "ok" ELSE "validate"
  /\ UNCHANGED <<idx, mounted, locked, applied, keptHook, stuck>>

(* hooks.on_validated(entry)?: an error leaves the loop with every earlier *)
(* mount in place.                                                         *)
OnValidated(ok) ==
  /\ mpc = "validate"
  /\ mpc' = IF ok THEN "bind" ELSE "err"
  /\ keptHook' = ~ok
  /\ UNCHANGED <<idx, mounted, locked, applied, stuck>>

(* Mutant: the read_only flag is not looked at.                            *)
BindMountReadWrite ==
  /\ mpc = "bind"
  /\ \/ /\ mounted' = mounted \cup {idx}
        /\ mpc' = "applied" /\ applied' = Append(applied, idx)
     \/ /\ "bind" \in MountFaults
        /\ mpc' = "reject"
        /\ UNCHANGED <<mounted, applied>>
  /\ UNCHANGED <<idx, locked, keptHook, stuck>>

(* SystemMountApplier: create_dir_all and the MS_BIND mount.               *)
BindMount ==
  /\ mpc = "bind"
  /\ \/ /\ mounted' = mounted \cup {idx}
        /\ IF idx \in ReadOnly
           THEN mpc' = "remount" /\ UNCHANGED applied
           ELSE mpc' = "applied" /\ applied' = Append(applied, idx)
     \/ /\ "bind" \in MountFaults
        /\ mpc' = "reject"
        /\ UNCHANGED <<mounted, applied>>
  /\ UNCHANGED <<idx, locked, keptHook, stuck>>

(* SystemMountApplier: the MS_REMOUNT | MS_RDONLY mount of a read-only     *)
(* entry. When it fails the entry is not pushed on applied, and its bind   *)
(* mount stays.                                                            *)
RemountReadOnly ==
  /\ mpc = "remount"
  /\ \/ /\ locked' = locked \cup {idx}
        /\ applied' = Append(applied, idx)
        /\ mpc' = "applied"
     \/ /\ "remount" \in MountFaults
        /\ mpc' = "reject"
        /\ UNCHANGED <<locked, applied>>
  /\ UNCHANGED <<idx, mounted, keptHook, stuck>>

(* hooks.on_applied(entry)?, then the next iteration or Ok(applied).       *)
OnApplied(ok) ==
  /\ mpc = "applied"
  /\ keptHook' = ~ok
  /\ mpc' = IF ~ok THEN "err" ELSE IF idx = NMounts THEN "ok" ELSE "validate"
  /\ idx' = IF ok /\ idx < NMounts THEN idx + 1 ELSE idx
  /\ UNCHANGED <<mounted, locked, applied, stuck>>

(* Mutant: a rejected entry returns without the rollback.                  *)
OnRejectedReturns(ok) ==
  /\ mpc = "reject"
  /\ keptHook' = ~ok
  /\ mpc' = "err"
  /\ UNCHANGED <<idx, mounted, locked, applied, stuck>>

(* hooks.on_rejected(entry, message)?, before the rollback.                *)
OnRejected(ok) ==
  /\ mpc = "reject"
  /\ keptHook' = ~ok
  /\ mpc' = IF ok THEN "rollback" ELSE "err"
  /\ UNCHANGED <<idx, mounted, locked, applied, stuck>>

(* Mutant: the rollback goes in the order of the plan.                     *)
RollbackNextForward == applied[1]

(* The entry that rollback_mounts unmounts next.                           *)
RollbackNext == applied[Len(applied)]

(* rollback_mounts: one umount2 of applied.iter().rev(). The first failure *)
(* ends the rollback and leaves the remaining entries mounted.             *)
RollbackOne ==
  /\ mpc = "rollback"
  /\ applied # <<>>
  /\ \/ /\ mounted' = mounted \ {RollbackNext}
        /\ locked' = locked \ {RollbackNext}
        /\ applied' = SubSeq(applied, 1, Len(applied) - 1)
        /\ UNCHANGED <<mpc, stuck>>
     \/ /\ "umount" \in MountFaults
        /\ mpc' = "err"
        /\ stuck' = TRUE
        /\ UNCHANGED <<mounted, locked, applied>>
  /\ UNCHANGED <<idx, keptHook>>

(* The rollback is complete: Err(SR-RUN-101).                              *)
RollbackDone ==
  /\ mpc = "rollback"
  /\ applied = <<>>
  /\ mpc' = "err"
  /\ UNCHANGED <<idx, mounted, locked, applied, keptHook, stuck>>

(* The steps that write no event.                                          *)
MountSilentStep ==
  \/ StartMounts
  \/ BindMount
  \/ RemountReadOnly
  \/ RollbackOne
  \/ RollbackDone

MountHookStep(ok) ==
  \/ OnValidated(ok)
  \/ OnApplied(ok)
  \/ OnRejected(ok)

MountNext == MountSilentStep \/ \E ok \in BOOLEAN : MountHookStep(ok)

MountSpec == MountInit /\ [][MountNext]_mountVars

-----------------------------------------------------------------------------

(* Every variable of the executor has its type.                            *)
MountTypeOK ==
  /\ mpc \in MountPc
  /\ idx \in Nat
  /\ mounted \subseteq 1..NMounts
  /\ locked \subseteq 1..NMounts
  /\ applied \in Seq(1..NMounts)
  /\ keptHook \in BOOLEAN
  /\ stuck \in BOOLEAN

(* The mounts on the host are a prefix of the plan, and on top of it at    *)
(* most the entry whose read-only remount is pending or has failed:        *)
(* rollback_mounts never removes an applied mount from under a later one.  *)
NoHoles ==
  \E n \in 0..NMounts :
    \/ mounted = 1..n
    \/ mounted = (1..n) \cup {idx} /\ idx \in ReadOnly

(* What a failed plan leaves on the host is accounted for: with no hook    *)
(* error and no umount error the rollback removed every entry it knew of,  *)
(* and the only mount left is one whose own read-only remount failed.      *)
RollbackIsExact ==
  mpc = "err" /\ ~keptHook /\ ~stuck =>
    \/ mounted = {}
    \/ mounted = {idx} /\ idx \in ReadOnly \ locked

(* A plan that was applied is mounted entirely, and every entry the policy *)
(* declared read-only is read-only on the host.                            *)
AppliedPlanIsComplete ==
  mpc = "ok" => mounted = 1..NMounts /\ ReadOnly \subseteq locked

=============================================================================
