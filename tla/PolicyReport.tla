----------------------------- MODULE PolicyReport -----------------------------
(***************************************************************************)
(* A policy on its way to the report: run_cmd loads, validates and         *)
(* compiles it, the runner writes the events of a run of the bundle that   *)
(* does not fail, and the report's audits are derived from them. What      *)
(* happens when the run fails is RunLifecycle. The commands validate and   *)
(* compile go the first steps of the same way.                             *)
(***************************************************************************)
EXTENDS PolicyCompile, ReportAudit

CONSTANTS
  Policies,    \* the policies
  Allowlists,  \* the mount allowlists
  MaxHits,     \* bound on a rule's hit counters
  MaxTargets,  \* bound on the addresses that one rule's host resolves to
  MaxSamples   \* bound on the resource samples

ASSUME ReportAssumption ==
  /\ MaxHits \in Nat /\ MaxSamples \in Nat
  /\ MaxTargets \in Nat \ {0}
ASSUME PoliciesAssumption ==
  \A p \in Policies :
    /\ p.network.mode \in {"none", "allowlist"}
    /\ p.network.egress \in Seq(Rules)
    /\ p.memory.number \in Nat
    /\ p.mounts \in Seq(Mounts)

VARIABLES
  command, policy, allow,   \* the inputs
  phase,           \* "load", "validate", "compile", "mount", "network",
                   \* "monitor", "hits", "report", "reported", or where a
                   \* command ended: "usage", "accepted", "printed",
                   \* "refused", "panicked"
  errors,          \* what validation or compilation reported
  bundle,          \* the compiled bundle, <<>> before there is one
  events,          \* the run's event stream
  targets,         \* the number of rules applied, one for each address
  counters         \* the counters of the rules, when they have been read

vars == <<command, policy, allow, phase, errors, bundle, events, targets, counters>>
inputs == <<command, policy, allow>>

Commands == {"validate", "compile", "compile --dry-run", "run"}

Init ==
  /\ command \in Commands
  /\ policy \in Policies
  /\ allow \in Allowlists
  /\ phase = "load"
  /\ errors = {}
  /\ bundle = <<>>
  /\ events = <<>>
  /\ targets = 0
  /\ counters = <<>>

(* compile_cmd refuses to do more than a dry run; load_policy_from_path    *)
(* fails for a file that cannot be read or is no policy.                   *)
Load ==
  /\ phase = "load"
  /\ \/ command = "compile" /\ errors' = {"SR-CMP-002"} /\ phase' = "usage"
     \/ command # "compile" /\ errors' = {"SR-POL-001"} /\ phase' = "usage"
     \/ command # "compile" /\ UNCHANGED errors /\ phase' = "validate"
  /\ UNCHANGED <<inputs, bundle, events, targets, counters>>

(* validate_policy_with_allowlist, as each of the commands calls it.       *)
Validate ==
  /\ phase = "validate"
  /\ errors' = PolicyErrors(policy, allow)
  /\ phase' = CASE errors' # {} -> "refused"
              [] errors' = {} /\ command = "validate" -> "accepted"
              [] errors' = {} /\ command # "validate" -> "compile"
  /\ UNCHANGED <<inputs, bundle, events, targets, counters>>

(* compile_dry_run. In a debug build an overflow of the memory panics.     *)
Compile ==
  /\ phase = "compile"
  /\ \/ /\ CompileErrors(policy) = {}
        /\ bundle' = Bundle(policy)
        /\ IF BundleComplete(bundle', policy.network.mode)
           THEN /\ phase' = IF command = "run" THEN "mount" ELSE "printed"
                /\ UNCHANGED errors
           ELSE phase' = "refused" /\ errors' = {"SR-CMP-002"}
     \/ /\ CompileErrors(policy) # {}
        /\ errors' = CompileErrors(policy)
        /\ phase' = "refused"
        /\ UNCHANGED bundle
     \/ /\ MemoryOverflows(policy.memory)
        /\ phase' = "panicked"
        /\ UNCHANGED <<errors, bundle>>
  /\ UNCHANGED <<inputs, events, targets, counters>>

Emit(es) == events' = events \o es

(* The hooks of the mount executor for each entry. Every event is enabled: *)
(* the bundle's events are all required ones.                              *)
EmitMounts ==
  /\ phase = "mount"
  /\ Emit([n \in 1..(2 * Len(bundle.mounts)) |->
            [type |-> IF n % 2 = 1 THEN "mount.validated" ELSE "mount.applied"]])
  /\ phase' = IF bundle.rules = <<>> THEN "monitor" ELSE "network"
  /\ UNCHANGED <<inputs, errors, bundle, targets, counters>>

(* apply_network_if_needed: the plan, and a rule for a CIDR or for every   *)
(* address that a host resolves to.                                        *)
EmitNetwork ==
  /\ phase = "network"
  /\ \E addresses \in [DOMAIN bundle.rules -> 1..MaxTargets] :
       /\ \A n \in DOMAIN bundle.rules : bundle.rules[n].cidr # "none" => addresses[n] = 1
       /\ targets' = MapThenSumSet(LAMBDA n : addresses[n], DOMAIN bundle.rules)
  /\ Emit(<<[type |-> "network.plan.generated", mode |-> "allowlist",
             rulesTotal |-> Len(bundle.rules)]>>
          \o [n \in 1..targets' |-> [type |-> "network.rule.applied"]])
  /\ phase' = "monitor"
  /\ UNCHANGED <<inputs, errors, bundle, counters>>

(* monitor: samples, until the VM exits.                                   *)
EmitSamples ==
  /\ phase = "monitor"
  /\ \E n \in 0..MaxSamples :
       Emit([k \in 1..n |-> [type |-> "resource.sampled", usage |-> k]])
  /\ phase' = IF bundle.rules = <<>> THEN "report" ELSE "hits"
  /\ UNCHANGED <<inputs, errors, bundle, targets, counters>>

(* collect_network_hits: an event for each rule that has a hit.            *)
Counters == [allowedHits : 0..MaxHits, blockedHits : 0..MaxHits]
Hit(c) == [type |-> "network.rule.hit",
           allowedHits |-> c.allowedHits, blockedHits |-> c.blockedHits]
EmitHit(es, c) ==
  IF c.allowedHits = 0 /\ c.blockedHits = 0 THEN es ELSE Append(es, Hit(c))

EmitHits ==
  /\ phase = "hits"
  /\ counters' \in [1..targets -> Counters]
  /\ events' = FoldLeft(EmitHit, events, counters')
  /\ phase' = "report"
  /\ UNCHANGED <<inputs, errors, bundle, targets>>

(* build_report_from_events reads the stream; the report stands.           *)
Report ==
  /\ phase = "report"
  /\ phase' = "reported"
  /\ UNCHANGED <<inputs, errors, bundle, events, targets, counters>>

Next == \/ Load \/ Validate \/ Compile \/ EmitMounts \/ EmitNetwork \/ EmitSamples
        \/ EmitHits \/ Report

Spec == Init /\ [][Next]_vars

-----------------------------------------------------------------------------

Compiled == phase \in {"printed", "mount", "network", "monitor", "hits", "report", "reported"}
Valid == phase \notin {"load", "usage", "validate", "refused"}

(* The two crates check the network section with code of their own; what   *)
(* the one finds valid the other compiles, and nothing else.               *)
ValidatorAndCompilerAgree ==
  NetworkErrors(policy.network) = {} <=> NetworkBuilds(policy.network)

(* A valid policy is refused by the compiler only for a memory text with   *)
(* white space around it or a number beyond u64; the compiler's check of   *)
(* its own bundle never refuses.                                           *)
ValidPolicyCompiles ==
  phase = "refused" /\ PolicyErrors(policy, allow) = {} =>
    errors = {"SR-CMP-001"} /\ (policy.memory.padded \/ policy.memory.number >= U64)

(* The VM gets the memory of the policy, rounded down to MiB, unless the   *)
(* number does not fit a u64 in MiB.                                       *)
MemoryIsExact ==
  LET m == policy.memory
      kib == m.number * (CASE m.unit = "Ki" -> 1
                           [] m.unit = "Mi" -> 1024
                           [] m.unit = "Gi" -> 1024 * 1024) IN
  Compiled /\ kib < 1024 * U64 =>
    bundle.mib * 1024 <= kib /\ kib < (bundle.mib + 1) * 1024

(* A component of a path survives normalisation when it is a name and no   *)
(* later stretch of the path has more ".." than names.                     *)
Names(comps, i, j) == Cardinality({k \in i..j : comps[k] \notin {".", ".."}})
Parents(comps, i, j) == Cardinality({k \in i..j : comps[k] = ".."})
Survivors(comps) ==
  {i \in DOMAIN comps :
     /\ comps[i] \notin {".", ".."}
     /\ \A j \in (i + 1)..Len(comps) :
          Parents(comps, i + 1, j) <= Names(comps, i + 1, j)}
Resolved(p) ==
  LET kept == Survivors(p.comps)
      place(i) == Cardinality({j \in kept : j <= i}) IN
  Path(p.abs, [n \in 1..Cardinality(kept) |-> p.comps[CHOOSE i \in kept : place(i) = n]])

(* What a source that does not exist yet is taken for is what remains of   *)
(* its text when every ".." has taken the name before it, and never leaves *)
(* the root. It is the text alone: an ancestor that is a symbolic link is  *)
(* not followed.                                                           *)
NormalFormIsResolved ==
  \A n \in DOMAIN policy.mounts :
    NormalizeLexically(policy.mounts[n].source) = Resolved(policy.mounts[n].source)

(* What the validator promises of a mount. Its source, by its real path if *)
(* it exists and by its text with every ".." resolved if it does not, is   *)
(* under an allowed host prefix and in no kernel file system. Its target,  *)
(* if it is written without "..", leads under an allowed guest prefix, is  *)
(* not the root and is in no denied guest path. A target with ".." is      *)
(* compared as it is written, and nothing is promised of where it leads.   *)
ValidMountsAreInside ==
  Valid => \A n \in DOMAIN policy.mounts :
    LET m == policy.mounts[n]
        source == IF m.real.kind = "missing" THEN Resolved(m.source) ELSE m.real.path
        target == Resolved(m.target) IN
    /\ m.real.kind # "denied"
    /\ \E prefix \in allow.host : IsPrefix(Components(prefix), source.comps)
    /\ \A prefix \in Sensitive : ~IsPrefix(prefix.comps, source.comps)
    /\ (\A i \in DOMAIN m.target.comps : m.target.comps[i] # "..") =>
         /\ \E prefix \in allow.guest : IsPrefix(Components(prefix), target.comps)
         /\ target.abs /\ target.comps # <<>>
         /\ \A prefix \in GuestDenied : ~IsPrefix(prefix.comps, target.comps)

(* The audits of a report, which see only the event stream, agree with the *)
(* policy: every mount requested and accepted, the policy's mode and       *)
(* number of rules although a rule may stand for several addresses, the    *)
(* hits of all rules together, and the usage of the last sample.          *)
AuditIsOfThePolicy ==
  phase = "reported" =>
    /\ MountAudit(events) = [requested |-> Len(policy.mounts),
         accepted |-> Len(policy.mounts), rejected |-> 0, reasons |-> <<>>]
    /\ LET audit == NetworkAudit(events, policy.network.mode, Len(policy.network.egress))
           sum(field) == MapThenSumSet(LAMBDA n : counters[n][field], DOMAIN counters) IN
       /\ audit.mode = policy.network.mode
       /\ audit.rulesTotal = Len(policy.network.egress)
       /\ audit.allowedHits = sum("allowedHits")
       /\ audit.blockedHits = sum("blockedHits")
    /\ ResourceUsage(events) = Count(events, "resource.sampled")
=============================================================================
