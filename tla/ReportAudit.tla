----------------------------- MODULE ReportAudit -----------------------------
(***************************************************************************)
(* sr-evidence's report_builder: what a report says of a run is derived    *)
(* again from the run's event stream. An event is a record with its type   *)
(* and the payload that an audit reads.                                    *)
(***************************************************************************)
EXTENDS Integers, Sequences, FiniteSets, SequencesExt

Of(events, type) == {n \in DOMAIN events : events[n].type = type}
Count(events, type) == Cardinality(Of(events, type))
Latest(events, type) == events[Max(Of(events, type))]

(* resource_usage_from_events: the latest sample, 0 without one.           *)
ResourceUsage(events) ==
  IF Of(events, "resource.sampled") = {} THEN 0
  ELSE Latest(events, "resource.sampled").usage

(* push_unique over the error codes of the rejected mounts.                *)
Reasons(events) ==
  FoldLeft(LAMBDA rs, e : IF e.type # "mount.rejected" THEN rs
                          ELSE IF Contains(rs, e.errorCode) THEN rs
                          ELSE Append(rs, e.errorCode),
           <<>>, events)

(* mount_audit_from_events. A stream with applied mounts and none that was *)
(* validated counts those; an entry that was validated and then rejected   *)
(* counts as two requests.                                                 *)
MountAudit(events) ==
  LET validated == Count(events, "mount.validated")
      rejected == Count(events, "mount.rejected")
      applied == Count(events, "mount.applied")
      accepted == IF validated = 0 THEN applied ELSE validated IN
  [requested |-> IF validated + rejected > 0 THEN validated + rejected
                 ELSE accepted + applied,
   accepted |-> accepted,
   rejected |-> rejected,
   reasons |-> Reasons(events)]

(* Mutant: the hits of the last event only.                                *)
HitsLast(events, field) ==
  IF Of(events, "network.rule.hit") = {} THEN 0
  ELSE Latest(events, "network.rule.hit")[field]

(* network_hits_from_events, for the counters that the runner writes.      *)
Hits(events, field) ==
  MapThenSumSet(LAMBDA n : events[n][field], Of(events, "network.rule.hit"))

(* network_audit_from_events: the plan event says the mode and the rules;  *)
(* without one they are the policy's, or the number of applied rules.      *)
NetworkAudit(events, mode, ruleCount) ==
  LET planned == Of(events, "network.plan.generated") # {}
      plan == Latest(events, "network.plan.generated")
      applied == Count(events, "network.rule.applied") IN
  [mode |-> IF planned THEN plan.mode ELSE mode,
   rulesTotal |-> IF planned THEN plan.rulesTotal
                  ELSE IF applied = 0 THEN ruleCount ELSE applied,
   allowedHits |-> Hits(events, "allowedHits"),
   blockedHits |-> Hits(events, "blockedHits")]
=============================================================================
