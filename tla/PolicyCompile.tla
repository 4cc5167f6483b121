---------------------------- MODULE PolicyCompile ----------------------------
(***************************************************************************)
(* From a policy to a bundle: sr-policy's validate_policy_with_allowlist   *)
(* and sr-compiler's compile_dry_run, as operators.                        *)
(*                                                                         *)
(* A text of a policy is its trimmed word and whether there is white space *)
(* around it; "" is a blank text and "none" an absent one, -1 an absent    *)
(* port. A path is its components and whether it starts at the root. The   *)
(* fields that are only tested and copied are the set policy.bad of those  *)
(* that are wrong.                                                         *)
(***************************************************************************)
EXTENDS Integers, Sequences, FiniteSets, SequencesExt

CONSTANTS
  ValidCidrs,   \* the words that are an IPv4 address, "/" and 0..32
  U64           \* a u64 holds the numbers 0..U64-1

ASSUME CompileAssumption == U64 \in Nat /\ U64 > 1024

-----------------------------------------------------------------------------
(* The network section, validated by one crate and compiled by another.    *)

Texts == [word : STRING, padded : BOOLEAN]
Rules == [protocol : Texts, host : Texts, cidr : Texts, port : Int]

(* normalized, normalize: trim, and a blank text is absent.                *)
Normalized(t) == IF t.word = "" THEN "none" ELSE t.word
Has(t) == Normalized(t) # "none"

ErrorIf(wrong, e) == IF wrong THEN {e} ELSE {}

(* validate_rule and validate_target: the fields that are wrong.           *)
RuleErrors(rule) ==
  LET oneTarget == Has(rule.host) # Has(rule.cidr)
      validCidr == Has(rule.cidr) => Normalized(rule.cidr) \in ValidCidrs IN
       ErrorIf(Normalized(rule.protocol) \notin {"tcp", "udp"}, "protocol")
  \cup ErrorIf(rule.port \notin 1..65535, "port")
  \cup ErrorIf(~oneTarget, "host") \cup ErrorIf(~oneTarget \/ ~validCidr, "cidr")

(* validate_network_constraints.                                           *)
NetworkErrors(network) ==
  IF network.mode = "none" \/ network.egress = <<>>
  THEN ErrorIf((network.mode = "none") # (network.egress = <<>>), "egress")
  ELSE UNION {RuleErrors(network.egress[n]) : n \in DOMAIN network.egress}

(* Mutant: the port is only cast.                                          *)
BuildableAnyPort(rule) ==
  /\ Normalized(rule.protocol) \in {"tcp", "udp"}
  /\ Has(rule.host) # Has(rule.cidr)
  /\ Has(rule.cidr) => Normalized(rule.cidr) \in ValidCidrs

(* build_rule: what it refuses with SR-CMP-201.                            *)
Buildable(rule) ==
  /\ Normalized(rule.protocol) \in {"tcp", "udp"}
  /\ rule.port \in 1..65535
  /\ Has(rule.host) # Has(rule.cidr)
  /\ Has(rule.cidr) => Normalized(rule.cidr) \in ValidCidrs

(* build_rule: what it returns; the port is cast to u16.                   *)
BuildRule(rule) ==
  [protocol |-> Normalized(rule.protocol), host |-> Normalized(rule.host),
   cidr |-> Normalized(rule.cidr), port |-> rule.port % 65536]

(* NetworkPlanBuilder::build: whether it returns a plan, and its rules;    *)
(* <<>> stands for no plan.                                                *)
NetworkBuilds(network) ==
  IF network.mode = "none" THEN network.egress = <<>>
  ELSE /\ network.egress # <<>>
       /\ \A n \in DOMAIN network.egress : Buildable(network.egress[n])
NetworkPlan(network) ==
  IF network.mode = "none" THEN <<>>
  ELSE [n \in DOMAIN network.egress |-> BuildRule(network.egress[n])]

-----------------------------------------------------------------------------
(* Memory                                                                  *)

(* The regular expression looks at the trimmed text.                       *)
MemoryErrors(m) == ErrorIf(m.unit \notin {"Ki", "Mi", "Gi"}, "memory")

(* memory_to_mib looks at the text as it is. The Gi case multiplies with   *)
(* the width of a u64: a release build wraps, a debug build panics.        *)
MemoryMaps(m) == ~m.padded /\ m.unit \in {"Ki", "Mi", "Gi"} /\ m.number < U64
MemoryOverflows(m) == MemoryMaps(m) /\ m.unit = "Gi" /\ m.number * 1024 >= U64

(* Mutant: Ki and Mi are swapped.                                          *)
MemoryToMibSwapped(m) ==
  CASE m.unit = "Ki" -> m.number
    [] m.unit = "Mi" -> m.number \div 1024
    [] m.unit = "Gi" -> (m.number * 1024) % U64
MemoryToMib(m) ==
  CASE m.unit = "Ki" -> m.number \div 1024
    [] m.unit = "Mi" -> m.number
    [] m.unit = "Gi" -> (m.number * 1024) % U64

-----------------------------------------------------------------------------
(* Mounts                                                                  *)

Path(abs, comps) == [abs |-> abs, comps |-> comps]
Paths(names) == [abs : BOOLEAN, comps : Seq(names)]

(* m.real is what fs::canonicalize says of the source: "missing",          *)
(* "denied", or its real path, which has no "." and no "..".               *)
Mounts == [source : Paths(STRING), target : Paths(STRING), read_only : BOOLEAN,
           real : [kind : {"missing", "denied", "path"}, path : Paths(STRING \ {".", ".."})]]

(* Path::components drops "." and Path::starts_with compares what is left. *)
Named(comps, c) == IF c = "." THEN comps ELSE Append(comps, c)
Components(p) == FoldLeft(Named, <<>>, p.comps)
StartsWith(p, prefix) ==
  p.abs = prefix.abs /\ IsPrefix(Components(prefix), Components(p))

(* Mutant: ".." is dropped like ".".                                       *)
PushComponentFlat(comps, c) == IF c \in {".", ".."} THEN comps ELSE Append(comps, c)

(* normalize_path_lexically: pop does nothing on an empty path or a root.  *)
PushComponent(comps, c) ==
  CASE c = "." -> comps
    [] c = ".." -> IF comps = <<>> THEN comps ELSE Front(comps)
    [] OTHER -> Append(comps, c)
NormalizeLexically(p) == Path(p.abs, FoldLeft(PushComponent, <<>>, p.comps))

(* canonicalize_mount_source.                                              *)
Canonical(m) ==
  IF m.real.kind = "missing" THEN NormalizeLexically(m.source) ELSE m.real.path

Sensitive == {Path(TRUE, <<d>>) : d \in {"proc", "sys", "dev"}}
GuestDenied == Sensitive \cup {Path(TRUE, <<d>>) : d \in
  {"run", "boot", "etc", "bin", "sbin", "lib", "lib64", "usr"}}
Blank(p) == ~p.abs /\ p.comps = <<>>

(* Mutant: the source is compared as it is written.                        *)
SourceErrorsAsWritten(m, allow) ==
  IF Blank(m.source) THEN {"SR-POL-002"}
  ELSE IF \/ \A prefix \in allow : ~StartsWith(m.source, prefix)
          \/ \E prefix \in Sensitive : StartsWith(m.source, prefix)
       THEN {"SR-POL-101"} ELSE {}

(* validate_source_path and validate_source_sensitive.                     *)
SourceErrors(m, allow) ==
  IF Blank(m.source) THEN {"SR-POL-002"}
  ELSE IF \/ m.real.kind = "denied"
          \/ \A prefix \in allow : ~StartsWith(Canonical(m), prefix)
          \/ \E prefix \in Sensitive : StartsWith(Canonical(m), prefix)
       THEN {"SR-POL-101"} ELSE {}

(* validate_target_path, of a target that is absolute.                     *)
TargetErrors(m, allow) ==
  IF ~m.target.abs THEN {"SR-POL-002"}
  ELSE IF \/ \A prefix \in allow : ~StartsWith(m.target, prefix)
          \/ Components(m.target) = <<>>
          \/ \E prefix \in GuestDenied : StartsWith(m.target, prefix)
       THEN {"SR-POL-102"} ELSE {}

(* MountAllowlist::from_file: every prefix is absolute, and so not blank.  *)
AllowlistLoads(allow) == \A p \in allow.host \cup allow.guest : p.abs

(* The loop over the mounts. Without an allowlist only the texts are       *)
(* looked at.                                                              *)
MountErrors(m, allow) ==
  ErrorIf(~m.read_only, "SR-POL-103") \cup
  IF AllowlistLoads(allow)
  THEN SourceErrors(m, allow.host) \cup TargetErrors(m, allow.guest)
  ELSE ErrorIf(Blank(m.source) \/ ~m.target.abs, "SR-POL-002")

-----------------------------------------------------------------------------
(* The whole                                                               *)

(* validate_policy_with_allowlist: the policy is valid iff this is empty.  *)
PolicyErrors(policy, allow) ==
  policy.bad \cup ErrorIf(~AllowlistLoads(allow), "SR-POL-101")
    \cup NetworkErrors(policy.network) \cup MemoryErrors(policy.memory)
    \cup UNION {MountErrors(policy.mounts[n], allow) : n \in DOMAIN policy.mounts}

BaseEvents == {"compile", "run.prepared", "vm.started", "resource.sampled",
               "vm.exited", "run.failed", "run.cleaned", "mount.validated", "mount.applied",
               "mount.rejected"}
NetworkEvents == {"network.plan.generated", "network.rule.applied",
                  "network.rule.hit", "network.rule.released",
                  "network.rule.cleanup_failed"}

(* required_evidence_events.                                               *)
RequiredEvents(mode) ==
  IF mode = "allowlist" THEN BaseEvents \cup NetworkEvents ELSE BaseEvents

(* MountPlanBuilder::build.                                                *)
MountPlan(mounts) ==
  [n \in DOMAIN mounts |-> [source |-> mounts[n].source, target |-> mounts[n].target,
                            read_only |-> mounts[n].read_only]]

(* compile_dry_run: the bundle of a policy that it accepts.                *)
Bundle(policy) ==
  [mib |-> MemoryToMib(policy.memory),
   mounts |-> MountPlan(policy.mounts),
   rules |-> NetworkPlan(policy.network),
   events |-> RequiredEvents(policy.network.mode)]

(* compile_dry_run's own refusals.                                         *)
CompileErrors(policy) ==
  IF "command" \in policy.bad THEN {"SR-CMP-002"}
  ELSE IF ~MemoryMaps(policy.memory) THEN {"SR-CMP-001"}
  ELSE IF ~NetworkBuilds(policy.network) THEN {"SR-CMP-201"}
  ELSE {}

(* Mutant: the check asks for the network events of every policy.          *)
BundleCompleteStrict(bundle, mode) ==
  /\ (bundle.rules = <<>>) = (mode = "none")
  /\ RequiredEvents("allowlist") \subseteq bundle.events

(* ensure_bundle_complete, for what is not a literal of the code.          *)
BundleComplete(bundle, mode) ==
  /\ (bundle.rules = <<>>) = (mode = "none")
  /\ RequiredEvents(mode) \subseteq bundle.events
=============================================================================
