# safe_run: TLA+ models, checks and proofs

`safe_run` runs an untrusted program in a Firecracker microVM under a policy. It
validates the policy, compiles it to a VM configuration, a mount plan and a
network plan, prepares a work directory, applies mounts and the packet filter,
starts the jailed VM, watches it until it exits or times out, cleans up and
builds a report from a hash-chained event stream.

This directory holds the TLA+ modules that model it, the TLC configurations that
check them and the TLAPS proofs about them. `PROJECT.json` is the index: which
definition models which lines, which run checks which property, the mutation of
the model that breaks each property, the hazards and the findings.

Paths below are relative to `src/crates/`.

## 1. Inventory

### Components

| Component | Source | State | Operations | Correct when |
|---|---|---|---|---|
| CLI | `sr-cli/src/main.rs` | none of its own; the order of prepare, launch, monitor, cleanup, report | `validate`, `compile`, `run`, `report verify` | the exit status of `run` is 0 only for a run that did everything and left nothing; every command says the same of a policy |
| Runner | `sr-runner/src/{prepare,runner,monitor,cleanup,event,model}.rs` | `PreparedRun`: `state`, child process, `applied_network`, `last_event_hash`, work directory | `prepare`, `launch`, `monitor`, `cleanup` | network, VM and files are released on every path; failures are recorded; the event stream tells the stages in order |
| Mount executor | `sr-runner/src/{mount_executor,rollback}.rs` | list of applied mounts; the host's mount table | validate, bind, read-only remount, hooks, rollback | a failed plan leaves nothing it knew of, the mounts never have a hole, `ro` entries are read-only |
| Network lifecycle | `sr-runner/src/network_lifecycle.rs` | `AppliedNetwork`: what was created, rules with handles; the host's tap devices and nft table | `apply`, `release`, `sample_rule_hits` | the VM reaches its plan's targets only; a release that returned Ok restores the host; runs do not disturb each other |
| Event stream | `sr-evidence/src/{event_writer,hashing}.rs`, `sr-runner/src/event.rs` | `events.jsonl`, the cached hash of the last event | append, load, chain check | a stream that loads verifies and holds every acknowledged event |
| Report, audits, verifier | `sr-evidence/src/{report_builder,verifier}.rs`, `sr-cli/src/main.rs` | the report file; the staged artifacts | build a report from the events, hash the artifacts, digest it, verify it | the audits agree with the events; every report that is built verifies, every damage to it is reported |
| Archive | `sr-evidence/src/{archiver,index}.rs` | archived reports, `index.json` | archive a report, append to the index, load | every index entry has its report; nothing acknowledged is lost |
| Policy | `sr-policy/src/*.rs` | none (pure) | validate, normalise paths | what is valid is safe to compile |
| Compiler | `sr-compiler/src/*.rs` | none (pure) | `compile_dry_run`, mount plan, network plan | the bundle is complete and stays within the policy |
| Errors, scripts | `sr-common`, `scripts/` | none | codes; developer tooling | - |

### How they interact

* `execute_run` owns one `PreparedRun` and calls the Runner's operations one
  after the other in **one thread**. The only things that run beside it are the
  VM process (`Child`), the kernel, and other `safe_run` processes on the host.
* `launch` calls the mount executor with a `MountEventWriter`, whose hooks write
  events: an event that cannot be written makes the *mount plan* fail.
* `launch` calls `network_lifecycle.apply`, writes one event per rule, and only
  then stores the handle that `release` needs.
* `run_cleanup_on_failure` (from `launch`) and `cleanup` (from the CLI) both
  release the network; `Option::take` decides who does.
* Several runs share one nft table `safe_run` and its chain `forward`, each rule
  is recognised by its comment and deleted by its handle.
* The event stream is the only channel from the run to the report: the CLI
  loads `events.jsonl` again and derives every audit from it. The artifacts are
  staged into the work directory by `prepare` and hashed when the run is over.

### What is hard

* **Partial failure.** Almost every line of `launch`, `apply`, `release` and
  `cleanup` is a fallible system call or file write. An event write can fail
  between taking a resource and remembering it.
* **Two cleanups.** A failed launch runs its own cleanup and then the CLI's.
* **Interleaving with the VM.** It may exit between the poll, the timeout test,
  the kill and the wait.
* **Interleaving between runs** in the shared nft table: list-then-add,
  ownership, reuse of handles.
* **Liveness.** Does `safe_run` always return, is the VM always reaped?
* **Torn writes.** A short write leaves a torn line that the next append is
  glued to, while the cached hash must stay that of the last whole event.

The hazards are listed line by line in `PROJECT.json`.

## 2. Plan

The modules, in the order in which they were written and depend on each other.
All of it is done.

1. `MountExecutor`: the executor on its own, with an interface
   (`MountSilentStep`, `MountHookStep`) for the hooks of its caller.
2. `EvidenceLog`: the event stream under failing writes.
3. `NetworkLifecycle`: `apply`, `release` and `sample_rule_hits`, command by
   command, for several runs on one host and the packets of their VMs.
4. `RunLifecycle`: the whole run. It composes `MountExecutor` by
   `INSTANCE` (its variables are part of the run's), takes of `EvidenceLog` only
   "an append happens or fails", and of `NetworkLifecycle` only "up, partly up,
   down".
5. `ArchiveIndex`: concurrent archivers that crash.
6. `PolicyCompile` (validation, mount and network plan, memory) and
   `ReportAudit` (the audits), as operators; `PolicyReport` composes them into
   the way of one policy through a command to its report.
7. `RunContract`, which `RunLifecycle` implements, and `NetworkContract`, which
   `NetworkLifecycle` implements: the two abstract specifications.
8. `ReportIntegrity`: extends `EvidenceLog` by the artifacts, the report, the
   archive and the verifier, and implements it.
9. The proofs: `MountExecutorProofs`, `EvidenceLogProofs`, `ArchiveIndexProofs`,
   `RunLifecycleProofs` (with the refinement of `RunContract`), and on top of
   `DataInduction`, `NetworkLifecycleProofs` (with the refinement of
   `NetworkContract`), `ReportIntegrityProofs` and `PolicyReportProofs`.

What could be added is in section 7, with what it would take.

## 3. The modules

### `MountExecutor`

`apply_plan_with_hooks` as a small machine. `mpc` is the place in the loop,
`idx` the entry (1-based). `mounted` and `locked` are the *host*: the entries of
the plan that are mounted and those that were remounted read-only. `applied` is
the `Vec` the code keeps to roll back. The difference between `mounted` and
`applied` is the point of the module: an entry is two `mount` calls, and when
the second fails the first is in nobody's list (`mount_executor.rs:155`).
`keptHook` records that a hook's own error is the result, `stuck` that an umount
failed and `rollback_mounts` stopped there.

Target directories are distinct and not nested, so `umount(target)` undoes the
mount of its own entry.

### `EvidenceLog`

`events.jsonl` is `lines`, the lines that end in a newline, and `tail`, what
follows the last one; each is a list of the fragments that were written into it,
and a line parses when it is one whole event. `last` is
`PreparedRun.last_event_hash`, `acked` the events whose append returned Ok.
`AppendFails` may write nothing, a fragment, or the event without its newline,
and the *next* append goes on from there. A hash is a
number that no other event has (collisions are out of scope).

`Loads` is the CLI's `load_events`: any line that does not parse rejects the
file. `EventChainOk` is the verifier's check.

### `NetworkLifecycle`

Each `ip` or `nft` command of a run is a step; the runs interleave between
commands. `taps`, `table`, `chain`, `ruleset` and `lastHandle` are the host;
`created`, `handles` and `failed` are what `AppliedNetwork` remembers.
`DeleteRule` deletes whatever rule has the handle *now*, and a table that is
deleted and created again starts numbering from 1, so a stale handle really can
name another run's rule.

`Matches`, `Accepts` and `AllowedByPlan` give the rules their meaning: first
match decides, default accept. A plan's protocol is part of `port`. Every
target is resolved once, before its allow rule; the block rule of a target has
the address that was resolved for it. The behaviour of `nft` and `ip` is
external and stated at the head of the module. While a run is up, its VM sends
packets, and each is counted by the rule that decides it; `SampleRuleHits` reads
the counters back per target, as `sample_rule_hits` does by the rules' comments.

### `NetworkContract`

What `NetworkLifecycle` is for, with nothing of tables, chains, rules and
handles: for each run a `stage` and the set `passes` of the packets that pass
from its tap. Building takes packets away and never one of the plan; while the
VM runs the set is the plan; withdrawing it takes packets away until the final
drop goes; and a step of one run leaves the others' sets alone. The mapping
(`Contract` in `NetworkLifecycle`) computes `passes` by `Accepts` from the rules
that are installed.

### `RunLifecycle`

One action per stretch of the code between two fallible calls; `pc` names it.
Each has its failing disjunct, enabled when the operation is in `Faults`, so
one run covers failures of everything and other runs isolate one failure.

| Code | Actions |
|---|---|
| `prepare`, `write_compile_event_if_enabled` | `Prepare`, `CompileEvent` |
| `launch` | `PreparedEvent`, `Preflight`, `MountStep`, `MountReturn`, `NetworkPlan`, `NetworkApply`, `RuleApplied`, `Spawn`, `PersistPid`, `StartedEvent` |
| `run_cleanup_on_failure` | `FailureRelease`, `FailureEvent` |
| `monitor_run`, `handle_timeout`, `finish_with_exit` | `ReadPid`, `Poll`, `Sample`, `Kill`, `Reap`, `ReapFails`, `FinishTimeout`, `FinishExit` |
| `Runner::cleanup` | `CollectHits`, `CleanupRelease`, `CleanupFiles`, `CleanupOutcome` |
| `run_cmd` after `execute_run` | `Report` |
| the VM process (external) | `VmExit`, `VmDies`, `VmOpensSocket` |

`err` is what `execute_run` will return and `caller` which of its three paths
called cleanup. `missed` is a history variable: some event write failed.

Of the network a run knows "down", "up" and "partial". An `apply` that fails
leaves any of the three: it undoes nothing, and its last step,
`hydrate_rule_handles`, fails when everything is up. So does a `release` that
fails: every delete is tried, so all of them may fail, or only that of a rule
whose table then goes anyway. `Reap` and `ReapFails` are the two outcomes of the
blocking `waitpid`: when it fails, the code goes on as if the VM had exited with
137, and writes `vm.exited` of a VM that nobody reaped.

Abstractions: event gating (`events.enabled`) is always on, because the compiler
writes all required event types into the bundle; an event write that fails adds
nothing to `log` (what it does to the file is `EvidenceLog`); the kill cannot
find the process gone, because the runner has not waited for it; a crash of
`safe_run` itself has no recovery code and is not modelled.

### `RunContract`

What a run promises to its host and its caller: the VM is started only on top of
every mount and, if the plan asks for one, the whole filter; the filter goes only
when the run is closing; a good verdict is of a VM that ended and a filter that
is gone; and a run may be given up at any point, with a bad verdict and whatever
of the filter was built, which may be all of it (`Close`). The mapping
(`Contract` in `RunLifecycle`) takes the phase from the place of the runner and
the verdict from the exit status. It promises nothing of the mounts and the VM
of a run that is given up, because the code does not (see the findings).

### `ArchiveIndex`

One process of `Archivers` per caller of `archive_report`; each file operation
that other processes can observe is a step: create and write the report
(`CreateReport`, `WriteReport`), load the index, truncate it, write it
(`LoadArchiveIndex`, `OpenIndex`, `RewriteIndex`). `snapshot` is the `index`
local of `append_archive_index`. Each step may fail, and `Crash` may end the
process anywhere, also in the middle of a write. `index` is the text of
`index.json`: absent, empty (truncated), torn, or whole with its entries; only
the absent and the whole one load. When two writers have truncated before either
wrote, the second may leave a remainder of the first behind its own end.
`acked` and `raced` are histories.

### `PolicyCompile`, `ReportAudit`

Operators only: the pure functions of `sr-policy` and `sr-compiler`, and those of
`report_builder.rs`. A text is its trimmed word and whether white space is around
it, which is all that trimming can tell apart; a path is its components; the real
path of a mount source (`fs::canonicalize`) is part of the input, so a symbolic
link, a missing source and an unreadable one are all there. Each crate's own copy
of the network rules is an operator of its own (`RuleErrors`, `Buildable`). The
fields that are only compared with a literal or tested for emptiness are one set,
`policy.bad`.

### `PolicyReport`

The commands `validate`, `compile` and `run` as a sequence of phases: `Load`,
`Validate`, `Compile`, where each command stops in turn, then what the runner
writes into the stream of a run whose launch, monitor and cleanup succeed
(`EmitMounts`, `EmitNetwork`, `EmitSamples`, `EmitHits`), then `Report`. A report
exists for such runs only (`ReportIsOfReleasedRun` in `RunLifecycle`), which is
why no failing stream is needed here. `EmitNetwork` writes a
`network.rule.applied` for each address of a host, so the number of events is not
the number of rules. `targets` is the number of rules that were applied, one for
an address, and `counters` what `sample_rule_hits` read of each, so that the
audit of the hits can be compared with what was counted.

### `ReportIntegrity`

The event stream with what is around it. `source` is the artifacts where the
policy's paths lead from the current directory, `staged` the copies in the work
directory; `prepare` copies one after the other, a copy may break off half way
(`Other`), and it may be repeated until there is a report. `BuildReport` loads
the stream, hashes the artifacts (the work directory first, then the source) and
seals the report; `ArchiveReport` sets the metadata and seals it again; both may
fail half way. `Rebuild` replaces or removes a source at any time, `DamageFile`
and `DamageArchive` change what is on disk: events cut, swapped or changed,
another schema, another body, digests that are none, a file that is no JSON. A
digest is the set of the content it is of, so that two digests are equal exactly
when the contents are. `VerifyReport` has the three checks of `verify_report`.

## 4. The runs

| Run | Question | Instance |
|---|---|---|
| `mounts` | Is the rollback exact, do the mounts ever have a hole, is an applied plan complete? | 6 entries, 4 read-only; every mount, umount and hook may fail |
| `evidence` | What can be said of a stream that loads, of a report that was written, and of one that was damaged? | 3 appends, each of which may fail in every way, 2 versions of the artifacts, 1 damage |
| `network_solo` | Does one run build and withdraw its filter as promised, do the hits tell its traffic, does release restore the host? | 3 targets that share hosts and ports, 9 packets of which 3 are sent, every command may fail |
| `network_shared` | Do two runs in one table leave each other alone? | 2 runs, 1 target each, a table that was there first, one left-over tap |
| `lifecycle` | What do the exit status, the report and the event stream of a whole run promise? | 2 mounts, 0 to 2 rules, timeout of 2 samples, every operation may fail |
| `archive` | What is lost when archivers race, fail and crash? | 2 processes, 2 calls each |
| `policy` | Do validator, compiler and audits say the same of a policy? | about 1250 policies, each a valid one with one section varied, under 4 allowlists and 4 commands |
| `sample_fails`, `event_fails`, `pid_fails`, `spawn_fails`, `table_goes` | the findings below | one kind of failure each, or none |

What they show:

* `mounts`. `RollbackIsExact`: a plan that failed leaves at most the bind mount
  whose own read-only remount failed, unless a hook or an umount failed too.
  `AppliedPlanIsComplete`: after Ok every entry is mounted and exactly the `ro`
  ones are read-only. `NoHoles`: at every moment the host has a prefix of the
  plan.
* `evidence`. `LoadedChainVerifies`: the cached hash is right whatever failed
  before, so a stream that loads passes the chain check. `LoadedIsAcked`: it
  holds every acknowledged event and at most one that was not acknowledged.
  `DamageIsKept`: no later append makes a damaged stream load again.
  `WrittenReportsVerify`: a report that was written verifies, so does its
  archive, and the archive of a damaged report keeps every error but a wrong
  digest, which it replaces. `DamageIsReported`: which check reports which
  damage; a cut at the end of the events keeps the chain, so that only the
  digest tells. `ArtifactsArePinned`: a report has the hashes of what its VM was
  started with.
* `network_*`. `ImplementsContract`: the interleaved commands of every run
  change what passes from a tap only as `NetworkContract` allows. `FilterHolds`,
  `ReleasedIsGone`, `HostIsRestored`, `OnlyOwnDeleted`: what is up is the plan,
  what is released is gone, and nothing is taken from another run.
  `HitsTellTraffic`: the hits of a plan are the packets that were decided by its
  rules, however many rules name the same port. `network_shared` has a table
  that no run creates, and no failing `list` command, because a run that creates
  the table, or believes it does, takes it away from the other: that is
  `table_goes`.
* `lifecycle`. `ImplementsContract` is the order of mounts, filter, VM and
  verdict on every path. `SuccessIsComplete` and `ReportIsOfReleasedRun` are the
  contract of the exit status and of the report; both are silent on the mounts,
  which no run unmounts. `HandleIsLive`: the handle stands for a network that is
  up, and the run never exits with it. `LeakIsAccounted`: what is left without a
  handle comes from a failed `apply`, from an event missed before the handle was
  stored, or from a failed release, and the exit status or the stream tells it.
  `ReleaseErrorIsExact`: `SR-RUN-202` is a failed release of a run that went well
  up to it, always and only; it does not tell how much is left.
  `EventsInStageOrder`, `OnceEvents`, `EventsAreTrue` and `FailureIsRecorded` are about
  what the two overlapping failure paths write. `EventsAreTrue` lets `vm.exited`
  be of a VM that is not reaped in one case: its SIGKILL was sent, the wait failed
  and the run returns `SR-RUN-003`. `FailureIsRecorded` is about the state
  `Failed`: a monitor error other than a timeout leaves it `Running`.
  `Termination` is liveness: `safe_run` returns.
* `archive`. `EntryHasReport`: every entry, and every acknowledged call, has a
  whole report. `LostNeedsRace`: an index that loads lacks an acknowledged entry
  only if that entry was written while another process held a snapshot; errors
  and crashes alone lose none. `DamageIsKept`: a torn index is never overwritten
  as if it were empty, except by a process that loaded it before the damage.
* `policy`. `ValidatorAndCompilerAgree` compares the two copies of the network
  rules. `ValidPolicyCompiles` names the only valid policies that do not compile:
  white space around the memory text, or a number beyond u64. `MemoryIsExact`
  says that the VM gets the policy's memory, up to the unchecked multiplication of
  the Gi case. `NormalFormIsResolved` compares the
  stack of `normalize_path_lexically` with a definition that looks at stretches
  of the path; it is about the text, symbolic links among the ancestors are not
  followed. `ValidMountsAreInside` uses it to say where a valid mount leads: its
  source by its real path or, while it does not exist, by its text; its target
  only if it is written without `..`, because the validator compares a target as
  it is written.
  `AuditIsOfThePolicy` compares the audits, which only see events, with the
  policy.

### Findings

* `sample_fails`: `monitor.rs:23` says that monitor *always* emits `vm.exited`;
  a failing sample (or its event) returns early, while the VM runs.
* `event_fails`: when `network.rule.applied` cannot be written, `launch` returns
  before it stores the handle (`runner.rs:355`), and neither of the two cleanups
  can release the network. `M3_STAGE_PLAN.md:18` forbids residue.
* `pid_fails`: when `vm.pid` cannot be written, the VM that was just spawned is
  left running and cleanup runs beside it; `plan/M1/ARCHITECTURE.md:15` puts
  cleanup after the VM's exit.
* `spawn_fails`: `launch` drops the list of applied mounts, so a launch that
  fails after the mount phase leaves all of them (`runner.rs:128`);
  `plan/M2/ARCHITECTURE.md:13` says that a failure rolls them back.
* `table_goes`: the run that created the nft table deletes it under the others
  (`network_lifecycle.rs:324`), whose VMs are then unfiltered;
  `plan/M3/ARCHITECTURE.md:21` promises that runs do not affect each other.

More behaviours are visible in the models and have no run of their own:

* A failed read-only remount leaves a writable bind mount
  (`mount_executor.rs:155`; the exception in `RollbackIsExact`).
* A failed `apply` leaves what it had built (`network_lifecycle.rs:164`), the
  whole filter when `hydrate_rule_handles` fails (`network_lifecycle.rs:227`), and
  no handle to release it (the first case of `LeakIsAccounted`).
* A blocking `waitpid` that fails is read as exit code 137 (`monitor.rs:111`), and
  `vm.exited` is written (the exception in `EventsAreTrue`).
* A mount target with `..` is valid by its text: `/data/../proc` is under `/data`
  for the validator and leads to `/proc` (`mount_constraints.rs:41`; the condition
  in `ValidMountsAreInside`, `policy` has such targets).
  `plan/M2/MOUNT_CLARIFICATIONS.md:50-53` denies `/proc` as a target and
  everything below it, and `plan/M2/OVERVIEW.md:27` says that escapes by `..` are
  refused.
* A run that ends normally keeps its mounts: no action of the cleanup touches
  `mounted`. No statement of the repository promises an unmount at the end of a
  run, so that no property is stated of it.

What the runs do not reach: in `network_shared` the table was there first and no
`list` fails, so that handles are never used again and no rule is without one. A
handle that names another run's rule needs a table that was deleted under a run,
where `FilterHolds` is false already (`table_goes`); `ReleasedIsGone` and
`OnlyOwnDeleted` are about the interleaving, not about such handles.

### Bounds

Every bound is a constant. The mount plan: 6 entries give every combination of
first, middle and last entry, read-only or not, failing in the plan or in the
rollback; nothing in the executor looks further than one entry. The stream: the
proofs show, for any number of appends, that an append depends only on the last
line; 3 put a failure before, between and after successes, and leave two events
whose order in a report can be damaged. Two versions of an artifact tell old from
new. One damage: a second one is the damage of a damaged report, and the archive
of it is reached with one. Packets: 3 that are sent (`MaxSent`) put two on one
counter beside one on another; two runs send none, because their counters are
their own. Targets: three, because the interesting pair is an
allow rule of one target against the block rule of another with the same port,
and a third with the same host and another port. Rules in `RunLifecycle`: 0
(no network), 1 and 2, the last because the loop over the rules must be able to
stop in the middle. `Timeout` = 2 lets the VM exit before, between and after
samples. Runs: two, because every interference is of one run on another. Archivers: two
with two calls, so that a process may load what both left and lose it to the
other. A policy's sections are validated and compiled independently of each other
(only `egress` and `mode` meet), so they are varied one at a time: all single
rules over 4 protocols, 3 hosts, 4 CIDRs and 5 ports around the limits, pairs of
good, bad and equal rules; memory numbers around 0, 1024 and a `U64` of 2048; all
paths of up to 4 of a name, a sensitive name, `.` and `..`, absolute and relative;
of the allowlists one cannot be loaded and one writes its prefixes with `.`.

### Fairness

`Spec` of `RunLifecycle` assumes weak fairness of the runner's steps (the
operating system schedules a runnable thread; `Reap` is a blocking `wait` that is
not enabled before the VM is dead; nothing makes it fail, so that `ReapFails` is
no step of `Runner`) and of `VmDies` (a SIGKILL is delivered). It
assumes nothing of the VM: a VM that never exits by itself is allowed, and the
timeout is what ends it. The other specifications state no fairness and no
liveness: the mount executor, `apply`, `release` and the archiver are
straight-line code that ends by its shape, and nothing waits for another process.

`CHECK_DEADLOCK FALSE` where a behaviour ends: everywhere but in `evidence`.

## 5. The proofs

`EvidenceLogProofs` (for every `MaxAppends`). `LoadedChainVerifies` is not
inductive: it says nothing of files that do not load, and one append can turn
neither into the other without knowing what the cached hash is. `IInv` adds
three facts. `LinesAreAcked`: as long as every line parses, the lines are the
acknowledged events in order. `AckedChain`: the acknowledged events are a chain
from the genesis hash. `TailContinues`: a tail that is one whole event is the
event that the chain would have next, and `last` is the hash of the last
acknowledged event. From them `ChainHolds` and `AckedAreLoaded`; `DamageStays` is
proved step by step.

`MountExecutorProofs` (for every `NMounts`, `ReadOnly`, `MountFaults`).
`MountInv` ties the executor's list to the host. `AppliedIsPrefix`: `applied` is
the first entries of the plan in order. `HostIsPrefix`: the host has these and
at most the entry that is between its two mounts or was rejected there.
`Progress`: how far each is at each place of the loop. `MountsHaveNoHoles`,
`RollbackExact` and `AppliedComplete` follow. The lemmas `PushEntry`, `DropLast`
and `PopEntry` say what pushing to and popping from such a list does. A whole run
takes no other steps on the mounts (`RunsKeepTheExecutor` in
`RunLifecycleProofs`), so these theorems are about the mounts of every run.

`ArchiveIndexProofs` (for every set of archivers and every `MaxCalls`).
`EntryHasReport` needs `ReportOfCall` (a process that is past its write has a
whole report for its bundle) and `SnapshotHasReport` (a snapshot names only
bundles with whole reports), because an entry travels through a snapshot before
it is in the index. `LostNeedsRace` needs `HoldersKnow`: a process that holds a
snapshot has in it every bundle that was acknowledged without a race, so that
whatever it writes keeps them. `DamagedIndexStays` is proved step by step: only
`OpenIndex` and `RewriteIndex` (or a crash in it) touch the file.

`DataInduction` has the induction that the proofs about sequences, sums and folds
need. The library's induction theorems take an operator, which the provers cannot
instantiate; stated of a *set* (a set that has 0 and with n also n + 1 has every
natural, `SetInduction`; the same of the subsets of a finite set,
`SubsetInduction`) it can be used, because the set of the elements for which the
induction hypothesis holds is a term. `SubsetRecursion` gives the function that
the folds of the community modules choose; `Sums...` and `Total...` are about
`MapThenSumSet`, `FoldExists` and `PrefixSets` about `FoldLeft`.

`PolicyReportProofs` (for every set of policies and allowlists, every `U64`).
`RulesAgree` and `NetworksAgree` show that the two crates accept the same network
sections, rule by rule and for any number of rules. `PolicyInv` says that a bundle
exists only for a valid policy that compiles and is the one that
`compile_dry_run` builds from it; `ValidCompiles` and `MibOfKib` are what that
gives for the compiler's refusals and for the memory.

* Paths, of any length. `NormalizedIsListed` follows the stack of
  `normalize_path_lexically` component by component: after k of them it holds,
  in their order (`Lists`), the components that survive among the first k
  (`Kept`). A `..` takes away the last name whose names and `..` so far balance
  (`Balance`), which is the top of the stack. At the end that is `Resolved`, so
  that `PathsResolve`. What is resolved has no `.` and no `..`, its components
  are those that are written (`PlainComponents`), so that the text that the validator
  compared with the allowlist is the one that is left of a source that does not
  exist yet (`ValidSourceIsInside`). A target is only normalised by dropping `.`;
  if it has no `..` it is resolved already (`StraightIsResolved`,
  `ValidTargetIsInside`), and if it has, nothing is proved of it:
  `MountsAreInside`.
* Audits, for plans, samples and counters of any number. `AuditInv` says phase by
  phase what the event stream tells: as many mounts validated and applied as the
  plan has (`MountsTell`), one plan event if there are rules (`PlanTells`), the
  samples next to each other and the last with the greatest usage
  (`SamplesTell`), and hits that add up to the counters read so far
  (`HitsTell`). Appending events of another type keeps each of these (`Keeps`).
  The last is an induction over the fold of `EmitHit`, which writes no event for
  a rule without a hit. `AuditsTellThePolicy` follows.

`RunLifecycleProofs` (for every mount plan, number of rules, timeout and set of
operations that fail) proves every safety property of
the `lifecycle` run, each invariant on top of the ones before it.

* `NetInv`: no network before `netApply`, no handle before `spawn` or after a
  release, and a handle only for a network that is up. `HandleIsLive` alone says
  nothing of the places before the network and after the release.
* `StateInv`: the state at each place of the runner, from which each step moves
  it only forward (`StatesMoveForward`, which no run checks).
* `ExitInv`: what each phase hands to the next. While a run goes well there is
  no error and no missed event, the evidence files are there, and a network has
  its handle (`PathKept`, `MissedIsKept`, `FilesKept`, `NetKept`); the monitor
  returns a reaped VM and the state of its exit code (`VmKept`); and whatever
  goes wrong in the cleanup is in `hitErr`, `relErr` or `locErr` when `outcome`
  reads them. `SuccessIsComplete` holds at `exit` because of it.
* `OrderInv`: `Level`, the last stage that a run may have told, by the place of
  the runner, bounds every event, and the events so far are in order, one of each
  stage that has only one. The order alone is not inductive, since it does not
  say which events the next one must not precede. `EventsInStageOrder` and
  `OnceEvents` are two readings of it. `Level` at `hits` and `release` depends on
  the handle: that is where the two cleanups meet.
* `TellInv`: what each event says is true when it is written and stays so; it
  needs `OrderInv` for the events that cannot be there yet. `VmTold` follows the
  VM through the kill and the wait, `CodeTold` a failed release through `relErr`
  to the exit status, `LeftTold` how many of the rules were told when the handle
  was lost. `EventsAreTrue`, `LeakIsAccounted`, `ReleaseErrorIsExact` and
  `FailureIsRecorded` follow.
* `ReportInv`: the events that are there once their place is passed (`Passed`),
  and that a network has its handle until the release that is told (`RulesTold`).
  `ReportIsOfReleasedRun` follows.
* `ContractInv`: no machine during the setup, the executor's account of its
  mounts, and the network as planned at the spawn. With it each step of the run
  maps to a step of `RunContract` or to a stutter (`ImplementsContract`).
  `RunTypes` is the type invariant.

`NetworkLifecycleProofs` (for any runs, plan, packets, left-over taps and failing
commands). `NetworkTypes` holds always. The other theorems are under
`Undisturbed == SharedTable \/ Alone`. With
`SharedTable == TableFirst /\ "list" \notin Faults` the table was there before
the runs, so that no run creates or deletes it; `Alone` is a host with one run,
whatever it creates and whatever fails. Of several runs of which one creates the
table they are false (`table_goes`). These are the hosts of `network_shared` and
of `network_solo`.

* `HostInv` is the invariant: no handle and no rule is in the chain twice, none
  is beyond `lastHandle`, and a run's allow rules come before its other rules
  (`ChainInv`); and each run's part of the host is what its place says
  (`RunInv`): which of its rules are installed, under which of its handles, and
  whether its tap is there. `StepsAreLocal` says that a step of one run touches
  no variable of another, nor its tap, so that what is left to show of the others
  is that their rules stay. `FilterHolds`, `ReleasedIsGone`, `OnlyOwnDeleted` and
  `ImplementsContract` follow; for the last, the rules are read as the packets
  they let pass.
* `CreatedInv`: a table or chain that was not there first has a run that created
  it and either has still to delete it or has collected an error. With it
  `HostIsRestored`, of a shared table, and of a run alone that finds none. (A run
  alone that finds the table and cannot list it believes it created it, and
  deletes it: that host is not restored.)
* `CountersInv`: the counters of a run's allow rules add up to its allowed
  packets, those of its block rules to the blocked ones. A packet is decided by
  one rule, the first that matches, so that one term of one sum grows
  (`SumsGrow`). `HitsTellTraffic` follows; that two targets have different hits
  although they share a port is the order of the chain again.

`ReportIntegrityProofs` (for any number of appends and damages, any contents).
`ReportKeepsTheLog` shows that the composition implements `EvidenceLog`, so that
`ChainHolds`, `AckedAreLoaded` and `DamageStays` hold in it. `ReportInv` says of
what form a report on disk has, damaged or not (`FileInv`), what the verifier
finds in those that were written (`WroteInv`), and that a run only starts with
both artifacts staged (`StagedInv`). That a report verifies when it is built
takes from the invariant of the log that events that load pass the chain check.

`DamageIsSeen` is about reports that were damaged any number of times, in any
order of the kinds of damage. `HashOrder`: the hash of an event is greater than
the one it names. `DiskInv`: what is on disk has the types of a report, and its
events are made of those that were written there (`MadeOf`): each is one of them,
or has a hash that is not its own. What was written is `Genuine`: a chain from
the genesis hash whose hashes grow. The heart is `ChainIsBeginning`: such events
that pass the chain check are the first of those written. If they were not there
would be a first place where they differ (`Least`); the event there is a written
one, its predecessor is the written one, and only one event names that
predecessor's hash. `ReportTypes` is the type invariant.

ASSUMEs are the types of the constants (`MountAssumption`, `AppendsAssumption`,
`RunAssumption`, `ArchiveAssumption`, `PoliciesAssumption`, ...), and in
`NetworkAssumption` that a packet is its destination and port.

## 6. Only model-checked

Every invariant and every action property of the passing runs, and both
refinements, are proved. What is not:

* `Termination`, which is liveness under fairness and out of the prover's reach.
* The five properties of the violating runs, which are false.
* `ImplementsContract`, `FilterHolds` and the other properties of the host where
  `Undisturbed` does not hold: several runs and a table that one of them creates,
  or cannot list. There they are false too.

## 7. Not modelled

* Parsing: YAML of the policy and of the allowlist, IPv4 and CIDR texts (a CIDR
  is valid when its word is in `ValidCidrs`), resolution of host names.
* In the audits, the shapes of a hit event that the runner never writes
  (`allowed`, `blocked`, `result`, `decision`, `action`) and the `reasons` and
  `reason` fields of a rejection.
* The ancestors of a mount source that does not exist yet: one of them may be a
  symbolic link, which the code does not follow (`path_security.rs:159`), and the
  modelled file system knows the real paths of sources that exist.
* The time between validation and mount, in which a source may come to lead
  elsewhere: the plan keeps the text, not the canonical path. The code promises
  nothing of the later resolution, so that no property could be stated of it; it
  would take a model of the host's file system.
* How a policy's fields meet (`egress` and `mode` excepted): they are validated
  independently, and `policy` varies one section at a time.
* `blockedHits` counts the packets of the block rules; those of the default drop
  are in no counter that the report reads.
* The text of nft's output, which `sample_rule_hits` and `hydrate_rule_handles`
  parse; in `RunLifecycle` the sampling is a step that may fail or report any
  number of hits.
* `launch.rs`, `utils.rs`: command lines and paths, without state.
* `apply_plan` without hooks: no caller outside tests.
* A crash of `safe_run`: no code recovers from one.
* Resource samples' values, timestamps, wording of messages, JSON layout.
* `scripts/`, `rootfs/`: tooling.
