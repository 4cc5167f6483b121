---------------------------- MODULE RunLifecycle ----------------------------
(***************************************************************************)
(* One `safe_run run`: the CLI's execute_run drives the Runner through     *)
(* prepare, launch, monitor and cleanup and then builds the report, while  *)
(* the VM it spawned runs beside it as a process of its own.               *)
(*                                                                         *)
(* The runner is one thread: pc is its place, and each of its steps is     *)
(* one stretch of code that nothing else can observe in the middle. A      *)
(* system call, a file write or an event write fails whenever its name is  *)
(* in Faults. The mount phase is the MountExecutor, whose hooks write the  *)
(* mount events.                                                           *)
(***************************************************************************)
EXTENDS Integers, Sequences

CONSTANTS
  NMounts, ReadOnly, MountFaults,   \* the mount plan, see MountExecutor
  MaxRules,   \* bound on the rules that apply installs, 0 when network is none
  Timeout,    \* timeout_sec in sample intervals
  Faults      \* the operations that may fail

FaultPoints == {"prepare", "write", "preflight", "netApply", "spawn", "vmPid",
                "readPid", "wait", "sample", "kill", "hits", "release",
                "files", "report"}

ASSUME RunAssumption ==
  /\ NMounts \in Nat
  /\ ReadOnly \subseteq 1..NMounts
  /\ MountFaults \subseteq {"bind", "remount", "umount"}
  /\ MaxRules \in Nat
  /\ Timeout \in Nat \ {0}
  /\ Faults \subseteq FaultPoints

VARIABLES
  mpc, idx, mounted, locked, applied, keptHook, stuck,   \* MountExecutor

  pc,        \* the next stretch of execute_run and of the Runner
  rules,     \* AppliedNetwork.rules.len(); 0 iff network_plan is None
  state,     \* PreparedRun.state, "none" before there is one
  err,       \* code of the error execute_run returns, "none" if there is none
  caller,    \* what made execute_run call cleanup: "launch", "monitor", "ok"
  log,       \* the events of the event stream
  missed,    \* history: an event write failed
  files,     \* transient and evidence files of the workdir
  vm,        \* the VM: "none", "running", "killed", "zombie", "reaped"
  code,      \* its exit code
  elapsed,   \* sample intervals since monitor_run started
  net,       \* the kernel's network state of this run: "down", "up", "partial"
  held,      \* PreparedRun.applied_network.is_some()
  ruleIdx,   \* the loop over applied.rules that writes network.rule.applied
  hitErr, relErr, locErr,   \* the three results that Runner::cleanup collects
  report     \* the run report was written

Mount == INSTANCE MountExecutor

mountVars == <<mpc, idx, mounted, locked, applied, keptHook, stuck>>
logVars == <<log, missed>>
vmVars == <<vm, code>>
netVars == <<net, held, ruleIdx>>
cleanVars == <<hitErr, relErr, locErr>>
runVars == <<rules, state, err, caller, files, elapsed, report>>
vars == <<mountVars, logVars, vmVars, netVars, cleanVars, runVars, pc>>

RunStates == {"prepared", "running", "finished", "failed"}

Codes == {"SR-RUN-001", "SR-RUN-002", "SR-RUN-003", "SR-RUN-101",
          "SR-RUN-201", "SR-RUN-202", "SR-EVD-001", "SR-EVD-002"}

EventTypes == {"compile", "run.prepared", "mount.validated", "mount.applied",
  "mount.rejected", "network.plan.generated", "network.rule.applied",
  "vm.started", "resource.sampled", "vm.exited", "network.rule.hit",
  "network.rule.released", "network.rule.cleanup_failed", "run.cleaned",
  "run.failed"}

(* The files Runner::cleanup removes, and those it must keep.              *)
Transient == {"runtime-context.json", "vm.pid", "api.socket"}
Evidence == {"firecracker-config.json", "events.jsonl"}

Fails(f) == f \in Faults

-----------------------------------------------------------------------------

Init ==
  /\ Mount!MountInit
  /\ pc = "prepare"
  /\ rules \in 0..MaxRules
  /\ state = "none"
  /\ err = "none"
  /\ caller = "none"
  /\ log = <<>>
  /\ missed = FALSE
  /\ files = {}
  /\ vm = "none"
  /\ code = 0
  /\ elapsed = 0
  /\ net = "down"
  /\ held = FALSE
  /\ ruleIdx = 0
  /\ hitErr = "none" /\ relErr = "none" /\ locErr = "none"
  /\ report = FALSE

(* write_event appends to the event stream; on an error nothing of the     *)
(* event is relied on and last_event_hash stays (see EvidenceLog).         *)
Logged(e) == log' = Append(log, e) /\ UNCHANGED missed
Missed == Fails("write") /\ missed' = TRUE /\ UNCHANGED log

(* run_cleanup_on_failure and then execute_run's cleanup, for launch error *)
(* c; and a monitor error c, for which execute_run calls cleanup at once.  *)
FailLaunch(c) == pc' = "fail" /\ err' = c /\ caller' = "launch"
Cleanup(c, who) == pc' = "hits" /\ err' = c /\ caller' = who
Goto(l) == pc' = l /\ UNCHANGED <<err, caller>>

-----------------------------------------------------------------------------
(* prepare                                                                 *)

(* prepare_run: each of its files is written in turn, and an error returns *)
(* at once from execute_run, with what was written left in the workdir.    *)
Prepare ==
  /\ pc = "prepare"
  /\ \/ /\ files' = Evidence \cup {"runtime-context.json"}
        /\ state' = "prepared"
        /\ Goto("compile")
     \/ /\ Fails("prepare")
        /\ \E fs \in {{}, {"firecracker-config.json"},
                      {"firecracker-config.json", "runtime-context.json"}} :
             files' = fs
        /\ \E c \in {"SR-RUN-001", "SR-RUN-002"} : err' = c
        /\ pc' = "exit"
        /\ UNCHANGED <<state, caller>>
  /\ UNCHANGED <<mountVars, logVars, vmVars, netVars, cleanVars, rules,
                 elapsed, report>>

(* write_compile_event_if_enabled; its error drops the PreparedRun.        *)
CompileEvent ==
  /\ pc = "compile"
  /\ \/ Logged("compile") /\ Goto("launch") /\ UNCHANGED state
     \/ /\ Missed
        /\ pc' = "exit" /\ err' = "SR-EVD-001" /\ state' = "none"
        /\ UNCHANGED caller
  /\ UNCHANGED <<mountVars, vmVars, netVars, cleanVars, rules, files, elapsed,
                 report>>

-----------------------------------------------------------------------------
(* launch                                                                  *)

(* The run.prepared event: an error returns before run_cleanup_on_failure  *)
(* is ever involved.                                                       *)
PreparedEvent ==
  /\ pc = "launch"
  /\ \/ Logged("run.prepared") /\ Goto("preflight")
     \/ Missed /\ Cleanup("SR-EVD-001", "launch")
  /\ UNCHANGED <<mountVars, vmVars, netVars, cleanVars, rules, state, files,
                 elapsed, report>>

(* ensure_launch_binaries.                                                 *)
Preflight ==
  /\ pc = "preflight"
  /\ \/ Goto("mount")
     \/ Fails("preflight") /\ FailLaunch("SR-RUN-002")
  /\ UNCHANGED <<mountVars, logVars, vmVars, netVars, cleanVars, rules, state,
                 files, elapsed, report>>

(* A step of apply_plan_with_hooks, whose hooks write the mount events.    *)
HookEvent == CASE mpc = "validate" -> "mount.validated"
               [] mpc = "applied" -> "mount.applied"
               [] OTHER -> "mount.rejected"

MountStep ==
  /\ pc = "mount"
  /\ \/ Mount!MountSilentStep /\ UNCHANGED logVars
     \/ Mount!MountHookStep(TRUE) /\ Logged(HookEvent)
     \/ Mount!MountHookStep(FALSE) /\ Missed
  /\ UNCHANGED <<vmVars, netVars, cleanVars, runVars, pc>>

(* launch drops the list of applied mounts, on success and on error.       *)
MountReturn ==
  /\ pc = "mount"
  /\ \/ mpc = "ok" /\ Goto("netPlan")
     \/ mpc = "err" /\ FailLaunch(IF keptHook THEN "SR-EVD-001" ELSE "SR-RUN-101")
  /\ UNCHANGED <<mountVars, logVars, vmVars, netVars, cleanVars, rules, state,
                 files, elapsed, report>>

(* Mutant: a missed network.plan.generated event goes on to the spawn.     *)
NetworkPlanGoesOn ==
  /\ pc = "netPlan"
  /\ \/ rules = 0 /\ Goto("spawn") /\ UNCHANGED logVars
     \/ rules > 0 /\ Logged("network.plan.generated") /\ Goto("netApply")
     \/ rules > 0 /\ Missed /\ Goto("spawn")
  /\ UNCHANGED <<mountVars, vmVars, netVars, cleanVars, rules, state, files,
                 elapsed, report>>

(* apply_network_if_needed up to the network.plan.generated event.         *)
NetworkPlan ==
  /\ pc = "netPlan"
  /\ \/ rules = 0 /\ Goto("spawn") /\ UNCHANGED logVars
     \/ rules > 0 /\ Logged("network.plan.generated") /\ Goto("netApply")
     \/ rules > 0 /\ Missed /\ FailLaunch("SR-EVD-001")
  /\ UNCHANGED <<mountVars, vmVars, netVars, cleanVars, rules, state, files,
                 elapsed, report>>

(* network_lifecycle.apply undoes nothing when it fails, so that an error  *)
(* leaves what was built by then: the whole network when it is of the last *)
(* step, hydrate_rule_handles, which reads the handles back.               *)
NetworkApply ==
  /\ pc = "netApply"
  /\ \/ net' = "up" /\ Goto("netRules")
     \/ /\ Fails("netApply")
        /\ \E n \in {"down", "partial", "up"} : net' = n
        /\ FailLaunch("SR-RUN-201")
  /\ UNCHANGED <<mountVars, logVars, vmVars, cleanVars, held, ruleIdx, rules,
                 state, files, elapsed, report>>

(* Mutant: one event more than there are rules.                            *)
RuleAppliedRunsOver ==
  /\ pc = "netRules"
  /\ \/ /\ ruleIdx <= rules
        /\ ruleIdx' = ruleIdx + 1
        /\ Logged("network.rule.applied")
        /\ UNCHANGED <<held, pc, err, caller>>
     \/ /\ ruleIdx > rules
        /\ held' = TRUE
        /\ Goto("spawn")
        /\ UNCHANGED <<ruleIdx, logVars>>
  /\ UNCHANGED <<mountVars, vmVars, cleanVars, net, rules, state, files,
                 elapsed, report>>

(* Mutant: applied_network is never set.                                   *)
RuleAppliedNoHandle ==
  /\ pc = "netRules"
  /\ Logged("network.rule.applied")
  /\ Goto("spawn")
  /\ UNCHANGED <<mountVars, vmVars, netVars, cleanVars, rules, state, files,
                 elapsed, report>>

(* One network.rule.applied event. applied_network is set only after the   *)
(* last of them.                                                           *)
RuleApplied ==
  /\ pc = "netRules"
  /\ \/ /\ ruleIdx < rules
        /\ ruleIdx' = ruleIdx + 1
        /\ Logged("network.rule.applied")
        /\ UNCHANGED <<held, pc, err, caller>>
     \/ /\ ruleIdx < rules
        /\ Missed
        /\ FailLaunch("SR-EVD-001")
        /\ UNCHANGED <<ruleIdx, held>>
     \/ /\ ruleIdx = rules
        /\ held' = TRUE
        /\ Goto("spawn")
        /\ UNCHANGED <<ruleIdx, logVars>>
  /\ UNCHANGED <<mountVars, vmVars, cleanVars, net, rules, state, files,
                 elapsed, report>>

(* Command::spawn of the jailer.                                           *)
Spawn ==
  /\ pc = "spawn"
  /\ \/ vm' = "running" /\ Goto("vmPid")
     \/ Fails("spawn") /\ FailLaunch("SR-RUN-002") /\ UNCHANGED vm
  /\ UNCHANGED <<mountVars, logVars, code, netVars, cleanVars, rules, state,
                 files, elapsed, report>>

(* persist_vm_pid, then state = Running. On an error the VM keeps running. *)
PersistPid ==
  /\ pc = "vmPid"
  /\ \/ /\ files' = files \cup {"vm.pid"}
        /\ state' = "running"
        /\ Goto("started")
     \/ Fails("vmPid") /\ FailLaunch("SR-RUN-001") /\ UNCHANGED <<files, state>>
  /\ UNCHANGED <<mountVars, logVars, vmVars, netVars, cleanVars, rules,
                 elapsed, report>>

(* The vm.started event.                                                   *)
StartedEvent ==
  /\ pc = "started"
  /\ \/ Logged("vm.started") /\ Goto("readPid")
     \/ Missed /\ FailLaunch("SR-EVD-001")
  /\ UNCHANGED <<mountVars, vmVars, netVars, cleanVars, rules, state, files,
                 elapsed, report>>

-----------------------------------------------------------------------------
(* failure cleanup and release                                             *)

(* Mutant: the handle is borrowed, not taken, so both cleanups release.    *)
ReleaseBorrowed ==
  \/ ~held /\ relErr' = "none" /\ UNCHANGED <<net, held, logVars>>
  \/ /\ held
     /\ net' = "down"
     /\ relErr' = "none"
     /\ Logged("network.rule.released")
     /\ UNCHANGED held

(* release_network_if_applied takes the handle before it releases, so that *)
(* a failed release is never tried again. Its outcome goes to relErr. Each *)
(* delete is tried whatever the others returned, so that a release that    *)
(* fails leaves all, some or, when the table goes anyway, none of it.      *)
Release ==
  \/ /\ ~held
     /\ relErr' = "none"
     /\ UNCHANGED <<net, held, logVars>>
  \/ /\ held
     /\ held' = FALSE
     /\ \/ /\ net' = "down"
           /\ \/ Logged("network.rule.released") /\ relErr' = "none"
              \/ Missed /\ relErr' = "SR-EVD-001"
        \/ /\ Fails("release")
           /\ \E n \in {"up", "partial", "down"} : net' = n
           /\ relErr' = "SR-RUN-202"
           /\ Logged("network.rule.cleanup_failed") \/ Missed

(* run_cleanup_on_failure: release, then state = Failed, the marker and    *)
(* the run.failed event, whose own error is dropped. It neither stops a    *)
(* spawned VM nor unmounts anything.                                       *)
FailureRelease ==
  /\ pc = "fail"
  /\ Release
  /\ Goto("failEvent")
  /\ UNCHANGED <<mountVars, vmVars, ruleIdx, hitErr, locErr, rules, state,
                 files, elapsed, report>>

FailureEventSilent ==   \* Mutant: run.failed is not written.
  /\ pc = "failEvent"
  /\ state' = "failed"
  /\ Goto("hits")
  /\ UNCHANGED <<mountVars, logVars, vmVars, netVars, cleanVars, rules, files,
                 elapsed, report>>

FailureEvent ==
  /\ pc = "failEvent"
  /\ state' = "failed"
  /\ Logged("run.failed") \/ Missed
  /\ Goto("hits")
  /\ UNCHANGED <<mountVars, vmVars, netVars, cleanVars, rules, files, elapsed,
                 report>>

-----------------------------------------------------------------------------
(* monitor                                                                 *)

(* read_vm_pid.                                                            *)
ReadPid ==
  /\ pc = "readPid"
  /\ \/ Goto("poll")
     \/ Fails("readPid") /\ Cleanup("SR-RUN-001", "monitor")
  /\ UNCHANGED <<mountVars, logVars, vmVars, netVars, cleanVars, rules, state,
                 files, elapsed, report>>

(* The head of the loop: waitpid(WNOHANG), then the timeout check.         *)
Poll ==
  /\ pc = "poll"
  /\ \/ vm = "zombie" /\ vm' = "reaped" /\ Goto("finish")
     \/ vm = "running" /\ elapsed >= Timeout /\ Goto("kill") /\ UNCHANGED vm
     \/ vm = "running" /\ elapsed < Timeout /\ Goto("sample") /\ UNCHANGED vm
     \/ Fails("wait") /\ Cleanup("SR-RUN-001", "monitor") /\ UNCHANGED vm
  /\ UNCHANGED <<mountVars, logVars, code, netVars, cleanVars, rules, state,
                 files, elapsed, report>>

(* read_resource_sample, its event and the sleep, which takes at least one *)
(* sample interval and possibly many.                                      *)
Sample ==
  /\ pc = "sample"
  /\ \/ /\ Logged("resource.sampled")
        /\ \E t \in (elapsed + 1)..Timeout : elapsed' = t
        /\ Goto("poll")
     \/ Missed /\ Cleanup("SR-EVD-001", "monitor") /\ UNCHANGED elapsed
     \/ /\ Fails("sample")
        /\ Cleanup("SR-RUN-001", "monitor")
        /\ UNCHANGED <<elapsed, logVars>>
  /\ UNCHANGED <<mountVars, vmVars, netVars, cleanVars, rules, state, files,
                 report>>

(* Mutant: the VM is not killed.                                           *)
KillSkipped ==
  /\ pc = "kill"
  /\ Goto("reap")
  /\ UNCHANGED <<mountVars, logVars, vmVars, netVars, cleanVars, rules, state,
                 files, elapsed, report>>

(* Mutant: an error of kill is overlooked and the VM is waited for.        *)
KillErrorIgnored ==
  /\ pc = "kill"
  /\ vm' = IF vm = "running" /\ ~Fails("kill") THEN "killed" ELSE vm
  /\ Goto("reap")
  /\ UNCHANGED <<mountVars, logVars, code, netVars, cleanVars, rules, state,
                 files, elapsed, report>>

(* handle_timeout: kill(SIGKILL), which succeeds on a VM that has exited   *)
(* since the poll and is not reaped yet.                                   *)
Kill ==
  /\ pc = "kill"
  /\ \/ /\ vm' = IF vm = "running" THEN "killed" ELSE vm
        /\ Goto("reap")
     \/ Fails("kill") /\ Cleanup("SR-RUN-003", "monitor") /\ UNCHANGED vm
  /\ UNCHANGED <<mountVars, logVars, code, netVars, cleanVars, rules, state,
                 files, elapsed, report>>

(* handle_timeout: the blocking waitpid.                                   *)
Reap ==
  /\ pc = "reap"
  /\ vm = "zombie"
  /\ vm' = "reaped"
  /\ Goto("timeout")
  /\ UNCHANGED <<mountVars, logVars, code, netVars, cleanVars, rules, state,
                 files, elapsed, report>>

(* The same waitpid when it fails: the VM, killed, is not waited for and   *)
(* the run goes on as if it had exited with 137.                           *)
ReapFails ==
  /\ pc = "reap"
  /\ Fails("wait")
  /\ Goto("timeout")
  /\ UNCHANGED <<mountVars, logVars, vmVars, netVars, cleanVars, rules, state,
                 files, elapsed, report>>

(* handle_timeout: finish_with_exit(timed_out) and the run.failed event.   *)
(* An error of either write is dropped: the result is SR-RUN-003.          *)
FinishTimeout ==
  /\ pc = "timeout"
  /\ state' = "failed"
  /\ \E es \in {<<"vm.exited", "run.failed">>, <<"vm.exited">>,
                <<"run.failed">>, <<>>} :
       /\ log' = log \o es
       /\ missed' = (missed \/ Len(es) < 2)
       /\ Len(es) < 2 => Fails("write")
  /\ Cleanup("SR-RUN-003", "monitor")
  /\ UNCHANGED <<mountVars, vmVars, netVars, cleanVars, rules, files, elapsed,
                 report>>

(* finish_with_exit(exit_code, timed_out = false): the state is set before *)
(* the events are written.                                                 *)
FinishExit ==
  /\ pc = "finish"
  /\ state' = IF code = 0 THEN "finished" ELSE "failed"
  /\ \/ /\ log' = log \o (IF code = 0 THEN <<"vm.exited">>
                           ELSE <<"vm.exited", "run.failed">>)
        /\ Cleanup("none", "ok")
        /\ UNCHANGED missed
     \/ /\ Fails("write")
        /\ missed' = TRUE
        /\ \/ log' = log
           \/ code # 0 /\ log' = Append(log, "vm.exited")
        /\ Cleanup("SR-EVD-001", "monitor")
  /\ UNCHANGED <<mountVars, vmVars, netVars, cleanVars, rules, files, elapsed,
                 report>>

-----------------------------------------------------------------------------
(* cleanup and report                                                      *)

(* collect_network_hits_if_applied: sample the counters and write one      *)
(* event for each rule that was hit. The first error ends it.              *)
CollectHits ==
  /\ pc = "hits"
  /\ \/ ~held /\ hitErr' = "none" /\ UNCHANGED logVars
     \/ /\ held
        /\ \E n \in 0..rules :
             LET hits == [i \in 1..n |-> "network.rule.hit"] IN
             \/ log' = log \o hits /\ hitErr' = "none" /\ UNCHANGED missed
             \/ /\ n < rules /\ Fails("write")
                /\ log' = log \o hits
                /\ missed' = TRUE
                /\ hitErr' = "SR-EVD-001"
     \/ held /\ Fails("hits") /\ hitErr' = "SR-RUN-201" /\ UNCHANGED logVars
  /\ Goto("release")
  /\ UNCHANGED <<mountVars, vmVars, netVars, relErr, locErr, rules, state,
                 files, elapsed, report>>

(* Mutant: an error of collect_network_hits skips the release.             *)
CleanupReleaseSkipped ==
  /\ pc = "release"
  /\ \/ hitErr = "none" /\ Release
     \/ hitErr # "none" /\ UNCHANGED <<net, held, relErr, logVars>>
  /\ Goto("files")
  /\ UNCHANGED <<mountVars, vmVars, ruleIdx, hitErr, locErr, rules, state,
                 files, elapsed, report>>

(* Mutant: the hits are written after the release.                         *)
CleanupReleaseFirst ==
  /\ pc = "release"
  /\ log' = log \o (IF held THEN <<"network.rule.released", "network.rule.hit">> ELSE <<>>)
  /\ held' = FALSE
  /\ net' = IF held THEN "down" ELSE net
  /\ relErr' = "none"
  /\ Goto("files")
  /\ UNCHANGED <<mountVars, missed, vmVars, ruleIdx, hitErr, locErr, rules,
                 state, files, elapsed, report>>

(* release_network_if_applied, whatever collecting the hits returned.      *)
CleanupRelease ==
  /\ pc = "release"
  /\ Release
  /\ Goto("files")
  /\ UNCHANGED <<mountVars, vmVars, ruleIdx, hitErr, locErr, rules, state,
                 files, elapsed, report>>

(* cleanup_run, whatever the release returned: remove the transient files  *)
(* in order, write the marker, write run.cleaned. The first error ends it. *)
CleanupFiles ==
  /\ pc = "files"
  /\ \/ /\ files' = files \ Transient
        /\ \/ Logged("run.cleaned") /\ locErr' = "none"
           \/ Missed /\ locErr' = "SR-EVD-001"
     \/ /\ Fails("files")
        /\ \E removed \in {{}, {"runtime-context.json"},
                           {"runtime-context.json", "vm.pid"}, Transient} :
             files' = files \ removed
        /\ locErr' = "SR-RUN-001"
        /\ UNCHANGED logVars
  /\ Goto("outcome")
  /\ UNCHANGED <<mountVars, vmVars, netVars, hitErr, relErr, rules, state,
                 elapsed, report>>

(* Mutants: an error of the release is overlooked, or comes first.         *)
CleanupErrNoRelease == IF hitErr # "none" THEN hitErr ELSE locErr
CleanupErrReleaseFirst == IF relErr # "none" THEN relErr
                          ELSE IF hitErr # "none" THEN hitErr ELSE locErr

CleanupErr == IF hitErr # "none" THEN hitErr
              ELSE IF relErr # "none" THEN relErr ELSE locErr

(* Mutant: an error of the cleanup is recorded but not returned.           *)
CleanupOutcomeIgnored ==
  /\ pc = "outcome"
  /\ \/ CleanupErr = "none" /\ UNCHANGED <<state, logVars>>
     \/ CleanupErr # "none" /\ state' = "failed" /\ Logged("run.failed")
  /\ Goto(IF err = "none" THEN "report" ELSE "exit")
  /\ UNCHANGED <<mountVars, vmVars, netVars, cleanVars, rules, files, elapsed,
                 report>>

(* The end of Runner::cleanup: any error fails the run and is written as   *)
(* run.failed, whose own error is dropped; execute_run returns it only     *)
(* when neither launch nor monitor has an error to return.                 *)
CleanupOutcome ==
  /\ pc = "outcome"
  /\ \/ CleanupErr = "none" /\ UNCHANGED <<state, logVars>>
     \/ /\ CleanupErr # "none"
        /\ state' = "failed"
        /\ Logged("run.failed") \/ Missed
  /\ err' = IF caller = "ok" THEN CleanupErr ELSE err
  /\ pc' = IF err' = "none" THEN "report" ELSE "exit"
  /\ UNCHANGED <<mountVars, vmVars, netVars, cleanVars, rules, caller, files,
                 elapsed, report>>

(* run_outcome_error.                                                      *)
RunOutcomeError == IF state = "failed" \/ code # 0 THEN "SR-RUN-001" ELSE "none"

(* build_and_write_report and run_outcome_error: the process succeeds only *)
(* for a report of a run that did not fail.                                *)
Report ==
  /\ pc = "report"
  /\ \/ /\ report' = TRUE
        /\ err' = RunOutcomeError
     \/ Fails("report") /\ err' = "SR-EVD-002" /\ UNCHANGED report
  /\ pc' = "exit"
  /\ UNCHANGED <<mountVars, logVars, vmVars, netVars, cleanVars, rules, state,
                 caller, files, elapsed>>

-----------------------------------------------------------------------------
(* the VM process                                                          *)

(* The VM exits by itself, normally or not, at any time.                   *)
VmExit ==
  /\ vm = "running"
  /\ vm' = "zombie"
  /\ \E c \in {0, 1} : code' = c
  /\ UNCHANGED <<mountVars, logVars, netVars, cleanVars, runVars, pc>>

(* The VM dies of the SIGKILL: 128 + 9.                                    *)
VmDies ==
  /\ vm = "killed"
  /\ vm' = "zombie"
  /\ code' = 137
  /\ UNCHANGED <<mountVars, logVars, netVars, cleanVars, runVars, pc>>

(* Firecracker opens its API socket in the workdir.                        *)
VmOpensSocket ==
  /\ vm = "running"
  /\ "api.socket" \notin files
  /\ files' = files \cup {"api.socket"}
  /\ UNCHANGED <<mountVars, logVars, vmVars, netVars, cleanVars, rules, state,
                 err, caller, elapsed, report, pc>>

-----------------------------------------------------------------------------

Launch ==
  \/ PreparedEvent \/ Preflight \/ MountStep \/ MountReturn \/ NetworkPlan
  \/ NetworkApply \/ RuleApplied \/ Spawn \/ PersistPid \/ StartedEvent
  \/ FailureRelease \/ FailureEvent

Monitor ==
  ReadPid \/ Poll \/ Sample \/ Kill \/ Reap \/ FinishTimeout \/ FinishExit

CleanupSteps == CollectHits \/ CleanupRelease \/ CleanupFiles \/ CleanupOutcome

Runner ==
  Prepare \/ CompileEvent \/ Launch \/ Monitor \/ CleanupSteps \/ Report

Next == Runner \/ ReapFails \/ VmExit \/ VmDies \/ VmOpensSocket

(* The runner is a thread that the operating system keeps scheduling, and  *)
(* a SIGKILL is eventually delivered. Nothing makes the VM exit by itself, *)
(* nor a blocking waitpid fail: ReapFails is no step of Runner.            *)
Spec == Init /\ [][Next]_vars /\ WF_vars(Runner) /\ WF_vars(VmDies)

Pcs == {"prepare", "compile", "launch", "preflight", "mount", "netPlan",
        "netApply", "netRules", "spawn", "vmPid", "started", "fail",
        "failEvent", "readPid", "poll", "sample", "kill", "reap", "timeout",
        "finish", "hits", "release", "files", "outcome", "report", "exit"}

(* Every variable has its type.                                            *)
TypeOK ==
  /\ Mount!MountTypeOK
  /\ pc \in Pcs
  /\ rules \in 0..MaxRules
  /\ state \in RunStates \cup {"none"}
  /\ err \in Codes \cup {"none"}
  /\ caller \in {"none", "launch", "monitor", "ok"}
  /\ log \in Seq(EventTypes)
  /\ missed \in BOOLEAN
  /\ files \subseteq Evidence \cup Transient
  /\ vm \in {"none", "running", "killed", "zombie", "reaped"}
  /\ code \in {0, 1, 137}
  /\ elapsed \in 0..Timeout
  /\ net \in {"down", "up", "partial"}
  /\ held \in BOOLEAN
  /\ ruleIdx \in 0..rules
  /\ {hitErr, relErr, locErr} \subseteq Codes \cup {"none"}
  /\ report \in BOOLEAN

Exited == pc = "exit"
Succeeded == Exited /\ err = "none"
Wrote(e) == \E i \in DOMAIN log : log[i] = e
Once(es) == \A i, j \in DOMAIN log : {log[i], log[j]} \subseteq es => i = j

(* A zero exit status of `safe_run run` is the truth about the VM, the     *)
(* network and the evidence: the VM exited with 0 and was reaped, the      *)
(* network is gone and no handle to it is kept, the transient files are    *)
(* removed and the evidence files are kept, no event is missing, and the   *)
(* report is there. It says nothing of the mounts: no run unmounts them.   *)
SuccessIsComplete ==
  Succeeded =>
    /\ vm = "reaped" /\ code = 0 /\ state = "finished"
    /\ net = "down" /\ ~held
    /\ files = Evidence
    /\ ~missed
    /\ report

(* A report is written only of a run whose VM was reaped, whose network    *)
(* and files were released and whose event stream misses no event and      *)
(* goes from run.prepared to run.cleaned.                                  *)
ReportIsOfReleasedRun ==
  report =>
    /\ vm = "reaped" /\ net = "down" /\ files = Evidence
    /\ ~missed
    /\ Wrote("run.prepared") /\ Wrote("vm.exited") /\ Wrote("run.cleaned")
    /\ (rules > 0) = Wrote("network.rule.released")
    /\ (state = "failed") = Wrote("run.failed")

(* applied_network stands for network resources that exist, and execute_run *)
(* never returns with a handle it did not release.                         *)
HandleIsLive == (held => net = "up") /\ (Exited => ~held)

(* Whatever is left of the network without a handle has its account, in    *)
(* the exit status or in the event stream: the launch failed in apply; an  *)
(* event was missed between apply and applied_network = Some(applied), and *)
(* the launch failed of it; or a release failed, which cleanup_failed      *)
(* tells unless an event was missed.                                       *)
LeakIsAccounted ==
  net # "down" /\ ~held /\ pc # "netRules" =>
    \/ ruleIdx < rules /\ caller = "launch" /\ err = "SR-RUN-201"
    \/ ruleIdx < rules /\ caller = "launch" /\ err = "SR-EVD-001" /\ missed
    \/ ruleIdx = rules /\ (Wrote("network.rule.cleanup_failed") \/ missed)

(* The stage an event belongs to. run.failed ends any of them.             *)
Stage(e) ==
  CASE e = "compile" -> 0
    [] e = "run.prepared" -> 1
    [] e \in {"mount.validated", "mount.applied", "mount.rejected"} -> 2
    [] e = "network.plan.generated" -> 3
    [] e = "network.rule.applied" -> 4
    [] e = "vm.started" -> 5
    [] e = "resource.sampled" -> 6
    [] e = "vm.exited" -> 7
    [] e = "network.rule.hit" -> 8
    [] e \in {"network.rule.released", "network.rule.cleanup_failed"} -> 9
    [] e = "run.cleaned" -> 10

(* On every path, the failure paths included, the event stream tells the   *)
(* run in the order of its stages: a release never precedes the exit it    *)
(* follows, no sample follows vm.exited, run.cleaned comes last.           *)
EventsInStageOrder ==
  \A i, j \in DOMAIN log :
    i < j /\ log[i] # "run.failed" /\ log[j] # "run.failed" =>
      Stage(log[i]) <= Stage(log[j])

(* What happens once is recorded once, however many of the failure and     *)
(* cleanup paths ran: the release of the network among them, which both    *)
(* run_cleanup_on_failure and cleanup call.                                *)
OnceEvents ==
  /\ \A e \in {"compile", "run.prepared", "network.plan.generated", "vm.started",
               "vm.exited", "run.cleaned"} : Once({e})
  /\ Once({"network.rule.released", "network.rule.cleanup_failed"})

(* The event stream never tells what did not happen, whichever failure and *)
(* cleanup paths wrote it: vm.exited is of a VM that was reaped or, in a   *)
(* run that timed out, that was killed at least; a release that is told    *)
(* left nothing, rules that were told do not go untold, no run succeeds    *)
(* that told of a failed release, and no transient file of the runner is   *)
(* there after run.cleaned.                                                *)
EventsAreTrue ==
  /\ Wrote("vm.started") => vm # "none"
  /\ Wrote("vm.exited") =>
       vm = "reaped" \/ (vm \in {"killed", "zombie"} /\ err = "SR-RUN-003")
  /\ Wrote("network.rule.applied") /\ net = "down" /\ ~missed =>
       Wrote("network.rule.released") \/ Wrote("network.rule.cleanup_failed")
  /\ Wrote("network.rule.released") => net = "down" /\ ~held
  /\ Wrote("network.rule.cleanup_failed") => ~held /\ (Exited => err # "none")
  /\ Wrote("run.cleaned") => files \subseteq Evidence \cup {"api.socket"}

(* A run that ends as failed is told by run.failed, and by a nonzero exit  *)
(* status, unless the event itself could not be written.                   *)
FailureIsRecorded ==
  Exited /\ state = "failed" => err # "none" /\ (Wrote("run.failed") \/ missed)

(* SR-RUN-202 is the exit code of a failed release of a run that went well *)
(* up to it, and of nothing else, and such a run exits with no other code: *)
(* an error of launch, monitor or the collection of the hits comes first,  *)
(* an error of removing the files after it. It does not tell how much of   *)
(* the network is left.                                                    *)
ReleaseErrorIsExact ==
  Exited =>
    /\ err = "SR-RUN-202" =>
         /\ caller = "ok" /\ vm = "reaped" /\ hitErr = "none" /\ ~held
         /\ Wrote("network.rule.cleanup_failed") \/ missed
    /\ Wrote("network.rule.cleanup_failed") /\ caller = "ok" /\ hitErr = "none" =>
         err = "SR-RUN-202"

(* The lifecycle of PreparedRun.state: launch is entered once, a finished  *)
(* run can still fail in cleanup, and a failed run stays failed.           *)
StateMoves ==
  [][state' # state =>
       \/ <<state, state'>> \in {<<"none", "prepared">>, <<"prepared", "none">>,
            <<"prepared", "running">>, <<"prepared", "failed">>,
            <<"running", "finished">>, <<"running", "failed">>,
            <<"finished", "failed">>}]_vars

(* The phase of the run for its caller, by the place of the runner.        *)
Phase ==
  CASE pc \in {"prepare", "compile", "launch", "preflight", "mount", "netPlan",
               "netApply", "netRules", "spawn"} -> "setup"
    [] pc \in {"vmPid", "started", "readPid", "poll", "sample", "kill", "reap",
               "timeout", "finish"} -> "running"
    [] pc = "exit" -> "done"
    [] OTHER -> "closing"

Filter == CASE net = "down" -> "off"
            [] net = "up" -> "on"
            [] OTHER -> "partial"

Machine == CASE vm = "none" -> "off"
             [] vm \in {"running", "killed"} -> "on"
             [] OTHER -> "over"

Verdict == IF ~Exited THEN "none" ELSE IF err = "none" THEN "good" ELSE "bad"

Contract == INSTANCE RunContract
  WITH Shares <- 1..NMounts, phase <- Phase, filtered <- rules > 0,
       shares <- mounted, filter <- Filter, machine <- Machine,
       verdict <- Verdict

(* A run is what RunContract promises: whatever fails, and wherever, the   *)
(* VM is spawned only after every mount and every rule is in place, the    *)
(* rules go only when the run is closing, and what cannot be undone is a   *)
(* nonzero exit status.                                                    *)
ImplementsContract == Contract!Safe

(* safe_run always returns: the timeout bounds the monitor, and nothing    *)
(* else waits for the VM.                                                  *)
Termination == <>Exited

(* monitor.rs:23 says that monitor always emits vm.exited.                 *)
AlwaysVmExited ==
  pc = "hits" /\ caller \in {"monitor", "ok"} => Wrote("vm.exited")

(* M3_STAGE_PLAN.md:18 says that no network resource is left behind.       *)
NoNetworkResidue == Exited => net = "down"

(* plan/M2/ARCHITECTURE.md:13 says that the mounts come before the VM and  *)
(* are rolled back when the execution fails.                               *)
FailedLaunchUnmounts == Exited /\ caller = "launch" => mounted = {}

(* plan/M1/ARCHITECTURE.md:15 says that cleanup runs after the VM exited.  *)
CleanupAfterVmExit == Wrote("run.cleaned") => vm \in {"none", "zombie", "reaped"}
=============================================================================
