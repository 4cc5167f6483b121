-------------------------- MODULE RunLifecycleProofs --------------------------
(***************************************************************************)
(* Proofs about a whole run, for every mount plan, number of rules,        *)
(* timeout and set of operations that fail.                                *)
(***************************************************************************)
EXTENDS RunLifecycle, SequenceTheorems, TLAPS

-----------------------------------------------------------------------------
(* The network and its handle.                                             *)

(* Before the rules are in place there is no network, and no handle.       *)
BeforeNet == {"prepare", "compile", "launch", "preflight", "mount", "netPlan",
              "netApply"}
NotBuilt ==
  /\ pc \in BeforeNet => net = "down" /\ ~held
  /\ pc = "netRules" => net = "up" /\ ~held

(* A handle stands for a network that is up, and no place after a release  *)
(* has one.                                                                *)
Settled == {"failEvent", "files", "outcome", "report", "exit"}
HandleKept == held => net = "up" /\ pc \notin Settled

RuleTypes == rules \in Nat /\ ruleIdx \in Nat /\ ruleIdx <= rules

NetInv == RuleTypes /\ NotBuilt /\ HandleKept

LEMMA NetInit == Init => NetInv
  BY RunAssumption DEF Init, NetInv, RuleTypes, NotBuilt, HandleKept

(* A release leaves no handle, and without one it touches no network.      *)
LEMMA Releases ==
  ASSUME Release
  PROVE  /\ ~held'
         /\ ~held => net' = net
         /\ missed => missed'
  BY DEF Release, Logged, Missed, logVars

LEMMA NetStep == NetInv /\ [Next]_vars => NetInv'
<1> SUFFICES ASSUME NetInv, [Next]_vars
             PROVE  NetInv'
  OBVIOUS
<1> USE DEF NetInv, RuleTypes, NotBuilt, HandleKept, BeforeNet, Settled, Goto,
            FailLaunch, Cleanup, Logged, Missed,
            logVars, netVars
<1>1. CASE Prepare
  BY <1>1 DEF Prepare
<1>2. CASE CompileEvent
  BY <1>2 DEF CompileEvent
<1>3. CASE PreparedEvent
  BY <1>3 DEF PreparedEvent
<1>4. CASE Preflight
  BY <1>4 DEF Preflight
<1>5. CASE MountStep
  BY <1>5 DEF MountStep, runVars
<1>6. CASE MountReturn
  BY <1>6 DEF MountReturn
<1>7. CASE NetworkPlan
  BY <1>7 DEF NetworkPlan
<1>8. CASE NetworkApply
  BY <1>8 DEF NetworkApply
<1>9. CASE RuleApplied
  BY <1>9 DEF RuleApplied
<1>10. CASE Spawn
  BY <1>10 DEF Spawn
<1>11. CASE PersistPid
  BY <1>11 DEF PersistPid
<1>12. CASE StartedEvent
  BY <1>12 DEF StartedEvent
<1>13. CASE FailureRelease
  BY <1>13, Releases DEF FailureRelease
<1>14. CASE FailureEvent
  BY <1>14 DEF FailureEvent
<1>15. CASE ReadPid \/ Poll \/ Sample \/ Kill \/ Reap \/ ReapFails
  BY <1>15 DEF ReadPid, Poll, Sample, Kill, Reap, ReapFails
<1>16. CASE FinishTimeout
  BY <1>16 DEF FinishTimeout
<1>17. CASE FinishExit
  BY <1>17 DEF FinishExit
<1>18. CASE CollectHits
  BY <1>18 DEF CollectHits
<1>19. CASE CleanupRelease
  BY <1>19, Releases DEF CleanupRelease
<1>20. CASE CleanupFiles
  BY <1>20 DEF CleanupFiles
<1>21. CASE CleanupOutcome
  BY <1>21 DEF CleanupOutcome
<1>22. CASE Report
  BY <1>22 DEF Report
<1>23. CASE VmExit \/ VmDies \/ VmOpensSocket
  BY <1>23 DEF VmExit, VmDies, VmOpensSocket, runVars
<1>24. CASE UNCHANGED vars
  BY <1>24 DEF vars, runVars
<1>25. QED
  BY <1>1, <1>2, <1>3, <1>4, <1>5, <1>6, <1>7, <1>8, <1>9, <1>10, <1>11, <1>12,
     <1>13, <1>14, <1>15, <1>16, <1>17, <1>18, <1>19, <1>20, <1>21, <1>22,
     <1>23, <1>24 DEF Next, Runner, Launch, Monitor, CleanupSteps

LEMMA NetInvariant == Spec => []NetInv
  BY NetInit, NetStep, PTL DEF Spec

(* The runner's handle is a network that is up, and none is left at exit.  *)
THEOREM HandlesAreLive == Spec => []HandleIsLive
<1>1. NetInv => HandleIsLive
  BY DEF NetInv, HandleKept, HandleIsLive, Settled, Exited
<1>2. QED
  BY <1>1, NetInvariant, PTL

-----------------------------------------------------------------------------
(* The states of a run.                                                    *)

BeforeVm == {"compile", "launch", "preflight", "mount", "netPlan", "netApply",
             "netRules", "spawn", "vmPid"}
WithVm == {"started", "readPid", "poll", "sample", "kill", "reap", "timeout",
           "finish"}
Ending == {"fail", "failEvent", "hits", "release", "files", "outcome", "report"}

StateInv ==
  /\ pc = "prepare" => state = "none"
  /\ pc \in BeforeVm => state = "prepared"
  /\ pc \in WithVm => state = "running"
  /\ pc \in Ending => state \in RunStates

(* The step relation of StateMoves.                                        *)
StateMove ==
  state' # state =>
       \/ <<state, state'>> \in {<<"none", "prepared">>, <<"prepared", "none">>,
            <<"prepared", "running">>, <<"prepared", "failed">>,
            <<"running", "finished">>, <<"running", "failed">>,
            <<"finished", "failed">>}

LEMMA StateInit == Init => StateInv
  BY DEF Init, StateInv, BeforeVm, WithVm, Ending

LEMMA StateStep == StateInv /\ [Next]_vars => StateInv' /\ StateMove
<1> SUFFICES ASSUME StateInv, [Next]_vars
             PROVE  StateInv' /\ StateMove
  OBVIOUS
<1> USE DEF StateInv, StateMove, BeforeVm, WithVm, Ending, RunStates, Goto,
            FailLaunch, Cleanup
<1>1. CASE Prepare \/ CompileEvent
  BY <1>1 DEF Prepare, CompileEvent
<1>2. CASE PreparedEvent \/ Preflight \/ MountReturn \/ NetworkPlan
  BY <1>2 DEF PreparedEvent, Preflight, MountReturn, NetworkPlan
<1>3. CASE MountStep
  BY <1>3 DEF MountStep, runVars
<1>4. CASE NetworkApply \/ RuleApplied \/ Spawn \/ StartedEvent
  BY <1>4 DEF NetworkApply, RuleApplied, Spawn, StartedEvent
<1>5. CASE PersistPid
  BY <1>5 DEF PersistPid
<1>6. CASE FailureRelease \/ FailureEvent
  BY <1>6 DEF FailureRelease, FailureEvent
<1>7. CASE ReadPid \/ Poll \/ Sample \/ Kill \/ Reap \/ ReapFails
  BY <1>7 DEF ReadPid, Poll, Sample, Kill, Reap, ReapFails
<1>8. CASE FinishTimeout \/ FinishExit
  BY <1>8 DEF FinishTimeout, FinishExit
<1>9. CASE CollectHits \/ CleanupRelease \/ CleanupFiles
  BY <1>9 DEF CollectHits, CleanupRelease, CleanupFiles
<1>10. CASE CleanupOutcome
  BY <1>10 DEF CleanupOutcome
<1>11. CASE Report
  BY <1>11 DEF Report
<1>12. CASE VmExit \/ VmDies \/ VmOpensSocket
  BY <1>12 DEF VmExit, VmDies, VmOpensSocket, runVars
<1>13. CASE UNCHANGED vars
  BY <1>13 DEF vars, runVars
<1>14. QED
  BY <1>1, <1>2, <1>3, <1>4, <1>5, <1>6, <1>7, <1>8, <1>9, <1>10, <1>11,
     <1>12, <1>13 DEF Next, Runner, Launch, Monitor, CleanupSteps

(* A run enters launch once, may fail late, and never leaves failed.       *)
THEOREM StatesMoveForward == Spec => StateMoves
<1>1. StateInv /\ [Next]_vars => [StateMove]_vars
  BY StateStep
<1>2. QED
  BY <1>1, StateInit, StateStep, PTL DEF Spec, StateMoves, StateMove

-----------------------------------------------------------------------------
(* What a zero exit status means.                                          *)

Main == {"prepare"} \cup BeforeVm \cup WithVm
Networked == {"spawn", "vmPid"} \cup WithVm
Closing == {"hits", "release", "files", "outcome", "report"}

(* execute_run has no error while the run goes well and has one as soon as *)
(* it does not; caller says which it was when the cleanup began.           *)
PathKept ==
  /\ pc \in Main => err = "none" /\ caller = "none"
  /\ pc \in {"fail", "failEvent"} => err # "none" /\ caller = "launch"
  /\ pc \in Closing => (err = "none" <=> caller = "ok")
  /\ pc = "report" => caller = "ok"

(* The VM of a run that went well was reaped, and its state is its code's. *)
VmKept ==
  /\ pc = "finish" => vm = "reaped"
  /\ caller = "ok" => vm = "reaped"
  /\ caller = "ok" /\ pc \in Closing =>
       state = IF code = 0 THEN "finished" ELSE "failed"

(* A missed event is an error: of the mount phase, of the launch or the    *)
(* monitor, or one of those that cleanup collects.                         *)
MissedIsKept ==
  missed =>
    /\ pc \in Main => pc = "mount" /\ mpc = "err"
    /\ caller = "ok" =>
         /\ pc \notin {"hits", "report"}
         /\ pc = "release" => hitErr # "none"
         /\ pc = "files" => hitErr # "none" \/ relErr # "none"
         /\ pc = "outcome" => CleanupErr # "none"

(* The network has its handle until the release, which reports what it     *)
(* leaves.                                                                 *)
NetKept ==
  /\ pc \in Networked => net = "down" \/ held
  /\ caller = "ok" /\ pc \in {"hits", "release"} => net = "down" \/ held
  /\ caller = "ok" /\ pc \in {"files", "outcome"} =>
       relErr # "none" \/ net = "down"
  /\ pc = "report" => net = "down"

(* The evidence files are there from prepare on; only cleanup_run's errors *)
(* leave a transient file beside them.                                     *)
FilesKept ==
  /\ files \subseteq Evidence \cup Transient
  /\ pc \notin {"prepare", "exit"} => Evidence \subseteq files
  /\ caller = "ok" /\ pc = "outcome" /\ locErr = "none" => files = Evidence
  /\ pc = "report" => files = Evidence

(* SR-RUN-202 is a failed release of a run that went well, and comes from  *)
(* nowhere else.                                                           *)
ReleaseCodeKept ==
  /\ pc # "exit" => err # "SR-RUN-202"
  /\ hitErr # "SR-RUN-202"
  /\ locErr # "SR-RUN-202"
  /\ pc = "exit" /\ err = "SR-RUN-202" =>
       caller = "ok" /\ vm = "reaped" /\ hitErr = "none" /\ relErr = "SR-RUN-202"

(* Together with NetInv and StateInv this is inductive.                    *)
ExitInv ==
  /\ PathKept /\ VmKept /\ MissedIsKept /\ NetKept /\ FilesKept
  /\ ReleaseCodeKept /\ SuccessIsComplete
  /\ report => pc = "exit"

LEMMA ExitInit == Init => ExitInv
  BY DEF Init, ExitInv, PathKept, VmKept, MissedIsKept, NetKept, FilesKept,
     ReleaseCodeKept, SuccessIsComplete, Succeeded, Exited, Main, BeforeVm, WithVm,
     Networked, Closing

(* What a release does to the network and to the results of cleanup.       *)
LEMMA ReleaseReports ==
  ASSUME Release
  PROVE  /\ relErr' = "none" => net' = "down" \/ (~held /\ net' = net)
         /\ relErr' = "none" => missed' = missed
  BY DEF Release, Logged, Missed, logVars

LEMMA ExitStep ==
  NetInv /\ StateInv /\ ExitInv /\ [Next]_vars => ExitInv'
<1> SUFFICES ASSUME NetInv, StateInv, ExitInv, [Next]_vars
             PROVE  ExitInv'
  OBVIOUS
<1> USE DEF ExitInv, PathKept, VmKept, MissedIsKept, NetKept, FilesKept,
            ReleaseCodeKept, SuccessIsComplete, Succeeded, Exited, Main, BeforeVm, WithVm,
            Networked, Closing, Evidence,
            Transient, CleanupErr, Goto, FailLaunch, Cleanup, Logged, Missed,
            logVars, netVars, cleanVars, vmVars
<1>1. CASE Prepare
  BY <1>1 DEF Prepare
<1>2. CASE CompileEvent
  BY <1>2 DEF CompileEvent
<1>3. CASE PreparedEvent
  BY <1>3 DEF PreparedEvent
<1>4. CASE Preflight
  BY <1>4 DEF Preflight
<1>5. CASE MountStep
  BY <1>5 DEF MountStep, runVars, Mount!MountSilentStep, Mount!MountHookStep,
     Mount!StartMounts, Mount!OnValidated, Mount!BindMount,
     Mount!RemountReadOnly, Mount!OnApplied, Mount!OnRejected,
     Mount!RollbackOne, Mount!RollbackDone, mountVars
<1>6. CASE MountReturn
  BY <1>6 DEF MountReturn, mountVars
<1>7. CASE NetworkPlan
  BY <1>7 DEF NetworkPlan, NetInv, NotBuilt, BeforeNet
<1>8. CASE NetworkApply
  BY <1>8 DEF NetworkApply
<1>9. CASE RuleApplied
  BY <1>9 DEF RuleApplied, NetInv, NotBuilt, BeforeNet
<1>10. CASE Spawn
  BY <1>10 DEF Spawn
<1>11. CASE PersistPid
  BY <1>11 DEF PersistPid
<1>12. CASE StartedEvent
  BY <1>12 DEF StartedEvent
<1>13. CASE FailureRelease
  BY <1>13 DEF FailureRelease
<1>14. CASE FailureEvent
  BY <1>14 DEF FailureEvent
<1>15. CASE ReadPid
  BY <1>15 DEF ReadPid
<1>16. CASE Poll
  BY <1>16 DEF Poll
<1>17. CASE Sample
  BY <1>17 DEF Sample
<1>18. CASE Kill
  BY <1>18 DEF Kill
<1>19. CASE Reap \/ ReapFails
  <2>1. /\ pc = "reap" /\ pc' = "timeout"
        /\ UNCHANGED <<mountVars, logVars, code, netVars, cleanVars, rules, state,
                       files, elapsed, report, err, caller>>
    BY <1>19 DEF Reap, ReapFails
  <2>2. QED
    BY <2>1 DEF mountVars
<1>20. CASE FinishTimeout
  BY <1>20 DEF FinishTimeout
<1>21. CASE FinishExit
  BY <1>21 DEF FinishExit
<1>22. CASE CollectHits
  <2>1. /\ pc = "hits" /\ pc' = "release"
        /\ UNCHANGED <<mountVars, vmVars, netVars, relErr, locErr, rules, state,
                       files, elapsed, report, err, caller>>
    BY <1>22 DEF CollectHits
  <2>2. missed' => missed \/ hitErr' # "none"
    BY <1>22 DEF CollectHits
  <2>3. hitErr' # "SR-RUN-202"
    BY <1>22 DEF CollectHits
  <2>4. QED
    BY <2>1, <2>2, <2>3 DEF mountVars
<1>23. CASE CleanupRelease
  BY <1>23, ReleaseReports DEF CleanupRelease
<1>24. CASE CleanupFiles
  <2>1. Evidence \subseteq files' /\ files' \subseteq Evidence \cup Transient
    BY <1>24 DEF CleanupFiles
  <2>2. locErr' = "none" => files' = Evidence
    BY <1>24 DEF CleanupFiles
  <2>3. /\ pc = "files" /\ pc' = "outcome"
        /\ locErr' # "SR-RUN-202"
        /\ missed' => missed \/ locErr' # "none"
    BY <1>24 DEF CleanupFiles
  <2>4. UNCHANGED <<mountVars, vmVars, netVars, hitErr, relErr, rules, state,
                    elapsed, report, err, caller>>
    BY <1>24 DEF CleanupFiles
  <2>5. QED
    <3> HIDE DEF Evidence, Transient
    <3>1. QED
      BY <2>1, <2>2, <2>3, <2>4 DEF mountVars
<1>25. CASE CleanupOutcome
  BY <1>25 DEF CleanupOutcome, NetInv, HandleKept, Settled, StateInv,
     RunOutcomeError
<1>26. CASE Report
  BY <1>26 DEF Report, NetInv, HandleKept, Settled, StateInv, RunOutcomeError
<1>27. CASE VmExit
  BY <1>27 DEF VmExit, runVars, mountVars
<1>28. CASE VmDies
  BY <1>28 DEF VmDies, runVars, mountVars
<1>29. CASE VmOpensSocket
  BY <1>29 DEF VmOpensSocket, runVars, mountVars
<1>30. CASE UNCHANGED vars
  BY <1>30 DEF vars, runVars, mountVars
<1>31. QED
  BY <1>1, <1>2, <1>3, <1>4, <1>5, <1>6, <1>7, <1>8, <1>9, <1>10, <1>11,
     <1>12, <1>13, <1>14, <1>15, <1>16, <1>17, <1>18, <1>19, <1>20, <1>21,
     <1>22, <1>23, <1>24, <1>25, <1>26, <1>27, <1>28, <1>29, <1>30
     DEF Next, Runner, Launch, Monitor, CleanupSteps

LEMMA ExitInvariant == Spec => []ExitInv
  BY NetInit, NetStep, StateInit, StateStep, ExitInit, ExitStep, PTL DEF Spec

(* A zero exit status is the truth about the VM, the network, the files,   *)
(* the events and the report; it says nothing of the mounts.               *)
THEOREM SuccessIsTheTruth == Spec => []SuccessIsComplete
<1>1. ExitInv => SuccessIsComplete
  BY DEF ExitInv
<1>2. QED
  BY <1>1, ExitInvariant, PTL

-----------------------------------------------------------------------------
(* The order of the events.                                                *)

(* The stages of which a run has one event, and what may follow what.      *)
Single == {0, 1, 3, 5, 7, 9, 10}
Before(d, e) ==
  d # "run.failed" /\ e # "run.failed" =>
    Stage(d) <= Stage(e) /\ (Stage(d) = Stage(e) => Stage(e) \notin Single)
History(s) == \A i, j \in DOMAIN s : i < j => Before(s[i], s[j])

Bounded(s, n) == \A i \in DOMAIN s : s[i] # "run.failed" => Stage(s[i]) <= n

(* The last stage that a run may have reached, by the place of the runner. *)
Level ==
  CASE pc \in {"prepare", "compile"} -> -1
    [] pc = "launch" -> 0
    [] pc = "preflight" -> 1
    [] pc \in {"mount", "netPlan"} -> 2
    [] pc = "netApply" -> 3
    [] pc \in {"netRules", "spawn", "vmPid", "started"} -> 4
    [] pc \in {"fail", "readPid"} -> 5
    [] pc \in {"poll", "sample", "kill", "reap", "timeout", "finish"} -> 6
    [] pc = "hits" -> IF held THEN 7 ELSE 9
    [] pc = "release" -> IF held THEN 8 ELSE 9
    [] pc \in {"failEvent", "files"} -> 9
    [] pc \in {"outcome", "report", "exit"} -> 10

LogTypes == log \in Seq(EventTypes) /\ pc \in Pcs /\ rules \in Nat
OrderInv == LogTypes /\ History(log) /\ Bounded(log, Level)

(* Every event has a stage, but run.failed.                                *)
LEMMA Stages ==
  ASSUME NEW e \in EventTypes \ {"run.failed"}
  PROVE  Stage(e) \in 0..10
  BY DEF EventTypes, Stage

(* An event that is no earlier than all others, and later than them if its *)
(* stage has only one, may be appended.                                    *)
LEMMA OrderAppend ==
  ASSUME NEW s \in Seq(EventTypes), NEW n \in Int, History(s), Bounded(s, n),
         NEW e \in EventTypes \ {"run.failed"},
         n <= Stage(e), n = Stage(e) => n \notin Single
  PROVE  /\ Append(s, e) \in Seq(EventTypes)
         /\ History(Append(s, e)) /\ Bounded(Append(s, e), Stage(e))
<1> DEFINE t == Append(s, e)
<1>1. /\ t \in Seq(EventTypes)
      /\ DOMAIN s = 1..Len(s) /\ Len(s) \in Nat
      /\ DOMAIN t = 1..(Len(s) + 1)
      /\ t[Len(s) + 1] = e
      /\ \A i \in 1..Len(s) : t[i] = s[i]
  OBVIOUS
<1> HIDE DEF t
<1>2. \A d \in EventTypes : d # "run.failed" => Stage(d) \in 0..10
  BY Stages
<1>3. \A i \in 1..Len(s) : s[i] \in EventTypes
  BY <1>1
<1>4. \A i \in 1..Len(s) : Before(s[i], e)
  BY <1>1, <1>2, <1>3 DEF Before, Bounded
<1>5. History(t)
  <2> SUFFICES ASSUME NEW i \in DOMAIN t, NEW j \in DOMAIN t, i < j
               PROVE  Before(t[i], t[j])
    BY DEF History
  <2>1. i \in 1..Len(s)
    BY <1>1
  <2>2. CASE j = Len(s) + 1
    BY <1>1, <1>4, <2>1, <2>2
  <2>3. CASE j \in 1..Len(s)
    BY <1>1, <2>1, <2>3 DEF History
  <2>4. QED
    BY <1>1, <2>2, <2>3
<1>6. Bounded(t, Stage(e))
  <2> SUFFICES ASSUME NEW i \in DOMAIN t, t[i] # "run.failed"
               PROVE  Stage(t[i]) <= Stage(e)
    BY DEF Bounded
  <2>1. CASE i = Len(s) + 1
    BY <1>1, <1>2, <2>1
  <2>2. CASE i \in 1..Len(s)
    BY <1>1, <1>2, <1>3, <2>2 DEF Bounded
  <2>3. QED
    BY <1>1, <2>1, <2>2
<1>7. QED
  BY <1>1, <1>5, <1>6 DEF t

(* run.failed may be appended anywhere.                                    *)
LEMMA OrderFailed ==
  ASSUME NEW s \in Seq(EventTypes), NEW n \in Int, History(s), Bounded(s, n)
  PROVE  /\ Append(s, "run.failed") \in Seq(EventTypes)
         /\ History(Append(s, "run.failed")) /\ Bounded(Append(s, "run.failed"), n)
<1> DEFINE t == Append(s, "run.failed")
<1>1. /\ t \in Seq(EventTypes)
      /\ DOMAIN s = 1..Len(s) /\ Len(s) \in Nat
      /\ DOMAIN t = 1..(Len(s) + 1)
      /\ t[Len(s) + 1] = "run.failed"
      /\ \A i \in 1..Len(s) : t[i] = s[i]
  BY DEF EventTypes
<1> HIDE DEF t
<1>2. History(t)
  <2> SUFFICES ASSUME NEW i \in DOMAIN t, NEW j \in DOMAIN t, i < j
               PROVE  Before(t[i], t[j])
    BY DEF History
  <2>1. i \in 1..Len(s)
    BY <1>1
  <2>2. CASE j = Len(s) + 1
    BY <1>1, <2>2 DEF Before
  <2>3. CASE j \in 1..Len(s)
    BY <1>1, <2>1, <2>3 DEF History
  <2>4. QED
    BY <1>1, <2>2, <2>3
<1>3. Bounded(t, n)
  BY <1>1 DEF Bounded
<1>4. QED
  BY <1>1, <1>2, <1>3 DEF t

(* Any number of hits may follow what is not later than a hit.             *)
LEMMA OrderHits ==
  ASSUME NEW s \in Seq(EventTypes), History(s), Bounded(s, 8), NEW k \in Nat
  PROVE  LET t == s \o [i \in 1..k |-> "network.rule.hit"] IN
         t \in Seq(EventTypes) /\ History(t) /\ Bounded(t, 8)
<1> DEFINE hits == [i \in 1..k |-> "network.rule.hit"]
           t == s \o hits
<1>1. hits \in Seq(EventTypes) /\ Len(hits) = k
  BY DEF EventTypes
<1>2. /\ t \in Seq(EventTypes)
      /\ DOMAIN s = 1..Len(s) /\ Len(s) \in Nat
      /\ DOMAIN t = 1..(Len(s) + k)
      /\ \A i \in 1..Len(s) : t[i] = s[i]
      /\ \A i \in DOMAIN t \ 1..Len(s) : t[i] = "network.rule.hit"
  BY <1>1
<1> HIDE DEF t, hits
<1>3. Stage("network.rule.hit") = 8 /\ 8 \notin Single
  BY DEF Stage, Single
<1>4. \A d \in EventTypes : d # "run.failed" => Stage(d) \in 0..10
  BY Stages
<1>5. \A i \in DOMAIN t : Before(t[i], "network.rule.hit")
  <2> SUFFICES ASSUME NEW i \in DOMAIN t
               PROVE  Before(t[i], "network.rule.hit")
    OBVIOUS
  <2>1. CASE i \in 1..Len(s)
    <3>1. s[i] \in EventTypes /\ t[i] = s[i]
      BY <1>2, <2>1
    <3>2. QED
      BY <1>2, <1>3, <1>4, <2>1, <3>1 DEF Before, Bounded
  <2>2. CASE i \notin 1..Len(s)
    BY <1>2, <1>3, <2>2 DEF Before
  <2>3. QED
    BY <2>1, <2>2
<1>6. History(t)
  <2> SUFFICES ASSUME NEW i \in DOMAIN t, NEW j \in DOMAIN t, i < j
               PROVE  Before(t[i], t[j])
    BY DEF History
  <2>1. CASE j \in 1..Len(s)
    <3>1. i \in 1..Len(s)
      BY <1>2, <2>1
    <3>2. QED
      BY <1>2, <2>1, <3>1 DEF History
  <2>2. CASE j \notin 1..Len(s)
    BY <1>2, <1>5, <2>2
  <2>3. QED
    BY <2>1, <2>2
<1>7. Bounded(t, 8)
  BY <1>2, <1>3 DEF Bounded
<1>8. QED
  BY <1>2, <1>6, <1>7 DEF t, hits

(* A later stage bounds what an earlier one does.                          *)
LEMMA BoundedLater ==
  ASSUME NEW s \in Seq(EventTypes), NEW n \in Int, NEW m \in Int,
         Bounded(s, n), n <= m
  PROVE  Bounded(s, m)
<1>1. \A i \in DOMAIN s : s[i] \in EventTypes
  OBVIOUS
<1>2. QED
  BY <1>1, Stages DEF Bounded

LEMMA OrderInit == Init => OrderInv
  BY RunAssumption DEF Init, OrderInv, LogTypes, History, Bounded, Pcs

(* A step that writes nothing, or one event of a stage that may follow.    *)
LEMMA OrderMove ==
  ASSUME OrderInv, LogTypes', Level \in Int, Level' \in Int, Level <= Level',
         \/ log' = log
         \/ log' = Append(log, "run.failed")
         \/ \E e \in EventTypes \ {"run.failed"} :
              /\ log' = Append(log, e)
              /\ Level <= Stage(e) /\ (Level = Stage(e) => Level \notin Single)
              /\ Stage(e) <= Level'
  PROVE  OrderInv'
<1>1. log \in Seq(EventTypes) /\ History(log) /\ Bounded(log, Level)
  BY DEF OrderInv, LogTypes
<1>2. log' \in Seq(EventTypes)
  BY DEF LogTypes
<1>3. CASE log' = log
  <2>1. Bounded(log, Level')
    BY <1>1, BoundedLater
  <2>2. QED
    BY <1>1, <1>3, <2>1 DEF OrderInv
<1>4. CASE log' = Append(log, "run.failed")
  <2>1. History(log') /\ Bounded(log', Level)
    BY <1>1, <1>4, OrderFailed
  <2>2. Bounded(log', Level')
    BY <1>2, <2>1, BoundedLater
  <2>3. QED
    BY <2>1, <2>2 DEF OrderInv
<1>5. ASSUME NEW e \in EventTypes \ {"run.failed"}, log' = Append(log, e),
             Level <= Stage(e), Level = Stage(e) => Level \notin Single,
             Stage(e) <= Level'
      PROVE  OrderInv'
  <2>1. History(log') /\ Bounded(log', Stage(e))
    BY <1>1, <1>5, OrderAppend
  <2>2. Stage(e) \in Int
    BY Stages
  <2>3. Bounded(log', Level')
    BY <1>2, <1>5, <2>1, <2>2, BoundedLater
  <2>4. QED
    BY <2>1, <2>3 DEF OrderInv
<1>6. QED
  BY <1>3, <1>4, <1>5

(* One event, or none.                                                     *)
Writes(e) == log' = log \/ log' = Append(log, e)

LEMMA ReleaseWrites ==
  ASSUME Release
  PROVE  /\ ~held => log' = log
         /\ held => Writes("network.rule.released") \/ Writes("network.rule.cleanup_failed")
  BY DEF Release, Logged, Missed, logVars, Writes

LEMMA TypesStep ==
  ASSUME LogTypes, [Next]_vars, log' \in Seq(EventTypes)
  PROVE  LogTypes'
<1>1. rules' = rules
  BY DEF Next, Runner, Launch, Monitor, CleanupSteps, Prepare, CompileEvent, PreparedEvent,
     Preflight, MountStep, MountReturn, NetworkPlan, NetworkApply, RuleApplied, Spawn,
     PersistPid, StartedEvent, FailureRelease, FailureEvent, ReadPid, Poll, Sample, Kill, Reap,
     ReapFails, FinishTimeout, FinishExit, CollectHits, CleanupRelease, CleanupFiles,
     CleanupOutcome,
     Report, VmExit, VmDies, VmOpensSocket, runVars, vars
<1>2. pc' \in Pcs
  <2> USE DEF Pcs, Goto, FailLaunch, Cleanup, LogTypes
  <2>1. CASE Prepare \/ CompileEvent \/ PreparedEvent \/ Preflight \/ MountStep \/ MountReturn
    BY <2>1 DEF Prepare, CompileEvent, PreparedEvent, Preflight, MountStep, MountReturn
  <2>2. CASE NetworkPlan \/ NetworkApply \/ RuleApplied \/ Spawn \/ PersistPid \/ StartedEvent
    BY <2>2 DEF NetworkPlan, NetworkApply, RuleApplied, Spawn, PersistPid, StartedEvent
  <2>3. CASE FailureRelease \/ FailureEvent \/ Monitor \/ ReapFails
    BY <2>3 DEF FailureRelease, FailureEvent, Monitor, ReadPid, Poll, Sample, Kill, Reap,
       ReapFails, FinishTimeout, FinishExit
  <2>4. CASE CleanupSteps \/ Report \/ VmExit \/ VmDies \/ VmOpensSocket \/ UNCHANGED vars
    BY <2>4 DEF CleanupSteps, CollectHits, CleanupRelease, CleanupFiles,
     CleanupOutcome,
       Report, VmExit, VmDies, VmOpensSocket, vars
  <2>5. QED
    BY <2>1, <2>2, <2>3, <2>4 DEF Next, Runner, Launch
<1>3. QED
  BY <1>1, <1>2 DEF LogTypes

LEMMA LevelTypes == LogTypes => Level \in -1..10
  BY DEF LogTypes, Pcs, Level

(* A step whose event is of the stage that its place calls for.            *)
LEMMA OrderOne ==
  ASSUME OrderInv, [Next]_vars, Level <= Level',
         \/ log' = log
         \/ log' = Append(log, "run.failed")
         \/ \E e \in EventTypes \ {"run.failed"} :
              /\ log' = Append(log, e)
              /\ Level <= Stage(e) /\ (Level = Stage(e) => Level \notin Single)
              /\ Stage(e) <= Level'
  PROVE  OrderInv'
<1>1. log' \in Seq(EventTypes)
  BY DEF OrderInv, LogTypes, EventTypes
<1>2. LogTypes'
  BY <1>1, TypesStep DEF OrderInv
<1>3. (LogTypes => Level \in -1..10)'
  BY LevelTypes, PTL
<1>4. Level \in Int /\ Level' \in Int
  BY <1>2, <1>3, LevelTypes DEF OrderInv
<1>5. QED
  BY <1>2, <1>4, OrderMove

(* The two forms of it: no event or run.failed, and an event e.            *)
LEMMA OrderQuiet ==
  ASSUME OrderInv, [Next]_vars, Level <= Level',
         log' = log \/ log' = Append(log, "run.failed")
  PROVE  OrderInv'
  BY OrderOne

LEMMA OrderEvent ==
  ASSUME OrderInv, [Next]_vars, NEW e \in EventTypes \ {"run.failed"},
         log' = Append(log, e),
         Level <= Stage(e), Level = Stage(e) => Level \notin Single,
         Stage(e) <= Level'
  PROVE  OrderInv'
<1>1. Level \in Int /\ Stage(e) \in Int
  BY LevelTypes, Stages DEF OrderInv
<1>2. log' \in Seq(EventTypes)
  BY DEF OrderInv, LogTypes
<1>3. LogTypes'
  BY <1>2, TypesStep DEF OrderInv
<1>4. (LogTypes => Level \in -1..10)'
  BY LevelTypes, PTL
<1>5. Level <= Level'
  BY <1>1, <1>3, <1>4
<1>6. QED
  BY <1>5, OrderOne

(* vm.exited and run.failed in one step.                                   *)
LEMMA OrderExit ==
  ASSUME OrderInv, [Next]_vars, Level = 6, 7 <= Level',
         log' = Append(Append(log, "vm.exited"), "run.failed")
  PROVE  OrderInv'
<1>1. log \in Seq(EventTypes) /\ History(log) /\ Bounded(log, 6)
  BY DEF OrderInv, LogTypes
<1>2. "vm.exited" \in EventTypes \ {"run.failed"} /\ Stage("vm.exited") = 7
  BY DEF EventTypes, Stage
<1> DEFINE mid == Append(log, "vm.exited")
<1>3. mid \in Seq(EventTypes) /\ History(mid) /\ Bounded(mid, 7)
  BY <1>1, <1>2, OrderAppend
<1>a. log' = Append(mid, "run.failed")
  BY DEF mid
<1> HIDE DEF mid
<1> DEFINE end == Append(mid, "run.failed")
<1>c. end \in Seq(EventTypes) /\ History(end) /\ Bounded(end, 7)
  <2>1. mid \in Seq(EventTypes) /\ 7 \in Int /\ History(mid) /\ Bounded(mid, 7)
    BY <1>3
  <2>2. QED
    BY <2>1, OrderFailed
<1>4. log' \in Seq(EventTypes) /\ History(log') /\ Bounded(log', 7)
  <2> HIDE DEF end
  <2>1. log' = end
    BY <1>a DEF end
  <2>2. QED
    BY <1>c, <2>1
<1>5. LogTypes'
  BY <1>4, TypesStep DEF OrderInv
<1>6. (LogTypes => Level \in -1..10)'
  BY LevelTypes, PTL
<1>b. Level' \in Int
  BY <1>5, <1>6
<1>7. Bounded(log', Level')
  <2>1. 7 \in Int /\ Level' \in Int /\ 7 <= Level'
    BY <1>b
  <2>2. log' \in Seq(EventTypes) /\ Bounded(log', 7)
    BY <1>4
  <2>3. QED
    BY <2>1, <2>2, BoundedLater
<1>8. QED
  BY <1>4, <1>5, <1>7 DEF OrderInv

(* What the end of monitor_run may write.                                  *)
LEMMA FinishWrites ==
  ASSUME log \in Seq(EventTypes), FinishTimeout \/ FinishExit
  PROVE  \/ log' = log \/ log' = Append(log, "run.failed") \/ log' = Append(log, "vm.exited")
         \/ log' = Append(Append(log, "vm.exited"), "run.failed")
<1>1. /\ log \o <<>> = log
      /\ log \o <<"run.failed">> = Append(log, "run.failed")
      /\ log \o <<"vm.exited">> = Append(log, "vm.exited")
      /\ log \o <<"vm.exited", "run.failed">> = Append(Append(log, "vm.exited"), "run.failed")
  OBVIOUS
<1>2. CASE FinishTimeout
  BY <1>1, <1>2 DEF FinishTimeout
<1>3. CASE FinishExit
  BY <1>1, <1>3 DEF FinishExit, Cleanup
<1>4. QED
  BY <1>2, <1>3

LEMMA OrderStep == NetInv /\ OrderInv /\ [Next]_vars => OrderInv'
<1> SUFFICES ASSUME NetInv, OrderInv, [Next]_vars
             PROVE  OrderInv'
  OBVIOUS
<1>h. (held => pc \notin Settled) /\ (pc \in BeforeNet \cup {"netRules"} => ~held)
  BY DEF NetInv, HandleKept, NotBuilt
<1> USE DEF Goto, FailLaunch, Cleanup, Logged, Missed, logVars, netVars, Settled, BeforeNet,
            Level, Stage, Single, EventTypes
<1>1. CASE Prepare
  BY <1>1, <1>h, OrderQuiet DEF Prepare
<1>2. CASE CompileEvent \/ PreparedEvent \/ Preflight \/ MountReturn \/ NetworkPlan
  <2>1. CASE log' = log
    BY <1>2, <1>h, <2>1, OrderQuiet DEF CompileEvent, PreparedEvent, Preflight, MountReturn,
       NetworkPlan
  <2>2. \/ log' = log
        \/ pc = "compile" /\ pc' = "launch" /\ log' = Append(log, "compile")
        \/ pc = "launch" /\ pc' = "preflight" /\ log' = Append(log, "run.prepared")
        \/ pc = "netPlan" /\ pc' = "netApply" /\ log' = Append(log, "network.plan.generated")
    BY <1>2 DEF CompileEvent, PreparedEvent, Preflight, MountReturn, NetworkPlan
  <2>3. QED
    BY <2>1, <2>2, OrderEvent
<1>3. CASE MountStep
  <2>1. pc = "mount" /\ pc' = "mount"
        /\ (log' = log \/ \E e \in {"mount.validated", "mount.applied", "mount.rejected"} :
                             log' = Append(log, e))
    BY <1>3 DEF MountStep, HookEvent
  <2>2. CASE log' = log
    BY <2>1, <2>2, OrderQuiet
  <2>3. ASSUME NEW e \in {"mount.validated", "mount.applied", "mount.rejected"},
               log' = Append(log, e)
        PROVE  OrderInv'
    BY <2>1, <2>3, OrderEvent
  <2>4. QED
    BY <2>1, <2>2, <2>3
<1>4. CASE NetworkApply \/ RuleApplied
  <2>1. CASE log' = log
    BY <1>4, <2>1, OrderQuiet DEF NetworkApply, RuleApplied
  <2>2. \/ log' = log
        \/ pc = "netRules" /\ pc' = "netRules" /\ log' = Append(log, "network.rule.applied")
    BY <1>4 DEF NetworkApply, RuleApplied
  <2>3. QED
    BY <2>1, <2>2, OrderEvent
<1>5. CASE Spawn \/ PersistPid \/ StartedEvent
  <2>1. CASE log' = log
    BY <1>5, <2>1, OrderQuiet DEF Spawn, PersistPid, StartedEvent
  <2>2. \/ log' = log
        \/ pc = "started" /\ pc' = "readPid" /\ log' = Append(log, "vm.started")
    BY <1>5 DEF Spawn, PersistPid, StartedEvent
  <2>3. QED
    BY <2>1, <2>2, OrderEvent
<1>6. CASE FailureRelease
  <2>1. pc = "fail" /\ pc' = "failEvent"
    BY <1>6 DEF FailureRelease
  <2>2. log' = log \/ \E e \in {"network.rule.released", "network.rule.cleanup_failed"} :
                         log' = Append(log, e)
    BY <1>6, ReleaseWrites DEF FailureRelease, Writes
  <2>3. CASE log' = log
    BY <2>1, <2>3, OrderQuiet
  <2>4. ASSUME NEW e \in {"network.rule.released", "network.rule.cleanup_failed"},
               log' = Append(log, e)
        PROVE  OrderInv'
    BY <2>1, <2>4, OrderEvent
  <2>5. QED
    BY <2>2, <2>3, <2>4
<1>7. CASE FailureEvent
  BY <1>7, <1>h, OrderQuiet DEF FailureEvent
<1>8. CASE ReadPid \/ Poll \/ Sample \/ Kill \/ Reap \/ ReapFails
  <2>1. \/ UNCHANGED log
        \/ pc = "sample" /\ log' = Append(log, "resource.sampled") /\ pc' \in {"poll", "hits"}
    BY <1>8 DEF ReadPid, Poll, Sample, Kill, Reap, ReapFails
  <2>2. \/ pc = "readPid" /\ pc' \in {"poll", "hits"}
        \/ pc \in {"poll", "sample", "kill", "reap"}
             /\ pc' \in {"poll", "sample", "kill", "reap", "timeout", "finish", "hits"}
    BY <1>8 DEF ReadPid, Poll, Sample, Kill, Reap, ReapFails
  <2>3. CASE UNCHANGED log
    BY <2>2, <2>3, OrderQuiet
  <2>4. CASE pc = "sample" /\ log' = Append(log, "resource.sampled") /\ pc' \in {"poll", "hits"}
    BY <2>4, OrderEvent
  <2>5. QED
    BY <2>1, <2>3, <2>4
<1>9. CASE VmExit \/ VmDies \/ VmOpensSocket \/ UNCHANGED vars
  <2>1. pc' = pc /\ held' = held /\ log' = log
    BY <1>9 DEF VmExit, VmDies, VmOpensSocket, vars
  <2>2. Level' = Level /\ Level <= Level
    <3>1. Level' = Level
      BY <2>1
    <3> HIDE DEF Level
    <3>2. Level \in -1..10
      BY LevelTypes DEF OrderInv
    <3>3. Level <= Level
      BY <3>2
    <3>4. QED
      BY <3>1, <3>3
  <2>3. QED
    <3> HIDE DEF Level
    <3>1. QED
      BY <2>1, <2>2, OrderQuiet
<1>10. CASE CleanupRelease
  <2>1. pc = "release" /\ pc' = "files"
    BY <1>10 DEF CleanupRelease
  <2>2. \/ log' = log
        \/ held /\ \E e \in {"network.rule.released", "network.rule.cleanup_failed"} :
                      log' = Append(log, e)
    BY <1>10, ReleaseWrites DEF CleanupRelease, Writes
  <2>3. CASE log' = log
    BY <2>1, <2>3, OrderQuiet
  <2>4. ASSUME NEW e \in {"network.rule.released", "network.rule.cleanup_failed"},
               log' = Append(log, e), held
        PROVE  OrderInv'
    BY <2>1, <2>4, OrderEvent
  <2>5. QED
    BY <2>2, <2>3, <2>4
<1>11. CASE CleanupFiles \/ CleanupOutcome \/ Report
  <2>1. CASE log' = log \/ log' = Append(log, "run.failed")
    BY <1>11, <2>1, OrderQuiet DEF CleanupFiles, CleanupOutcome, Report
  <2>2. \/ log' = log \/ log' = Append(log, "run.failed")
        \/ pc = "files" /\ pc' = "outcome" /\ log' = Append(log, "run.cleaned")
    BY <1>11 DEF CleanupFiles, CleanupOutcome, Report
  <2>3. QED
    BY <2>1, <2>2, OrderEvent
<1>12. CASE CollectHits
  <2>1. pc = "hits" /\ pc' = "release" /\ held' = held
    BY <1>12 DEF CollectHits
  <2>2. CASE log' = log
    BY <2>1, <2>2, OrderQuiet
  <2>3. CASE held /\ \E n \in 0..rules : log' = log \o [i \in 1..n |-> "network.rule.hit"]
    <3>1. PICK n \in 0..rules : log' = log \o [i \in 1..n |-> "network.rule.hit"]
      BY <2>3
    <3>2. n \in Nat /\ log \in Seq(EventTypes) /\ History(log) /\ Bounded(log, 7)
      BY <2>1, <2>3 DEF OrderInv, LogTypes
    <3>3. Bounded(log, 8)
      BY <3>2, BoundedLater
    <3>4. log' \in Seq(EventTypes) /\ History(log') /\ Bounded(log', 8)
      <4> HIDE DEF EventTypes
      <4>1. QED
        BY <3>1, <3>2, <3>3, OrderHits
    <3>5. LogTypes'
      BY <3>4, TypesStep DEF OrderInv
    <3>6. Level' = 8
      BY <2>1, <2>3
    <3>7. QED
      BY <3>4, <3>5, <3>6 DEF OrderInv
  <2>4. log' = log \/ (held /\ \E n \in 0..rules : log' = log \o [i \in 1..n |-> "network.rule.hit"])
    BY <1>12 DEF CollectHits
  <2>5. QED
    BY <2>2, <2>3, <2>4
<1>13. CASE FinishTimeout \/ FinishExit
  <2>1. pc \in {"timeout", "finish"} /\ pc' = "hits" /\ Level = 6 /\ 7 <= Level'
    BY <1>13 DEF FinishTimeout, FinishExit
  <2>2. CASE log' = log \/ log' = Append(log, "run.failed")
    BY <2>1, <2>2, OrderQuiet
  <2>3. CASE log' = Append(log, "vm.exited")
    BY <2>1, <2>3, OrderEvent
  <2>4. CASE log' = Append(Append(log, "vm.exited"), "run.failed")
    BY <2>1, <2>4, OrderExit
  <2>5. \/ log' = log \/ log' = Append(log, "run.failed") \/ log' = Append(log, "vm.exited")
        \/ log' = Append(Append(log, "vm.exited"), "run.failed")
    BY <1>13, FinishWrites DEF OrderInv, LogTypes
  <2>6. QED
    BY <2>2, <2>3, <2>4, <2>5
<1>14. QED
  BY <1>1, <1>2, <1>3, <1>4, <1>5, <1>6, <1>7, <1>8, <1>9, <1>10, <1>11, <1>12,
     <1>13 DEF Next, Runner, Launch, Monitor, CleanupSteps

LEMMA OrderInvariant == Spec => []OrderInv
  BY NetInit, NetStep, OrderInit, OrderStep, PTL DEF Spec

(* On every path, the event stream tells the run in its stages' order.     *)
THEOREM EventsAreInOrder == Spec => []EventsInStageOrder
<1>1. OrderInv => EventsInStageOrder
  BY DEF OrderInv, History, Before, EventsInStageOrder
<1>2. QED
  BY <1>1, OrderInvariant, PTL

(* What happens once is told once, however many of the cleanups ran.       *)
THEOREM EventsAreOnce == Spec => []OnceEvents
<1>1. ASSUME OrderInv, NEW es, NEW n \in Single,
             \A e \in es : e # "run.failed" /\ Stage(e) = n
      PROVE  Once(es)
  <2> SUFFICES ASSUME NEW i \in DOMAIN log, NEW j \in DOMAIN log,
                      {log[i], log[j]} \subseteq es, i # j
               PROVE  FALSE
    BY DEF Once
  <2>1. i \in Int /\ j \in Int
    BY <1>1 DEF OrderInv, LogTypes
  <2>2. ~Before(log[i], log[j]) /\ ~Before(log[j], log[i])
    BY <1>1 DEF Before
  <2>3. CASE i < j
    BY <1>1, <2>2, <2>3 DEF OrderInv, History
  <2>4. CASE j < i
    BY <1>1, <2>2, <2>4 DEF OrderInv, History
  <2>5. QED
    BY <2>1, <2>3, <2>4
<1>2. OrderInv => OnceEvents
  <2> SUFFICES ASSUME OrderInv
               PROVE  OnceEvents
    OBVIOUS
  <2>1. \A e \in {"compile", "run.prepared", "network.plan.generated", "vm.started",
                  "vm.exited", "run.cleaned"} : Once({e})
    <3> SUFFICES ASSUME NEW e \in {"compile", "run.prepared", "network.plan.generated",
                                   "vm.started", "vm.exited", "run.cleaned"}
                 PROVE  Once({e})
      OBVIOUS
    <3>1. e # "run.failed" /\ Stage(e) \in Single
      BY DEF Stage, Single
    <3>2. QED
      BY <1>1, <3>1
  <2>2. Once({"network.rule.released", "network.rule.cleanup_failed"})
    <3>1. /\ Stage("network.rule.released") = 9 /\ Stage("network.rule.cleanup_failed") = 9
          /\ 9 \in Single
      BY DEF Stage, Single
    <3>2. QED
      BY <1>1, <3>1
  <2>3. QED
    BY <2>1, <2>2 DEF OnceEvents
<1>3. QED
  BY <1>2, OrderInvariant, PTL

-----------------------------------------------------------------------------
(* What the events tell.                                                   *)

Told(s) == {s[i] : i \in DOMAIN s}
Written == Told(log)

LEMMA ToldAppend ==
  ASSUME NEW s \in Seq(EventTypes), NEW e
  PROVE  Told(Append(s, e)) = Told(s) \cup {e}
<1> DEFINE t == Append(s, e)
<1>1. /\ DOMAIN s = 1..Len(s) /\ Len(s) \in Nat
      /\ DOMAIN t = 1..(Len(s) + 1)
      /\ t[Len(s) + 1] = e
      /\ \A i \in 1..Len(s) : t[i] = s[i]
  OBVIOUS
<1> HIDE DEF t
<1>2. Told(t) \subseteq Told(s) \cup {e}
  BY <1>1 DEF Told
<1>3. Told(s) \subseteq Told(t) /\ e \in Told(t)
  BY <1>1 DEF Told
<1>4. QED
  BY <1>2, <1>3 DEF t

LEMMA ToldHits ==
  ASSUME NEW s \in Seq(EventTypes), NEW k \in Nat
  PROVE  LET t == s \o [i \in 1..k |-> "network.rule.hit"] IN
         Told(s) \subseteq Told(t) /\ Told(t) \subseteq Told(s) \cup {"network.rule.hit"}
<1> DEFINE hits == [i \in 1..k |-> "network.rule.hit"]
           t == s \o hits
<1>1. hits \in Seq(EventTypes) /\ Len(hits) = k
  BY DEF EventTypes
<1>2. /\ DOMAIN s = 1..Len(s) /\ Len(s) \in Nat
      /\ DOMAIN t = 1..(Len(s) + k)
      /\ \A i \in 1..Len(s) : t[i] = s[i]
      /\ \A i \in DOMAIN t \ 1..Len(s) : t[i] = "network.rule.hit"
  BY <1>1
<1> HIDE DEF t, hits
<1>3. Told(s) \subseteq Told(t)
  BY <1>2 DEF Told
<1>4. Told(t) \subseteq Told(s) \cup {"network.rule.hit"}
  BY <1>2 DEF Told
<1>5. QED
  BY <1>3, <1>4 DEF t, hits

LEMMA WroteIsWritten == \A e : Wrote(e) <=> e \in Written
  BY DEF Wrote, Written, Told

(* What a step adds to the events.                                         *)
LEMMA Tells ==
  ASSUME log \in Seq(EventTypes)
  PROVE  /\ log' = log => Written' = Written
         /\ \A e : log' = Append(log, e) => Written' = Written \cup {e}
         /\ log' = Append(Append(log, "vm.exited"), "run.failed") =>
              Written' = Written \cup {"vm.exited", "run.failed"}
         /\ \A n \in Nat : log' = log \o [i \in 1..n |-> "network.rule.hit"] =>
              /\ Written \subseteq Written'
              /\ Written' \subseteq Written \cup {"network.rule.hit"}
<1>1. log' = log => Written' = Written
  BY DEF Written
<1>2. ASSUME NEW e, log' = Append(log, e)
      PROVE  Written' = Written \cup {e}
  BY <1>2, ToldAppend DEF Written
<1>3. ASSUME log' = Append(Append(log, "vm.exited"), "run.failed")
      PROVE  Written' = Written \cup {"vm.exited", "run.failed"}
  <2> DEFINE mid == Append(log, "vm.exited")
  <2>1. mid \in Seq(EventTypes) /\ Told(mid) = Written \cup {"vm.exited"}
    <3>1. mid \in Seq(EventTypes)
      BY DEF EventTypes
    <3>2. QED
      BY <3>1, ToldAppend DEF Written
  <2>2. log' = Append(mid, "run.failed")
    BY <1>3
  <2> HIDE DEF mid
  <2>3. Written' = Told(mid) \cup {"run.failed"}
    BY <2>1, <2>2, ToldAppend DEF Written
  <2>4. QED
    BY <2>1, <2>3
<1>4. ASSUME NEW n \in Nat, log' = log \o [i \in 1..n |-> "network.rule.hit"]
      PROVE  Written \subseteq Written' /\ Written' \subseteq Written \cup {"network.rule.hit"}
  BY <1>4, ToldHits DEF Written
<1>5. QED
  BY <1>1, <1>2, <1>3, <1>4

(* What cannot have been told yet.                                         *)
LEMMA Untold ==
  ASSUME OrderInv
  PROVE  /\ pc \in Main => "vm.exited" \notin Written
         /\ pc \in BeforeNet => "network.rule.applied" \notin Written
         /\ pc \in {"netApply", "netRules", "finish"} =>
              "network.rule.released" \notin Written /\ "network.rule.cleanup_failed" \notin Written
         /\ pc \notin {"outcome", "report", "exit"} => "run.cleaned" \notin Written
<1>1. \A e \in Written : e # "run.failed" => Stage(e) <= Level
  BY DEF OrderInv, Bounded, Written, Told
<1>2. /\ pc \in Main => Level \in -1..6
      /\ pc \in BeforeNet => Level \in -1..3
      /\ pc \in {"netApply", "netRules", "finish"} => Level \in 3..6
      /\ pc \notin {"outcome", "report", "exit"} => Level \in -1..9
  <2>1. pc \in Main => Level \in -1..6
    BY DEF Main, BeforeVm, WithVm, Level
  <2>2. pc \in BeforeNet => Level \in -1..3
    BY DEF BeforeNet, Level
  <2>3. pc \in {"netApply", "netRules", "finish"} => Level \in 3..6
    BY DEF Level
  <2>4. pc \notin {"outcome", "report", "exit"} => Level \in -1..9
    BY DEF OrderInv, LogTypes, Pcs, Level
  <2>5. QED
    BY <2>1, <2>2, <2>3, <2>4
<1>3. /\ Stage("vm.exited") = 7 /\ Stage("network.rule.applied") = 4
      /\ Stage("network.rule.released") = 9 /\ Stage("network.rule.cleanup_failed") = 9
      /\ Stage("run.cleaned") = 10
  BY DEF Stage
<1>4. QED
  BY <1>1, <1>2, <1>3

(* A VM that was reaped or, in a run that timed out, was killed at least.   *)
Ended == vm = "reaped" \/ (vm \in {"killed", "zombie"} /\ err = "SR-RUN-003")

VmTold ==
  /\ pc \in {"vmPid"} \cup WithVm => vm # "none"
  /\ pc = "kill" => vm \in {"running", "zombie"}
  /\ pc = "reap" => vm \in {"killed", "zombie"}
  /\ pc = "timeout" => vm \in {"killed", "zombie", "reaped"}
  /\ "vm.started" \in Written => vm # "none"
  /\ "vm.exited" \in Written => Ended

ReleaseFailed == "network.rule.cleanup_failed" \in Written

NetTold ==
  /\ "network.rule.applied" \in Written /\ net = "down" /\ ~missed =>
       "network.rule.released" \in Written \/ ReleaseFailed
  /\ "network.rule.released" \in Written => net = "down" /\ ~held
  /\ ReleaseFailed => ~held

(* A failed release of cleanup is its relErr, and the other way round; a   *)
(* run that told of one has an error at its exit.                          *)
CodeTold ==
  /\ caller = "ok" /\ pc \in {"hits", "release", "report"} => ~ReleaseFailed
  /\ caller = "ok" /\ pc \in {"files", "outcome"} /\ ReleaseFailed => relErr = "SR-RUN-202"
  /\ caller = "ok" /\ pc \in {"files", "outcome", "report", "exit"} /\ relErr = "SR-RUN-202" =>
       ReleaseFailed \/ missed
  /\ pc = "exit" /\ ReleaseFailed => err # "none"
  /\ pc = "exit" /\ ReleaseFailed /\ caller = "ok" /\ hitErr = "none" => err = "SR-RUN-202"

(* LeakIsAccounted, and how far the rules were told.                       *)
LeftTold ==
  /\ pc \in BeforeNet => ruleIdx = 0
  /\ pc = "netApply" => rules > 0
  /\ held => ruleIdx = rules
  /\ net # "down" /\ ~held /\ pc # "netRules" =>
       \/ ruleIdx < rules /\ caller = "launch" /\ err = "SR-RUN-201"
       \/ ruleIdx < rules /\ caller = "launch" /\ err = "SR-EVD-001" /\ missed
       \/ ruleIdx = rules /\ (ReleaseFailed \/ missed)

FilesTold == "run.cleaned" \in Written => files \subseteq Evidence \cup {"api.socket"}

FailureTold ==
  /\ "run.failed" \in Written => state = "failed"
  /\ state = "failed" => "run.failed" \in Written \/ missed

(* Together with NetInv, StateInv, ExitInv and OrderInv this is inductive. *)
TellInv == VmTold /\ NetTold /\ CodeTold /\ LeftTold /\ FilesTold /\ FailureTold

LEMMA TellInit == Init => TellInv
  BY DEF Init, TellInv, VmTold, NetTold, CodeTold, LeftTold, ReleaseFailed, FilesTold,
     FailureTold, Written, Told, WithVm

LEMMA MountsTell ==
  ASSUME log \in Seq(EventTypes), MountStep
  PROVE  /\ pc = "mount" /\ UNCHANGED <<vmVars, netVars, cleanVars, runVars, pc>>
         /\ missed => missed'
         /\ Written \subseteq Written'
         /\ Written' \subseteq Written \cup {"mount.validated", "mount.applied", "mount.rejected"}
<1>1. pc = "mount" /\ UNCHANGED <<vmVars, netVars, cleanVars, runVars, pc>>
  BY DEF MountStep
<1>2. HookEvent \in {"mount.validated", "mount.applied", "mount.rejected"}
  BY DEF HookEvent
<1> HIDE DEF HookEvent
<1>4. /\ missed => missed'
      /\ log' = log \/ log' = Append(log, HookEvent)
  <2>1. UNCHANGED logVars \/ Logged(HookEvent) \/ Missed
    BY Zenon DEF MountStep
  <2>2. QED
    BY <2>1 DEF Logged, Missed, logVars
<1>5. Written' = Written \/ Written' = Written \cup {HookEvent}
  BY <1>4, Tells
<1>6. QED
  BY <1>1, <1>2, <1>4, <1>5

LEMMA HitsTell ==
  ASSUME log \in Seq(EventTypes), rules \in Nat, CollectHits
  PROVE  /\ pc = "hits" /\ pc' = "release"
         /\ UNCHANGED <<vmVars, netVars, rules, state, files, err, caller>>
         /\ missed => missed'
         /\ Written \subseteq Written'
         /\ Written' \subseteq Written \cup {"network.rule.hit"}
<1>1. /\ pc = "hits" /\ pc' = "release"
      /\ UNCHANGED <<vmVars, netVars, rules, state, files, err, caller>>
  BY DEF CollectHits, Goto
<1>2. missed => missed'
  BY DEF CollectHits, logVars
<1>3. log' = log \/ \E n \in 0..rules : log' = log \o [i \in 1..n |-> "network.rule.hit"]
  BY DEF CollectHits, logVars
<1>4. CASE log' = log
  BY <1>1, <1>2, <1>4, Tells
<1>5. CASE \E n \in 0..rules : log' = log \o [i \in 1..n |-> "network.rule.hit"]
  <2>1. PICK n \in 0..rules : log' = log \o [i \in 1..n |-> "network.rule.hit"]
    BY <1>5
  <2>2. n \in Nat
    OBVIOUS
  <2>3. /\ Written \subseteq Written'
        /\ Written' \subseteq Written \cup {"network.rule.hit"}
    BY <2>1, <2>2, Tells
  <2>4. QED
    BY <1>1, <1>2, <2>3
<1>6. QED
  BY <1>3, <1>4, <1>5

(* Both ends of monitor_run.                                               *)
LEMMA FinishTells ==
  ASSUME log \in Seq(EventTypes), FinishTimeout \/ FinishExit
  PROVE  /\ missed => missed'
         /\ Written \subseteq Written'
         /\ Written' \subseteq Written \cup {"vm.exited", "run.failed"}
<1>1. missed => missed'
  <2>1. CASE FinishTimeout
    BY <2>1 DEF FinishTimeout
  <2>2. CASE FinishExit
    BY <2>2 DEF FinishExit
  <2>3. QED
    BY <2>1, <2>2
<1>2. Written \subseteq Written' /\ Written' \subseteq Written \cup {"vm.exited", "run.failed"}
  BY FinishWrites, Tells
<1>3. QED
  BY <1>1, <1>2

LEMMA VmToldStep == OrderInv /\ ExitInv /\ VmTold /\ [Next]_vars => VmTold'
<1> SUFFICES ASSUME OrderInv, ExitInv, VmTold, [Next]_vars
             PROVE  VmTold'
  OBVIOUS
<1>t. log \in Seq(EventTypes)
  BY DEF OrderInv, LogTypes
<1>r. rules \in Nat
  BY DEF OrderInv, LogTypes
<1>f. pc = "finish" => vm = "reaped"
  BY DEF ExitInv, VmKept
<1>s. pc \in Main => "vm.exited" \notin Written
  BY Untold
<1>c. (caller = "ok" => vm = "reaped") /\ (pc = "report" => caller = "ok")
  BY DEF ExitInv, VmKept, PathKept
<1> HIDE DEF Written
<1> USE <1>t, <1>s, <1>c
    DEF VmTold, Ended, Main, BeforeVm, WithVm, Goto, FailLaunch, Cleanup, Logged,
        Missed, logVars, vmVars
<1>1. CASE Prepare \/ CompileEvent \/ PreparedEvent \/ Preflight \/ MountReturn
  BY <1>1, Tells DEF Prepare, CompileEvent, PreparedEvent, Preflight, MountReturn
<1>2. CASE MountStep
  BY <1>2, MountsTell DEF runVars
<1>3. CASE NetworkPlan \/ NetworkApply \/ RuleApplied
  BY <1>3, Tells DEF NetworkPlan, NetworkApply, RuleApplied
<1>4. CASE Spawn \/ PersistPid \/ StartedEvent
  BY <1>4, Tells DEF Spawn, PersistPid, StartedEvent
<1>5. CASE FailureRelease \/ FailureEvent
  BY <1>5, Tells DEF FailureRelease, Release, FailureEvent
<1>6. CASE ReadPid \/ Poll \/ Sample \/ Kill \/ Reap \/ ReapFails
  <2>1. pc \in Main /\ (log' = log \/ log' = Append(log, "resource.sampled"))
    BY <1>6 DEF ReadPid, Poll, Sample, Kill, Reap, ReapFails
  <2>2. "vm.exited" \notin Written' /\ ("vm.started" \in Written' <=> "vm.started" \in Written)
    BY <2>1, Tells
  <2>3. /\ vm' # "none"
        /\ pc' = "kill" => vm' \in {"running", "zombie"}
        /\ pc' = "reap" => vm' \in {"killed", "zombie"}
        /\ pc' = "timeout" => vm' \in {"killed", "zombie", "reaped"}
    <3>1. CASE ReadPid \/ Sample
      BY <3>1 DEF ReadPid, Sample
    <3>2. CASE Poll
      BY <3>2 DEF Poll
    <3>3. CASE Kill
      BY <3>3 DEF Kill
    <3>4. CASE Reap \/ ReapFails
      BY <3>4 DEF Reap, ReapFails
    <3>5. QED
      BY <1>6, <3>1, <3>2, <3>3, <3>4
  <2>4. QED
    BY <2>2, <2>3
<1>7. CASE FinishTimeout \/ FinishExit
  <2>1. /\ vm' = vm /\ vm \in {"killed", "zombie", "reaped"} /\ pc' = "hits"
        /\ vm = "reaped" \/ err' = "SR-RUN-003"
        /\ Written' \subseteq Written \cup {"vm.exited", "run.failed"}
    BY <1>7, <1>f, FinishWrites, Tells DEF FinishTimeout, FinishExit
  <2>2. QED
    BY <2>1
<1>8. CASE CollectHits
  BY <1>8, <1>r, HitsTell
<1>9. CASE CleanupRelease
  BY <1>9, Tells DEF CleanupRelease, Release
<1>10. CASE CleanupFiles \/ CleanupOutcome \/ Report
  BY <1>10, Tells DEF CleanupFiles, CleanupOutcome, Report
<1>11. CASE VmExit \/ VmDies \/ VmOpensSocket \/ UNCHANGED vars
  BY <1>11, Tells DEF VmExit, VmDies, VmOpensSocket, vars, runVars
<1>12. QED
  BY <1>1, <1>2, <1>3, <1>4, <1>5, <1>6, <1>7, <1>8, <1>9, <1>10, <1>11
     DEF Next, Runner, Launch, Monitor, CleanupSteps

LEMMA NetToldStep == NetInv /\ OrderInv /\ NetTold /\ [Next]_vars => NetTold'
<1> SUFFICES ASSUME NetInv, OrderInv, NetTold, [Next]_vars
             PROVE  NetTold'
  OBVIOUS
<1>t. log \in Seq(EventTypes)
  BY DEF OrderInv, LogTypes
<1>r. rules \in Nat
  BY DEF OrderInv, LogTypes
<1>n. /\ pc \in BeforeNet => net = "down" /\ ~held
      /\ pc = "netRules" => net = "up" /\ ~held
      /\ held => net = "up"
  BY DEF NetInv, NotBuilt, HandleKept
<1>u. /\ pc \in BeforeNet => "network.rule.applied" \notin Written
      /\ pc \in {"netApply", "netRules", "finish"} =>
           "network.rule.released" \notin Written /\ "network.rule.cleanup_failed" \notin Written
  BY Untold
<1> HIDE DEF Written
<1> USE <1>t
    DEF NetTold, ReleaseFailed, BeforeNet, Goto, FailLaunch, Cleanup, Logged, Missed,
        logVars, netVars
<1>1. CASE Prepare \/ CompileEvent \/ PreparedEvent \/ Preflight \/ MountReturn
  BY <1>1, Tells DEF Prepare, CompileEvent, PreparedEvent, Preflight, MountReturn
<1>2. CASE MountStep
  BY <1>2, MountsTell
<1>3. CASE NetworkPlan
  BY <1>3, Tells DEF NetworkPlan
<1>4. CASE NetworkApply \/ RuleApplied
  BY <1>4, <1>n, <1>u, Tells DEF NetworkApply, RuleApplied
<1>5. CASE Spawn \/ PersistPid \/ StartedEvent
  BY <1>5, Tells DEF Spawn, PersistPid, StartedEvent
<1>6. CASE FailureRelease \/ CleanupRelease
  <2>1. Release
    BY <1>6 DEF FailureRelease, CleanupRelease
  <2>2. QED
    BY <2>1, <1>n, Tells DEF Release
<1>7. CASE ReadPid \/ Poll \/ Sample \/ Kill \/ Reap \/ ReapFails \/ FailureEvent
  BY <1>7, Tells DEF ReadPid, Poll, Sample, Kill, Reap, ReapFails, FailureEvent
<1>8. CASE FinishTimeout \/ FinishExit
  <2>1. /\ UNCHANGED <<net, held>> /\ (missed => missed')
        /\ Written \subseteq Written'
        /\ Written' \subseteq Written \cup {"vm.exited", "run.failed"}
    BY <1>8, FinishTells DEF FinishTimeout, FinishExit
  <2>2. QED
    BY <2>1
<1>9. CASE CollectHits
  BY <1>9, <1>r, HitsTell
<1>10. CASE CleanupFiles \/ CleanupOutcome \/ Report
  BY <1>10, Tells DEF CleanupFiles, CleanupOutcome, Report
<1>11. CASE VmExit \/ VmDies \/ VmOpensSocket \/ UNCHANGED vars
  BY <1>11, Tells DEF VmExit, VmDies, VmOpensSocket, vars
<1>12. QED
  BY <1>1, <1>2, <1>3, <1>4, <1>5, <1>6, <1>7, <1>8, <1>9, <1>10, <1>11
     DEF Next, Runner, Launch, Monitor, CleanupSteps

LEMMA CodeToldStep == ExitInv /\ OrderInv /\ CodeTold /\ [Next]_vars => CodeTold'
<1> SUFFICES ASSUME ExitInv, OrderInv, CodeTold, [Next]_vars
             PROVE  CodeTold'
  OBVIOUS
<1>t. log \in Seq(EventTypes)
  BY DEF OrderInv, LogTypes
<1>r. rules \in Nat
  BY DEF OrderInv, LogTypes
<1>c. /\ pc \in Main => caller = "none"
      /\ pc \in {"fail", "failEvent"} => caller = "launch"
      /\ pc \in Closing => (err = "none" <=> caller = "ok")
  BY DEF ExitInv, PathKept
<1>u. pc = "finish" => ~ReleaseFailed
  BY Untold DEF ReleaseFailed
<1> HIDE DEF Written
<1> USE <1>t, <1>c DEF CodeTold, ReleaseFailed, Main, BeforeVm, WithVm, Closing, Goto, FailLaunch,
        Cleanup, Logged, Missed, logVars, cleanVars
<1>1. CASE Prepare \/ CompileEvent \/ PreparedEvent \/ Preflight \/ MountReturn
  BY <1>1, Tells DEF Prepare, CompileEvent, PreparedEvent, Preflight, MountReturn
<1>2. CASE MountStep
  BY <1>2, MountsTell DEF runVars
<1>3. CASE NetworkPlan \/ NetworkApply \/ RuleApplied
  BY <1>3, Tells DEF NetworkPlan, NetworkApply, RuleApplied
<1>4. CASE Spawn \/ PersistPid \/ StartedEvent
  BY <1>4, Tells DEF Spawn, PersistPid, StartedEvent
<1>5. CASE FailureRelease \/ FailureEvent
  BY <1>5 DEF FailureRelease, FailureEvent
<1>6. CASE CleanupRelease
  BY <1>6, Tells DEF CleanupRelease, Release
<1>7. CASE ReadPid \/ Poll \/ Sample \/ Kill \/ Reap \/ ReapFails
  BY <1>7, Tells DEF ReadPid, Poll, Sample, Kill, Reap, ReapFails
<1>8. CASE FinishTimeout \/ FinishExit
  <2>1. /\ pc \in {"timeout", "finish"} /\ pc' = "hits"
        /\ pc = "timeout" => caller' = "monitor"
    BY <1>8 DEF FinishTimeout, FinishExit
  <2>2. Written' \subseteq Written \cup {"vm.exited", "run.failed"}
    BY <1>8, FinishTells
  <2>3. QED
    BY <1>u, <2>1, <2>2
<1>9. CASE CollectHits
  BY <1>9, <1>r, HitsTell
<1>10. CASE CleanupFiles
  BY <1>10, Tells DEF CleanupFiles
<1>11. CASE CleanupOutcome
  BY <1>11, Tells DEF CleanupOutcome, CleanupErr
<1>12. CASE Report
  BY <1>12, Tells DEF Report, ExitInv, PathKept
<1>13. CASE VmExit \/ VmDies \/ VmOpensSocket \/ UNCHANGED vars
  BY <1>13, Tells DEF VmExit, VmDies, VmOpensSocket, vars, runVars
<1>14. QED
  BY <1>1, <1>2, <1>3, <1>4, <1>5, <1>6, <1>7, <1>8, <1>9, <1>10, <1>11, <1>12, <1>13
     DEF Next, Runner, Launch, Monitor, CleanupSteps

LEMMA LeftToldStep == NetInv /\ ExitInv /\ OrderInv /\ LeftTold /\ [Next]_vars => LeftTold'
<1> SUFFICES ASSUME NetInv, ExitInv, OrderInv, LeftTold, [Next]_vars
             PROVE  LeftTold'
  OBVIOUS
<1>t. log \in Seq(EventTypes)
  BY DEF OrderInv, LogTypes
<1>r. rules \in Nat /\ ruleIdx \in Nat /\ ruleIdx <= rules
  BY DEF NetInv, RuleTypes
<1>n. /\ pc \in Main \ {"netRules"} => net = "down" \/ held
      /\ pc \in BeforeNet \cup {"netRules"} => ~held
  BY DEF NetInv, NotBuilt, ExitInv, NetKept, Main, BeforeVm, WithVm, BeforeNet, Networked
<1>c. /\ pc \in Main => caller = "none"
      /\ pc = "report" => caller = "ok"
  BY DEF ExitInv, PathKept
<1> HIDE DEF Written
<1> USE <1>t, <1>r, <1>n, <1>c DEF LeftTold, ReleaseFailed, Main, BeforeVm, WithVm, BeforeNet,
        Goto, FailLaunch, Cleanup, Logged, Missed, logVars, netVars
<1>1. CASE Prepare \/ CompileEvent \/ PreparedEvent \/ Preflight \/ MountReturn
  BY <1>1, Tells DEF Prepare, CompileEvent, PreparedEvent, Preflight, MountReturn
<1>2. CASE MountStep
  BY <1>2, MountsTell DEF runVars
<1>3. CASE NetworkPlan \/ NetworkApply
  BY <1>3, Tells DEF NetworkPlan, NetworkApply
<1>4. CASE RuleApplied
  BY <1>4, Tells DEF RuleApplied
<1>5. CASE Spawn \/ PersistPid \/ StartedEvent
  BY <1>5, Tells DEF Spawn, PersistPid, StartedEvent
<1>6. CASE FailureRelease \/ CleanupRelease
  <2>1. /\ Release /\ UNCHANGED <<ruleIdx, rules, err, caller>>
        /\ pc \in {"fail", "release"} /\ pc' \in {"failEvent", "files"}
    BY <1>6 DEF FailureRelease, CleanupRelease
  <2>2. QED
    BY <2>1, Tells DEF Release
<1>7. CASE ReadPid \/ Poll \/ Sample \/ Kill \/ Reap \/ ReapFails
  BY <1>7, Tells DEF ReadPid, Poll, Sample, Kill, Reap, ReapFails
<1>8. CASE FinishTimeout \/ FinishExit
  BY <1>8, FinishTells DEF FinishTimeout, FinishExit
<1>9. CASE CollectHits
  BY <1>9, HitsTell
<1>10. CASE FailureEvent \/ CleanupFiles
  BY <1>10, Tells DEF FailureEvent, CleanupFiles
<1>11. CASE CleanupOutcome \/ Report
  BY <1>11, Tells DEF CleanupOutcome, Report
<1>12. CASE VmExit \/ VmDies \/ VmOpensSocket \/ UNCHANGED vars
  BY <1>12, Tells DEF VmExit, VmDies, VmOpensSocket, vars, runVars
<1>13. QED
  BY <1>1, <1>2, <1>3, <1>4, <1>5, <1>6, <1>7, <1>8, <1>9, <1>10, <1>11, <1>12
     DEF Next, Runner, Launch, Monitor, CleanupSteps

LEMMA FilesToldStep == OrderInv /\ ExitInv /\ FilesTold /\ [Next]_vars => FilesTold'
<1> SUFFICES ASSUME OrderInv, ExitInv, FilesTold, [Next]_vars
             PROVE  FilesTold'
  OBVIOUS
<1>t. log \in Seq(EventTypes)
  BY DEF OrderInv, LogTypes
<1>r. rules \in Nat
  BY DEF OrderInv, LogTypes
<1>u. pc \notin {"outcome", "report", "exit"} => "run.cleaned" \notin Written
  BY Untold
<1>f. files \subseteq Evidence \cup Transient
  BY DEF ExitInv, FilesKept
<1> HIDE DEF Written
<1> USE <1>t DEF FilesTold, Goto, FailLaunch, Cleanup, Logged, Missed, logVars
<1>1. CASE Prepare \/ CompileEvent \/ PreparedEvent \/ Preflight \/ MountReturn
  BY <1>1, <1>u, Tells DEF Prepare, CompileEvent, PreparedEvent, Preflight, MountReturn
<1>2. CASE MountStep
  BY <1>2, <1>u, MountsTell
<1>3. CASE NetworkPlan \/ NetworkApply \/ RuleApplied
  BY <1>3, <1>u, Tells DEF NetworkPlan, NetworkApply, RuleApplied
<1>4. CASE Spawn \/ PersistPid \/ StartedEvent
  BY <1>4, <1>u, Tells DEF Spawn, PersistPid, StartedEvent
<1>5. CASE FailureRelease \/ CleanupRelease \/ FailureEvent
  BY <1>5, <1>u, Tells DEF FailureRelease, CleanupRelease, Release, FailureEvent
<1>6. CASE ReadPid \/ Poll \/ Sample \/ Kill \/ Reap \/ ReapFails
  BY <1>6, <1>u, Tells DEF ReadPid, Poll, Sample, Kill, Reap, ReapFails
<1>7. CASE FinishTimeout \/ FinishExit
  <2>1. pc \in {"timeout", "finish"}
    BY <1>7 DEF FinishTimeout, FinishExit
  <2>2. QED
    BY <1>7, <1>u, <2>1, FinishTells
<1>8. CASE CollectHits
  BY <1>8, <1>u, <1>r, HitsTell
<1>9. CASE CleanupFiles
  <2>1. \/ files' = files \ Transient
        \/ Written' = Written
    BY <1>9, Tells DEF CleanupFiles
  <2>2. pc = "files"
    BY <1>9 DEF CleanupFiles
  <2>3. QED
    BY <2>1, <2>2, <1>f, <1>u DEF Evidence, Transient
<1>10. CASE CleanupOutcome \/ Report
  BY <1>10, Tells DEF CleanupOutcome, Report
<1>11. CASE VmExit \/ VmDies \/ VmOpensSocket \/ UNCHANGED vars
  BY <1>11, Tells DEF VmExit, VmDies, VmOpensSocket, vars, runVars
<1>12. QED
  BY <1>1, <1>2, <1>3, <1>4, <1>5, <1>6, <1>7, <1>8, <1>9, <1>10, <1>11
     DEF Next, Runner, Launch, Monitor, CleanupSteps

LEMMA FailureToldStep == StateInv /\ OrderInv /\ FailureTold /\ [Next]_vars => FailureTold'
<1> SUFFICES ASSUME StateInv, OrderInv, FailureTold, [Next]_vars
             PROVE  FailureTold'
  OBVIOUS
<1>t. log \in Seq(EventTypes)
  BY DEF OrderInv, LogTypes
<1>r. rules \in Nat
  BY DEF OrderInv, LogTypes
<1>s. state = "failed" => state' = "failed"
  BY StateStep DEF StateMove
<1> HIDE DEF Written
<1> USE <1>t, <1>s DEF FailureTold, Goto, FailLaunch, Cleanup, Logged, Missed, logVars
<1>1. CASE Prepare \/ CompileEvent \/ PreparedEvent \/ Preflight \/ MountReturn
  BY <1>1, Tells DEF Prepare, CompileEvent, PreparedEvent, Preflight, MountReturn
<1>2. CASE MountStep
  BY <1>2, MountsTell DEF runVars
<1>3. CASE NetworkPlan \/ NetworkApply \/ RuleApplied
  BY <1>3, Tells DEF NetworkPlan, NetworkApply, RuleApplied
<1>4. CASE Spawn \/ PersistPid \/ StartedEvent
  BY <1>4, Tells DEF Spawn, PersistPid, StartedEvent
<1>5. CASE FailureRelease \/ CleanupRelease
  BY <1>5, Tells DEF FailureRelease, CleanupRelease, Release
<1>6. CASE FailureEvent
  BY <1>6, Tells DEF FailureEvent
<1>7. CASE ReadPid \/ Poll \/ Sample \/ Kill \/ Reap \/ ReapFails
  BY <1>7, Tells DEF ReadPid, Poll, Sample, Kill, Reap, ReapFails
<1>8. CASE FinishTimeout
  <2>1. /\ state' = "failed"
        /\ \/ log' = log \o <<"vm.exited", "run.failed">>
           \/ log' = log \o <<"run.failed">>
           \/ missed'
    <3>1. PICK es \in {<<"vm.exited", "run.failed">>, <<"vm.exited">>, <<"run.failed">>, <<>>} :
            log' = log \o es /\ missed' = (missed \/ Len(es) < 2)
      BY <1>8 DEF FinishTimeout
    <3>2. Len(<<"vm.exited">>) < 2 /\ Len(<<>>) < 2
      OBVIOUS
    <3>3. state' = "failed"
      BY <1>8 DEF FinishTimeout
    <3>4. QED
      BY <3>1, <3>2, <3>3
  <2>2. /\ log \o <<"vm.exited", "run.failed">> = Append(Append(log, "vm.exited"), "run.failed")
        /\ log \o <<"run.failed">> = Append(log, "run.failed")
    OBVIOUS
  <2>3. QED
    BY <2>1, <2>2, Tells
<1>9. CASE FinishExit
  <2>1. \/ /\ code = 0 /\ state' = "finished"
           /\ \/ log' = log \o <<"vm.exited">> /\ missed' = missed
              \/ log' = log
        \/ /\ code # 0 /\ state' = "failed"
           /\ \/ log' = log \o <<"vm.exited", "run.failed">>
              \/ missed'
    BY <1>9 DEF FinishExit
  <2>2. /\ log \o <<"vm.exited", "run.failed">> = Append(Append(log, "vm.exited"), "run.failed")
        /\ log \o <<"vm.exited">> = Append(log, "vm.exited")
    OBVIOUS
  <2>3. QED
    BY <2>1, <2>2, Tells
<1>10. CASE CollectHits
  BY <1>10, <1>r, HitsTell
<1>11. CASE CleanupFiles \/ CleanupOutcome \/ Report
  BY <1>11, Tells DEF CleanupFiles, CleanupOutcome, Report
<1>12. CASE VmExit \/ VmDies \/ VmOpensSocket \/ UNCHANGED vars
  BY <1>12, Tells DEF VmExit, VmDies, VmOpensSocket, vars, runVars
<1>13. QED
  BY <1>1, <1>2, <1>3, <1>4, <1>5, <1>6, <1>7, <1>8, <1>9, <1>10, <1>11, <1>12
     DEF Next, Runner, Launch, Monitor, CleanupSteps

LEMMA TellStep ==
  NetInv /\ StateInv /\ ExitInv /\ OrderInv /\ TellInv /\ [Next]_vars => TellInv'
  BY VmToldStep, NetToldStep, CodeToldStep, LeftToldStep, FilesToldStep, FailureToldStep
     DEF TellInv

LEMMA TellInvariant == Spec => []TellInv
  BY NetInit, NetStep, StateInit, StateStep, ExitInit, ExitStep, OrderInit, OrderStep,
     TellInit, TellStep, PTL DEF Spec

(* The event stream never tells what did not happen: vm.exited is of a VM  *)
(* that was reaped or, after a timeout, killed; a release is told only of  *)
(* a network that is gone, and a failed one never of a run that succeeds.  *)
THEOREM EventsTellTheTruth == Spec => []EventsAreTrue
<1>1. TellInv => EventsAreTrue
  BY WroteIsWritten DEF TellInv, VmTold, Ended, NetTold, CodeTold, ReleaseFailed, FilesTold,
     EventsAreTrue, Exited
<1>2. QED
  BY <1>1, TellInvariant, PTL

(* What is left of a network without a handle has its account: the launch  *)
(* failed in apply or of an event missed after it, or a release failed and *)
(* was told unless an event was missed.                                    *)
THEOREM LeaksAreAccounted == Spec => []LeakIsAccounted
<1>1. TellInv => LeakIsAccounted
  BY WroteIsWritten DEF TellInv, LeftTold, ReleaseFailed, LeakIsAccounted
<1>2. QED
  BY <1>1, TellInvariant, PTL

(* SR-RUN-202 is returned for a failed release of a run that went well     *)
(* until then, always and only, whatever is left of its network.           *)
THEOREM ReleaseErrorsAreExact == Spec => []ReleaseErrorIsExact
<1>1. NetInv /\ ExitInv /\ TellInv => ReleaseErrorIsExact
  <2> SUFFICES ASSUME NetInv, ExitInv, TellInv, Exited
               PROVE  /\ err = "SR-RUN-202" =>
                           /\ caller = "ok" /\ vm = "reaped" /\ hitErr = "none" /\ ~held
                           /\ ReleaseFailed \/ missed
                      /\ ReleaseFailed /\ caller = "ok" /\ hitErr = "none" =>
                           err = "SR-RUN-202"
    BY WroteIsWritten DEF ReleaseErrorIsExact, ReleaseFailed
  <2>1. ~held
    BY DEF NetInv, HandleKept, Settled, Exited
  <2>2. err = "SR-RUN-202" =>
          caller = "ok" /\ vm = "reaped" /\ hitErr = "none" /\ relErr = "SR-RUN-202"
    BY DEF ExitInv, ReleaseCodeKept, Exited
  <2>3. /\ caller = "ok" /\ relErr = "SR-RUN-202" => ReleaseFailed \/ missed
        /\ ReleaseFailed /\ caller = "ok" /\ hitErr = "none" => err = "SR-RUN-202"
    BY DEF TellInv, CodeTold, Exited
  <2>4. QED
    BY <2>1, <2>2, <2>3
<1>2. QED
  BY <1>1, NetInvariant, ExitInvariant, TellInvariant, PTL

(* A run that failed is told by its events and by its exit status.         *)
THEOREM FailuresAreTold == Spec => []FailureIsRecorded
<1>1. ExitInv /\ TellInv => FailureIsRecorded
  <2> SUFFICES ASSUME ExitInv, TellInv, Exited, state = "failed"
               PROVE  err # "none" /\ (Wrote("run.failed") \/ missed)
    BY DEF FailureIsRecorded
  <2>1. err # "none"
    BY DEF ExitInv, SuccessIsComplete, Succeeded
  <2>2. QED
    BY <2>1, WroteIsWritten DEF TellInv, FailureTold
<1>2. QED
  BY <1>1, ExitInvariant, TellInvariant, PTL

-----------------------------------------------------------------------------
(* What a report is of.                                                    *)

(* The events that are there as soon as their place in the code is passed. *)
Passed ==
  /\ pc \in Main \ {"prepare", "compile", "launch"} \/ caller = "ok" =>
       "run.prepared" \in Written
  /\ caller = "ok" => "vm.exited" \in Written
  /\ caller = "ok" /\ pc = "outcome" /\ locErr = "none" => "run.cleaned" \in Written
  /\ pc = "report" => "run.cleaned" \in Written

(* A network has its handle until the release that is told.                *)
RulesTold ==
  /\ pc \in {"netApply", "netRules"} \/ held \/ "network.rule.released" \in Written =>
       rules > 0
  /\ pc \in Networked \/ (caller = "ok" /\ pc \in {"hits", "release"}) => (held <=> rules > 0)
  /\ (caller = "ok" /\ pc \in {"files", "outcome"} /\ relErr = "none") \/ pc = "report" =>
       (rules > 0 => "network.rule.released" \in Written)

LEMMA PassedStep == ExitInv /\ OrderInv /\ Passed /\ [Next]_vars => Passed'
<1> SUFFICES ASSUME ExitInv, OrderInv, Passed, [Next]_vars
             PROVE  Passed'
  OBVIOUS
<1>t. log \in Seq(EventTypes)
  BY DEF OrderInv, LogTypes
<1>r. rules \in Nat
  BY DEF OrderInv, LogTypes
<1>c. /\ pc \in Main => caller = "none"
      /\ pc \in {"fail", "failEvent"} => caller = "launch"
      /\ pc \in Closing => (err = "none" <=> caller = "ok")
  BY DEF ExitInv, PathKept
<1> HIDE DEF Written
<1> USE <1>t, <1>c DEF Passed, Main, BeforeVm, WithVm, Closing, Goto, FailLaunch, Cleanup,
        Logged, Missed, logVars
<1>1. CASE Prepare \/ CompileEvent \/ PreparedEvent \/ Preflight \/ MountReturn
  BY <1>1, Tells DEF Prepare, CompileEvent, PreparedEvent, Preflight, MountReturn
<1>2. CASE MountStep
  BY <1>2, MountsTell DEF runVars
<1>3. CASE NetworkPlan \/ NetworkApply \/ RuleApplied
  BY <1>3, Tells DEF NetworkPlan, NetworkApply, RuleApplied
<1>4. CASE Spawn \/ PersistPid \/ StartedEvent
  BY <1>4, Tells DEF Spawn, PersistPid, StartedEvent
<1>5. CASE FailureRelease \/ FailureEvent
  BY <1>5, Tells DEF FailureRelease, Release, FailureEvent
<1>6. CASE CleanupRelease
  BY <1>6, Tells DEF CleanupRelease, Release
<1>7. CASE ReadPid \/ Poll \/ Sample \/ Kill \/ Reap \/ ReapFails
  BY <1>7, Tells DEF ReadPid, Poll, Sample, Kill, Reap, ReapFails
<1>8. CASE FinishTimeout
  <2>1. pc' = "hits" /\ caller' = "monitor"
    BY <1>8 DEF FinishTimeout
  <2>2. QED
    BY <2>1
<1>9. CASE FinishExit
  <2>1. /\ pc = "finish" /\ pc' = "hits" /\ caller' \in {"ok", "monitor"}
        /\ caller' = "ok" =>
             \/ log' = log \o <<"vm.exited">>
             \/ log' = log \o <<"vm.exited", "run.failed">>
    BY <1>9 DEF FinishExit
  <2>2. /\ log \o <<"vm.exited", "run.failed">> = Append(Append(log, "vm.exited"), "run.failed")
        /\ log \o <<"vm.exited">> = Append(log, "vm.exited")
    OBVIOUS
  <2>3. Written \subseteq Written'
    BY <1>9, FinishTells
  <2>4. caller' = "ok" => "vm.exited" \in Written'
    BY <2>1, <2>2, Tells
  <2>5. QED
    BY <2>1, <2>3, <2>4
<1>10. CASE CollectHits
  BY <1>10, <1>r, HitsTell
<1>11. CASE CleanupFiles
  BY <1>11, Tells DEF CleanupFiles
<1>12. CASE CleanupOutcome \/ Report
  BY <1>12, Tells DEF CleanupOutcome, CleanupErr, Report
<1>13. CASE VmExit \/ VmDies \/ VmOpensSocket \/ UNCHANGED vars
  BY <1>13, Tells DEF VmExit, VmDies, VmOpensSocket, vars, runVars, cleanVars
<1>14. QED
  BY <1>1, <1>2, <1>3, <1>4, <1>5, <1>6, <1>7, <1>8, <1>9, <1>10, <1>11, <1>12, <1>13
     DEF Next, Runner, Launch, Monitor, CleanupSteps

LEMMA RulesToldStep == NetInv /\ ExitInv /\ OrderInv /\ RulesTold /\ [Next]_vars => RulesTold'
<1> SUFFICES ASSUME NetInv, ExitInv, OrderInv, RulesTold, [Next]_vars
             PROVE  RulesTold'
  OBVIOUS
<1>t. log \in Seq(EventTypes)
  BY DEF OrderInv, LogTypes
<1>r. rules \in Nat
  BY DEF OrderInv, LogTypes
<1>c. /\ pc \in Main => caller = "none"
      /\ pc \in {"fail", "failEvent"} => caller = "launch"
      /\ pc \in Closing => (err = "none" <=> caller = "ok")
  BY DEF ExitInv, PathKept
<1>n. pc \in BeforeNet => ~held
  BY DEF NetInv, NotBuilt
<1> HIDE DEF Written
<1> USE <1>t, <1>r, <1>c, <1>n DEF RulesTold, Networked, Closing, BeforeNet, Main, BeforeVm, WithVm,
        Goto, FailLaunch, Cleanup, Logged, Missed, logVars, netVars
<1>1. CASE Prepare \/ CompileEvent \/ PreparedEvent \/ Preflight \/ MountReturn
  BY <1>1, Tells DEF Prepare, CompileEvent, PreparedEvent, Preflight, MountReturn
<1>2. CASE MountStep
  BY <1>2, MountsTell DEF runVars
<1>3. CASE NetworkPlan \/ NetworkApply
  BY <1>3, Tells DEF NetworkPlan, NetworkApply
<1>3a. CASE RuleApplied
  BY <1>3a, Tells DEF RuleApplied
<1>4. CASE Spawn \/ PersistPid \/ StartedEvent
  BY <1>4, Tells DEF Spawn, PersistPid, StartedEvent
<1>5. CASE FailureRelease \/ FailureEvent
  BY <1>5, Tells DEF FailureRelease, Release, FailureEvent
<1>6. CASE CleanupRelease
  BY <1>6, Tells DEF CleanupRelease, Release
<1>7. CASE ReadPid \/ Poll \/ Sample \/ Kill \/ Reap \/ ReapFails
  BY <1>7, Tells DEF ReadPid, Poll, Sample, Kill, Reap, ReapFails
<1>8. CASE FinishTimeout \/ FinishExit
  <2>1. /\ pc \in {"timeout", "finish"} /\ pc' = "hits" /\ UNCHANGED <<rules, held>>
        /\ pc = "timeout" => caller' = "monitor"
    BY <1>8 DEF FinishTimeout, FinishExit
  <2>2. Written' \subseteq Written \cup {"vm.exited", "run.failed"}
    BY <1>8, FinishTells
  <2>3. QED
    BY <2>1, <2>2
<1>10. CASE CollectHits
  BY <1>10, HitsTell
<1>11. CASE CleanupFiles
  BY <1>11, Tells DEF CleanupFiles
<1>12. CASE CleanupOutcome \/ Report
  BY <1>12, Tells DEF CleanupOutcome, CleanupErr, Report
<1>13. CASE VmExit \/ VmDies \/ VmOpensSocket \/ UNCHANGED vars
  BY <1>13, Tells DEF VmExit, VmDies, VmOpensSocket, vars, runVars, cleanVars
<1>14. QED
  BY <1>1, <1>2, <1>3, <1>3a, <1>4, <1>5, <1>6, <1>7, <1>8, <1>10, <1>11, <1>12, <1>13
     DEF Next, Runner, Launch, Monitor, CleanupSteps

(* ReportIsOfReleasedRun in terms of the set of events.                    *)
Right ==
  /\ vm = "reaped" /\ net = "down" /\ files = Evidence
  /\ ~missed
  /\ "run.prepared" \in Written /\ "vm.exited" \in Written /\ "run.cleaned" \in Written
  /\ rules > 0 <=> "network.rule.released" \in Written
  /\ state = "failed" <=> "run.failed" \in Written

LEMMA RightReport == ReportIsOfReleasedRun <=> (report => Right)
<1>1. (rules > 0) = Wrote("network.rule.released") <=>
        (rules > 0 <=> "network.rule.released" \in Written)
  <2> DEFINE some == rules > 0
  <2>1. some \in BOOLEAN
    OBVIOUS
  <2> HIDE DEF some
  <2>2. some = Wrote("network.rule.released") <=>
          (some <=> "network.rule.released" \in Written)
    BY <2>1 DEF Wrote, Written, Told
  <2>3. QED
    BY <2>2 DEF some
<1>2. (state = "failed") = Wrote("run.failed") <=>
        (state = "failed" <=> "run.failed" \in Written)
  BY DEF Wrote, Written, Told
<1>3. QED
  BY <1>1, <1>2, WroteIsWritten DEF ReportIsOfReleasedRun, Right

ReportInv == Passed /\ RulesTold /\ ReportIsOfReleasedRun

LEMMA ReportInit == Init => ReportInv
  BY DEF Init, ReportInv, Passed, RulesTold, ReportIsOfReleasedRun, Main, BeforeVm, WithVm,
     Networked, Written, Told

LEMMA ReportStep ==
  NetInv /\ StateInv /\ ExitInv /\ OrderInv /\ TellInv /\ ReportInv /\ [Next]_vars => ReportInv'
<1> SUFFICES ASSUME NetInv, StateInv, ExitInv, OrderInv, TellInv, ReportInv, [Next]_vars
             PROVE  ReportInv'
  OBVIOUS
<1>1. Passed' /\ RulesTold'
  BY PassedStep, RulesToldStep DEF ReportInv
<1>3. report => pc = "exit" /\ Right
  BY RightReport DEF ReportInv, ExitInv
<1>4. pc = "report" => Right
  <2>1. pc = "report" => caller = "ok" /\ net = "down" /\ files = Evidence
    BY DEF ExitInv, PathKept, NetKept, FilesKept
  <2>2. pc = "report" => vm = "reaped" /\ ~missed
    BY <2>1 DEF ExitInv, VmKept, MissedIsKept
  <2>3. pc = "report" => "run.prepared" \in Written /\ "vm.exited" \in Written
                         /\ "run.cleaned" \in Written
    BY <2>1 DEF ReportInv, Passed
  <2>4. pc = "report" => (rules > 0 <=> "network.rule.released" \in Written)
    BY DEF ReportInv, RulesTold
  <2>5. pc = "report" => (state = "failed" <=> "run.failed" \in Written)
    BY <2>2 DEF TellInv, FailureTold
  <2>6. QED
    BY <2>1, <2>2, <2>3, <2>4, <2>5 DEF Right
<1>5. pc \in {"report", "exit"} =>
        \/ Report
        \/ UNCHANGED <<report, vm, net, files, missed, log, rules, state>>
        \/ vm # "reaped"
  <2>1. CASE VmExit \/ VmDies \/ VmOpensSocket \/ UNCHANGED vars
    BY <2>1 DEF VmExit, VmDies, VmOpensSocket, vars, runVars, logVars, vmVars, netVars
  <2>2. ASSUME Runner \/ ReapFails, pc \in {"report", "exit"}
        PROVE  Report
    BY <2>2 DEF Runner, Launch, Monitor, CleanupSteps, Prepare, CompileEvent, PreparedEvent,
       Preflight, MountStep, MountReturn, NetworkPlan, NetworkApply, RuleApplied, Spawn,
       PersistPid, StartedEvent, FailureRelease, FailureEvent, ReadPid, Poll, Sample, Kill,
       Reap, ReapFails, FinishTimeout, FinishExit, CollectHits, CleanupRelease, CleanupFiles,
       CleanupOutcome
  <2>3. QED
    BY <2>1, <2>2 DEF Next
<1>6. report' => report \/ Report
  BY DEF Next, Runner, Launch, Monitor, CleanupSteps, Prepare, CompileEvent, PreparedEvent,
     Preflight, MountStep, MountReturn, NetworkPlan, NetworkApply, RuleApplied, Spawn,
     PersistPid, StartedEvent, FailureRelease, FailureEvent, ReadPid, Poll, Sample, Kill,
     Reap, ReapFails, FinishTimeout, FinishExit, CollectHits, CleanupRelease, CleanupFiles,
     CleanupOutcome, VmExit, VmDies, VmOpensSocket, vars, runVars
<1>7. Report => pc = "report" /\ UNCHANGED <<vm, net, files, missed, log, rules, state>>
  BY DEF Report, logVars, vmVars, netVars
<1>8. report' => Right'
  <2> SUFFICES ASSUME report'
               PROVE  Right'
    OBVIOUS
  <2>1. Right /\ pc \in {"report", "exit"}
    BY <1>3, <1>4, <1>6, <1>7
  <2>2. UNCHANGED <<vm, net, files, missed, log, rules, state>>
    BY <2>1, <1>5, <1>7 DEF Right
  <2>3. UNCHANGED Written
    BY <2>2 DEF Written
  <2>4. QED
    BY <2>1, <2>2, <2>3 DEF Right, Evidence
<1>9. ReportIsOfReleasedRun'
  <2>1. (ReportIsOfReleasedRun <=> (report => Right))'
    BY RightReport, PTL
  <2>2. QED
    BY <1>8, <2>1
<1>10. QED
  BY <1>1, <1>9 DEF ReportInv

LEMMA ReportInvariant == Spec => []ReportInv
  BY NetInit, NetStep, StateInit, StateStep, ExitInit, ExitStep, OrderInit, OrderStep,
     TellInit, TellStep, ReportInit, ReportStep, PTL DEF Spec

(* A report is of a run that was released and whose events miss nothing.   *)
THEOREM ReportsAreOfReleasedRuns == Spec => []ReportIsOfReleasedRun
<1>1. ReportInv => ReportIsOfReleasedRun
  BY DEF ReportInv
<1>2. QED
  BY <1>1, ReportInvariant, PTL
-----------------------------------------------------------------------------
(* The contract: every run is what RunContract promises. The argument      *)
(* needs to know that the machine is off during the setup, that the mount  *)
(* phase is over, and complete, when the network is built, and that the    *)
(* network is there, and held, when the VM is spawned.                     *)

Setup == {"prepare", "compile", "launch", "preflight", "mount", "netPlan",
          "netApply", "netRules", "spawn"}
Up == {"vmPid", "started", "readPid", "poll", "sample", "kill", "reap",
       "timeout", "finish"}
Shut == {"fail", "failEvent", "hits", "release", "files", "outcome", "report"}

(* The mount phase runs only at its place, and what follows needs its Ok.  *)
MountPhase ==
  /\ pc \in {"prepare", "compile", "launch", "preflight"} => mpc = "idle"
  /\ pc \in {"netPlan", "netApply", "netRules", "spawn"} => mpc = "ok"

(* How much of the plan is mounted at each place of the executor's loop.   *)
MountsKept ==
  /\ mounted \subseteq 1..NMounts
  /\ mpc = "idle" => idx = 1 /\ mounted = {}
  /\ mpc \in {"validate", "bind", "remount", "applied"} => idx \in 1..NMounts
  /\ mpc \in {"validate", "bind"} => mounted = 1..(idx - 1)
  /\ mpc \in {"remount", "applied"} => mounted = 1..idx
  /\ mpc = "ok" => mounted = 1..NMounts

(* No VM before the spawn; the network is as the plan says at the spawn.   *)
SetupKept ==
  /\ pc \in Setup \cup Up \cup Shut \cup {"exit"}
  /\ vm \in {"none", "running", "killed", "zombie", "reaped"}
  /\ net \in {"down", "up", "partial"}
  /\ pc \in Setup => vm = "none"
  /\ pc \in {"netApply", "netRules"} => rules > 0
  /\ pc \in {"prepare", "compile", "launch", "preflight", "mount", "netPlan",
             "netApply"} => net = "down"
  /\ pc = "spawn" => IF rules > 0 THEN net = "up" ELSE net = "down"

ContractInv == MountPhase /\ MountsKept /\ SetupKept

LEMMA ContractInvInit == Init => ContractInv
  BY RunAssumption DEF Init, Mount!MountInit, ContractInv, MountPhase, MountsKept,
     SetupKept, Setup, Up, Shut

(* The executor keeps its account of the mounts.                           *)
LEMMA MountsStep ==
  ASSUME MountsKept, MountStep
  PROVE  MountsKept'
<1> USE RunAssumption DEF MountsKept
<1>1. CASE Mount!StartMounts
  <2>1. 1..0 = {} /\ 1..(1 - 1) = {} /\ (NMounts # 0 => 1 \in 1..NMounts)
    OBVIOUS
  <2>2. QED
    BY <1>1, <2>1 DEF Mount!StartMounts
<1>2. CASE \E ok \in BOOLEAN : Mount!OnValidated(ok)
  BY <1>2 DEF Mount!OnValidated
<1>3. CASE Mount!BindMount
  <2>1. mpc = "bind" /\ idx \in 1..NMounts /\ mounted = 1..(idx - 1)
    BY <1>3 DEF Mount!BindMount
  <2>2. (1..(idx - 1)) \cup {idx} = 1..idx /\ 1..idx \subseteq 1..NMounts
    BY <2>1
  <2>3. CASE mounted' = mounted \cup {idx}
    BY <1>3, <2>1, <2>2, <2>3 DEF Mount!BindMount
  <2>4. CASE mounted' = mounted
    BY <1>3, <2>1, <2>4 DEF Mount!BindMount
  <2>5. QED
    BY <1>3, <2>3, <2>4 DEF Mount!BindMount
<1>4. CASE Mount!RemountReadOnly
  BY <1>4 DEF Mount!RemountReadOnly
<1>5. CASE \E ok \in BOOLEAN : Mount!OnApplied(ok)
  <2>1. mpc = "applied" /\ idx \in 1..NMounts /\ mounted = 1..idx
    BY <1>5 DEF Mount!OnApplied
  <2>2. idx # NMounts => idx + 1 \in 1..NMounts /\ 1..((idx + 1) - 1) = 1..idx
    BY <2>1
  <2>3. CASE mpc' = "err"
    BY <1>5, <2>1, <2>3 DEF Mount!OnApplied
  <2>4. CASE mpc' = "ok"
    BY <1>5, <2>1, <2>4 DEF Mount!OnApplied
  <2>5. CASE mpc' = "validate"
    BY <1>5, <2>1, <2>2, <2>5 DEF Mount!OnApplied
  <2>6. QED
    BY <1>5, <2>3, <2>4, <2>5 DEF Mount!OnApplied
<1>6. CASE \E ok \in BOOLEAN : Mount!OnRejected(ok)
  BY <1>6 DEF Mount!OnRejected
<1>7. CASE Mount!RollbackOne \/ Mount!RollbackDone
  BY <1>7 DEF Mount!RollbackOne, Mount!RollbackDone
<1>8. QED
  BY <1>1, <1>2, <1>3, <1>4, <1>5, <1>6, <1>7
  DEF MountStep, Mount!MountSilentStep, Mount!MountHookStep

(* No other step of the run, and none of the VM, touches a mount.          *)
LEMMA MountsStay ==
  ASSUME [Next]_vars, ~MountStep
  PROVE  UNCHANGED mountVars
  BY DEF Next, vars, Runner, Launch, Monitor, CleanupSteps, Prepare,
     CompileEvent, PreparedEvent, Preflight, MountReturn, NetworkPlan,
     NetworkApply, RuleApplied, Spawn, PersistPid, StartedEvent,
     FailureRelease, FailureEvent, ReadPid, Poll, Sample, Kill, Reap,
     ReapFails, FinishTimeout, FinishExit, CollectHits, CleanupRelease, CleanupFiles,
     CleanupOutcome, Report, VmExit, VmDies, VmOpensSocket

LEMMA ContractInvStep ==
  ASSUME NetInv, ContractInv, [Next]_vars
  PROVE  ContractInv'
<1> USE DEF ContractInv
<1>1. CASE MountStep
  <2>1. MountsKept'
    BY <1>1, MountsStep
  <2>2. (MountPhase /\ SetupKept)'
    BY <1>1 DEF MountStep, runVars, vmVars, netVars, MountPhase, SetupKept
  <2>3. QED
    BY <2>1, <2>2
<1>2. CASE ~MountStep
  <2>1. UNCHANGED mountVars
    BY <1>2, MountsStay
  <2>2. MountsKept'
    BY <2>1 DEF mountVars, MountsKept
  <2>3. (MountPhase /\ SetupKept)'
    <3> USE <2>1 DEF mountVars, MountPhase, SetupKept, Setup, Up, Shut, Goto,
          FailLaunch, Cleanup, NetInv, NotBuilt, BeforeNet, RuleTypes
    <3>1. CASE Prepare \/ CompileEvent \/ PreparedEvent \/ Preflight
      BY <3>1 DEF Prepare, CompileEvent, PreparedEvent, Preflight, vmVars, netVars
    <3>2. CASE MountReturn \/ NetworkPlan
      BY <3>2 DEF MountReturn, NetworkPlan, vmVars, netVars
    <3>3. CASE NetworkApply \/ RuleApplied
      BY <3>3 DEF NetworkApply, RuleApplied, vmVars, netVars
    <3>4. CASE Spawn \/ PersistPid \/ StartedEvent
      BY <3>4 DEF Spawn, PersistPid, StartedEvent, vmVars, netVars
    <3>5. CASE FailureRelease \/ FailureEvent \/ CleanupRelease
      BY <3>5 DEF FailureRelease, FailureEvent, CleanupRelease, Release, vmVars,
         netVars
    <3>6. CASE ReadPid \/ Poll \/ Sample \/ Kill \/ Reap \/ ReapFails
      BY <3>6 DEF ReadPid, Poll, Sample, Kill, Reap, ReapFails, vmVars, netVars
    <3>7. CASE FinishTimeout
      BY <3>7 DEF FinishTimeout, vmVars, netVars
    <3>8. CASE FinishExit
      BY <3>8 DEF FinishExit, vmVars, netVars
    <3>9. CASE CollectHits
      BY <3>9 DEF CollectHits, vmVars, netVars
    <3>10. CASE CleanupFiles
      BY <3>10 DEF CleanupFiles, vmVars, netVars
    <3>11. CASE CleanupOutcome \/ Report
      BY <3>11 DEF CleanupOutcome, Report, vmVars, netVars
    <3>12. CASE VmExit \/ VmDies \/ VmOpensSocket
      BY <3>12 DEF VmExit, VmDies, VmOpensSocket, vmVars, netVars, runVars
    <3>13. CASE UNCHANGED vars
      BY <3>13 DEF vars, vmVars, netVars, runVars
    <3>14. QED
      BY <1>2, <3>1, <3>2, <3>3, <3>4, <3>5, <3>6, <3>7, <3>8, <3>9, <3>10,
         <3>11, <3>12, <3>13 DEF Next, Runner, Launch, Monitor, CleanupSteps
  <2>4. QED
    BY <2>2, <2>3
<1>3. QED
  BY <1>1, <1>2

(* A run takes no step on the mounts but the executor's own, so that what  *)
(* MountExecutorProofs shows of a plan holds of the mounts of every run:   *)
(* no cleanup, report or step of the VM disturbs them, or undoes them.     *)
THEOREM RunsKeepTheExecutor == Spec => Mount!MountSpec
<1>1. Init => Mount!MountInit
  BY DEF Init
<1>2. [Next]_vars => [Mount!MountNext]_(Mount!mountVars)
  <2> SUFFICES ASSUME [Next]_vars
               PROVE  [Mount!MountNext]_(Mount!mountVars)
    OBVIOUS
  <2>1. CASE MountStep
    BY <2>1 DEF MountStep, Mount!MountNext
  <2>2. CASE ~MountStep
    <3>1. UNCHANGED mountVars
      BY <2>2, MountsStay
    <3>2. QED
      BY <3>1 DEF mountVars, Mount!mountVars
  <2>3. QED
    BY <2>1, <2>2
<1>3. QED
  BY <1>1, <1>2, PTL DEF Spec, Mount!MountSpec

LEMMA ContractInvariant == Spec => []ContractInv
  BY NetInit, NetStep, ContractInvInit, ContractInvStep, PTL DEF Spec

-----------------------------------------------------------------------------
(* The refinement.                                                         *)

LEMMA ContractInit == Init => Contract!Init
  BY RunAssumption DEF Init, Mount!MountInit, Contract!Init, Phase, Filter,
     Machine, Verdict, Exited

(* A step of the mount phase is a Share, or no step of the contract.       *)
LEMMA ShareStep ==
  ASSUME ContractInv, ContractInv', MountStep
  PROVE  Contract!Share
<1>1. pc = "mount" /\ pc' = pc /\ net = "down" /\ UNCHANGED <<vm, net, rules, err>>
  BY DEF MountStep, runVars, vmVars, netVars, ContractInv, SetupKept
<1>2. mounted' \in SUBSET (1..NMounts)
  BY DEF ContractInv, MountsKept
<1>3. QED
  BY <1>1, <1>2 DEF Contract!Share, Phase, Filter, Machine, Verdict, Exited

LEMMA ContractStep ==
  ASSUME NetInv, StateInv, ExitInv, ContractInv, ContractInv', ExitInv', [Next]_vars
  PROVE  [Contract!Next]_Contract!vars
<1> USE DEF Phase, Filter, Machine, Verdict, Exited, Contract!vars, Goto,
            FailLaunch, Cleanup, Setup, Up, Shut
<1>1. CASE MountStep
  BY <1>1, ShareStep DEF Contract!Next
<1>2. CASE Prepare \/ CompileEvent \/ PreparedEvent \/ Preflight
  BY <1>2 DEF Prepare, CompileEvent, PreparedEvent, Preflight, vmVars, netVars,
     mountVars, Contract!Next, Contract!Fail, Contract!Close, ContractInv, SetupKept,
     ExitInv, PathKept
<1>3. CASE MountReturn \/ NetworkPlan
  BY <1>3 DEF MountReturn, NetworkPlan, vmVars, netVars, mountVars, Contract!Next,
     Contract!Close, ContractInv, SetupKept
<1>4. CASE NetworkApply
  BY <1>4 DEF NetworkApply, vmVars, mountVars, Contract!Next, Contract!Filter,
     Contract!Close, ContractInv, SetupKept, MountPhase, MountsKept
<1>5. CASE RuleApplied
  BY <1>5 DEF RuleApplied, vmVars, mountVars, Contract!Next, Contract!Close
<1>6. CASE Spawn
  BY <1>6 DEF Spawn, mountVars, netVars, Contract!Next, Contract!Start,
     Contract!Close, ContractInv, SetupKept, MountPhase, MountsKept
<1>7. CASE PersistPid \/ StartedEvent
  BY <1>7 DEF PersistPid, StartedEvent, vmVars, netVars, mountVars, Contract!Next,
     Contract!Close
<1>8. CASE FailureRelease \/ CleanupRelease
  BY <1>8 DEF FailureRelease, CleanupRelease, Release, vmVars, mountVars,
     Contract!Next, Contract!Unfilter, NetInv, HandleKept
<1>9. CASE FailureEvent
  BY <1>9 DEF FailureEvent, vmVars, netVars, mountVars
<1>10. CASE ReadPid \/ Poll \/ Sample \/ Kill \/ Reap \/ ReapFails
  BY <1>10 DEF ReadPid, Poll, Sample, Kill, Reap, ReapFails, vmVars, netVars, mountVars,
     Contract!Next, Contract!Close
<1>11. CASE FinishTimeout
  BY <1>11 DEF FinishTimeout, vmVars, netVars, mountVars, Contract!Next, Contract!Close
<1>12. CASE FinishExit
  BY <1>12 DEF FinishExit, vmVars, netVars, mountVars, Contract!Next, Contract!Close
<1>13. CASE CollectHits
  BY <1>13 DEF CollectHits, vmVars, netVars, mountVars
<1>14. CASE CleanupFiles
  BY <1>14 DEF CleanupFiles, vmVars, netVars, mountVars
<1>15. CASE CleanupOutcome
  BY <1>15 DEF CleanupOutcome, vmVars, netVars, mountVars, Contract!Next,
     Contract!Fail
<1>16. CASE Report
  BY <1>16 DEF Report, vmVars, netVars, mountVars, Contract!Next, Contract!Fail,
     Contract!Succeed, ExitInv, SuccessIsComplete, Succeeded
<1>17. CASE VmExit \/ VmDies \/ VmOpensSocket
  BY <1>17 DEF VmExit, VmDies, VmOpensSocket, vmVars, netVars, mountVars, runVars,
     Contract!Next, Contract!Stop
<1>18. CASE UNCHANGED vars
  BY <1>18 DEF vars, vmVars, netVars, mountVars, runVars
<1>19. QED
  BY <1>1, <1>2, <1>3, <1>4, <1>5, <1>6, <1>7, <1>8, <1>9, <1>10, <1>11, <1>12,
     <1>13, <1>14, <1>15, <1>16, <1>17, <1>18
  DEF Next, Runner, Launch, Monitor, CleanupSteps

(* A run implements its contract: the VM starts only on top of every mount *)
(* and the whole filter, and the filter goes only when the run is closing. *)
(* A setup that fails may leave any part of the filter, all of it included.*)
THEOREM RunsKeepTheContract == Spec => ImplementsContract
<1>1. Spec => [](NetInv /\ StateInv /\ ExitInv /\ ContractInv)
  BY NetInit, NetStep, StateInit, StateStep, ExitInit, ExitStep, ContractInvInit,
     ContractInvStep, PTL DEF Spec
<1>2. ASSUME NetInv /\ StateInv /\ ExitInv /\ ContractInv,
             (NetInv /\ StateInv /\ ExitInv /\ ContractInv)', [Next]_vars
      PROVE  [Contract!Next]_Contract!vars
  BY <1>2, ContractStep
<1>3. QED
  BY <1>1, <1>2, ContractInit, PTL DEF Spec, ImplementsContract, Contract!Safe

-----------------------------------------------------------------------------
(* The types.                                                              *)

(* A sequence without its last element.                                    *)
LEMMA ShorterSeq ==
  ASSUME NEW S, NEW s \in Seq(S)
  PROVE  SubSeq(s, 1, Len(s) - 1) \in Seq(S)
<1> DEFINE k == Len(s) - 1
<1>1. k \in Int /\ 1 \in Int /\ \A n \in 1..k : n \in 1..Len(s)
  OBVIOUS
<1>2. \A n \in 1..k : s[n] \in S
  BY <1>1
<1> HIDE DEF k
<1>3. SubSeq(s, 1, k) \in Seq(S)
  BY <1>1, <1>2, SubSeqProperties
<1>4. QED
  BY <1>3 DEF k

(* A step of the executor, whose index stays in the plan.                  *)
LEMMA MountTypesStep ==
  ASSUME ContractInv, Mount!MountTypeOK, MountStep
  PROVE  Mount!MountTypeOK'
<1> USE DEF Mount!MountTypeOK, Mount!MountPc
<1>i. mpc \in {"validate", "bind", "remount", "applied"} => idx \in 1..NMounts
  BY DEF ContractInv, MountsKept
<1>1. CASE Mount!StartMounts
  BY <1>1 DEF Mount!StartMounts
<1>2. CASE \E ok \in BOOLEAN : Mount!OnValidated(ok)
  BY <1>2 DEF Mount!OnValidated
<1>3. CASE Mount!BindMount
  <2>1. idx \in 1..NMounts /\ Append(applied, idx) \in Seq(1..NMounts)
    BY <1>3, <1>i DEF Mount!BindMount
  <2>2. mounted' \subseteq 1..NMounts /\ applied' \in Seq(1..NMounts)
    BY <1>3, <2>1 DEF Mount!BindMount
  <2>3. mpc' \in Mount!MountPc /\ UNCHANGED <<idx, locked, keptHook, stuck>>
    BY <1>3 DEF Mount!BindMount
  <2>4. QED
    BY <2>2, <2>3
<1>4. CASE Mount!RemountReadOnly
  <2>1. idx \in 1..NMounts /\ Append(applied, idx) \in Seq(1..NMounts)
    BY <1>4, <1>i DEF Mount!RemountReadOnly
  <2>2. locked' \subseteq 1..NMounts /\ applied' \in Seq(1..NMounts)
    BY <1>4, <2>1 DEF Mount!RemountReadOnly
  <2>3. mpc' \in Mount!MountPc /\ UNCHANGED <<idx, mounted, keptHook, stuck>>
    BY <1>4 DEF Mount!RemountReadOnly
  <2>4. QED
    BY <2>2, <2>3
<1>5. CASE \E ok \in BOOLEAN : Mount!OnApplied(ok)
  BY <1>5 DEF Mount!OnApplied
<1>6. CASE \E ok \in BOOLEAN : Mount!OnRejected(ok)
  BY <1>6 DEF Mount!OnRejected
<1>7. CASE Mount!RollbackOne
  <2>1. SubSeq(applied, 1, Len(applied) - 1) \in Seq(1..NMounts)
    BY ShorterSeq
  <2>2. applied' \in Seq(1..NMounts) /\ mounted' \subseteq mounted /\ locked' \subseteq locked
    BY <1>7, <2>1 DEF Mount!RollbackOne
  <2>3. mpc' \in Mount!MountPc /\ stuck' \in BOOLEAN /\ UNCHANGED <<idx, keptHook>>
    BY <1>7 DEF Mount!RollbackOne
  <2>4. QED
    BY <2>2, <2>3
<1>8. CASE Mount!RollbackDone
  BY <1>8 DEF Mount!RollbackDone
<1>9. QED
  BY <1>1, <1>2, <1>3, <1>4, <1>5, <1>6, <1>7, <1>8
  DEF MountStep, Mount!MountSilentStep, Mount!MountHookStep

(* The variables whose types no other invariant has.                       *)
FlagTypes == missed \in BOOLEAN /\ held \in BOOLEAN /\ report \in BOOLEAN
CodeTypes ==
  /\ err \in Codes \cup {"none"}
  /\ hitErr \in Codes \cup {"none"}
  /\ relErr \in Codes \cup {"none"}
  /\ locErr \in Codes \cup {"none"}
RunVarTypes ==
  /\ rules \in 0..MaxRules
  /\ state \in RunStates \cup {"none"}
  /\ caller \in {"none", "launch", "monitor", "ok"}
  /\ code \in {0, 1, 137}
  /\ elapsed \in 0..Timeout

OwnTypes == Mount!MountTypeOK /\ FlagTypes /\ CodeTypes /\ RunVarTypes

LEMMA OwnTypesInit == Init => OwnTypes
<1> SUFFICES ASSUME Init
             PROVE  OwnTypes
  OBVIOUS
<1>1. Mount!MountTypeOK
  <2>1. <<>> \in Seq(1..NMounts)
    OBVIOUS
  <2>2. QED
    BY <2>1 DEF Init, Mount!MountInit, Mount!MountTypeOK, Mount!MountPc
<1>2. FlagTypes /\ CodeTypes
  BY DEF Init, FlagTypes, CodeTypes
<1>3. RunVarTypes
  BY RunAssumption DEF Init, RunVarTypes
<1>4. QED
  BY <1>1, <1>2, <1>3 DEF OwnTypes

LEMMA MountTypesKept == ContractInv /\ Mount!MountTypeOK /\ [Next]_vars => Mount!MountTypeOK'
<1> SUFFICES ASSUME ContractInv, Mount!MountTypeOK, [Next]_vars
             PROVE  Mount!MountTypeOK'
  OBVIOUS
<1>1. CASE MountStep
  BY <1>1, MountTypesStep
<1>2. CASE ~MountStep
  <2>1. UNCHANGED mountVars
    BY <1>2, MountsStay
  <2>2. QED
    BY <2>1 DEF mountVars, Mount!MountTypeOK
<1>3. QED
  BY <1>1, <1>2

LEMMA FlagTypesKept == FlagTypes /\ [Next]_vars => FlagTypes'
<1> SUFFICES ASSUME FlagTypes, [Next]_vars
             PROVE  FlagTypes'
  OBVIOUS
<1> USE DEF FlagTypes, Goto, FailLaunch, Cleanup, Logged, Missed, logVars,
        vmVars, netVars, cleanVars, runVars
<1>1. CASE Prepare \/ CompileEvent \/ PreparedEvent \/ Preflight
  BY <1>1 DEF Prepare, CompileEvent, PreparedEvent, Preflight
<1>2. CASE MountStep
  BY <1>2 DEF MountStep
<1>3. CASE MountReturn \/ NetworkPlan
  BY <1>3 DEF MountReturn, NetworkPlan
<1>4. CASE NetworkApply \/ RuleApplied
  BY <1>4 DEF NetworkApply, RuleApplied
<1>5. CASE Spawn \/ PersistPid \/ StartedEvent
  BY <1>5 DEF Spawn, PersistPid, StartedEvent
<1>6. CASE FailureRelease \/ FailureEvent \/ CleanupRelease
  BY <1>6 DEF FailureRelease, FailureEvent, CleanupRelease, Release
<1>7. CASE ReadPid \/ Poll \/ Kill \/ Reap \/ ReapFails
  BY <1>7 DEF ReadPid, Poll, Kill, Reap, ReapFails
<1>8. CASE Sample
  BY <1>8, RunAssumption DEF Sample
<1>9. CASE FinishTimeout
  BY <1>9 DEF FinishTimeout
<1>10. CASE FinishExit
  BY <1>10 DEF FinishExit
<1>11. CASE CollectHits
  BY <1>11 DEF CollectHits
<1>12. CASE CleanupFiles
  BY <1>12 DEF CleanupFiles
<1>13. CASE CleanupOutcome \/ Report
  BY <1>13 DEF CleanupOutcome, CleanupErr, Report, RunOutcomeError
<1>14. CASE VmExit \/ VmDies \/ VmOpensSocket
  BY <1>14 DEF VmExit, VmDies, VmOpensSocket
<1>15. CASE UNCHANGED vars
  BY <1>15 DEF vars
<1>16. QED
  BY <1>1, <1>2, <1>3, <1>4, <1>5, <1>6, <1>7, <1>8,
     <1>9, <1>10, <1>11, <1>12, <1>13, <1>14, <1>15
     DEF Next, Runner, Launch, Monitor, CleanupSteps

LEMMA CodeTypesKept == CodeTypes /\ [Next]_vars => CodeTypes'
<1> SUFFICES ASSUME CodeTypes, [Next]_vars
             PROVE  CodeTypes'
  OBVIOUS
<1> USE DEF CodeTypes, Codes, Goto, FailLaunch, Cleanup, Logged, Missed, logVars,
        vmVars, netVars, cleanVars, runVars
<1>1. CASE Prepare \/ CompileEvent \/ PreparedEvent \/ Preflight
  BY <1>1 DEF Prepare, CompileEvent, PreparedEvent, Preflight
<1>2. CASE MountStep
  BY <1>2 DEF MountStep
<1>3. CASE MountReturn \/ NetworkPlan
  BY <1>3 DEF MountReturn, NetworkPlan
<1>4. CASE NetworkApply \/ RuleApplied
  BY <1>4 DEF NetworkApply, RuleApplied
<1>5. CASE Spawn \/ PersistPid \/ StartedEvent
  BY <1>5 DEF Spawn, PersistPid, StartedEvent
<1>6. CASE FailureRelease \/ FailureEvent \/ CleanupRelease
  BY <1>6 DEF FailureRelease, FailureEvent, CleanupRelease, Release
<1>7. CASE ReadPid \/ Poll \/ Kill \/ Reap \/ ReapFails
  BY <1>7 DEF ReadPid, Poll, Kill, Reap, ReapFails
<1>8. CASE Sample
  BY <1>8, RunAssumption DEF Sample
<1>9. CASE FinishTimeout
  BY <1>9 DEF FinishTimeout
<1>10. CASE FinishExit
  BY <1>10 DEF FinishExit
<1>11. CASE CollectHits
  BY <1>11 DEF CollectHits
<1>12. CASE CleanupFiles
  BY <1>12 DEF CleanupFiles
<1>13. CASE CleanupOutcome \/ Report
  BY <1>13 DEF CleanupOutcome, CleanupErr, Report, RunOutcomeError
<1>14. CASE VmExit \/ VmDies \/ VmOpensSocket
  BY <1>14 DEF VmExit, VmDies, VmOpensSocket
<1>15. CASE UNCHANGED vars
  BY <1>15 DEF vars
<1>16. QED
  BY <1>1, <1>2, <1>3, <1>4, <1>5, <1>6, <1>7, <1>8,
     <1>9, <1>10, <1>11, <1>12, <1>13, <1>14, <1>15
     DEF Next, Runner, Launch, Monitor, CleanupSteps

LEMMA RunVarTypesKept == RunVarTypes /\ [Next]_vars => RunVarTypes'
<1> SUFFICES ASSUME RunVarTypes, [Next]_vars
             PROVE  RunVarTypes'
  OBVIOUS
<1> USE DEF RunVarTypes, RunStates, Goto, FailLaunch, Cleanup, Logged, Missed, logVars,
        vmVars, netVars, cleanVars, runVars
<1>1. CASE Prepare \/ CompileEvent \/ PreparedEvent \/ Preflight
  BY <1>1 DEF Prepare, CompileEvent, PreparedEvent, Preflight
<1>2. CASE MountStep
  BY <1>2 DEF MountStep
<1>3. CASE MountReturn \/ NetworkPlan
  BY <1>3 DEF MountReturn, NetworkPlan
<1>4. CASE NetworkApply \/ RuleApplied
  BY <1>4 DEF NetworkApply, RuleApplied
<1>5. CASE Spawn \/ PersistPid \/ StartedEvent
  BY <1>5 DEF Spawn, PersistPid, StartedEvent
<1>6. CASE FailureRelease \/ FailureEvent \/ CleanupRelease
  BY <1>6 DEF FailureRelease, FailureEvent, CleanupRelease, Release
<1>7. CASE ReadPid \/ Poll \/ Kill \/ Reap \/ ReapFails
  BY <1>7 DEF ReadPid, Poll, Kill, Reap, ReapFails
<1>8. CASE Sample
  BY <1>8, RunAssumption DEF Sample
<1>9. CASE FinishTimeout
  BY <1>9 DEF FinishTimeout
<1>10. CASE FinishExit
  BY <1>10 DEF FinishExit
<1>11. CASE CollectHits
  BY <1>11 DEF CollectHits
<1>12. CASE CleanupFiles
  BY <1>12 DEF CleanupFiles
<1>13. CASE CleanupOutcome \/ Report
  BY <1>13 DEF CleanupOutcome, CleanupErr, Report, RunOutcomeError
<1>14. CASE VmExit \/ VmDies \/ VmOpensSocket
  BY <1>14 DEF VmExit, VmDies, VmOpensSocket
<1>15. CASE UNCHANGED vars
  BY <1>15 DEF vars
<1>16. QED
  BY <1>1, <1>2, <1>3, <1>4, <1>5, <1>6, <1>7, <1>8,
     <1>9, <1>10, <1>11, <1>12, <1>13, <1>14, <1>15
     DEF Next, Runner, Launch, Monitor, CleanupSteps

LEMMA OwnTypesStep == ContractInv /\ OwnTypes /\ [Next]_vars => OwnTypes'
  BY MountTypesKept, FlagTypesKept, CodeTypesKept, RunVarTypesKept DEF OwnTypes

(* Every variable keeps its type, whatever fails.                          *)
THEOREM RunTypes == Spec => []TypeOK
<1>1. NetInv /\ ExitInv /\ OrderInv /\ ContractInv /\ OwnTypes => TypeOK
  BY DEF NetInv, RuleTypes, ExitInv, FilesKept, OrderInv, LogTypes, ContractInv, SetupKept,
     OwnTypes, FlagTypes, CodeTypes, RunVarTypes, TypeOK
<1>2. Spec => []OwnTypes
  BY NetInit, NetStep, ContractInvInit, ContractInvStep, OwnTypesInit, OwnTypesStep, PTL
     DEF Spec
<1>3. QED
  BY <1>1, <1>2, NetInvariant, ExitInvariant, OrderInvariant, ContractInvariant, PTL
=============================================================================
