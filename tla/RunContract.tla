----------------------------- MODULE RunContract -----------------------------
(***************************************************************************)
(* What one `safe_run run` promises to its host and to its caller, without *)
(* a word on how: the VM is started only on top of everything the policy   *)
(* asks for, the network filter is withdrawn only when the run is closing, *)
(* and a good verdict is given only of a VM that ended and a filter that   *)
(* is gone. A run may be given up at any point, with a bad verdict and     *)
(* whatever was not undone. RunLifecycle is shown to implement this.       *)
(***************************************************************************)
CONSTANT Shares   \* the mounts that the plan asks for

VARIABLES
  phase,     \* "setup", "running", "closing", "done"
  filtered,  \* the plan asks for a network; it never changes
  shares,    \* the mounts that are in place
  filter,    \* the network filter: "off", "on", "partial"
  machine,   \* the VM: "off", "on", "over"
  verdict    \* what the caller is told: "none", "good", "bad"

vars == <<phase, filtered, shares, filter, machine, verdict>>

Init ==
  /\ phase = "setup"
  /\ filtered \in BOOLEAN
  /\ shares = {}
  /\ filter = "off"
  /\ machine = "off"
  /\ verdict = "none"

(* The mounts are made, and unmade again, before the network.              *)
Share ==
  /\ phase = "setup" /\ filter = "off"
  /\ shares' \in SUBSET Shares
  /\ UNCHANGED <<phase, filtered, filter, machine, verdict>>

(* The filter is in place as a whole, or the setup ends.                   *)
Filter ==
  /\ phase = "setup" /\ filter = "off"
  /\ filtered /\ shares = Shares
  /\ filter' = "on"
  /\ UNCHANGED <<phase, filtered, shares, machine, verdict>>

Start ==
  /\ phase = "setup"
  /\ shares = Shares
  /\ filter = IF filtered THEN "on" ELSE "off"
  /\ machine' = "on"
  /\ phase' = "running"
  /\ UNCHANGED <<filtered, shares, filter, verdict>>

(* The machine ends when it pleases, at the end of a run or long after.    *)
Stop ==
  /\ machine = "on"
  /\ machine' = "over"
  /\ UNCHANGED <<phase, filtered, shares, filter, verdict>>

(* The run is ended, or given up with whatever of the filter was built,    *)
(* which may be all of it.                                                 *)
Close ==
  /\ phase \in {"setup", "running"}
  /\ phase' = "closing"
  /\ \/ UNCHANGED filter
     \/ phase = "setup" /\ filtered /\ filter = "off" /\ filter' \in {"partial", "on"}
  /\ UNCHANGED <<filtered, shares, machine, verdict>>

Unfilter ==
  /\ phase = "closing" /\ filter = "on"
  /\ filter' \in {"off", "partial"}
  /\ UNCHANGED <<phase, filtered, shares, machine, verdict>>

Succeed ==
  /\ phase = "closing"
  /\ machine = "over" /\ filter = "off"
  /\ phase' = "done" /\ verdict' = "good"
  /\ UNCHANGED <<filtered, shares, filter, machine>>

Fail ==
  /\ phase \in {"setup", "closing"}
  /\ phase' = "done" /\ verdict' = "bad"
  /\ UNCHANGED <<filtered, shares, filter, machine>>

Next ==
  Share \/ Filter \/ Start \/ Stop \/ Close \/ Unfilter \/ Succeed \/ Fail

Safe == Init /\ [][Next]_vars
=============================================================================
