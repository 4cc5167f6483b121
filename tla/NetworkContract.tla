--------------------------- MODULE NetworkContract ---------------------------
(***************************************************************************)
(* What the network lifecycle promises to the runs that share a host, as   *)
(* nothing but the set of packets that pass from each run's tap: building  *)
(* a filter takes packets away and never one of the plan; the filter is    *)
(* the plan while the VM runs; withdrawing it takes packets away until the *)
(* final drop goes. Each step is of one run and changes only its own set.  *)
(***************************************************************************)
CONSTANTS
  Runs,
  Packets,
  Planned   \* the packets that the plan allows

VARIABLES
  stage,    \* "building", "guarding", "closing", "open", "over"
  passes    \* the packets that pass from the run's tap

vars == <<stage, passes>>

Init ==
  /\ stage = [r \in Runs |-> "building"]
  /\ passes = [r \in Runs |-> Packets]

(* A step of run r, from one stage to another, leaves the other runs as    *)
(* they are, stage and packets.                                            *)
Moves(r, from, to) ==
  /\ stage[r] = from
  /\ stage' = [stage EXCEPT ![r] = to]
  /\ passes' = [passes EXCEPT ![r] = passes'[r]]

Build(r) ==
  /\ Moves(r, "building", "building")
  /\ Planned \subseteq passes'[r] /\ passes'[r] \subseteq passes[r]

(* The filter is complete, and the VM may run behind it.                   *)
Guard(r) ==
  /\ passes[r] = Planned
  /\ Moves(r, "building", "guarding") /\ UNCHANGED passes

Close(r) == Moves(r, "guarding", "closing") /\ UNCHANGED passes

Withdraw(r) == Moves(r, "closing", "closing") /\ passes'[r] \subseteq passes[r]

(* From the deletion of the final drop on, more may pass again.            *)
Unguard(r) ==
  /\ Moves(r, "closing", "open") \/ Moves(r, "open", "open")
  /\ passes[r] \subseteq passes'[r] /\ passes'[r] \subseteq Packets

(* apply gives up, or release returns, with the filter as it is.           *)
End(r) ==
  /\ Moves(r, "building", "over") \/ Moves(r, "open", "over")
  /\ UNCHANGED passes

Next ==
  \E r \in Runs :
    Build(r) \/ Guard(r) \/ Close(r) \/ Withdraw(r) \/ Unguard(r) \/ End(r)

Spec == Init /\ [][Next]_vars
=============================================================================
