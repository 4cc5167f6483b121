--------------------------- MODULE NetworkLifecycle ---------------------------
(***************************************************************************)
(* SystemNetworkLifecycle: apply builds a run's tap device, the nft table  *)
(* and forward chain, one allow and one block rule per target and a final  *)
(* drop, all by separate `ip` and `nft` commands; release deletes the      *)
(* rules by their handles and then whatever apply said it had created.     *)
(*                                                                         *)
(* The tap is named after the run. The table and the chain have one name   *)
(* for all runs on the host, so the commands of concurrent runs meet in    *)
(* them. Each command is one step and may fail when its name is in Faults. *)
(*                                                                         *)
(* Modelled from their use, not from this source: nft add is idempotent    *)
(* for tables and chains, a chain with rules cannot be deleted, deleting a *)
(* table deletes all it holds, and a table numbers its rules from 1, so    *)
(* that a table that was deleted and added again reuses the handles. A     *)
(* rule is always appended, so that the chain is ordered by the handles.   *)
(***************************************************************************)
EXTENDS Integers, Sequences, FiniteSetsExt

CONSTANTS
  Runs,        \* the runs on one host
  Plan,        \* the resolved targets of a plan: a sequence of [dst, port]
  Packets,     \* packets a VM may send: [dst, port]
  TableFirst,  \* the table exists before any run
  StaleTaps,   \* runs whose tap device exists before them
  MaxSent,     \* bound on the packets that the VM of a run sends
  Faults       \* "ip", "list", "add", "delete", "dns"

ASSUME NetworkAssumption ==
  /\ \A p, q \in Packets : p.dst = q.dst /\ p.port = q.port => p = q
  /\ Plan \in Seq(Packets) /\ Plan # <<>>
  /\ TableFirst \in BOOLEAN
  /\ StaleTaps \subseteq Runs
  /\ MaxSent \in Nat
  /\ Faults \subseteq {"ip", "list", "add", "delete", "dns"}

VARIABLES
  pc,       \* the run's place in apply and release
  i,        \* the target its loop is at
  taps,     \* host: the runs whose tap device exists
  table,    \* host: the table safe_run exists
  chain,    \* host: the chain forward exists
  ruleset,  \* host: the rules of the chain, each with its handle
  lastHandle,   \* host: the last handle the table gave to a rule
  packets,  \* host: the counter of each rule
  sent,     \* history: the packets of a run's VM while the run was up: those
            \* that its plan allows, others to a port of it, and the rest
  created,  \* what apply of the run created: subset of {"tap", "table", "chain"}
  handles,  \* the rules of the run whose handle it read, with their handles
  failed    \* release collected an error

nftVars == <<table, chain, ruleset, lastHandle>>
traffic == <<packets, sent>>
hostVars == <<taps, nftVars, packets>>
ownVars == <<i, created, handles, failed>>
vars == <<pc, hostVars, sent, ownVars>>

Targets == 1..Len(Plan)

Classes == {"allowed", "blocked", "other"}

Pcs == {"tap", "table", "addTable", "chain", "addChain", "dns", "allow", "block",
        "drop", "hydrate", "up", "delAllow", "delBlock", "delDrop", "delChain",
        "delTable", "delTap", "released", "failed"}

(* A rule is named by its comment: the run, the kind and the target.       *)
Rule(r, kind, t) == [run |-> r, kind |-> kind, target |-> t]
RulesOf(r) == {Rule(r, k, t) : k \in {"allow", "block"}, t \in Targets}
                \cup {Rule(r, "drop", 1)}
AllRules == UNION {RulesOf(r) : r \in Runs}

(* A rule in the chain has a handle besides.                               *)
Handled(rule, h) == [rule |-> rule, handle |-> h]

Installed == {x.rule : x \in ruleset}
ChainOf(r) == {x \in ruleset : x.rule.run = r}

Init ==
  /\ pc = [r \in Runs |-> "tap"]
  /\ i = [r \in Runs |-> 1]
  /\ taps = StaleTaps
  /\ table = TableFirst
  /\ chain = FALSE
  /\ ruleset = {}
  /\ lastHandle = 0
  /\ packets = [rule \in AllRules |-> 0]
  /\ sent = [r \in Runs |-> [class \in Classes |-> 0]]
  /\ created = [r \in Runs |-> {}]
  /\ handles = [r \in Runs |-> {}]
  /\ failed = [r \in Runs |-> FALSE]

Goto(r, l) == pc' = [pc EXCEPT ![r] = l]
Creates(r, what) == created' = [created EXCEPT ![r] = @ \cup {what}]
Fails(f) == f \in Faults

-----------------------------------------------------------------------------
(* apply: every error returns at once, with what was built left in place.  *)

(* ensure_tap: an existing device is used, not created; then link set up.  *)
EnsureTap(r) ==
  /\ pc[r] = "tap"
  /\ \/ /\ taps' = taps \cup {r}
        /\ IF r \in taps THEN UNCHANGED created ELSE Creates(r, "tap")
        /\ Goto(r, "table")
     \/ /\ Fails("ip")
        /\ \E ts \in {taps, taps \cup {r}} : taps' = ts
        /\ Goto(r, "failed")
        /\ UNCHANGED created
  /\ UNCHANGED <<nftVars, traffic, i, handles, failed>>

(* ensure_table, nft list table: any failure reads as "does not exist".    *)
ListTable(r) ==
  /\ pc[r] = "table"
  /\ \/ Goto(r, IF table THEN "chain" ELSE "addTable")
     \/ Fails("list") /\ Goto(r, "addTable")
  /\ UNCHANGED <<hostVars, sent, ownVars>>

(* Mutant: created_table is not recorded.                                  *)
AddTableForgets(r) ==
  /\ pc[r] = "addTable"
  /\ table' = TRUE
  /\ Goto(r, "chain")
  /\ UNCHANGED <<taps, chain, ruleset, lastHandle, traffic, ownVars>>

(* ensure_table, nft add table: created_table whether or not it was there. *)
AddTable(r) ==
  /\ pc[r] = "addTable"
  /\ \/ table' = TRUE /\ Creates(r, "table") /\ Goto(r, "chain")
     \/ Fails("add") /\ Goto(r, "failed") /\ UNCHANGED <<table, created>>
  /\ UNCHANGED <<taps, chain, ruleset, lastHandle, traffic, i, handles, failed>>

(* ensure_chain, nft list chain.                                           *)
ListChain(r) ==
  /\ pc[r] = "chain"
  /\ \/ Goto(r, IF chain THEN "dns" ELSE "addChain")
     \/ Fails("list") /\ Goto(r, "addChain")
  /\ UNCHANGED <<hostVars, sent, ownVars>>

(* ensure_chain, nft add chain: fails when the table is gone.              *)
AddChain(r) ==
  /\ pc[r] = "addChain"
  /\ \/ table /\ chain' = TRUE /\ Creates(r, "chain") /\ Goto(r, "dns")
     \/ /\ ~table \/ Fails("add")
        /\ Goto(r, "failed")
        /\ UNCHANGED <<chain, created>>
  /\ UNCHANGED <<taps, table, ruleset, lastHandle, traffic, i, handles, failed>>

(* resolve_rule_targets: a host that does not resolve, or to no IPv4       *)
(* address, fails the plan.                                                *)
ResolveTarget(r) ==
  /\ pc[r] = "dns"
  /\ \/ Goto(r, "allow")
     \/ Fails("dns") /\ Goto(r, "failed")
  /\ UNCHANGED <<hostVars, sent, ownVars>>

(* nft add rule appends to the chain, and fails when the chain is gone.    *)
AddRule(r, rule, done, next) ==
  /\ \/ /\ chain
        /\ lastHandle' = lastHandle + 1
        /\ ruleset' = ruleset \cup {Handled(rule, lastHandle')}
        /\ packets' = [packets EXCEPT ![rule] = 0]
        /\ i' = [i EXCEPT ![r] = IF done THEN 1 ELSE @ + 1]
        /\ Goto(r, next)
     \/ /\ ~chain \/ Fails("add")
        /\ Goto(r, "failed")
        /\ UNCHANGED <<ruleset, lastHandle, packets, i>>
  /\ UNCHANGED <<taps, table, chain, sent, created, handles, failed>>

(* Mutant: the loop over the targets runs one too far.                     *)
AddAllowRuleRunsOver(r) ==
  /\ pc[r] = "allow"
  /\ LET done == i[r] > Len(Plan) IN
       AddRule(r, Rule(r, "allow", i[r]), done, IF done THEN "block" ELSE "dns")

(* Mutant: the block rule of a target follows its allow rule at once.      *)
AddAllowRuleInterleaved(r) ==
  /\ pc[r] = "allow" /\ chain
  /\ ruleset' = ruleset \cup {Handled(Rule(r, "allow", i[r]), lastHandle + 1),
                              Handled(Rule(r, "block", i[r]), lastHandle + 2)}
  /\ lastHandle' = lastHandle + 2
  /\ i' = [i EXCEPT ![r] = IF @ = Len(Plan) THEN 1 ELSE @ + 1]
  /\ Goto(r, IF i[r] = Len(Plan) THEN "drop" ELSE "dns")
  /\ UNCHANGED <<taps, table, chain, traffic, created, handles, failed>>

(* add_allow_rule for each target: from the tap to dst, port: accept.      *)
AddAllowRule(r) ==
  /\ pc[r] = "allow"
  /\ LET done == i[r] = Len(Plan) IN
       AddRule(r, Rule(r, "allow", i[r]), done, IF done THEN "block" ELSE "dns")

(* add_block_rule for each target: from the tap to port, not dst: drop.    *)
AddBlockRule(r) ==
  /\ pc[r] = "block"
  /\ LET done == i[r] = Len(Plan) IN
       AddRule(r, Rule(r, "block", i[r]), done, IF done THEN "drop" ELSE "block")

(* add_default_drop_rule: everything else from the tap is dropped.         *)
AddDefaultDropRule(r) ==
  /\ pc[r] = "drop"
  /\ AddRule(r, Rule(r, "drop", 1), TRUE, "hydrate")

(* hydrate_rule_handles: read back the handles of the rules by comment. A  *)
(* rule that is not listed has none, and release will not delete it.       *)
HydrateRuleHandles(r) ==
  /\ pc[r] = "hydrate"
  /\ \/ /\ chain
        /\ handles' = [handles EXCEPT ![r] = ChainOf(r)]
        /\ Goto(r, "up")
     \/ /\ ~chain \/ Fails("list")
        /\ Goto(r, "failed")
        /\ UNCHANGED handles
  /\ UNCHANGED <<hostVars, sent, i, created, failed>>

-----------------------------------------------------------------------------
(* The packet filter, and the VM behind it.                                *)

Matches(rule, r, p) ==
  /\ rule.run = r
  /\ CASE rule.kind = "allow" -> p = Plan[rule.target]
       [] rule.kind = "block" -> /\ p.port = Plan[rule.target].port
                                 /\ p.dst # Plan[rule.target].dst
       [] rule.kind = "drop" -> TRUE

Matching(r, p) == {x \in ruleset : Matches(x.rule, r, p)}

(* nft takes the first rule that matches; the policy of the chain is       *)
(* accept, and without the chain nothing is filtered. An allow rule that   *)
(* has only allow rules before it is as good as the first.                 *)
Accepts(r, p) ==
  \/ Matching(r, p) = {}
  \/ \E x \in Matching(r, p) :
       /\ x.rule.kind = "allow"
       /\ \A y \in Matching(r, p) : y.handle < x.handle => y.rule.kind = "allow"

AllowedByPlan(p) == \E t \in Targets : p = Plan[t]
Class(p) == CASE AllowedByPlan(p) -> "allowed"
              [] ~AllowedByPlan(p) /\ (\E t \in Targets : p.port = Plan[t].port) -> "blocked"
              [] OTHER -> "other"

(* The VM sends a packet, and the first rule that matches counts it. What  *)
(* it sends after the hits were sampled is in no event.                    *)
VmSends(r) ==
  /\ pc[r] = "up"
  /\ sent[r]["allowed"] + sent[r]["blocked"] + sent[r]["other"] < MaxSent
  /\ \E p \in Packets :
       /\ \/ \E x \in Matching(r, p) :
               /\ \A y \in Matching(r, p) : x.handle <= y.handle
               /\ packets' = [packets EXCEPT ![x.rule] = @ + 1]
          \/ Matching(r, p) = {} /\ UNCHANGED packets
       /\ sent' = [sent EXCEPT ![r][Class(p)] = @ + 1]
  /\ UNCHANGED <<pc, taps, nftVars, ownVars>>

(* Mutant: the two counters of a rule are mixed up.                        *)
SampleRuleHitsSwapped(r) ==
  [t \in Targets |-> [allowedHits |-> packets[Rule(r, "block", t)],
                      blockedHits |-> packets[Rule(r, "allow", t)]]]

(* sample_rule_hits: the counters of the rules, found by their comments.   *)
SampleRuleHits(r) ==
  [t \in Targets |-> [allowedHits |-> packets[Rule(r, "allow", t)],
                      blockedHits |-> packets[Rule(r, "block", t)]]]

-----------------------------------------------------------------------------
(* release: every error is collected and the next command is tried.        *)

(* Mutant: the final drop goes first.                                      *)
StartReleaseUnguards(r) ==
  /\ pc[r] = "up"
  /\ Goto(r, "delAllow")
  /\ ruleset' = {x \in ruleset : x.rule # Rule(r, "drop", 1)}
  /\ UNCHANGED <<taps, table, chain, lastHandle, traffic, ownVars>>

(* The VM runs while its run is "up"; then the runner calls release.       *)
StartRelease(r) ==
  /\ pc[r] = "up"
  /\ Goto(r, "delAllow")
  /\ UNCHANGED <<hostVars, sent, ownVars>>

Collect(r, bad) == failed' = [failed EXCEPT ![r] = @ \/ bad]

(* delete_rule_by_handle, skipped for a rule without a handle: it deletes  *)
(* the rule that has the handle now.                                       *)
DeleteRule(r, rule, j, next) ==
  /\ \/ /\ \A x \in handles[r] : x.rule # rule
        /\ Collect(r, FALSE)
        /\ UNCHANGED <<ruleset, packets>>
     \/ \E x \in handles[r] :
          /\ x.rule = rule
          /\ \/ /\ \E y \in ruleset :
                     /\ y.handle = x.handle
                     /\ ruleset' = ruleset \ {y}
                     /\ packets' = [packets EXCEPT ![y.rule] = 0]
                /\ Collect(r, FALSE)
             \/ /\ (\A y \in ruleset : y.handle # x.handle) \/ Fails("delete")
                /\ Collect(r, TRUE)
                /\ UNCHANGED <<ruleset, packets>>
  /\ i' = [i EXCEPT ![r] = j]
  /\ Goto(r, next)
  /\ UNCHANGED <<taps, table, chain, lastHandle, sent, created, handles>>

DeleteAllowRule(r) ==
  /\ pc[r] = "delAllow"
  /\ DeleteRule(r, Rule(r, "allow", i[r]), i[r], "delBlock")

DeleteBlockRule(r) ==
  /\ pc[r] = "delBlock"
  /\ IF i[r] = Len(Plan)
     THEN DeleteRule(r, Rule(r, "block", i[r]), 1, "delDrop")
     ELSE DeleteRule(r, Rule(r, "block", i[r]), i[r] + 1, "delAllow")

DeleteDefaultDropRule(r) ==
  /\ pc[r] = "delDrop"
  /\ DeleteRule(r, Rule(r, "drop", 1), 1, "delChain")

(* Mutant: a created chain is flushed before it is deleted.                *)
DeleteChainFlushes(r) ==
  /\ pc[r] = "delChain"
  /\ \/ "chain" \notin created[r] /\ UNCHANGED <<chain, ruleset>>
     \/ "chain" \in created[r] /\ chain' = FALSE /\ ruleset' = {}
  /\ Goto(r, "delTable")
  /\ UNCHANGED <<taps, table, lastHandle, traffic, ownVars>>

(* delete_chain for a created chain: refused while the chain has rules.    *)
DeleteChain(r) ==
  /\ pc[r] = "delChain"
  /\ \/ "chain" \notin created[r] /\ Collect(r, FALSE) /\ UNCHANGED chain
     \/ /\ "chain" \in created[r]
        /\ chain /\ ruleset = {}
        /\ chain' = FALSE
        /\ Collect(r, FALSE)
     \/ /\ "chain" \in created[r]
        /\ ~chain \/ ruleset # {} \/ Fails("delete")
        /\ Collect(r, TRUE)
        /\ UNCHANGED chain
  /\ Goto(r, "delTable")
  /\ UNCHANGED <<taps, table, ruleset, lastHandle, traffic, i, created, handles>>

(* Mutant: the table is deleted by a run that did not create it.           *)
DeleteTableAlways(r) ==
  /\ pc[r] = "delTable"
  /\ table' = FALSE /\ chain' = FALSE /\ ruleset' = {} /\ lastHandle' = 0
  /\ Goto(r, "delTap")
  /\ UNCHANGED <<taps, traffic, ownVars>>

(* delete_table for a created table, with every chain and rule in it.      *)
DeleteTable(r) ==
  /\ pc[r] = "delTable"
  /\ \/ /\ "table" \notin created[r]
        /\ Collect(r, FALSE)
        /\ UNCHANGED nftVars
     \/ /\ "table" \in created[r]
        /\ table
        /\ table' = FALSE /\ chain' = FALSE /\ ruleset' = {} /\ lastHandle' = 0
        /\ Collect(r, FALSE)
     \/ /\ "table" \in created[r]
        /\ ~table \/ Fails("delete")
        /\ Collect(r, TRUE)
        /\ UNCHANGED nftVars
  /\ Goto(r, "delTap")
  /\ UNCHANGED <<taps, traffic, i, created, handles>>

(* Mutant: the error of `ip link del` is not collected.                    *)
DeleteTapSilently(r) ==
  /\ pc[r] = "delTap"
  /\ "tap" \in created[r] => taps' \in {taps, taps \ {r}}
  /\ "tap" \notin created[r] => taps' = taps
  /\ Goto(r, "released")
  /\ UNCHANGED <<nftVars, traffic, ownVars>>

(* delete_tap for a created tap; then release returns.                     *)
DeleteTap(r) ==
  /\ pc[r] = "delTap"
  /\ \/ "tap" \notin created[r] /\ Collect(r, FALSE) /\ UNCHANGED taps
     \/ "tap" \in created[r] /\ taps' = taps \ {r} /\ Collect(r, FALSE)
     \/ "tap" \in created[r] /\ Fails("ip") /\ Collect(r, TRUE) /\ UNCHANGED taps
  /\ Goto(r, "released")
  /\ UNCHANGED <<nftVars, traffic, i, created, handles>>

-----------------------------------------------------------------------------

Apply(r) ==
  \/ EnsureTap(r) \/ ListTable(r) \/ AddTable(r) \/ ListChain(r) \/ AddChain(r)
  \/ ResolveTarget(r) \/ AddAllowRule(r) \/ AddBlockRule(r)
  \/ AddDefaultDropRule(r) \/ HydrateRuleHandles(r)

ReleaseNetwork(r) ==
  \/ StartRelease(r) \/ DeleteAllowRule(r) \/ DeleteBlockRule(r)
  \/ DeleteDefaultDropRule(r) \/ DeleteChain(r) \/ DeleteTable(r) \/ DeleteTap(r)

Next == \E r \in Runs : Apply(r) \/ VmSends(r) \/ ReleaseNetwork(r)

Spec == Init /\ [][Next]_vars

-----------------------------------------------------------------------------

HandledRules == [rule : AllRules, handle : Nat]

(* Every variable has its type.                                            *)
TypeOK ==
  /\ pc \in [Runs -> Pcs]
  /\ i \in [Runs -> Targets]
  /\ taps \subseteq Runs
  /\ table \in BOOLEAN
  /\ chain \in BOOLEAN
  /\ ruleset \subseteq HandledRules
  /\ lastHandle \in Nat
  /\ packets \in [AllRules -> Nat]
  /\ sent \in [Runs -> [Classes -> Nat]]
  /\ created \in [Runs -> SUBSET {"tap", "table", "chain"}]
  /\ handles \in [Runs -> SUBSET HandledRules]
  /\ failed \in [Runs -> BOOLEAN]

(* plan/M3/ARCHITECTURE.md:21 binds network control to the run: while its  *)
(* VM runs, a run's tap passes exactly the packets of its own plan,        *)
(* whatever the other runs on the host apply, release or fail to do.       *)
FilterHolds ==
  \A r \in Runs : pc[r] = "up" =>
    /\ r \in taps
    /\ \A p \in Packets : Accepts(r, p) = AllowedByPlan(p)

(* The hits of a plan tell its traffic: each packet the plan allows is in  *)
(* the allowedHits of one rule, each other packet to a port of the plan in *)
(* the blockedHits of one, however many rules name its port; what goes     *)
(* elsewhere is dropped and in no hit.                                     *)
HitsTellTraffic ==
  \A r \in Runs : pc[r] = "up" =>
    LET hits == SampleRuleHits(r) IN
      /\ MapThenSumSet(LAMBDA t : hits[t].allowedHits, Targets) = sent[r]["allowed"]
      /\ MapThenSumSet(LAMBDA t : hits[t].blockedHits, Targets) = sent[r]["blocked"]

(* The packets that pass from a run's tap, and its part in the contract.   *)
Passes == [r \in Runs |-> {p \in Packets : Accepts(r, p)}]

StageOf ==
  [r \in Runs |->
     CASE pc[r] = "up" -> "guarding"
       [] pc[r] \in {"delAllow", "delBlock", "delDrop"} -> "closing"
       [] pc[r] \in {"delChain", "delTable", "delTap"} -> "open"
       [] pc[r] \in {"released", "failed"} -> "over"
       [] OTHER -> "building"]

Contract == INSTANCE NetworkContract
  WITH Planned <- {p \in Packets : AllowedByPlan(p)},
       stage <- StageOf, passes <- Passes

(* The commands of every run, interleaved as they may be and failing where *)
(* they may, change what passes from a tap only as NetworkContract allows: *)
(* a filter is built without ever cutting a packet of the plan, is the     *)
(* plan while the VM runs, is withdrawn from the allow rules to the final  *)
(* drop, and no command of one run changes what passes from another's tap. *)
ImplementsContract == Contract!Spec

(* A release that returned Ok left nothing of its run: no rule, and no tap *)
(* but one that was there before.                                          *)
ReleasedIsGone ==
  \A r \in Runs : pc[r] = "released" /\ ~failed[r] =>
    /\ RulesOf(r) \cap Installed = {}
    /\ r \in taps => r \in StaleTaps

(* When every run released without an error the host is as it was found.   *)
HostIsRestored ==
  (\A r \in Runs : pc[r] = "released" /\ ~failed[r]) =>
    /\ table = TableFirst /\ ~chain /\ ruleset = {}
    /\ taps = StaleTaps

(* A step of one run deletes only its own rules and its own tap.           *)
OnlyOwnDeleted ==
  [][\A r \in Runs : pc'[r] # pc[r] =>
       /\ (Installed \ Installed') \subseteq RulesOf(r)
       /\ taps \ taps' \subseteq {r}]_vars
=============================================================================
