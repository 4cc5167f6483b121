------------------------ MODULE NetworkLifecycleProofs ------------------------
(***************************************************************************)
(* Proofs about the network lifecycle, for any number of runs on the host, *)
(* any plan, any left-over taps and whatever commands fail.                *)
(*                                                                         *)
(* The types hold always. The other theorems are about a host whose table  *)
(* was there before the runs and where `nft list` does not fail, or which  *)
(* has only one run, whatever it creates: TLC shows that what they state   *)
(* is false of several runs of which one creates the table.                *)
(***************************************************************************)
EXTENDS NetworkLifecycle, DataInduction, FiniteSetTheorems, TLAPS

-----------------------------------------------------------------------------
(* The rules.                                                              *)

Kinds == {"allow", "block", "drop"}

LEMMA RulesOfRun ==
  ASSUME NEW r \in Runs
  PROVE  /\ RulesOf(r) \subseteq AllRules
         /\ \A t \in Targets : Rule(r, "allow", t) \in RulesOf(r)
         /\ \A t \in Targets : Rule(r, "block", t) \in RulesOf(r)
         /\ Rule(r, "drop", 1) \in RulesOf(r)
         /\ \A rule \in RulesOf(r) :
              /\ rule = Rule(r, rule.kind, rule.target)
              /\ rule.run = r /\ rule.kind \in Kinds
              /\ rule.kind # "drop" => rule.target \in Targets
              /\ rule.kind = "drop" => rule.target = 1
<1>1. RulesOf(r) \subseteq AllRules
  BY DEF AllRules
<1>2. \A t \in Targets : Rule(r, "allow", t) \in RulesOf(r)
  BY DEF RulesOf
<1>3. \A t \in Targets : Rule(r, "block", t) \in RulesOf(r)
  BY DEF RulesOf
<1>4. Rule(r, "drop", 1) \in RulesOf(r)
  BY DEF RulesOf
<1>5. ASSUME NEW rule \in RulesOf(r)
      PROVE  /\ rule = Rule(r, rule.kind, rule.target)
             /\ rule.run = r /\ rule.kind \in Kinds
             /\ rule.kind # "drop" => rule.target \in Targets
             /\ rule.kind = "drop" => rule.target = 1
  <2>1. CASE rule = Rule(r, "drop", 1)
    BY <2>1 DEF Rule, Kinds
  <2>2. CASE \E k \in {"allow", "block"}, t \in Targets : rule = Rule(r, k, t)
    BY <2>2 DEF Rule, Kinds
  <2>3. QED
    BY <1>5, <2>1, <2>2 DEF RulesOf
<1>6. QED
  BY <1>1, <1>2, <1>3, <1>4, <1>5

LEMMA RuleOfItsRun ==
  ASSUME NEW rule \in AllRules
  PROVE  rule.run \in Runs /\ rule \in RulesOf(rule.run)
<1>1. PICK r \in Runs : rule \in RulesOf(r)
  BY DEF AllRules
<1>2. rule.run = r
  BY <1>1, RulesOfRun
<1>3. QED
  BY <1>1, <1>2

LEMMA SomeTarget == 1 \in Targets /\ Len(Plan) \in Targets /\ Len(Plan) \in Nat
  BY NetworkAssumption DEF Targets

-----------------------------------------------------------------------------
(* Types.                                                                  *)

LEMMA TypesInit == Init => TypeOK
<1> SUFFICES ASSUME Init PROVE TypeOK
  OBVIOUS
<1>1. pc \in [Runs -> Pcs] /\ i \in [Runs -> Targets]
  BY SomeTarget DEF Init, Pcs
<1>2. taps \subseteq Runs /\ table \in BOOLEAN /\ chain \in BOOLEAN
  BY NetworkAssumption DEF Init
<1>3. ruleset \subseteq HandledRules /\ lastHandle \in Nat
  BY DEF Init
<1>4. packets \in [AllRules -> Nat] /\ sent \in [Runs -> [Classes -> Nat]]
  BY DEF Init
<1>5. /\ created \in [Runs -> SUBSET {"tap", "table", "chain"}]
      /\ handles \in [Runs -> SUBSET HandledRules]
      /\ failed \in [Runs -> BOOLEAN]
  BY DEF Init
<1>6. QED
  BY <1>1, <1>2, <1>3, <1>4, <1>5 DEF TypeOK

(* The updates that most commands make.                                    *)
LEMMA UpdateTypes ==
  ASSUME TypeOK, NEW r \in Runs
  PROVE  /\ \A l \in Pcs : Goto(r, l) => pc' \in [Runs -> Pcs]
         /\ \A what \in {"tap", "table", "chain"} :
              Creates(r, what) => created' \in [Runs -> SUBSET {"tap", "table", "chain"}]
         /\ \A bad \in BOOLEAN : Collect(r, bad) => failed' \in [Runs -> BOOLEAN]
<1>1. ASSUME NEW l \in Pcs, Goto(r, l) PROVE pc' \in [Runs -> Pcs]
  BY <1>1 DEF TypeOK, Goto
<1>2. ASSUME NEW what \in {"tap", "table", "chain"}, Creates(r, what)
      PROVE  created' \in [Runs -> SUBSET {"tap", "table", "chain"}]
  BY <1>2 DEF TypeOK, Creates
<1>3. ASSUME NEW bad \in BOOLEAN, Collect(r, bad)
      PROVE  failed' \in [Runs -> BOOLEAN]
  BY <1>3 DEF TypeOK, Collect
<1>4. QED
  BY <1>1, <1>2, <1>3

(* The commands that add or delete a rule.                                 *)
LEMMA AddRuleTypes ==
  ASSUME TypeOK, NEW r \in Runs, NEW rule \in AllRules, NEW done \in BOOLEAN,
         ~done => i[r] + 1 \in Targets, NEW next \in Pcs,
         AddRule(r, rule, done, next)
  PROVE  TypeOK'
<1> USE DEF AddRule, TypeOK
<1>1. pc' \in [Runs -> Pcs]
  BY DEF Goto, Pcs
<1>2. i' \in [Runs -> Targets]
  BY SomeTarget
<1>3. ruleset' \subseteq HandledRules /\ lastHandle' \in Nat
  BY DEF Handled, HandledRules
<1>4. packets' \in [AllRules -> Nat]
  OBVIOUS
<1>5. QED
  BY <1>1, <1>2, <1>3, <1>4

LEMMA DeleteRuleTypes ==
  ASSUME TypeOK, NEW r \in Runs, NEW rule \in AllRules, NEW j \in Targets,
         NEW next \in Pcs, DeleteRule(r, rule, j, next)
  PROVE  TypeOK'
<1> USE DEF DeleteRule, TypeOK
<1>1. pc' \in [Runs -> Pcs] /\ i' \in [Runs -> Targets]
  BY DEF Goto
<1>2. ruleset' \subseteq ruleset
  OBVIOUS
<1>3. packets' \in [AllRules -> Nat]
  <2>1. \A y \in ruleset : y.rule \in AllRules
    BY DEF HandledRules
  <2>2. \/ \E y \in ruleset : packets' = [packets EXCEPT ![y.rule] = 0]
        \/ packets' = packets
    OBVIOUS
  <2>3. packets \in [AllRules -> Nat]
    OBVIOUS
  <2>4. QED
    <3> HIDE DEF DeleteRule, TypeOK
    <3>1. QED
      BY <2>1, <2>2, <2>3
<1>4. failed' \in [Runs -> BOOLEAN]
  BY DEF Collect
<1>5. QED
  BY <1>1, <1>2, <1>3, <1>4

LEMMA TypesStep == TypeOK /\ [Next]_vars => TypeOK'
<1> SUFFICES ASSUME TypeOK, [Next]_vars
             PROVE  TypeOK'
  OBVIOUS
<1> USE DEF nftVars, traffic, hostVars, ownVars
<1>1. ASSUME NEW r \in Runs, EnsureTap(r) PROVE TypeOK'
  <2>1. pc' \in [Runs -> Pcs]
    BY <1>1, UpdateTypes DEF EnsureTap, Pcs
  <2>2. created' \in [Runs -> SUBSET {"tap", "table", "chain"}]
    BY <1>1, UpdateTypes DEF EnsureTap, TypeOK
  <2>3. taps' \subseteq Runs
    BY <1>1 DEF EnsureTap, TypeOK
  <2>4. QED
    BY <1>1, <2>1, <2>2, <2>3 DEF EnsureTap, TypeOK
<1>2. ASSUME NEW r \in Runs, ListTable(r) \/ ListChain(r) \/ ResolveTarget(r)
      PROVE  TypeOK'
  BY <1>2 DEF ListTable, ListChain, ResolveTarget, TypeOK, Goto, Pcs
<1>3. ASSUME NEW r \in Runs, AddTable(r) \/ AddChain(r) PROVE TypeOK'
  <2>1. pc' \in [Runs -> Pcs]
    BY <1>3, UpdateTypes DEF AddTable, AddChain, Pcs
  <2>2. created' \in [Runs -> SUBSET {"tap", "table", "chain"}]
    BY <1>3, UpdateTypes DEF AddTable, AddChain, TypeOK
  <2>3. table' \in BOOLEAN /\ chain' \in BOOLEAN
    BY <1>3 DEF AddTable, AddChain, TypeOK
  <2>4. QED
    BY <1>3, <2>1, <2>2, <2>3 DEF AddTable, AddChain, TypeOK
<1>4. ASSUME NEW r \in Runs, AddAllowRule(r) PROVE TypeOK'
  <2>1. Rule(r, "allow", i[r]) \in AllRules /\ i[r] \in Targets
    BY <1>4, RulesOfRun DEF TypeOK
  <2>2. i[r] # Len(Plan) => i[r] + 1 \in Targets
    BY <2>1, SomeTarget DEF Targets
  <2>3. QED
    BY <1>4, <2>1, <2>2, AddRuleTypes DEF AddAllowRule, Pcs
<1>5. ASSUME NEW r \in Runs, AddBlockRule(r) PROVE TypeOK'
  <2>1. Rule(r, "block", i[r]) \in AllRules /\ i[r] \in Targets
    BY <1>5, RulesOfRun DEF TypeOK
  <2>2. i[r] # Len(Plan) => i[r] + 1 \in Targets
    BY <2>1, SomeTarget DEF Targets
  <2>3. QED
    BY <1>5, <2>1, <2>2, AddRuleTypes DEF AddBlockRule, Pcs
<1>6. ASSUME NEW r \in Runs, AddDefaultDropRule(r) PROVE TypeOK'
  <2>1. Rule(r, "drop", 1) \in AllRules
    BY RulesOfRun
  <2>2. QED
    BY <1>6, <2>1, AddRuleTypes DEF AddDefaultDropRule, Pcs
<1>7. ASSUME NEW r \in Runs, HydrateRuleHandles(r) PROVE TypeOK'
  <2>1. pc' \in [Runs -> Pcs]
    BY <1>7, UpdateTypes DEF HydrateRuleHandles, Pcs
  <2>2. ChainOf(r) \in SUBSET HandledRules
    BY DEF TypeOK, ChainOf
  <2>3. handles' \in [Runs -> SUBSET HandledRules]
    BY <1>7, <2>2 DEF HydrateRuleHandles, TypeOK
  <2>4. QED
    BY <1>7, <2>1, <2>3 DEF HydrateRuleHandles, TypeOK
<1>8. ASSUME NEW r \in Runs, VmSends(r) PROVE TypeOK'
  <2>1. PICK p \in Packets :
          /\ \/ \E x \in Matching(r, p) : packets' = [packets EXCEPT ![x.rule] = @ + 1]
             \/ UNCHANGED packets
          /\ sent' = [sent EXCEPT ![r][Class(p)] = @ + 1]
    BY <1>8 DEF VmSends
  <2>2. packets' \in [AllRules -> Nat]
    BY <2>1 DEF TypeOK, Matching, HandledRules
  <2>3. Class(p) \in Classes
    BY DEF Class, Classes
  <2>4. sent' \in [Runs -> [Classes -> Nat]]
    BY <2>1, <2>3 DEF TypeOK
  <2>5. QED
    BY <1>8, <2>2, <2>4 DEF VmSends, TypeOK
<1>9. ASSUME NEW r \in Runs, StartRelease(r) PROVE TypeOK'
  BY <1>9 DEF StartRelease, TypeOK, Goto, Pcs
<1>10. ASSUME NEW r \in Runs, DeleteAllowRule(r) PROVE TypeOK'
  <2>1. Rule(r, "allow", i[r]) \in AllRules /\ i[r] \in Targets
    BY RulesOfRun DEF TypeOK
  <2>2. QED
    BY <1>10, <2>1, DeleteRuleTypes DEF DeleteAllowRule, Pcs
<1>11. ASSUME NEW r \in Runs, DeleteBlockRule(r) PROVE TypeOK'
  <2>1. Rule(r, "block", i[r]) \in AllRules /\ i[r] \in Targets
    BY RulesOfRun DEF TypeOK
  <2>2. i[r] # Len(Plan) => i[r] + 1 \in Targets
    BY <2>1, SomeTarget DEF Targets
  <2>3. QED
    BY <1>11, <2>1, <2>2, SomeTarget, DeleteRuleTypes DEF DeleteBlockRule, Pcs
<1>12. ASSUME NEW r \in Runs, DeleteDefaultDropRule(r) PROVE TypeOK'
  <2>1. Rule(r, "drop", 1) \in AllRules
    BY RulesOfRun
  <2>2. QED
    BY <1>12, <2>1, SomeTarget, DeleteRuleTypes DEF DeleteDefaultDropRule, Pcs
<1>13. ASSUME NEW r \in Runs, DeleteChain(r) \/ DeleteTable(r) \/ DeleteTap(r)
       PROVE  TypeOK'
  <2>1. pc' \in [Runs -> Pcs]
    BY <1>13, UpdateTypes DEF DeleteChain, DeleteTable, DeleteTap, Pcs
  <2>2. failed' \in [Runs -> BOOLEAN]
    BY <1>13, UpdateTypes DEF DeleteChain, DeleteTable, DeleteTap, TypeOK
  <2>3. /\ table' \in BOOLEAN /\ chain' \in BOOLEAN /\ taps' \subseteq Runs
        /\ ruleset' \subseteq HandledRules /\ lastHandle' \in Nat
    <3>1. CASE DeleteChain(r)
      BY <3>1 DEF DeleteChain, TypeOK
    <3>2. CASE DeleteTable(r)
      <4>1. taps' = taps
        BY <3>2 DEF DeleteTable
      <4>2. \/ UNCHANGED <<table, chain, ruleset, lastHandle>>
            \/ table' = FALSE /\ chain' = FALSE /\ ruleset' = {} /\ lastHandle' = 0
        BY <3>2 DEF DeleteTable
      <4>3. /\ taps \subseteq Runs /\ table \in BOOLEAN /\ chain \in BOOLEAN
            /\ ruleset \subseteq HandledRules /\ lastHandle \in Nat
        BY DEF TypeOK
      <4>4. CASE UNCHANGED <<table, chain, ruleset, lastHandle>>
        BY <4>1, <4>3, <4>4
      <4>5. CASE table' = FALSE /\ chain' = FALSE /\ ruleset' = {} /\ lastHandle' = 0
        BY <4>1, <4>3, <4>5
      <4>6. QED
        BY <4>2, <4>4, <4>5
    <3>3. CASE DeleteTap(r)
      BY <3>3 DEF DeleteTap, TypeOK
    <3>4. QED
      BY <1>13, <3>1, <3>2, <3>3
  <2>4. QED
    BY <1>13, <2>1, <2>2, <2>3 DEF DeleteChain, DeleteTable, DeleteTap, TypeOK
<1>14. CASE UNCHANGED vars
  BY <1>14 DEF vars, TypeOK
<1>15. QED
  BY <1>1, <1>2, <1>3, <1>4, <1>5, <1>6, <1>7, <1>8, <1>9, <1>10, <1>11, <1>12,
     <1>13, <1>14 DEF Next, Apply, ReleaseNetwork

(* Every variable keeps its type, whatever the runs and the plan.          *)
THEOREM NetworkTypes == Spec => []TypeOK
  BY TypesInit, TypesStep, PTL DEF Spec

-----------------------------------------------------------------------------
(* The hosts on which no run takes the table away from another.            *)

SharedTable == TableFirst /\ "list" \notin Faults
Alone == \A q, r \in Runs : q = r
Undisturbed == SharedTable \/ Alone

(* No run creates a shared table, so that none deletes it.                 *)
TableKept ==
  SharedTable =>
    table /\ \A r \in Runs : "table" \notin created[r] /\ pc[r] # "addTable"

ChainKept == ~chain => ruleset = {}

(* A handle and a comment each name one rule, the allow rules of a run     *)
(* come before its other rules, and its final drop after them.             *)
ChainInv ==
  /\ \A x \in ruleset : x.handle <= lastHandle
  /\ \A x, y \in ruleset : x.handle = y.handle \/ x.rule = y.rule => x = y
  /\ \A x, y \in ruleset :
       x.rule.run = y.rule.run /\ x.rule.kind = "allow" /\ y.rule.kind # "allow" =>
         x.handle < y.handle
  /\ \A x, y \in ruleset :
       x.rule.run = y.rule.run /\ x.rule.kind = "block" /\ y.rule.kind = "drop" =>
         x.handle < y.handle

(* The rules of run r that are in place at its place in apply or release.  *)
Wanted(r, rule) ==
  CASE pc[r] \in {"dns", "allow"} -> rule.kind = "allow" /\ rule.target < i[r]
    [] pc[r] = "block" -> \/ rule.kind = "allow"
                          \/ rule.kind = "block" /\ rule.target < i[r]
    [] pc[r] = "drop" -> rule.kind # "drop"
    [] pc[r] \in {"hydrate", "up"} -> TRUE
    [] pc[r] = "delAllow" -> rule.kind = "drop" \/ rule.target >= i[r]
    [] pc[r] = "delBlock" -> \/ rule.kind = "drop" \/ rule.target > i[r]
                             \/ rule.kind = "block" /\ rule.target = i[r]
    [] pc[r] = "delDrop" -> rule.kind = "drop"
    [] OTHER -> FALSE

Deleting == {"delAllow", "delBlock", "delDrop"}
Releasing == Deleting \cup {"delChain", "delTable", "delTap"}

(* A rule is missing only when its turn has not come or is over; one that  *)
(* stays beyond its turn is an error that release collected.               *)
Progress(r) ==
  /\ pc[r] # "failed" =>
       \A rule \in RulesOf(r) :
         /\ Wanted(r, rule) => rule \in Installed
         /\ rule \in Installed /\ ~failed[r] => Wanted(r, rule)
  /\ pc[r] \in {"tap", "table", "addTable", "chain", "addChain", "hydrate", "up"} =>
       i[r] = 1
  /\ failed[r] => pc[r] \in Releasing \cup {"released"}

(* The handles that a run read back are those of its rules, and no other   *)
(* rule gets one of them before the run has deleted its own.               *)
HandlesInv(r) ==
  pc[r] \in {"up"} \cup Deleting =>
    /\ \A x \in handles[r] :
         /\ x.rule.run = r /\ x.handle <= lastHandle
         /\ \A y \in ruleset : y.handle = x.handle => y = x
    /\ \A x, y \in handles[r] : x.rule = y.rule => x = y
    /\ ChainOf(r) \subseteq handles[r]

TapInv(r) ==
  /\ pc[r] = "tap" => (r \in taps => r \in StaleTaps)
  /\ pc[r] \notin {"tap", "failed", "released"} =>
       r \in taps /\ ("tap" \notin created[r] => r \in StaleTaps)
  /\ pc[r] = "released" /\ ~failed[r] => (r \in taps => r \in StaleTaps)

RunInv(r) == Progress(r) /\ HandlesInv(r) /\ TapInv(r)

HostInv ==
  /\ TypeOK /\ TableKept /\ ChainKept /\ ChainInv
  /\ \A r \in Runs : RunInv(r)

LEMMA HostInit ==
  ASSUME Init
  PROVE  HostInv
<1>1. TypeOK
  BY TypesInit
<1>2. TableKept /\ ChainKept /\ ChainInv
  BY DEF SharedTable, Init, TableKept, ChainKept, ChainInv
<1>3. ASSUME NEW r \in Runs PROVE RunInv(r)
  BY DEF Init, RunInv, Progress, HandlesInv, TapInv, Wanted, Installed, Releasing, Deleting
<1>4. QED
  BY <1>1, <1>2, <1>3 DEF HostInv

-----------------------------------------------------------------------------
(* What a command does to the chain.                                       *)

(* A rule of run r is in place iff the chain of r has it.                  *)
LEMMA InstalledIsInChain ==
  ASSUME NEW r \in Runs, NEW rule \in RulesOf(r)
  PROVE  rule \in Installed <=> \E x \in ChainOf(r) : x.rule = rule
  BY RulesOfRun DEF Installed, ChainOf

LEMMA ChainGrows ==
  ASSUME HostInv, NEW r \in Runs, NEW rule \in RulesOf(r), rule \notin Installed,
         rule.kind = "allow" => \A x \in ChainOf(r) : x.rule.kind = "allow",
         rule.kind = "block" => \A x \in ChainOf(r) : x.rule.kind # "drop",
         lastHandle' = lastHandle + 1,
         ruleset' = ruleset \cup {Handled(rule, lastHandle')}
  PROVE  /\ ChainInv'
         /\ Installed' = Installed \cup {rule}
         /\ \A q \in Runs : q # r => ChainOf(q)' = ChainOf(q)
         /\ \A x \in ruleset' : x \in ruleset \/ x.handle > lastHandle
<1> DEFINE new == Handled(rule, lastHandle')
<1>1. new.rule = rule /\ new.handle = lastHandle + 1 /\ rule.run = r
  BY RulesOfRun DEF Handled
<1>2. lastHandle \in Nat /\ \A x \in ruleset : x.handle \in Nat /\ x.handle <= lastHandle
  BY DEF HostInv, TypeOK, HandledRules, ChainInv
<1>3. \A x \in ruleset : x.rule # rule
  BY DEF Installed
<1>4. \A x \in ruleset : x.rule.run = r =>
        /\ rule.kind = "allow" => x.rule.kind = "allow"
        /\ rule.kind = "block" => x.rule.kind # "drop"
  BY DEF ChainOf
<1> HIDE DEF new
<1>5. ruleset' = ruleset \cup {new}
  BY DEF new
<1>6. \A x \in ruleset' : x.handle <= lastHandle'
  BY <1>1, <1>2, <1>5
<1>7. \A x, y \in ruleset' : x.handle = y.handle \/ x.rule = y.rule => x = y
  BY <1>1, <1>2, <1>3, <1>5 DEF HostInv, ChainInv
<1>8. ASSUME NEW x \in ruleset', NEW y \in ruleset', x.rule.run = y.rule.run,
             x.rule.kind = "allow", y.rule.kind # "allow"
      PROVE  x.handle < y.handle
  <2>1. CASE x = new
    BY <1>1, <1>4, <1>5, <1>8, <2>1
  <2>2. CASE y = new /\ x \in ruleset
    BY <1>1, <1>2, <2>2
  <2>3. CASE x \in ruleset /\ y \in ruleset
    BY <1>8, <2>3 DEF HostInv, ChainInv
  <2>4. QED
    BY <1>5, <2>1, <2>2, <2>3
<1>9. ASSUME NEW x \in ruleset', NEW y \in ruleset', x.rule.run = y.rule.run,
              x.rule.kind = "block", y.rule.kind = "drop"
       PROVE  x.handle < y.handle
  <2>1. CASE x = new
    BY <1>1, <1>4, <1>5, <1>9, <2>1
  <2>2. CASE y = new /\ x \in ruleset
    BY <1>1, <1>2, <2>2
  <2>3. CASE x \in ruleset /\ y \in ruleset
    BY <1>9, <2>3 DEF HostInv, ChainInv
  <2>4. QED
    BY <1>5, <2>1, <2>2, <2>3
<1>10. ChainInv'
  BY <1>6, <1>7, <1>8, <1>9 DEF ChainInv
<1>11. Installed' = Installed \cup {rule}
  BY <1>1, <1>5 DEF Installed
<1>12. \A q \in Runs : q # r => ChainOf(q)' = ChainOf(q)
  BY <1>1, <1>5 DEF ChainOf
<1>13. \A x \in ruleset' : x \in ruleset \/ x.handle > lastHandle
  BY <1>1, <1>2, <1>5
<1>14. QED
  BY <1>10, <1>11, <1>12, <1>13

LEMMA ChainShrinks ==
  ASSUME HostInv, NEW y \in ruleset, ruleset' = ruleset \ {y},
         lastHandle' = lastHandle
  PROVE  /\ ChainInv'
         /\ Installed' = Installed \ {y.rule}
         /\ \A q \in Runs : ChainOf(q)' \subseteq ChainOf(q)
         /\ \A q \in Runs : q # y.rule.run => ChainOf(q)' = ChainOf(q)
<1>1. ChainInv'
  BY DEF HostInv, ChainInv
<1>2. Installed' = Installed \ {y.rule}
  BY DEF HostInv, ChainInv, Installed
<1>3. QED
  BY <1>1, <1>2 DEF ChainOf

(* A run keeps its invariant through the steps of the others.              *)
LEMMA OthersKeep ==
  ASSUME HostInv, NEW q \in Runs,
         pc'[q] = pc[q], i'[q] = i[q], failed'[q] = failed[q],
         handles'[q] = handles[q], created'[q] = created[q],
         q \in taps' <=> q \in taps,
         ChainOf(q)' = ChainOf(q),
         lastHandle' \in Nat, lastHandle <= lastHandle',
         \A x \in ruleset' : x \in ruleset \/ x.handle > lastHandle
  PROVE  RunInv(q)'
<1>1. RunInv(q)
  BY DEF HostInv
<1>2. \A rule \in RulesOf(q) : rule \in Installed' <=> rule \in Installed
  <2>1. \A rule \in RulesOf(q) :
          rule \in Installed' <=> \E x \in ChainOf(q)' : x.rule = rule
    BY RulesOfRun DEF Installed, ChainOf
  <2>2. QED
    BY <2>1, InstalledIsInChain
<1>3. Progress(q)'
  BY <1>1, <1>2 DEF RunInv, Progress, Wanted
<1>4. HandlesInv(q)'
  <2>1. SUFFICES ASSUME pc[q] \in {"up"} \cup Deleting
                 PROVE  HandlesInv(q)'
    BY DEF HandlesInv
  <2>2. lastHandle \in Nat /\ \A x \in handles[q] : x.handle \in Nat
    BY DEF HostInv, TypeOK, HandledRules
  <2>3. QED
    BY <1>1, <2>1, <2>2 DEF RunInv, HandlesInv
<1>5. TapInv(q)'
  BY <1>1 DEF RunInv, TapInv
<1>6. QED
  BY <1>3, <1>4, <1>5 DEF RunInv

-----------------------------------------------------------------------------
(* The steps.                                                              *)

(* A step of run r touches no variable of another run, nor its tap.        *)
Local(r) ==
  \A q \in Runs : q # r =>
    /\ pc'[q] = pc[q] /\ i'[q] = i[q] /\ failed'[q] = failed[q]
    /\ handles'[q] = handles[q] /\ created'[q] = created[q]
    /\ q \in taps' <=> q \in taps

LEMMA StepsAreLocal ==
  ASSUME TypeOK, NEW r \in Runs, Apply(r) \/ VmSends(r) \/ ReleaseNetwork(r)
  PROVE  Local(r)
<1> USE DEF TypeOK, Local, Goto, Creates, Collect, hostVars, ownVars, nftVars,
            traffic
<1>1. CASE EnsureTap(r) \/ ListTable(r) \/ AddTable(r) \/ ListChain(r)
  BY <1>1 DEF EnsureTap, ListTable, AddTable, ListChain
<1>2. CASE AddChain(r) \/ ResolveTarget(r)
  BY <1>2 DEF AddChain, ResolveTarget
<1>3. CASE AddAllowRule(r)
  BY <1>3 DEF AddAllowRule, AddRule
<1>4. CASE AddBlockRule(r)
  BY <1>4 DEF AddBlockRule, AddRule
<1>5. CASE AddDefaultDropRule(r)
  BY <1>5 DEF AddDefaultDropRule, AddRule
<1>6. CASE HydrateRuleHandles(r) \/ VmSends(r) \/ StartRelease(r)
  BY <1>6 DEF HydrateRuleHandles, VmSends, StartRelease
<1>7. CASE DeleteAllowRule(r)
  BY <1>7 DEF DeleteAllowRule, DeleteRule
<1>8. CASE DeleteBlockRule(r)
  BY <1>8 DEF DeleteBlockRule, DeleteRule
<1>9. CASE DeleteDefaultDropRule(r)
  BY <1>9 DEF DeleteDefaultDropRule, DeleteRule
<1>10. CASE DeleteChain(r) \/ DeleteTable(r) \/ DeleteTap(r)
  BY <1>10 DEF DeleteChain, DeleteTable, DeleteTap
<1>11. QED
  BY <1>1, <1>2, <1>3, <1>4, <1>5, <1>6, <1>7, <1>8, <1>9, <1>10
  DEF Apply, ReleaseNetwork

(* A local step that leaves the chain alone.                               *)
LEMMA QuietStep ==
  ASSUME HostInv, TypeOK', NEW r \in Runs, Local(r),
         ruleset' = ruleset, lastHandle' = lastHandle,
         TableKept', ChainKept', RunInv(r)'
  PROVE  HostInv'
<1>1. ChainInv'
  BY DEF HostInv, ChainInv
<1>2. ASSUME NEW q \in Runs, q # r PROVE RunInv(q)'
  <2>1. ChainOf(q)' = ChainOf(q)
    BY DEF ChainOf
  <2>2. lastHandle' \in Nat /\ lastHandle <= lastHandle'
    BY DEF HostInv, TypeOK
  <2>3. QED
    BY <1>2, <2>1, <2>2, OthersKeep DEF Local
<1>3. QED
  BY <1>1, <1>2 DEF HostInv

(* The steps of apply but for the three that add a rule.                   *)
LEMMA ApplyQuiet ==
  ASSUME HostInv, TypeOK', NEW r \in Runs,
         \/ EnsureTap(r) \/ ListTable(r) \/ AddTable(r) \/ ListChain(r)
         \/ AddChain(r) \/ ResolveTarget(r) \/ HydrateRuleHandles(r)
  PROVE  HostInv'
<1>1. Local(r)
  BY StepsAreLocal DEF Apply, HostInv
<1>2. TypeOK /\ TableKept /\ ChainKept /\ ChainInv /\ RunInv(r)
  BY DEF HostInv
<1>3. ruleset' = ruleset /\ lastHandle' = lastHandle
  BY <1>2 DEF EnsureTap, ListTable, AddTable, ListChain, AddChain, ResolveTarget,
     HydrateRuleHandles, hostVars, nftVars
<1>4. TableKept'
  <2> SUFFICES ASSUME SharedTable
               PROVE  table' /\ \A q \in Runs : "table" \notin created'[q] /\ pc'[q] # "addTable"
    BY DEF TableKept
  <2>1. table /\ "list" \notin Faults /\ pc \in [Runs -> Pcs]
        /\ created \in [Runs -> SUBSET {"tap", "table", "chain"}]
    BY <1>2 DEF SharedTable, TableKept, TypeOK
  <2>2. \A q \in Runs : "table" \notin created[q] /\ pc[q] # "addTable"
    BY <1>2 DEF TableKept
  <2>3. ~AddTable(r)
    BY <2>2 DEF AddTable
  <2>4. table'
    BY <2>1, <2>3 DEF EnsureTap, ListTable, ListChain, AddChain,
       ResolveTarget, HydrateRuleHandles, hostVars, nftVars
  <2>5. pc'[r] # "addTable" /\ "table" \notin created'[r]
    <3>1. CASE EnsureTap(r)
      BY <2>1, <2>2, <3>1 DEF EnsureTap, Goto, Creates
    <3>2. CASE ListTable(r) \/ ListChain(r) \/ ResolveTarget(r)
      BY <2>1, <2>2, <3>2 DEF ListTable, ListChain, ResolveTarget, Goto, Fails, ownVars
    <3>3. CASE AddChain(r)
      BY <2>1, <2>2, <3>3 DEF AddChain, Goto, Creates
    <3>4. CASE HydrateRuleHandles(r)
      BY <2>1, <2>2, <3>4 DEF HydrateRuleHandles, Goto
    <3>5. QED
      BY <2>3, <3>1, <3>2, <3>3, <3>4
  <2>6. QED
    BY <1>1, <2>2, <2>4, <2>5 DEF TableKept, Local
<1>5. ChainKept'
  BY <1>2 DEF EnsureTap, ListTable, AddTable, ListChain, AddChain, ResolveTarget,
     HydrateRuleHandles, hostVars, nftVars, ChainKept
<1>6. Progress(r)'
  <2>1. Installed' = Installed
    BY <1>3 DEF Installed
  <2>2. i' = i /\ failed' = failed
    BY DEF EnsureTap, ListTable, AddTable, ListChain, AddChain, ResolveTarget,
       HydrateRuleHandles, ownVars
  <2>3. \/ pc'[r] = "failed"
        \/ pc[r] = "tap" /\ pc'[r] = "table"
        \/ pc[r] \in {"table", "addTable"} /\ pc'[r] \in {"addTable", "chain"}
        \/ pc[r] = "chain" /\ pc'[r] \in {"dns", "addChain"}
        \/ pc[r] = "addChain" /\ pc'[r] = "dns"
        \/ pc[r] = "dns" /\ pc'[r] = "allow"
        \/ pc[r] = "hydrate" /\ pc'[r] = "up"
    BY <1>2 DEF EnsureTap, ListTable, AddTable, ListChain, AddChain,
       ResolveTarget, HydrateRuleHandles, Goto, TypeOK
  <2>4. \A rule \in RulesOf(r) :
          rule.kind = "allow" => rule.target \in Targets
    BY RulesOfRun
  <2>5. Progress(r) /\ i[r] \in Targets
    BY <1>2 DEF RunInv, TypeOK
  <2>6. CASE pc'[r] = "failed"
    <3>1. ~failed[r]
      BY <1>2, <2>5 DEF Progress, Releasing, Deleting, EnsureTap, ListTable, AddTable, ListChain,
         AddChain, ResolveTarget, HydrateRuleHandles
    <3>2. QED
      BY <2>2, <2>6, <3>1 DEF Progress
  <2>7. CASE pc[r] = "tap" /\ pc'[r] = "table"
    BY <2>1, <2>2, <2>5, <2>7 DEF Progress, Wanted, Releasing, Deleting
  <2>8. CASE pc[r] \in {"table", "addTable"} /\ pc'[r] \in {"addTable", "chain"}
    BY <2>1, <2>2, <2>5, <2>8 DEF Progress, Wanted, Releasing, Deleting
  <2>9. CASE pc[r] \in {"chain", "addChain"} /\ pc'[r] = "addChain"
    BY <2>1, <2>2, <2>5, <2>9 DEF Progress, Wanted, Releasing, Deleting
  <2>10. CASE pc[r] \in {"chain", "addChain"} /\ pc'[r] = "dns"
    BY <2>1, <2>2, <2>4, <2>5, <2>10 DEF Progress, Wanted, Releasing, Deleting, Targets
  <2>11. CASE pc[r] = "dns" /\ pc'[r] = "allow"
    BY <2>1, <2>2, <2>5, <2>11 DEF Progress, Wanted, Releasing, Deleting
  <2>12. CASE pc[r] = "hydrate" /\ pc'[r] = "up"
    BY <2>1, <2>2, <2>5, <2>12 DEF Progress, Wanted, Releasing, Deleting
  <2>13. QED
    BY <2>3, <2>6, <2>7, <2>8, <2>9, <2>10, <2>11, <2>12
<1>7. HandlesInv(r)'
  <2>1. CASE ~HydrateRuleHandles(r)
    <3>1. pc'[r] \notin {"up"} \cup Deleting
      BY <1>2, <2>1 DEF EnsureTap, ListTable, AddTable, ListChain, AddChain,
         ResolveTarget, Goto, TypeOK, Deleting
    <3>2. QED
      BY <3>1 DEF HandlesInv
  <2>2. CASE HydrateRuleHandles(r) /\ pc'[r] = "up"
    <3>1. handles'[r] = ChainOf(r)
      BY <1>2, <2>2 DEF HydrateRuleHandles, TypeOK, Goto
    <3>2. ChainOf(r)' = ChainOf(r) /\ ChainOf(r) \subseteq ruleset
      BY <1>3 DEF ChainOf
    <3>3. \A x \in ChainOf(r) : x.rule.run = r
      BY DEF ChainOf
    <3>4. QED
      BY <1>2, <1>3, <3>1, <3>2, <3>3 DEF HandlesInv, ChainInv
  <2>3. CASE HydrateRuleHandles(r) /\ pc'[r] # "up"
    <3>1. pc'[r] = "failed"
      BY <1>2, <2>3 DEF HydrateRuleHandles, Goto, TypeOK
    <3>2. QED
      BY <3>1 DEF HandlesInv, Deleting
  <2>4. QED
    BY <2>1, <2>2, <2>3
<1>8. TapInv(r)'
  <2>1. TapInv(r) /\ pc \in [Runs -> Pcs]
        /\ created \in [Runs -> SUBSET {"tap", "table", "chain"}]
    BY <1>2 DEF RunInv, TypeOK
  <2>2. CASE EnsureTap(r)
    <3>1. CASE taps' = taps \cup {r} /\ pc'[r] = "table"
               /\ IF r \in taps THEN UNCHANGED created ELSE Creates(r, "tap")
      BY <2>1, <2>2, <3>1 DEF EnsureTap, TapInv, Creates
    <3>2. CASE pc'[r] = "failed"
      BY <3>2 DEF TapInv
    <3>3. QED
      BY <2>1, <2>2, <3>1, <3>2 DEF EnsureTap, Goto
  <2>3. CASE ~EnsureTap(r)
    <3>1. taps' = taps
      BY <2>3 DEF ListTable, AddTable, ListChain, AddChain, ResolveTarget,
         HydrateRuleHandles, hostVars
    <3>2. "tap" \in created'[r] <=> "tap" \in created[r]
      BY <2>1, <2>3 DEF ListTable, AddTable, ListChain, AddChain, ResolveTarget,
         HydrateRuleHandles, Creates, ownVars
    <3>3. pc[r] \notin {"tap", "failed", "released"} /\ pc'[r] \notin {"tap", "released"}
      BY <2>1, <2>3 DEF ListTable, AddTable, ListChain, AddChain, ResolveTarget,
         HydrateRuleHandles, Goto
    <3>4. QED
      BY <2>1, <3>1, <3>2, <3>3 DEF TapInv
  <2>4. QED
    BY <2>2, <2>3
<1>9. QED
  BY <1>1, <1>3, <1>4, <1>5, <1>6, <1>7, <1>8, QuietStep DEF RunInv

(* What stays as it is for a run when a rule is added or deleted.          *)
LEMMA RuleStep ==
  ASSUME HostInv, TypeOK', NEW r \in Runs, Local(r),
         taps' = taps, table' = table, chain' = chain, created' = created,
         pc[r] \notin {"tap", "failed", "released"},
         pc'[r] \notin {"tap", "released", "addTable"},
         ChainInv', ChainKept', Progress(r)', HandlesInv(r)',
         \A q \in Runs : q # r => ChainOf(q)' = ChainOf(q),
         lastHandle <= lastHandle',
         \A x \in ruleset' : x \in ruleset \/ x.handle > lastHandle
  PROVE  HostInv'
<1>1. TableKept'
  BY DEF HostInv, TableKept, Local
<1>2. TapInv(r)'
  BY DEF HostInv, RunInv, TapInv
<1>3. ASSUME NEW q \in Runs, q # r PROVE RunInv(q)'
  <2>1. lastHandle' \in Nat
    BY DEF TypeOK
  <2>2. QED
    BY <1>3, <2>1, OthersKeep DEF Local
<1>4. QED
  BY <1>1, <1>2, <1>3 DEF HostInv, RunInv

LEMMA AddRuleStep ==
  ASSUME HostInv, TypeOK', NEW r \in Runs, Local(r), NEW rule \in RulesOf(r),
         NEW done \in BOOLEAN, NEW next \in {"dns", "block", "drop", "hydrate"},
         AddRule(r, rule, done, next),
         pc[r] \in {"allow", "block", "drop"},
         ~Wanted(r, rule),
         rule.kind = "allow" => pc[r] = "allow",
         rule.kind = "block" => pc[r] = "block",
         pc'[r] = next =>
           /\ \A other \in RulesOf(r) :
                Wanted(r, other)' <=> (Wanted(r, other) \/ other = rule)
           /\ next = "hydrate" => i'[r] = 1
  PROVE  HostInv'
<1>1. /\ TypeOK /\ ChainKept /\ ChainInv /\ Progress(r)
      /\ pc \in [Runs -> Pcs] /\ lastHandle \in Nat
  BY DEF HostInv, RunInv, TypeOK
<1>2. taps' = taps /\ table' = table /\ chain' = chain /\ created' = created
      /\ failed' = failed
  BY DEF AddRule
<1>3. pc'[r] \in {next, "failed"} /\ ~failed[r]
  BY <1>1 DEF AddRule, Goto, Progress, Releasing, Deleting
<1>4. HandlesInv(r)'
  BY <1>3 DEF HandlesInv, Deleting
<1>5. CASE lastHandle' = lastHandle + 1 /\ chain
           /\ ruleset' = ruleset \cup {Handled(rule, lastHandle')}
  <2>1. rule \notin Installed
    BY <1>1, <1>3 DEF Progress
  <2>2. \A x \in ChainOf(r) : x.rule \in RulesOf(r) /\ x.rule \in Installed
    BY <1>1, RuleOfItsRun DEF ChainOf, Installed, TypeOK, HandledRules
  <2>3. rule.kind = "allow" => \A x \in ChainOf(r) : x.rule.kind = "allow"
    BY <1>1, <1>3, <2>2 DEF Progress, Wanted
  <2>4. rule.kind = "block" => \A x \in ChainOf(r) : x.rule.kind # "drop"
    BY <1>1, <1>3, <2>2 DEF Progress, Wanted
  <2>5. /\ ChainInv'
        /\ Installed' = Installed \cup {rule}
        /\ \A q \in Runs : q # r => ChainOf(q)' = ChainOf(q)
        /\ \A x \in ruleset' : x \in ruleset \/ x.handle > lastHandle
    BY <1>5, <2>1, <2>3, <2>4, ChainGrows
  <2>6. CASE pc'[r] = next
    <3>1. Progress(r)'
      BY <1>1, <1>2, <1>3, <2>5, <2>6 DEF Progress
    <3>2. ChainKept'
      BY <1>2, <1>5 DEF ChainKept
    <3>3. QED
      BY <1>1, <1>2, <1>3, <1>4, <1>5, <2>5, <3>1, <3>2, RuleStep
  <2>7. CASE pc'[r] = "failed"
    <3>1. Progress(r)'
      BY <1>2, <1>3, <2>7 DEF Progress
    <3>2. ChainKept'
      BY <1>2, <1>5 DEF ChainKept
    <3>3. QED
      BY <1>1, <1>2, <1>3, <1>4, <1>5, <2>5, <3>1, <3>2, RuleStep
  <2>8. QED
    BY <1>3, <2>6, <2>7
<1>6. CASE ruleset' = ruleset /\ lastHandle' = lastHandle /\ pc'[r] = "failed"
  <2>1. Progress(r)'
    BY <1>2, <1>3, <1>6 DEF Progress
  <2>2. RunInv(r)'
    BY <1>4, <1>6, <2>1, <1>2 DEF RunInv, TapInv
  <2>3. TableKept' /\ ChainKept'
    BY <1>1, <1>2, <1>6 DEF HostInv, TableKept, ChainKept, Local
  <2>4. QED
    BY <1>6, <2>2, <2>3, QuietStep
<1>7. QED
  BY <1>1, <1>5, <1>6 DEF AddRule, Goto

(* The three steps that add a rule.                                        *)
LEMMA AddSteps ==
  ASSUME HostInv, TypeOK', NEW r \in Runs,
         AddAllowRule(r) \/ AddBlockRule(r) \/ AddDefaultDropRule(r)
  PROVE  HostInv'
<1>1. Local(r)
  BY StepsAreLocal DEF Apply, HostInv
<1>2. TypeOK /\ Progress(r) /\ i[r] \in Targets /\ pc \in [Runs -> Pcs]
      /\ i \in [Runs -> Targets] /\ Len(Plan) \in Nat
  BY SomeTarget DEF HostInv, RunInv, TypeOK
<1>3. \A rule \in RulesOf(r) :
        /\ rule = Rule(r, rule.kind, rule.target) /\ rule.kind \in Kinds
        /\ rule.kind # "drop" => rule.target \in Targets
        /\ rule.kind = "drop" => rule.target = 1
  BY RulesOfRun
<1>4. \A kind \in Kinds : \A t \in Targets :
        Rule(r, kind, t).kind = kind /\ Rule(r, kind, t).target = t
  BY DEF Rule
<1>5. CASE AddAllowRule(r)
  <2> DEFINE rule == Rule(r, "allow", i[r])
             done == i[r] = Len(Plan)
             next == IF done THEN "block" ELSE "dns"
  <2>1. pc[r] = "allow" /\ AddRule(r, rule, done, next)
    BY <1>5 DEF AddAllowRule
  <2>2. rule \in RulesOf(r) /\ rule.kind = "allow" /\ rule.target = i[r]
    BY <1>2, <1>4, RulesOfRun DEF Kinds
  <2>3. ~Wanted(r, rule)
    BY <1>2, <2>1, <2>2 DEF Wanted, Targets
  <2>4. ASSUME pc'[r] = next
        PROVE  \A other \in RulesOf(r) :
                 Wanted(r, other)' <=> (Wanted(r, other) \/ other = rule)
    <3>1. i'[r] = IF done THEN 1 ELSE i[r] + 1
      BY <1>2, <2>1, <2>4 DEF AddRule, Goto
    <3>2. \A other \in RulesOf(r) :
            other = rule <=> other.kind = "allow" /\ other.target = i[r]
      BY <1>3, <2>2
    <3>3. \A other \in RulesOf(r) : Wanted(r, other) <=> other.kind = "allow" /\ other.target < i[r]
      BY <2>1 DEF Wanted
    <3>4. CASE done
      <4> pc'[r] = "block" /\ i'[r] = 1
        BY <2>4, <3>1, <3>4
      <4>1. \A other \in RulesOf(r) : Wanted(r, other)' <=>
              other.kind = "allow" \/ (other.kind = "block" /\ other.target < 1)
        BY DEF Wanted
      <4>2. QED
        BY <1>2, <1>3, <3>2, <3>3, <3>4, <4>1 DEF Targets
    <3>5. CASE ~done
      <4> pc'[r] = "dns" /\ i'[r] = i[r] + 1
        BY <2>4, <3>1, <3>5
      <4>1. \A other \in RulesOf(r) : Wanted(r, other)' <=>
              other.kind = "allow" /\ other.target < i[r] + 1
        BY DEF Wanted
      <4>2. QED
        BY <1>2, <1>3, <3>2, <3>3, <4>1 DEF Targets
    <3>6. QED
      BY <3>4, <3>5
  <2>5. next \in {"dns", "block", "drop", "hydrate"} /\ next # "hydrate" /\ done \in BOOLEAN
    OBVIOUS
  <2> HIDE DEF rule, done, next
  <2>6. QED
    BY <1>1, <2>1, <2>2, <2>3, <2>4, <2>5, AddRuleStep
<1>6. CASE AddBlockRule(r)
  <2> DEFINE rule == Rule(r, "block", i[r])
             done == i[r] = Len(Plan)
             next == IF done THEN "drop" ELSE "block"
  <2>1. pc[r] = "block" /\ AddRule(r, rule, done, next)
    BY <1>6 DEF AddBlockRule
  <2>2. rule \in RulesOf(r) /\ rule.kind = "block" /\ rule.target = i[r]
    BY <1>2, <1>4, RulesOfRun DEF Kinds
  <2>3. ~Wanted(r, rule)
    BY <1>2, <2>1, <2>2 DEF Wanted, Targets
  <2>4. ASSUME pc'[r] = next
        PROVE  \A other \in RulesOf(r) :
                 Wanted(r, other)' <=> (Wanted(r, other) \/ other = rule)
    <3>1. i'[r] = IF done THEN 1 ELSE i[r] + 1
      BY <1>2, <2>1, <2>4 DEF AddRule, Goto
    <3>2. \A other \in RulesOf(r) :
            other = rule <=> other.kind = "block" /\ other.target = i[r]
      BY <1>3, <2>2
    <3>3. \A other \in RulesOf(r) : Wanted(r, other) <=>
            other.kind = "allow" \/ (other.kind = "block" /\ other.target < i[r])
      BY <2>1 DEF Wanted
    <3>4. CASE done
      <4> pc'[r] = "drop" /\ i'[r] = 1
        BY <2>4, <3>1, <3>4
      <4>1. \A other \in RulesOf(r) : Wanted(r, other)' <=> other.kind # "drop"
        BY DEF Wanted
      <4>2. QED
        BY <1>2, <1>3, <3>2, <3>3, <3>4, <4>1 DEF Targets, Kinds
    <3>5. CASE ~done
      <4> pc'[r] = "block" /\ i'[r] = i[r] + 1
        BY <2>4, <3>1, <3>5
      <4>1. \A other \in RulesOf(r) : Wanted(r, other)' <=>
              other.kind = "allow" \/ (other.kind = "block" /\ other.target < i[r] + 1)
        BY DEF Wanted
      <4>2. QED
        BY <1>2, <1>3, <3>2, <3>3, <4>1 DEF Targets
    <3>6. QED
      BY <3>4, <3>5
  <2>5. next \in {"dns", "block", "drop", "hydrate"} /\ next # "hydrate" /\ done \in BOOLEAN
    OBVIOUS
  <2> HIDE DEF rule, done, next
  <2>6. QED
    BY <1>1, <2>1, <2>2, <2>3, <2>4, <2>5, AddRuleStep
<1>7. CASE AddDefaultDropRule(r)
  <2> DEFINE rule == Rule(r, "drop", 1)
  <2>1. pc[r] = "drop" /\ AddRule(r, rule, TRUE, "hydrate")
    BY <1>7 DEF AddDefaultDropRule
  <2>2. rule \in RulesOf(r) /\ rule.kind = "drop" /\ rule.target = 1
    BY <1>4, RulesOfRun, SomeTarget DEF Kinds
  <2>3. ~Wanted(r, rule)
    BY <2>1, <2>2 DEF Wanted
  <2>4. ASSUME pc'[r] = "hydrate"
        PROVE  /\ i'[r] = 1
               /\ \A other \in RulesOf(r) :
                    Wanted(r, other)' <=> (Wanted(r, other) \/ other = rule)
    <3>1. i'[r] = 1
      BY <1>2, <2>1, <2>4 DEF AddRule, Goto
    <3>2. \A other \in RulesOf(r) : other = rule <=> other.kind = "drop"
      BY <1>3, <2>2
    <3>3. QED
      BY <2>1, <2>4, <3>1, <3>2 DEF Wanted
  <2> HIDE DEF rule
  <2>5. QED
    BY <1>1, <2>1, <2>2, <2>3, <2>4, AddRuleStep
<1>8. QED
  BY <1>5, <1>6, <1>7

(* By its handle a run deletes the rule it means to, or collects an error. *)
LEMMA DeleteRuleEffect ==
  ASSUME HostInv, NEW r \in Runs, NEW rule \in RulesOf(r), NEW j, NEW next,
         DeleteRule(r, rule, j, next), pc[r] \in Deleting
  PROVE  /\ lastHandle' = lastHandle
         /\ \/ /\ ruleset' = ruleset
               /\ rule \in Installed => failed'[r]
               /\ failed[r] => failed'[r]
            \/ /\ \E y \in ruleset : y.rule = rule /\ ruleset' = ruleset \ {y}
               /\ failed'[r] = failed[r]
<1>1. HandlesInv(r) /\ failed \in [Runs -> BOOLEAN]
  BY DEF HostInv, RunInv, TypeOK
<1>2. CASE /\ \A x \in handles[r] : x.rule # rule
           /\ Collect(r, FALSE) /\ ruleset' = ruleset
  <2>1. rule \notin Installed
    BY <1>1, <1>2, RulesOfRun DEF HandlesInv, ChainOf, Installed
  <2>2. QED
    BY <1>1, <1>2, <2>1 DEF DeleteRule, Collect
<1>3. ASSUME NEW x \in handles[r], x.rule = rule, NEW y \in ruleset,
             y.handle = x.handle, ruleset' = ruleset \ {y}, Collect(r, FALSE)
      PROVE  /\ \E z \in ruleset : z.rule = rule /\ ruleset' = ruleset \ {z}
             /\ failed'[r] = failed[r]
  <2>1. y = x
    BY <1>1, <1>3 DEF HandlesInv
  <2>2. QED
    BY <1>1, <1>3, <2>1 DEF Collect
<1>4. CASE Collect(r, TRUE) /\ ruleset' = ruleset
  BY <1>1, <1>4 DEF DeleteRule, Collect
<1>5. QED
  BY <1>2, <1>3, <1>4 DEF DeleteRule

LEMMA DeleteRuleStep ==
  ASSUME HostInv, TypeOK', NEW r \in Runs, Local(r), NEW rule \in RulesOf(r), NEW j,
         NEW next \in {"delAllow", "delBlock", "delDrop", "delChain"},
         DeleteRule(r, rule, j, next), pc[r] \in {"delAllow", "delBlock", "delDrop"},
         pc'[r] = next =>
           \A other \in RulesOf(r) :
             Wanted(r, other)' <=> Wanted(r, other) /\ other # rule
  PROVE  HostInv'
<1>1. /\ TypeOK /\ ChainKept /\ ChainInv /\ Progress(r) /\ HandlesInv(r)
      /\ pc \in [Runs -> Pcs] /\ lastHandle \in Nat
  BY DEF HostInv, RunInv, TypeOK
<1>2. taps' = taps /\ table' = table /\ chain' = chain /\ created' = created
      /\ handles' = handles /\ pc'[r] = next /\ lastHandle' = lastHandle
  BY <1>1 DEF DeleteRule, Goto
<1>3. \A other \in RulesOf(r) : Wanted(r, other)' <=> Wanted(r, other) /\ other # rule
  BY <1>2
<1>4. \A other \in RulesOf(r) :
        /\ Wanted(r, other) => other \in Installed
        /\ other \in Installed /\ ~failed[r] => Wanted(r, other)
  BY <1>1 DEF Progress
<1>5. /\ pc[r] \in Deleting /\ pc'[r] \in Releasing /\ rule.run = r
      /\ pc'[r] \notin {"tap", "table", "addTable", "chain", "addChain", "hydrate", "up"}
  BY <1>2, RulesOfRun DEF Releasing, Deleting
<1>6. /\ \A x \in handles[r] :
           /\ x.rule.run = r /\ x.handle <= lastHandle
           /\ \A y \in ruleset : y.handle = x.handle => y = x
      /\ \A x, y \in handles[r] : x.rule = y.rule => x = y
      /\ ChainOf(r) \subseteq handles[r]
  BY <1>1, <1>5 DEF HandlesInv
<1>7. CASE /\ ruleset' = ruleset
           /\ rule \in Installed => failed'[r]
           /\ failed[r] => failed'[r]
  <2>1. Installed' = Installed /\ ChainInv' /\ ChainKept' /\ \A q \in Runs : ChainOf(q)' = ChainOf(q)
    BY <1>1, <1>2, <1>7 DEF Installed, ChainInv, ChainKept, ChainOf
  <2>2. Progress(r)'
    BY <1>3, <1>4, <1>5, <1>7, <2>1 DEF Progress
  <2>3. HandlesInv(r)'
    BY <1>2, <1>6, <1>7, <2>1 DEF HandlesInv
  <2>4. QED
    BY <1>1, <1>2, <1>5, <1>7, <2>1, <2>2, <2>3, RuleStep
<1>8. ASSUME NEW y \in ruleset, y.rule = rule, ruleset' = ruleset \ {y},
             failed'[r] = failed[r]
      PROVE  HostInv'
  <2>1. /\ ChainInv'
        /\ Installed' = Installed \ {rule}
        /\ \A q \in Runs : ChainOf(q)' \subseteq ChainOf(q)
        /\ \A q \in Runs : q # r => ChainOf(q)' = ChainOf(q)
    BY <1>2, <1>5, <1>8, ChainShrinks
  <2>2. ChainKept'
    BY <1>1, <1>2, <1>8 DEF ChainKept
  <2>3. Progress(r)'
    BY <1>3, <1>4, <1>5, <1>8, <2>1 DEF Progress
  <2>4. HandlesInv(r)'
    BY <1>2, <1>6, <1>8, <2>1 DEF HandlesInv
  <2>5. QED
    BY <1>1, <1>2, <1>5, <1>8, <2>1, <2>2, <2>3, <2>4, RuleStep
<1>9. QED
  BY <1>5, <1>7, <1>8, DeleteRuleEffect

(* The three steps that delete a rule.                                     *)
LEMMA DeleteSteps ==
  ASSUME HostInv, TypeOK', NEW r \in Runs,
         DeleteAllowRule(r) \/ DeleteBlockRule(r) \/ DeleteDefaultDropRule(r)
  PROVE  HostInv'
<1>1. Local(r)
  BY StepsAreLocal DEF ReleaseNetwork, HostInv
<1>2. /\ i[r] \in Targets /\ i \in [Runs -> Targets] /\ pc \in [Runs -> Pcs]
      /\ Len(Plan) \in Nat
  BY SomeTarget DEF HostInv, TypeOK
<1>3. \A rule \in RulesOf(r) :
        /\ rule = Rule(r, rule.kind, rule.target) /\ rule.kind \in Kinds
        /\ rule.kind # "drop" => rule.target \in Targets
        /\ rule.kind = "drop" => rule.target = 1
  BY RulesOfRun
<1>4. \A kind \in Kinds : \A t \in Targets :
        Rule(r, kind, t).kind = kind /\ Rule(r, kind, t).target = t
  BY DEF Rule
<1>5. CASE DeleteAllowRule(r)
  <2> DEFINE rule == Rule(r, "allow", i[r])
  <2>1. pc[r] = "delAllow" /\ DeleteRule(r, rule, i[r], "delBlock")
    BY <1>5 DEF DeleteAllowRule
  <2>2. rule \in RulesOf(r) /\ rule.kind = "allow" /\ rule.target = i[r]
    BY <1>2, <1>4, RulesOfRun DEF Kinds
  <2>3. pc'[r] = "delBlock" /\ i'[r] = i[r]
    BY <1>2, <2>1 DEF DeleteRule, Goto
  <2>4. \A other \in RulesOf(r) :
          other = rule <=> other.kind = "allow" /\ other.target = i[r]
    BY <1>3, <2>2
  <2>5. \A other \in RulesOf(r) : Wanted(r, other) <=>
          other.kind = "drop" \/ other.target >= i[r]
    BY <2>1 DEF Wanted
  <2>6. \A other \in RulesOf(r) : Wanted(r, other)' <=>
          \/ other.kind = "drop" \/ other.target > i[r]
          \/ other.kind = "block" /\ other.target = i[r]
    BY <2>3 DEF Wanted
  <2>7. \A other \in RulesOf(r) : Wanted(r, other)' <=> Wanted(r, other) /\ other # rule
    BY <1>2, <1>3, <2>4, <2>5, <2>6 DEF Targets, Kinds
  <2> HIDE DEF rule
  <2>8. QED
    BY <1>1, <2>1, <2>2, <2>7, DeleteRuleStep
<1>6. CASE DeleteBlockRule(r)
  <2> DEFINE rule == Rule(r, "block", i[r])
             done == i[r] = Len(Plan)
             next == IF done THEN "delDrop" ELSE "delAllow"
             j == IF done THEN 1 ELSE i[r] + 1
  <2>1. pc[r] = "delBlock" /\ DeleteRule(r, rule, j, next)
    BY <1>6 DEF DeleteBlockRule
  <2>2. rule \in RulesOf(r) /\ rule.kind = "block" /\ rule.target = i[r]
    BY <1>2, <1>4, RulesOfRun DEF Kinds
  <2>3. pc'[r] = next /\ i'[r] = j
    BY <1>2, <2>1 DEF DeleteRule, Goto
  <2>4. \A other \in RulesOf(r) :
          other = rule <=> other.kind = "block" /\ other.target = i[r]
    BY <1>3, <2>2
  <2>5. \A other \in RulesOf(r) : Wanted(r, other) <=>
          \/ other.kind = "drop" \/ other.target > i[r]
          \/ other.kind = "block" /\ other.target = i[r]
    BY <2>1 DEF Wanted
  <2>6. \A other \in RulesOf(r) : Wanted(r, other)' <=> Wanted(r, other) /\ other # rule
    <3>1. CASE done
      <4> pc'[r] = "delDrop"
        BY <2>3, <3>1
      <4>1. \A other \in RulesOf(r) : Wanted(r, other)' <=> other.kind = "drop"
        BY DEF Wanted
      <4>2. QED
        BY <1>2, <1>3, <2>4, <2>5, <3>1, <4>1 DEF Targets
    <3>2. CASE ~done
      <4> pc'[r] = "delAllow" /\ i'[r] = i[r] + 1
        BY <2>3, <3>2
      <4>1. \A other \in RulesOf(r) : Wanted(r, other)' <=>
              other.kind = "drop" \/ other.target >= i[r] + 1
        BY DEF Wanted
      <4>2. QED
        BY <1>2, <1>3, <2>4, <2>5, <4>1 DEF Targets
    <3>3. QED
      BY <3>1, <3>2
  <2>7. next \in {"delAllow", "delBlock", "delDrop", "delChain"}
    OBVIOUS
  <2> HIDE DEF rule, next, j
  <2>8. QED
    BY <1>1, <2>1, <2>2, <2>6, <2>7, DeleteRuleStep
<1>7. CASE DeleteDefaultDropRule(r)
  <2> DEFINE rule == Rule(r, "drop", 1)
  <2>1. pc[r] = "delDrop" /\ DeleteRule(r, rule, 1, "delChain")
    BY <1>7 DEF DeleteDefaultDropRule
  <2>2. rule \in RulesOf(r) /\ rule.kind = "drop"
    BY <1>4, RulesOfRun, SomeTarget DEF Kinds
  <2>3. pc'[r] = "delChain"
    BY <1>2, <2>1 DEF DeleteRule, Goto
  <2>4. \A other \in RulesOf(r) : other = rule <=> other.kind = "drop"
    BY <1>3, <2>2
  <2>5. \A other \in RulesOf(r) : Wanted(r, other)' <=> Wanted(r, other) /\ other # rule
    BY <2>1, <2>3, <2>4 DEF Wanted
  <2> HIDE DEF rule
  <2>6. QED
    BY <1>1, <2>1, <2>2, <2>5, DeleteRuleStep
<1>8. QED
  BY <1>5, <1>6, <1>7

(* The other steps of release, and the packets of the VM.                  *)
LEMMA ReleaseQuiet ==
  ASSUME HostInv, TypeOK', NEW r \in Runs,
         \/ VmSends(r) \/ StartRelease(r) \/ DeleteChain(r) \/ DeleteTap(r)
         \/ DeleteTable(r) /\ UNCHANGED nftVars
  PROVE  HostInv'
<1>1. Local(r)
  BY StepsAreLocal DEF ReleaseNetwork, HostInv
<1>2. /\ TypeOK /\ TableKept /\ ChainKept /\ ChainInv
      /\ Progress(r) /\ HandlesInv(r) /\ TapInv(r)
      /\ pc \in [Runs -> Pcs] /\ failed \in [Runs -> BOOLEAN]
  BY DEF HostInv, RunInv, TypeOK
<1>3. ruleset' = ruleset /\ lastHandle' = lastHandle /\ table' = table
      /\ created' = created /\ i' = i /\ handles' = handles
  BY DEF VmSends, StartRelease, DeleteChain, DeleteTable, DeleteTap, nftVars,
     ownVars, hostVars
<1>4. \/ VmSends(r) /\ pc'[r] = pc[r] /\ pc[r] = "up"
      \/ StartRelease(r) /\ pc[r] = "up" /\ pc'[r] = "delAllow"
      \/ DeleteChain(r) /\ pc[r] = "delChain" /\ pc'[r] = "delTable"
      \/ DeleteTable(r) /\ pc[r] = "delTable" /\ pc'[r] = "delTap"
      \/ DeleteTap(r) /\ pc[r] = "delTap" /\ pc'[r] = "released"
  <2>1. CASE VmSends(r)
    BY <1>2, <2>1 DEF VmSends, Goto
  <2>2. CASE StartRelease(r)
    BY <1>2, <2>2 DEF StartRelease, Goto
  <2>3. CASE DeleteChain(r)
    BY <1>2, <2>3 DEF DeleteChain, Goto
  <2>4. CASE DeleteTable(r)
    BY <1>2, <2>4 DEF DeleteTable, Goto
  <2>5. CASE DeleteTap(r)
    BY <1>2, <2>5 DEF DeleteTap, Goto
  <2>6. QED
    BY <2>1, <2>2, <2>3, <2>4, <2>5
<1>5. TableKept'
  BY <1>1, <1>2, <1>3, <1>4 DEF TableKept, Local
<1>6. ChainKept'
  BY <1>2 DEF ChainKept, VmSends, StartRelease, DeleteChain, DeleteTable, DeleteTap,
     nftVars, ownVars, hostVars
<1>7. failed[r] => failed'[r]
  BY <1>2 DEF VmSends, StartRelease, DeleteChain, DeleteTable, DeleteTap, ownVars, Collect
<1>8. Progress(r)'
  <2>1. Installed' = Installed
    BY <1>3 DEF Installed
  <2>2. \A rule \in RulesOf(r) :
          rule.kind \in Kinds /\ (rule.kind # "drop" => rule.target \in Targets)
    BY RulesOfRun
  <2>3. pc[r] = "up" => i[r] = 1 /\ ~failed[r]
    BY <1>2 DEF Progress, Releasing, Deleting
  <2>4. CASE VmSends(r) /\ pc'[r] = pc[r] /\ pc[r] = "up"
    <3>1. failed' = failed
      BY <2>4 DEF VmSends, ownVars
    <3>2. QED
      BY <1>2, <1>3, <2>1, <2>4, <3>1 DEF Progress, Wanted
  <2>5. CASE pc[r] = "up" /\ pc'[r] = "delAllow"
    <3>1. \A rule \in RulesOf(r) : Wanted(r, rule)
      BY <2>5 DEF Wanted
    <3>2. \A rule \in RulesOf(r) : Wanted(r, rule)'
      BY <1>3, <2>2, <2>3, <2>5 DEF Wanted, Targets
    <3>3. QED
      BY <1>2, <2>1, <2>5, <3>1, <3>2 DEF Progress, Releasing, Deleting
  <2>6. CASE pc[r] \in {"delChain", "delTable", "delTap"}
             /\ pc'[r] \in {"delTable", "delTap", "released"}
    <3>1. \A rule \in RulesOf(r) : ~Wanted(r, rule) /\ ~Wanted(r, rule)'
      BY <2>6 DEF Wanted
    <3>2. QED
      BY <1>2, <1>7, <2>1, <2>6, <3>1 DEF Progress, Releasing, Deleting
  <2>7. QED
    BY <1>4, <2>4, <2>5, <2>6
<1>9. HandlesInv(r)'
  <2>1. pc'[r] \in {"up"} \cup Deleting => pc[r] = "up"
    BY <1>4 DEF Deleting
  <2>2. ChainOf(r)' = ChainOf(r)
    BY <1>3 DEF ChainOf
  <2>3. QED
    BY <1>2, <1>3, <2>1, <2>2 DEF HandlesInv
<1>10. TapInv(r)'
  <2>1. CASE DeleteTap(r)
    <3>1. pc[r] = "delTap" /\ pc'[r] = "released"
      BY <1>4, <2>1 DEF DeleteTap
    <3>2. \/ "tap" \notin created[r]
          \/ r \notin taps'
          \/ failed'[r]
      BY <1>2, <2>1 DEF DeleteTap, Collect
    <3>3. "tap" \notin created[r] => r \in StaleTaps
      BY <1>2, <3>1 DEF TapInv
    <3>4. QED
      BY <3>1, <3>2, <3>3 DEF TapInv
  <2>2. CASE ~DeleteTap(r)
    <3>1. taps' = taps
      BY <2>2 DEF VmSends, StartRelease, DeleteChain, DeleteTable, hostVars
    <3>2. QED
      BY <1>2, <1>3, <1>4, <2>2, <3>1 DEF TapInv
  <2>3. QED
    BY <2>1, <2>2
<1>11. QED
  BY <1>1, <1>3, <1>5, <1>6, <1>8, <1>9, <1>10, QuietStep DEF RunInv

(* A run that is alone may delete the table that it created.               *)
LEMMA TableGoes ==
  ASSUME Undisturbed, HostInv, TypeOK', NEW r \in Runs, DeleteTable(r)
  PROVE  HostInv'
<1>1. Local(r)
  BY StepsAreLocal DEF ReleaseNetwork, HostInv
<1>2. CASE UNCHANGED nftVars
  BY <1>2, ReleaseQuiet
<1>3. CASE /\ "table" \in created[r] /\ ruleset' = {}
           /\ Collect(r, FALSE)
  <2>1. ~SharedTable /\ Alone
    BY <1>3 DEF HostInv, TableKept, Undisturbed
  <2>2. TableKept' /\ ChainKept' /\ ChainInv'
    BY <1>3, <2>1 DEF TableKept, ChainKept, ChainInv, SharedTable
  <2>3. /\ pc[r] = "delTable" /\ pc'[r] = "delTap" /\ taps' = taps
        /\ i' = i /\ created' = created /\ failed'[r] = failed[r]
    BY <1>3 DEF DeleteTable, Goto, Collect, HostInv, TypeOK
  <2>4. Progress(r)'
    <3>1. Installed' = {}
      BY <1>3 DEF Installed
    <3>2. \A rule \in RulesOf(r) : ~Wanted(r, rule)'
      BY <2>3 DEF Wanted
    <3>3. QED
      BY <2>3, <3>1, <3>2 DEF Progress, Releasing, Deleting
  <2>5. HandlesInv(r)' /\ TapInv(r)'
    BY <2>3 DEF HandlesInv, TapInv, HostInv, RunInv, Deleting
  <2>6. \A q \in Runs : q = r
    BY <2>1 DEF Alone
  <2>7. QED
    BY <2>2, <2>4, <2>5, <2>6 DEF HostInv, RunInv
<1>4. QED
  BY <1>2, <1>3 DEF DeleteTable

LEMMA HostStep ==
  ASSUME Undisturbed, HostInv, [Next]_vars
  PROVE  HostInv'
<1>1. TypeOK'
  BY TypesStep DEF HostInv
<1>2. CASE UNCHANGED vars
  BY <1>2 DEF vars, hostVars, nftVars, ownVars, HostInv, TypeOK, TableKept, ChainKept,
     ChainInv, RunInv, Progress, HandlesInv, TapInv, Wanted, Installed, ChainOf
<1>3. ASSUME NEW r \in Runs, Apply(r) \/ VmSends(r) \/ ReleaseNetwork(r)
      PROVE  HostInv'
  BY <1>1, <1>3, ApplyQuiet, AddSteps, DeleteSteps, ReleaseQuiet, TableGoes
  DEF Apply, ReleaseNetwork
<1>4. QED
  BY <1>2, <1>3 DEF Next

(* The chain is ordered and its rules are those that each run's place in   *)
(* apply or release calls for, whatever commands fail: the invariant that  *)
(* the properties of the host rest on.                                     *)
THEOREM HostInvariant ==
  ASSUME Undisturbed
  PROVE  Spec => []HostInv
<1>1. Undisturbed
  OBVIOUS
<1>2. Init => HostInv
  BY HostInit
<1>3. HostInv /\ [Next]_vars => HostInv'
  BY <1>1, HostStep
<1>4. QED
  BY <1>2, <1>3, PTL DEF Spec

-----------------------------------------------------------------------------
(* What passes from a tap.                                                 *)

LEMMA MatchingIsOfRun ==
  ASSUME HostInv, NEW r \in Runs, NEW p \in Packets, NEW x \in Matching(r, p)
  PROVE  /\ x \in ChainOf(r) /\ x.rule \in RulesOf(r) /\ x.rule \in Installed
         /\ x.rule.kind = "allow" => x.rule.target \in Targets /\ p = Plan[x.rule.target]
<1>1. x \in ruleset /\ x.rule \in AllRules /\ x.rule.run = r
  BY DEF Matching, Matches, HostInv, TypeOK, HandledRules
<1>2. x.rule \in RulesOf(r)
  BY <1>1, RuleOfItsRun
<1>3. x.rule.kind = "allow" => x.rule.target \in Targets /\ p = Plan[x.rule.target]
  <2>1. x.rule.kind = "allow" => p = Plan[x.rule.target]
    BY DEF Matching, Matches
  <2>2. QED
    BY <1>2, <2>1, RulesOfRun
<1>4. QED
  BY <1>1, <1>2, <1>3 DEF ChainOf, Installed

(* An allow rule of the chain accepts its target.                          *)
LEMMA AllowAccepts ==
  ASSUME HostInv, NEW r \in Runs, NEW t \in Targets, NEW p \in Packets, p = Plan[t],
         Rule(r, "allow", t) \in Installed
  PROVE  Accepts(r, p)
<1>1. PICK x \in ruleset : x.rule = Rule(r, "allow", t)
  BY DEF Installed
<1>2. x.rule.kind = "allow" /\ x.rule.run = r /\ x.rule.target = t
  BY <1>1 DEF Rule
<1>3. x \in Matching(r, p)
  BY <1>2 DEF Matching, Matches
<1>4. x.handle \in Nat /\ \A y \in ruleset : y.handle \in Nat
  BY DEF HostInv, TypeOK, HandledRules
<1>5. ASSUME NEW y \in Matching(r, p), y.handle < x.handle
      PROVE  y.rule.kind = "allow"
  <2>1. y \in ruleset /\ y.rule.run = r
    BY DEF Matching, Matches
  <2>2. y.rule.kind # "allow" => x.handle < y.handle
    BY <1>2, <2>1 DEF HostInv, ChainInv
  <2>3. QED
    BY <1>4, <1>5, <2>1, <2>2
<1>6. QED
  BY <1>2, <1>3, <1>5 DEF Accepts

(* A chain that has the final drop accepts nothing but by an allow rule.   *)
LEMMA DropGuards ==
  ASSUME HostInv, NEW r \in Runs, NEW p \in Packets, Rule(r, "drop", 1) \in Installed,
         Accepts(r, p)
  PROVE  \E x \in Matching(r, p) :
           /\ x.rule.kind = "allow"
           /\ \A y \in Matching(r, p) : y.handle < x.handle => y.rule.kind = "allow"
<1>1. PICK x \in ruleset : x.rule = Rule(r, "drop", 1)
  BY DEF Installed
<1>2. x.rule.kind = "drop" /\ x.rule.run = r
  BY <1>1 DEF Rule
<1>3. x \in Matching(r, p)
  BY <1>2 DEF Matching, Matches
<1>4. QED
  BY <1>3 DEF Accepts

(* The complete chain passes the plan.                                     *)
LEMMA CompleteIsPlan ==
  ASSUME HostInv, NEW r \in Runs, pc[r] \in {"hydrate", "up"}, NEW p \in Packets
  PROVE  Accepts(r, p) = AllowedByPlan(p)
<1>1. RulesOf(r) \subseteq Installed
  BY DEF HostInv, RunInv, Progress, Wanted
<1>2. ASSUME AllowedByPlan(p) PROVE Accepts(r, p)
  BY <1>1, <1>2, RulesOfRun, AllowAccepts DEF AllowedByPlan
<1>3. ASSUME Accepts(r, p) PROVE AllowedByPlan(p)
  <2>1. PICK x \in Matching(r, p) : x.rule.kind = "allow"
    BY <1>1, <1>3, RulesOfRun, DropGuards
  <2>2. QED
    BY <2>1, MatchingIsOfRun DEF AllowedByPlan
<1>4. Accepts(r, p) \in BOOLEAN /\ AllowedByPlan(p) \in BOOLEAN
  BY DEF Accepts, AllowedByPlan
<1>5. QED
  BY <1>2, <1>3, <1>4

(* While it is built the chain never cuts a packet of the plan.            *)
NeverCuts ==
  \A r \in Runs, p \in Packets :
    AllowedByPlan(p) /\ pc[r] \in {"dns", "allow", "block", "drop", "hydrate"} =>
      Accepts(r, p)

LEMMA BuildingNeverCuts == HostInv => NeverCuts
<1> SUFFICES ASSUME HostInv, NEW r \in Runs, NEW p \in Packets, AllowedByPlan(p),
                    pc[r] \in {"dns", "allow", "block", "drop", "hydrate"}
             PROVE  Accepts(r, p)
  BY DEF NeverCuts
<1>1. Progress(r) /\ ~failed[r]
  BY DEF HostInv, RunInv, Progress, Releasing, Deleting
<1>2. CASE pc[r] \in {"dns", "allow"}
  <2>1. \A x \in Matching(r, p) : x.rule.kind = "allow"
    BY <1>1, <1>2, MatchingIsOfRun DEF Progress, Wanted
  <2>2. \A x \in Matching(r, p) : x.handle \in Nat
    BY DEF HostInv, TypeOK, HandledRules, Matching
  <2>3. QED
    BY <2>1, <2>2 DEF Accepts
<1>3. CASE pc[r] \in {"block", "drop", "hydrate"}
  <2>1. \A rule \in RulesOf(r) : rule.kind = "allow" => rule \in Installed
    BY <1>1, <1>3 DEF Progress, Wanted
  <2>2. PICK t \in Targets : p = Plan[t]
    BY DEF AllowedByPlan
  <2>3. Rule(r, "allow", t) \in RulesOf(r) /\ Rule(r, "allow", t).kind = "allow"
    BY RulesOfRun DEF Rule
  <2>4. QED
    BY <2>1, <2>2, <2>3, AllowAccepts
<1>4. QED
  BY <1>2, <1>3

(* plan/M3/ARCHITECTURE.md:21: while its VM runs, a run's tap passes       *)
(* exactly the packets of its plan, for any number of concurrent runs.     *)
THEOREM FilterAlwaysHolds ==
  ASSUME Undisturbed
  PROVE  Spec => []FilterHolds
<1>1. HostInv => FilterHolds
  BY CompleteIsPlan DEF FilterHolds, HostInv, RunInv, TapInv
<1>2. Undisturbed
  OBVIOUS
<1>3. Spec => []HostInv
  BY <1>2, HostInvariant
<1>4. QED
  BY <1>1, <1>3, PTL

(* A release that returned Ok left no rule of its run, and no tap that was *)
(* not there before.                                                       *)
THEOREM ReleasedRunIsGone ==
  ASSUME Undisturbed
  PROVE  Spec => []ReleasedIsGone
<1>1. ASSUME HostInv PROVE ReleasedIsGone
  <2>1. SUFFICES ASSUME NEW r \in Runs, pc[r] = "released", ~failed[r]
                 PROVE  /\ RulesOf(r) \cap Installed = {}
                        /\ r \in taps => r \in StaleTaps
    BY DEF ReleasedIsGone
  <2>2. Progress(r) /\ TapInv(r)
    BY <1>1 DEF HostInv, RunInv
  <2>3. \A rule \in RulesOf(r) : rule \notin Installed
    BY <2>1, <2>2 DEF Progress, Wanted
  <2>4. QED
    BY <2>1, <2>2, <2>3 DEF TapInv
<1>2. Undisturbed
  OBVIOUS
<1>3. Spec => []HostInv
  BY <1>2, HostInvariant
<1>4. QED
  BY <1>1, <1>3, PTL

-----------------------------------------------------------------------------
(* What a run created is there only as long as it may still delete it, or  *)
(* has collected an error.                                                 *)

Owes(r, what, from) == what \in created[r] /\ (pc[r] \in from => failed[r])

CreatedInv ==
  /\ chain => \E r \in Runs : Owes(r, "chain", {"delTable", "delTap", "released"})
  /\ table => TableFirst \/ \E r \in Runs : Owes(r, "table", {"delTap", "released"})
  /\ \A r \in StaleTaps : r \in taps /\ "tap" \notin created[r]

LEMMA CreatedInit == Init => CreatedInv
  BY NetworkAssumption DEF Init, CreatedInv

(* A run takes nothing off its list, and only the command that deletes it  *)
(* can be past a thing without an error.                                   *)
LEMMA OwesKeeps ==
  ASSUME TypeOK, NEW r \in Runs, Apply(r) \/ VmSends(r) \/ ReleaseNetwork(r),
         NEW q \in Runs, NEW what, NEW from, Owes(q, what, from),
         \/ from = {"delTable", "delTap", "released"} /\ ~DeleteChain(r)
         \/ from = {"delTap", "released"} /\ ~DeleteTable(r)
  PROVE  Owes(q, what, from)'
<1>1. CASE q # r
  BY <1>1, StepsAreLocal DEF Local, Owes
<1>2. CASE q = r
  <2> USE DEF TypeOK, Goto, Creates, Collect, hostVars, ownVars, nftVars, traffic
  <2>0. \A l \in {"table", "addTable", "chain", "addChain", "dns", "allow", "failed"} :
          l \notin from
    OBVIOUS
  <2>1. CASE EnsureTap(r)
    <3>1. pc'[r] \notin from
      BY <2>0, <2>1 DEF EnsureTap
    <3>2. what \in created'[r]
      BY <1>2, <2>1 DEF EnsureTap, Owes
    <3>3. QED
      BY <1>2, <3>1, <3>2 DEF Owes
  <2>2. CASE ListTable(r) \/ ListChain(r) \/ ResolveTarget(r)
    BY <1>2, <2>0, <2>2 DEF ListTable, ListChain, ResolveTarget, Owes
  <2>3. CASE AddTable(r) \/ AddChain(r)
    <3>1. pc'[r] \notin from
      BY <2>0, <2>3 DEF AddTable, AddChain
    <3>2. what \in created'[r]
      BY <1>2, <2>3 DEF AddTable, AddChain, Owes
    <3>3. QED
      BY <1>2, <3>1, <3>2 DEF Owes
  <2>4. CASE AddAllowRule(r)
    BY <1>2, <2>4 DEF AddAllowRule, AddRule, Owes
  <2>5. CASE AddBlockRule(r)
    BY <1>2, <2>5 DEF AddBlockRule, AddRule, Owes
  <2>6. CASE AddDefaultDropRule(r)
    BY <1>2, <2>6 DEF AddDefaultDropRule, AddRule, Owes
  <2>7. CASE HydrateRuleHandles(r) \/ VmSends(r) \/ StartRelease(r)
    BY <1>2, <2>7 DEF HydrateRuleHandles, VmSends, StartRelease, Owes
  <2>8. CASE DeleteAllowRule(r)
    BY <1>2, <2>8 DEF DeleteAllowRule, DeleteRule, Owes
  <2>9. CASE DeleteBlockRule(r)
    BY <1>2, <2>9 DEF DeleteBlockRule, DeleteRule, Owes
  <2>10. CASE DeleteDefaultDropRule(r)
    BY <1>2, <2>10 DEF DeleteDefaultDropRule, DeleteRule, Owes
  <2>11. CASE DeleteChain(r) \/ DeleteTable(r) \/ DeleteTap(r)
    BY <1>2, <2>11 DEF DeleteChain, DeleteTable, DeleteTap, Owes
  <2>12. QED
    BY <2>2, <2>3, <2>4, <2>5, <2>6, <2>7, <2>8, <2>9, <2>10, <2>11, <2>1
    DEF Apply, ReleaseNetwork
<1>3. QED
  BY <1>1, <1>2

(* The commands that are not about the table or the chain leave them.      *)
LEMMA OthersLeaveTheTable ==
  ASSUME NEW r \in Runs, Apply(r) \/ VmSends(r) \/ ReleaseNetwork(r)
  PROVE  /\ ~AddTable(r) /\ ~DeleteTable(r) => table' = table
         /\ ~AddChain(r) /\ ~DeleteChain(r) /\ ~DeleteTable(r) => chain' = chain
<1> USE DEF hostVars, nftVars
<1>1. CASE Apply(r)
  BY <1>1 DEF Apply, EnsureTap, ListTable, AddTable, ListChain, AddChain, ResolveTarget,
     AddAllowRule, AddBlockRule, AddDefaultDropRule, AddRule, HydrateRuleHandles
<1>2. CASE VmSends(r)
  BY <1>2 DEF VmSends
<1>3. CASE ReleaseNetwork(r)
  BY <1>3 DEF ReleaseNetwork, StartRelease, DeleteAllowRule, DeleteBlockRule,
     DeleteDefaultDropRule, DeleteRule, DeleteChain, DeleteTable, DeleteTap
<1>4. QED
  BY <1>1, <1>2, <1>3

(* A tap that was there is used, and not created, and so not deleted.      *)
LEMMA StaleTapsStay ==
  ASSUME TypeOK, CreatedInv, NEW r \in Runs, Apply(r) \/ VmSends(r) \/ ReleaseNetwork(r),
         NEW q \in StaleTaps
  PROVE  q \in taps' /\ "tap" \notin created'[q]
<1>1. q \in Runs /\ q \in taps /\ "tap" \notin created[q]
  BY NetworkAssumption DEF CreatedInv
<1>2. CASE q # r
  BY <1>1, <1>2, StepsAreLocal DEF Local
<1>3. CASE q = r
  <2> USE DEF TypeOK, Creates, hostVars, ownVars, nftVars
  <2>1. CASE Apply(r)
    BY <1>1, <1>3, <2>1 DEF Apply, EnsureTap, ListTable, AddTable, ListChain, AddChain,
       ResolveTarget, AddAllowRule, AddBlockRule, AddDefaultDropRule, AddRule,
       HydrateRuleHandles
  <2>2. CASE VmSends(r)
    BY <1>1, <1>3, <2>2 DEF VmSends
  <2>3. CASE ReleaseNetwork(r)
    BY <1>1, <1>3, <2>3 DEF ReleaseNetwork, StartRelease, DeleteAllowRule,
       DeleteBlockRule, DeleteDefaultDropRule, DeleteRule, DeleteChain, DeleteTable,
       DeleteTap
  <2>4. QED
    BY <2>1, <2>2, <2>3
<1>4. QED
  BY <1>2, <1>3

LEMMA CreatedStep ==
  ASSUME TypeOK, CreatedInv, [Next]_vars
  PROVE  CreatedInv'
<1>1. ASSUME NEW r \in Runs, Apply(r) \/ VmSends(r) \/ ReleaseNetwork(r)
      PROVE  CreatedInv'
  <2> DEFINE C == {"delTable", "delTap", "released"}
             T == {"delTap", "released"}
  <2>1. chain' => \E q \in Runs : Owes(q, "chain", C)'
    <3>1. CASE AddChain(r)
      <4>1. chain' /\ ~chain => Owes(r, "chain", C)'
        BY <3>1 DEF AddChain, Creates, Goto, TypeOK, Owes
      <4>2. chain => \E q \in Runs : Owes(q, "chain", C)
        BY DEF CreatedInv
      <4>3. ~DeleteChain(r)
        BY <3>1 DEF AddChain, DeleteChain
      <4>4. ASSUME NEW q \in Runs, Owes(q, "chain", C) PROVE Owes(q, "chain", C)'
        BY <1>1, <4>3, <4>4, OwesKeeps
      <4>5. QED
        BY <4>1, <4>2, <4>4
    <3>2. CASE DeleteChain(r)
      <4>1. SUFFICES ASSUME chain' PROVE \E q \in Runs : Owes(q, "chain", C)'
        OBVIOUS
      <4>2. chain
        BY <3>2, <4>1 DEF DeleteChain
      <4>3. PICK q \in Runs : Owes(q, "chain", C)
        BY <4>2 DEF CreatedInv
      <4>4. CASE q # r
        BY <1>1, <4>3, <4>4, StepsAreLocal DEF Local, Owes
      <4>5. CASE q = r
        BY <3>2, <4>1, <4>3, <4>5 DEF DeleteChain, Owes, Collect, TypeOK
      <4>6. QED
        BY <4>4, <4>5
    <3>3. CASE ~AddChain(r) /\ ~DeleteChain(r)
      <4>1. chain' => chain
        BY <1>1, <3>3, OthersLeaveTheTable DEF DeleteTable, nftVars
      <4>2. chain => \E q \in Runs : Owes(q, "chain", C)
        BY DEF CreatedInv
      <4>3. ASSUME NEW q \in Runs, Owes(q, "chain", C) PROVE Owes(q, "chain", C)'
        BY <1>1, <3>3, <4>3, OwesKeeps
      <4>4. QED
        BY <4>1, <4>2, <4>3
    <3>4. QED
      BY <3>1, <3>2, <3>3
  <2>2. table' => TableFirst \/ \E q \in Runs : Owes(q, "table", T)'
    <3>1. CASE AddTable(r)
      <4>1. table' /\ ~table => Owes(r, "table", T)'
        BY <3>1 DEF AddTable, Creates, Goto, TypeOK, Owes
      <4>2. table => TableFirst \/ \E q \in Runs : Owes(q, "table", T)
        BY DEF CreatedInv
      <4>3. ~DeleteTable(r)
        BY <3>1 DEF AddTable, DeleteTable
      <4>4. ASSUME NEW q \in Runs, Owes(q, "table", T) PROVE Owes(q, "table", T)'
        BY <1>1, <4>3, <4>4, OwesKeeps
      <4>5. QED
        BY <4>1, <4>2, <4>4
    <3>2. CASE DeleteTable(r)
      <4>1. SUFFICES ASSUME table', ~TableFirst PROVE \E q \in Runs : Owes(q, "table", T)'
        OBVIOUS
      <4>2. table
        BY <3>2, <4>1 DEF DeleteTable, nftVars
      <4>3. PICK q \in Runs : Owes(q, "table", T)
        BY <4>1, <4>2 DEF CreatedInv
      <4>4. CASE q # r
        BY <1>1, <4>3, <4>4, StepsAreLocal DEF Local, Owes
      <4>5. CASE q = r
        BY <3>2, <4>1, <4>3, <4>5 DEF DeleteTable, Owes, Collect, TypeOK
      <4>6. QED
        BY <4>4, <4>5
    <3>3. CASE ~AddTable(r) /\ ~DeleteTable(r)
      <4>1. table' = table
        BY <1>1, <3>3, OthersLeaveTheTable
      <4>2. table => TableFirst \/ \E q \in Runs : Owes(q, "table", T)
        BY DEF CreatedInv
      <4>3. ASSUME NEW q \in Runs, Owes(q, "table", T) PROVE Owes(q, "table", T)'
        BY <1>1, <3>3, <4>3, OwesKeeps
      <4>4. QED
        BY <4>1, <4>2, <4>3
    <3>4. QED
      BY <3>1, <3>2, <3>3
  <2>3. QED
    BY <1>1, <2>1, <2>2, StaleTapsStay DEF CreatedInv
<1>2. CASE UNCHANGED vars
  BY <1>2 DEF vars, hostVars, nftVars, ownVars, CreatedInv, Owes
<1>3. QED
  BY <1>1, <1>2 DEF Next

(* When every run was released without an error the host is as it was      *)
(* found: after concurrent runs in a table that was there, and after a run *)
(* that is alone and creates the table.                                    *)
THEOREM RunsRestoreTheHost ==
  ASSUME SharedTable \/ (Alone /\ ~TableFirst)
  PROVE  Spec => []HostIsRestored
<1>1. ASSUME HostInv, CreatedInv PROVE HostIsRestored
  <2>1. SUFFICES ASSUME \A r \in Runs : pc[r] = "released" /\ ~failed[r]
                 PROVE  /\ table = TableFirst /\ ~chain /\ ruleset = {}
                        /\ taps = StaleTaps
    BY DEF HostIsRestored
  <2>2. ~chain
    BY <1>1, <2>1 DEF CreatedInv, Owes
  <2>3. ruleset = {}
    BY <1>1, <2>2 DEF HostInv, ChainKept
  <2>4. table = TableFirst
    <3>1. table => TableFirst
      BY <1>1, <2>1 DEF CreatedInv, Owes
    <3>2. TableFirst => table
      BY <1>1 DEF HostInv, TableKept, SharedTable
    <3>3. QED
      BY <1>1, <3>1, <3>2, NetworkAssumption DEF HostInv, TypeOK
  <2>5. taps \subseteq StaleTaps
    BY <1>1, <2>1 DEF HostInv, RunInv, TapInv, TypeOK
  <2>6. StaleTaps \subseteq taps
    BY <1>1 DEF CreatedInv
  <2>7. QED
    BY <2>2, <2>3, <2>4, <2>5, <2>6
<1>2. Undisturbed
  BY DEF Undisturbed
<1>3. Spec => []HostInv
  BY <1>2, HostInvariant
<1>4. Spec => []CreatedInv
  <2>1. TypeOK /\ CreatedInv /\ [Next]_vars => CreatedInv'
    BY CreatedStep
  <2>2. QED
    BY <2>1, CreatedInit, NetworkTypes, PTL DEF Spec
<1>5. QED
  BY <1>1, <1>3, <1>4, PTL

-----------------------------------------------------------------------------
(* The effect of a step: how the run moves, and what it does to the chain. *)

Building == {"tap", "table", "addTable", "chain", "addChain", "dns", "allow", "block",
             "drop", "hydrate"}

Adds(r) == \E rule \in RulesOf(r) : ruleset' = ruleset \cup {Handled(rule, lastHandle + 1)}
Deletes(r, kinds) ==
  \E y \in ruleset :
    y.rule \in RulesOf(r) /\ y.rule.kind \in kinds /\ ruleset' = ruleset \ {y}

Effect(r) ==
  \/ pc[r] \in Building /\ pc'[r] \in Building \cup {"failed"} /\ ruleset' = ruleset
  \/ pc[r] \in Building /\ pc'[r] \in {"dns", "block", "drop", "hydrate"} /\ Adds(r)
  \/ pc[r] = "hydrate" /\ pc'[r] = "up" /\ ruleset' = ruleset
  \/ pc[r] = "up" /\ pc'[r] \in {"up", "delAllow"} /\ ruleset' = ruleset
  \/ /\ pc[r] \in {"delAllow", "delBlock"}
     /\ pc'[r] \in {"delAllow", "delBlock", "delDrop"}
     /\ ruleset' = ruleset \/ Deletes(r, {"allow", "block"})
  \/ /\ pc[r] = "delDrop" /\ pc'[r] = "delChain"
     /\ ruleset' = ruleset \/ Deletes(r, {"drop"})
  \/ /\ pc[r] \in {"delChain", "delTable"} /\ pc'[r] \in {"delTable", "delTap"}
     /\ ruleset' = ruleset \/ (Alone /\ ruleset' = {})
  \/ pc[r] = "delTap" /\ pc'[r] = "released" /\ ruleset' = ruleset

LEMMA StepEffect ==
  ASSUME Undisturbed, HostInv, NEW r \in Runs, Apply(r) \/ VmSends(r) \/ ReleaseNetwork(r)
  PROVE  Effect(r)
<1>1. /\ pc \in [Runs -> Pcs] /\ i[r] \in Targets
      /\ Alone \/ "table" \notin created[r]
  BY DEF HostInv, TypeOK, TableKept, Undisturbed
<1> USE DEF Goto, Building
<1>2. CASE EnsureTap(r) \/ ListTable(r) \/ AddTable(r) \/ ListChain(r)
  BY <1>1, <1>2 DEF EnsureTap, ListTable, AddTable, ListChain, Effect, hostVars, nftVars
<1>3. CASE AddChain(r) \/ ResolveTarget(r)
  BY <1>1, <1>3 DEF AddChain, ResolveTarget, Effect, hostVars, nftVars
<1>4. ASSUME NEW rule \in RulesOf(r), NEW done, NEW next \in {"dns", "block", "drop", "hydrate"},
             AddRule(r, rule, done, next), pc[r] \in {"allow", "block", "drop"}
      PROVE  Effect(r)
  <2>1. CASE Adds(r) /\ pc'[r] = next
    BY <1>4, <2>1 DEF Effect
  <2>2. CASE ruleset' = ruleset /\ pc'[r] = "failed"
    BY <1>4, <2>2 DEF Effect
  <2>3. QED
    BY <1>1, <1>4, <2>1, <2>2 DEF AddRule, Adds
<1>5. CASE AddAllowRule(r)
  <2>1. Rule(r, "allow", i[r]) \in RulesOf(r)
    BY <1>1, RulesOfRun
  <2>2. QED
    BY <1>4, <1>5, <2>1 DEF AddAllowRule
<1>6. CASE AddBlockRule(r)
  <2>1. Rule(r, "block", i[r]) \in RulesOf(r)
    BY <1>1, RulesOfRun
  <2>2. QED
    BY <1>4, <1>6, <2>1 DEF AddBlockRule
<1>7. CASE AddDefaultDropRule(r)
  <2>1. Rule(r, "drop", 1) \in RulesOf(r)
    BY RulesOfRun
  <2>2. QED
    BY <1>4, <1>7, <2>1 DEF AddDefaultDropRule
<1>8. CASE HydrateRuleHandles(r)
  BY <1>1, <1>8 DEF HydrateRuleHandles, Effect, hostVars, nftVars
<1>9. CASE VmSends(r) \/ StartRelease(r)
  BY <1>1, <1>9 DEF VmSends, StartRelease, Effect, hostVars, nftVars
<1>10. ASSUME NEW rule \in RulesOf(r), NEW j, NEW next, DeleteRule(r, rule, j, next),
              pc[r] \in Deleting
       PROVE  pc'[r] = next /\ (ruleset' = ruleset \/ Deletes(r, {rule.kind}))
  <2>1. pc'[r] = next
    BY <1>1, <1>10 DEF DeleteRule
  <2>2. ruleset' = ruleset \/ \E y \in ruleset : y.rule = rule /\ ruleset' = ruleset \ {y}
    BY <1>10, DeleteRuleEffect
  <2>3. QED
    BY <2>1, <2>2 DEF Deletes
<1>11. CASE DeleteAllowRule(r)
  <2>1. Rule(r, "allow", i[r]) \in RulesOf(r) /\ Rule(r, "allow", i[r]).kind = "allow"
    BY <1>1, RulesOfRun DEF Rule
  <2>2. pc[r] = "delAllow" /\ pc'[r] = "delBlock" /\ (ruleset' = ruleset \/ Deletes(r, {"allow"}))
    BY <1>10, <1>11, <2>1 DEF DeleteAllowRule, Deleting
  <2>3. QED
    BY <2>2 DEF Effect, Deletes
<1>12. CASE DeleteBlockRule(r)
  <2>1. Rule(r, "block", i[r]) \in RulesOf(r) /\ Rule(r, "block", i[r]).kind = "block"
    BY <1>1, RulesOfRun DEF Rule
  <2>2. /\ pc[r] = "delBlock" /\ pc'[r] \in {"delAllow", "delDrop"}
        /\ ruleset' = ruleset \/ Deletes(r, {"block"})
    BY <1>10, <1>12, <2>1 DEF DeleteBlockRule, Deleting
  <2>3. QED
    BY <2>2 DEF Effect, Deletes
<1>13. CASE DeleteDefaultDropRule(r)
  <2>1. Rule(r, "drop", 1) \in RulesOf(r) /\ Rule(r, "drop", 1).kind = "drop"
    BY RulesOfRun DEF Rule
  <2>2. pc[r] = "delDrop" /\ pc'[r] = "delChain" /\ (ruleset' = ruleset \/ Deletes(r, {"drop"}))
    BY <1>10, <1>13, <2>1 DEF DeleteDefaultDropRule, Deleting
  <2>3. QED
    BY <2>2 DEF Effect
<1>14. CASE DeleteChain(r) \/ DeleteTap(r)
  BY <1>1, <1>14 DEF DeleteChain, DeleteTap, Effect, nftVars
<1>15. CASE DeleteTable(r)
  <2>1. pc[r] = "delTable" /\ pc'[r] = "delTap"
    BY <1>1, <1>15 DEF DeleteTable
  <2>2. ruleset' = ruleset \/ ("table" \in created[r] /\ ruleset' = {})
    BY <1>15 DEF DeleteTable, nftVars
  <2>3. QED
    BY <1>1, <2>1, <2>2 DEF Effect
<1>16. QED
  BY <1>2, <1>3, <1>5, <1>6, <1>7, <1>8, <1>9, <1>11, <1>12, <1>13, <1>14, <1>15
  DEF Apply, ReleaseNetwork

(* A step of one run deletes no rule and no tap of another.                *)
THEOREM OnlyOwnAreDeleted ==
  ASSUME Undisturbed
  PROVE  Spec => OnlyOwnDeleted
<1> DEFINE A == \A r \in Runs : pc'[r] # pc[r] =>
                  /\ (Installed \ Installed') \subseteq RulesOf(r)
                  /\ taps \ taps' \subseteq {r}
<1>1. Undisturbed
  OBVIOUS
<1>2. HostInv /\ [Next]_vars => [A]_vars
  <2>1. SUFFICES ASSUME HostInv, NEW r \in Runs, Apply(r) \/ VmSends(r) \/ ReleaseNetwork(r)
                 PROVE  A
    BY DEF Next
  <2>2. Local(r)
    BY <2>1, StepsAreLocal DEF HostInv
  <2>3. (Installed \ Installed') \subseteq RulesOf(r)
    <3>1. Effect(r)
      BY <1>1, <2>1, StepEffect
    <3>2. CASE Alone
      BY <2>1, <3>2, RuleOfItsRun DEF Alone, Installed, HostInv, TypeOK, HandledRules
    <3>3. CASE ~Alone
      BY <3>1, <3>3 DEF Effect, Adds, Deletes, Installed
    <3>4. QED
      BY <3>2, <3>3
  <2>4. taps \ taps' \subseteq {r}
    BY <2>2, <2>1 DEF Local, HostInv, TypeOK
  <2>5. QED
    BY <2>2, <2>3, <2>4 DEF Local
<1>3. Spec => []HostInv
  BY <1>1, HostInvariant
<1>4. QED
  BY <1>2, <1>3, PTL DEF Spec, OnlyOwnDeleted

-----------------------------------------------------------------------------
(* The counters. A run's are 0 until it is up, and a step of another run   *)
(* touches none of them.                                                   *)

CountersOf(r, kind) == [t \in Targets |-> packets[Rule(r, kind, t)]]

(* The counters of a kind add up to the packets of a class.                *)
HitsAre(r, kind, class) ==
  \A h : Sums(CountersOf(r, kind), Targets, h) => h[Targets] = sent[r][class]

CountersInv(r) ==
  /\ pc[r] \in Building => /\ \A rule \in RulesOf(r) : packets[rule] = 0
                           /\ \A class \in Classes : sent[r][class] = 0
  /\ pc[r] = "up" => HitsAre(r, "allow", "allowed") /\ HitsAre(r, "block", "blocked")

HitsInv == \A r \in Runs : CountersInv(r)

LEMMA HitsInit == Init => HitsInv
<1> SUFFICES ASSUME Init, NEW r \in Runs PROVE CountersInv(r)
  BY DEF HitsInv
<1>1. RulesOf(r) \subseteq AllRules
  BY RulesOfRun
<1>2. QED
  BY <1>1 DEF Init, CountersInv

LEMMA FiniteTargets == IsFiniteSet(Targets)
  BY FS_Interval, SomeTarget DEF Targets

LEMMA CountersAre ==
  ASSUME TypeOK, NEW r \in Runs, NEW kind \in {"allow", "block"}
  PROVE  CountersOf(r, kind) \in [Targets -> Nat]
<1>1. \A t \in Targets : Rule(r, kind, t) \in AllRules
  BY RulesOfRun
<1>2. QED
  BY <1>1 DEF TypeOK, CountersOf

(* What a step of a run may do to the counters.                            *)
LEMMA CounterEffect ==
  ASSUME HostInv, NEW r \in Runs, Apply(r) \/ VmSends(r) \/ ReleaseNetwork(r)
  PROVE  \/ VmSends(r)
         \/ /\ sent' = sent
            /\ \/ packets' = packets
               \/ /\ pc[r] # "up"
                  /\ \E rule \in RulesOf(r) : packets' = [packets EXCEPT ![rule] = 0]
<1>1. i[r] \in Targets
  BY DEF HostInv, TypeOK
<1> USE DEF hostVars, ownVars, nftVars, traffic
<1>2. CASE EnsureTap(r) \/ ListTable(r) \/ AddTable(r) \/ ListChain(r) \/ AddChain(r)
  BY <1>2 DEF EnsureTap, ListTable, AddTable, ListChain, AddChain
<1>3. CASE ResolveTarget(r) \/ HydrateRuleHandles(r) \/ StartRelease(r)
  BY <1>3 DEF ResolveTarget, HydrateRuleHandles, StartRelease
<1>4. CASE AddAllowRule(r)
  BY <1>1, <1>4, RulesOfRun DEF AddAllowRule, AddRule
<1>5. CASE AddBlockRule(r)
  BY <1>1, <1>5, RulesOfRun DEF AddBlockRule, AddRule
<1>6. CASE AddDefaultDropRule(r)
  BY <1>6, RulesOfRun DEF AddDefaultDropRule, AddRule
<1>7. ASSUME NEW rule \in RulesOf(r), NEW j, NEW next, DeleteRule(r, rule, j, next),
             pc[r] \in Deleting
      PROVE  /\ sent' = sent
             /\ \/ packets' = packets
                \/ /\ pc[r] # "up"
                   /\ packets' = [packets EXCEPT ![rule] = 0]
  <2>1. HandlesInv(r)
    BY DEF HostInv, RunInv
  <2>2. ASSUME NEW x \in handles[r], x.rule = rule, NEW y \in ruleset, y.handle = x.handle
        PROVE  y.rule = rule
    BY <1>7, <2>1, <2>2 DEF HandlesInv
  <2>3. sent' = sent
    BY <1>7 DEF DeleteRule
  <2>4. \/ packets' = packets
        \/ \E x \in handles[r], y \in ruleset :
             /\ x.rule = rule /\ y.handle = x.handle
             /\ packets' = [packets EXCEPT ![y.rule] = 0]
    BY <1>7 DEF DeleteRule
  <2>5. QED
    BY <1>7, <2>2, <2>3, <2>4 DEF Deleting
<1>8. CASE DeleteAllowRule(r)
  BY <1>1, <1>7, <1>8, RulesOfRun DEF DeleteAllowRule, Deleting
<1>9. CASE DeleteBlockRule(r)
  <2>1. \E j, next : DeleteRule(r, Rule(r, "block", i[r]), j, next)
    BY <1>9 DEF DeleteBlockRule
  <2>2. QED
    BY <1>1, <1>7, <1>9, <2>1, RulesOfRun DEF DeleteBlockRule, Deleting
<1>10. CASE DeleteDefaultDropRule(r)
  BY <1>7, <1>10, RulesOfRun DEF DeleteDefaultDropRule, Deleting
<1>11. CASE DeleteChain(r) \/ DeleteTable(r) \/ DeleteTap(r)
  BY <1>11 DEF DeleteChain, DeleteTable, DeleteTap
<1>12. QED
  BY <1>2, <1>3, <1>4, <1>5, <1>6, <1>8, <1>9, <1>10, <1>11 DEF Apply, ReleaseNetwork

(* A counter that counts is in the sum of its kind, and in no other.       *)
LEMMA CountOne ==
  ASSUME TypeOK, TypeOK', NEW r \in Runs, NEW kind \in {"allow", "block"},
         NEW rule \in RulesOf(r), packets' = [packets EXCEPT ![rule] = @ + 1],
         NEW class \in Classes, HitsAre(r, kind, class),
         sent'[r][class] = IF rule.kind = kind THEN sent[r][class] + 1
                                               ELSE sent[r][class]
  PROVE  HitsAre(r, kind, class)'
<1> DEFINE f == CountersOf(r, kind)
           g == CountersOf(r, kind)'
           y == IF rule.kind = kind THEN rule.target ELSE 0
<1>1. f \in [Targets -> Nat]
  BY CountersAre
<1>2. \A t \in Targets : /\ Rule(r, kind, t) \in AllRules /\ Rule(r, kind, t) \in RulesOf(r)
                         /\ Rule(r, kind, t).kind = kind /\ Rule(r, kind, t).target = t
  BY RulesOfRun DEF Rule
<1>3. g = [t \in Targets |-> packets'[Rule(r, kind, t)]]
  BY DEF CountersOf
<1>4. g \in [Targets -> Nat]
  BY <1>2, <1>3 DEF TypeOK
<1>5. 0 \notin Targets
  BY DEF Targets
<1>6. /\ rule.kind = kind => y \in Targets /\ rule = Rule(r, kind, y)
      /\ rule.kind # kind => y = 0
  BY RulesOfRun
<1>7. \A t \in Targets : g[t] = IF t = y THEN f[t] + 1 ELSE f[t]
  <2> TAKE t \in Targets
  <2>1. packets \in [AllRules -> Nat]
    BY DEF TypeOK
  <2>2. f[t] = packets[Rule(r, kind, t)] /\ g[t] = packets'[Rule(r, kind, t)]
    BY DEF CountersOf
  <2>3. Rule(r, kind, t) = rule <=> t = y
    BY <1>2, <1>5, <1>6
  <2> HIDE DEF f, g, y
  <2>4. QED
    BY <1>2, <2>1, <2>2, <2>3
<1> HIDE DEF f, g, y
<1>8. ASSUME NEW k, Sums(g, Targets, k) PROVE k[Targets] = sent'[r][class]
  <2>1. PICK h : Sums(f, Targets, h)
    BY <1>1, FiniteTargets, SumsExist
  <2>2. h[Targets] = sent[r][class]
    BY <2>1 DEF HitsAre, f
  <2>3. k[Targets] = IF y \in Targets THEN h[Targets] + 1 ELSE h[Targets]
    BY <1>1, <1>4, <1>7, <1>8, <2>1, FiniteTargets, SumsGrow
  <2>4. QED
    BY <1>5, <1>6, <2>2, <2>3
<1>9. QED
  BY <1>8 DEF HitsAre, g

(* The rule that counts a packet: one that allows it, when the plan does;  *)
(* else one that blocks its port, when the plan names that; else the drop. *)
LEMMA FirstMatch ==
  ASSUME HostInv, NEW r \in Runs, pc[r] = "up", NEW p \in Packets,
         NEW x \in Matching(r, p), \A y \in Matching(r, p) : x.handle <= y.handle
  PROVE  /\ x.rule \in RulesOf(r)
         /\ x.rule.kind = "allow" <=> Class(p) = "allowed"
         /\ x.rule.kind = "block" <=> Class(p) = "blocked"
<1>1. RulesOf(r) \subseteq Installed
  BY DEF HostInv, RunInv, Progress, Wanted
<1>2. x \in ruleset /\ x.rule \in RulesOf(r) /\ x.rule.run = r /\ x.rule.kind \in Kinds
      /\ (x.rule.kind # "drop" => x.rule.target \in Targets)
  BY MatchingIsOfRun, RulesOfRun DEF Matching, Matches
<1>3. \A y \in ruleset : y.handle \in Nat
  BY DEF HostInv, TypeOK, HandledRules
<1>4. \A t \in Targets : Plan[t] \in Packets
  BY NetworkAssumption, SomeTarget DEF Targets
<1>5. x.rule.kind = "allow" => AllowedByPlan(p)
  BY MatchingIsOfRun DEF AllowedByPlan
<1>6. x.rule.kind = "block" => \E t \in Targets : p.port = Plan[t].port
  BY <1>2 DEF Matching, Matches
<1>7. ASSUME AllowedByPlan(p) PROVE x.rule.kind = "allow"
  <2>1. PICK t \in Targets : p = Plan[t]
    BY <1>7 DEF AllowedByPlan
  <2>2. PICK a \in ruleset : a.rule = Rule(r, "allow", t)
    BY <1>1, RulesOfRun DEF Installed
  <2>3. a.rule.kind = "allow" /\ a.rule.run = r /\ a \in Matching(r, p)
    <3>1. a.rule.kind = "allow" /\ a.rule.run = r /\ a.rule.target = t
      BY <2>2 DEF Rule
    <3>2. QED
      BY <2>1, <3>1 DEF Matching, Matches
  <2>4. x.rule.kind # "allow" => a.handle < x.handle
    BY <1>2, <2>2, <2>3 DEF HostInv, ChainInv
  <2>5. QED
    BY <1>2, <1>3, <2>2, <2>3, <2>4
<1>8. ASSUME ~AllowedByPlan(p), NEW t \in Targets, p.port = Plan[t].port
      PROVE  x.rule.kind = "block"
  <2>1. p.dst # Plan[t].dst
    BY <1>4, <1>8, NetworkAssumption DEF AllowedByPlan
  <2>2. PICK b \in ruleset : b.rule = Rule(r, "block", t)
    BY <1>1, RulesOfRun DEF Installed
  <2>3. b.rule.kind = "block" /\ b.rule.run = r /\ b \in Matching(r, p)
    <3>1. b.rule.kind = "block" /\ b.rule.run = r /\ b.rule.target = t
      BY <2>2 DEF Rule
    <3>2. QED
      BY <1>8, <2>1, <3>1 DEF Matching, Matches
  <2>4. x.rule.kind = "drop" => b.handle < x.handle
    BY <1>2, <2>2, <2>3 DEF HostInv, ChainInv
  <2>5. QED
    BY <1>2, <1>3, <1>5, <1>8, <2>2, <2>3, <2>4 DEF Kinds
<1>9. /\ Class(p) = "allowed" <=> AllowedByPlan(p)
      /\ Class(p) = "blocked" <=>
           ~AllowedByPlan(p) /\ \E t \in Targets : p.port = Plan[t].port
  BY DEF Class
<1>10. QED
  BY <1>2, <1>5, <1>6, <1>7, <1>8, <1>9

LEMMA VmSendsCounts ==
  ASSUME HostInv, TypeOK', NEW r \in Runs, VmSends(r), CountersInv(r)
  PROVE  CountersInv(r)'
<1>1. pc[r] = "up" /\ pc' = pc /\ TypeOK
  BY DEF VmSends, HostInv
<1>2. PICK p \in Packets :
        /\ \/ \E x \in Matching(r, p) :
                /\ \A y \in Matching(r, p) : x.handle <= y.handle
                /\ packets' = [packets EXCEPT ![x.rule] = @ + 1]
           \/ Matching(r, p) = {} /\ UNCHANGED packets
        /\ sent' = [sent EXCEPT ![r][Class(p)] = @ + 1]
  BY DEF VmSends
<1>3. Matching(r, p) # {}
  <2>1. Rule(r, "drop", 1) \in Installed
    BY <1>1, RulesOfRun DEF HostInv, RunInv, Progress, Wanted
  <2>2. PICK d \in ruleset : d.rule = Rule(r, "drop", 1)
    BY <2>1 DEF Installed
  <2>3. d.rule.kind = "drop" /\ d.rule.run = r
    BY <2>2 DEF Rule
  <2>4. d \in Matching(r, p)
    BY <2>3 DEF Matching, Matches
  <2>5. QED
    BY <2>4
<1>4. PICK x \in Matching(r, p) :
        /\ \A y \in Matching(r, p) : x.handle <= y.handle
        /\ packets' = [packets EXCEPT ![x.rule] = @ + 1]
  BY <1>2, <1>3
<1>5. /\ x.rule \in RulesOf(r)
      /\ x.rule.kind = "allow" <=> Class(p) = "allowed"
      /\ x.rule.kind = "block" <=> Class(p) = "blocked"
  BY <1>1, <1>4, FirstMatch
<1>6. Class(p) \in Classes
  BY DEF Class, Classes
<1>7. \A class \in Classes :
        sent'[r][class] = IF class = Class(p) THEN sent[r][class] + 1 ELSE sent[r][class]
  BY <1>1, <1>2, <1>6 DEF TypeOK
<1>8. /\ sent'[r]["allowed"] = IF x.rule.kind = "allow" THEN sent[r]["allowed"] + 1
                                                        ELSE sent[r]["allowed"]
      /\ sent'[r]["blocked"] = IF x.rule.kind = "block" THEN sent[r]["blocked"] + 1
                                                        ELSE sent[r]["blocked"]
  BY <1>5, <1>7 DEF Classes
<1>9. HitsAre(r, "allow", "allowed")'
  BY <1>1, <1>4, <1>5, <1>8, CountOne DEF CountersInv, Classes
<1>10. HitsAre(r, "block", "blocked")'
  BY <1>1, <1>4, <1>5, <1>8, CountOne DEF CountersInv, Classes
<1>11. QED
  BY <1>1, <1>9, <1>10 DEF CountersInv, Building

(* A run keeps its counters through the steps of the others.               *)
LEMMA OthersKeepCounters ==
  ASSUME HostInv, NEW r \in Runs, Apply(r) \/ VmSends(r) \/ ReleaseNetwork(r),
         NEW q \in Runs, q # r, CountersInv(q)
  PROVE  CountersInv(q)'
<1>1. pc'[q] = pc[q]
  BY StepsAreLocal DEF Local, HostInv
<1>2. \A rule \in RulesOf(q) : rule \in AllRules /\ rule.run = q
  BY RulesOfRun
<1>3. \A rule \in RulesOf(r) : rule.run = r
  BY RulesOfRun
<1>4. packets \in [AllRules -> Nat] /\ sent \in [Runs -> [Classes -> Nat]]
  BY DEF HostInv, TypeOK
<1>5. sent'[q] = sent[q] /\ \A rule \in RulesOf(q) : packets'[rule] = packets[rule]
  <2>1. CASE VmSends(r)
    <3>1. \A p \in Packets : \A x \in Matching(r, p) : x.rule.run = r
      BY DEF Matching, Matches
    <3>2. PICK p \in Packets :
            /\ \/ \E x \in Matching(r, p) : packets' = [packets EXCEPT ![x.rule] = @ + 1]
               \/ packets' = packets
            /\ sent' = [sent EXCEPT ![r][Class(p)] = @ + 1]
      BY <2>1 DEF VmSends
    <3>3. sent'[q] = sent[q]
      BY <1>4, <3>2
    <3>4. \A rule \in RulesOf(q) : packets'[rule] = packets[rule]
      BY <1>2, <1>4, <3>1, <3>2
    <3>5. QED
      BY <3>3, <3>4
  <2>2. CASE ~VmSends(r)
    BY <1>2, <1>3, <1>4, <2>2, CounterEffect
  <2>3. QED
    BY <2>1, <2>2
<1>6. \A t \in Targets : Rule(q, "allow", t) \in RulesOf(q) /\ Rule(q, "block", t) \in RulesOf(q)
  BY RulesOfRun
<1>7. /\ CountersOf(q, "allow")' = CountersOf(q, "allow")
      /\ CountersOf(q, "block")' = CountersOf(q, "block")
  BY <1>5, <1>6 DEF CountersOf
<1>8. /\ HitsAre(q, "allow", "allowed") => HitsAre(q, "allow", "allowed")'
      /\ HitsAre(q, "block", "blocked") => HitsAre(q, "block", "blocked")'
  BY <1>5, <1>7 DEF HitsAre
<1>9. QED
  BY <1>1, <1>5, <1>8 DEF CountersInv

LEMMA HitsStep ==
  ASSUME Undisturbed, HostInv, HitsInv, [Next]_vars
  PROVE  HitsInv'
<1>1. TypeOK'
  BY TypesStep DEF HostInv
<1>2. ASSUME NEW r \in Runs, Apply(r) \/ VmSends(r) \/ ReleaseNetwork(r)
      PROVE  CountersInv(r)'
  <2>1. CountersInv(r)
    BY DEF HitsInv
  <2>2. CASE VmSends(r)
    BY <1>1, <2>1, <2>2, VmSendsCounts
  <2>3. CASE ~VmSends(r)
    <3>1. /\ sent' = sent
          /\ \/ packets' = packets
             \/ /\ pc[r] # "up"
                /\ \E rule \in RulesOf(r) : packets' = [packets EXCEPT ![rule] = 0]
      BY <1>2, <2>3, CounterEffect
    <3>2. /\ pc'[r] \in Building => pc[r] \in Building
          /\ pc'[r] = "up" => pc[r] = "hydrate" \/ (pc[r] = "up" /\ packets' = packets)
      BY <1>2, <3>1, StepEffect DEF Effect, Building
    <3>3. packets \in [AllRules -> Nat] /\ RulesOf(r) \subseteq AllRules
      BY RulesOfRun DEF HostInv, TypeOK
    <3>4. CASE pc[r] \in Building
      <4>1. /\ \A rule \in RulesOf(r) : packets'[rule] = 0
            /\ \A class \in Classes : sent'[r][class] = 0
        BY <2>1, <3>1, <3>3, <3>4 DEF CountersInv
      <4>2. ASSUME NEW kind \in {"allow", "block"}, NEW class \in {"allowed", "blocked"}
            PROVE  HitsAre(r, kind, class)'
        <5> DEFINE g == CountersOf(r, kind)'
        <5>1. \A t \in Targets : Rule(r, kind, t) \in RulesOf(r)
          BY RulesOfRun
        <5>2. g = [t \in Targets |-> packets'[Rule(r, kind, t)]]
          BY DEF CountersOf
        <5>3. g \in [Targets -> Nat] /\ \A t \in Targets : g[t] = 0
          BY <4>1, <5>1, <5>2
        <5> HIDE DEF g
        <5>4. \A h : Sums(g, Targets, h) => h[Targets] = 0
          BY <5>3, FiniteTargets, SumsAre
        <5>5. QED
          BY <4>1, <5>4 DEF HitsAre, g, Classes
      <4>3. QED
        BY <4>1, <4>2 DEF CountersInv
    <3>5. CASE pc[r] \notin Building
      <4>1. pc'[r] = "up" => pc[r] = "up" /\ packets' = packets
        BY <3>2, <3>5 DEF Building
      <4>2. packets' = packets => /\ CountersOf(r, "allow")' = CountersOf(r, "allow")
                                  /\ CountersOf(r, "block")' = CountersOf(r, "block")
        BY DEF CountersOf
      <4>3. QED
        BY <2>1, <3>1, <3>2, <3>5, <4>1, <4>2 DEF CountersInv, HitsAre
    <3>6. QED
      BY <3>4, <3>5
  <2>4. QED
    BY <2>2, <2>3
<1>3. ASSUME NEW r \in Runs, Apply(r) \/ VmSends(r) \/ ReleaseNetwork(r)
      PROVE  HitsInv'
  BY <1>2, <1>3, OthersKeepCounters DEF HitsInv
<1>4. CASE UNCHANGED vars
  <2>1. pc' = pc /\ packets' = packets /\ sent' = sent
    BY <1>4 DEF vars, hostVars
  <2>2. ASSUME NEW r \in Runs PROVE CountersInv(r)'
    <3>1. CountersInv(r) /\ CountersOf(r, "allow")' = CountersOf(r, "allow")
          /\ CountersOf(r, "block")' = CountersOf(r, "block")
      BY <2>1 DEF CountersOf, HitsInv
    <3>2. QED
      BY <2>1, <3>1 DEF CountersInv, HitsAre
  <2>3. QED
    BY <2>2 DEF HitsInv
<1>5. QED
  BY <1>3, <1>4 DEF Next

(* The hits of a plan tell its traffic: every packet that the plan allows  *)
(* is in one allowedHits, every other packet to a port of it in one        *)
(* blockedHits, although other runs have their counters in the same chain. *)
THEOREM HitsTellTheTraffic ==
  ASSUME Undisturbed
  PROVE  Spec => []HitsTellTraffic
<1>1. ASSUME TypeOK, HitsInv PROVE HitsTellTraffic
  <2> SUFFICES ASSUME NEW r \in Runs, pc[r] = "up"
               PROVE  LET hits == SampleRuleHits(r) IN
                      /\ MapThenSumSet(LAMBDA t : hits[t].allowedHits, Targets) = sent[r]["allowed"]
                      /\ MapThenSumSet(LAMBDA t : hits[t].blockedHits, Targets) = sent[r]["blocked"]
    BY DEF HitsTellTraffic
  <2> DEFINE hits == SampleRuleHits(r)
  <2>1. \A t \in Targets : /\ hits[t].allowedHits = CountersOf(r, "allow")[t]
                           /\ hits[t].blockedHits = CountersOf(r, "block")[t]
    BY DEF SampleRuleHits, CountersOf
  <2> HIDE DEF hits
  <2>2. /\ \E h : Sums(CountersOf(r, "allow"), Targets, h)
        /\ \E h : Sums(CountersOf(r, "block"), Targets, h)
    BY <1>1, CountersAre, FiniteTargets, SumsExist
  <2>3. \A s \in SUBSET Targets : s # {} => Picked(s) \in Targets
    BY DEF Picked
  <2>4. MapThenSumSet(LAMBDA t : hits[t].allowedHits, Targets) = sent[r]["allowed"]
    <3> DEFINE Is(h) == h = [s \in SUBSET Targets |->
                               IF s = {} THEN 0
                               ELSE hits[Picked(s)].allowedHits + h[s \ {Picked(s)}]]
    <3>1. \A h : Is(h) <=> Sums(CountersOf(r, "allow"), Targets, h)
      BY <2>1, <2>3 DEF Sums
    <3>2. MapThenSumSet(LAMBDA t : hits[t].allowedHits, Targets) = (CHOOSE h : Is(h))[Targets]
      BY DEF MapThenSumSet, MapThenFoldSet, Picked
    <3> HIDE DEF Is
    <3>3. Is(CHOOSE h : Is(h))
      BY <2>2, <3>1
    <3>4. QED
      BY <1>1, <3>1, <3>2, <3>3 DEF HitsInv, CountersInv, HitsAre
  <2>5. MapThenSumSet(LAMBDA t : hits[t].blockedHits, Targets) = sent[r]["blocked"]
    <3> DEFINE Is(h) == h = [s \in SUBSET Targets |->
                               IF s = {} THEN 0
                               ELSE hits[Picked(s)].blockedHits + h[s \ {Picked(s)}]]
    <3>1. \A h : Is(h) <=> Sums(CountersOf(r, "block"), Targets, h)
      BY <2>1, <2>3 DEF Sums
    <3>2. MapThenSumSet(LAMBDA t : hits[t].blockedHits, Targets) = (CHOOSE h : Is(h))[Targets]
      BY DEF MapThenSumSet, MapThenFoldSet, Picked
    <3> HIDE DEF Is
    <3>3. Is(CHOOSE h : Is(h))
      BY <2>2, <3>1
    <3>4. QED
      BY <1>1, <3>1, <3>2, <3>3 DEF HitsInv, CountersInv, HitsAre
  <2>6. QED
    BY <2>4, <2>5 DEF hits
<1>2. Undisturbed
  OBVIOUS
<1>3. Spec => []HostInv
  BY <1>2, HostInvariant
<1>4. Spec => []HitsInv
  <2>1. HostInv /\ HitsInv /\ [Next]_vars => HitsInv'
    BY <1>2, HitsStep
  <2>2. QED
    BY <1>3, <2>1, HitsInit, PTL DEF Spec
<1>5. HostInv => TypeOK
  BY DEF HostInv
<1>6. QED
  BY <1>1, <1>3, <1>4, <1>5, PTL

-----------------------------------------------------------------------------
(* The contract of the hosts' runs.                                        *)

Planned == {p \in Packets : AllowedByPlan(p)}

LEMMA SamePasses ==
  ASSUME NEW q \in Runs, ChainOf(q)' = ChainOf(q)
  PROVE  \A p \in Packets : Accepts(q, p)' = Accepts(q, p)
<1>1. ASSUME NEW p \in Packets PROVE Matching(q, p)' = Matching(q, p)
  <2>1. Matching(q, p) = {x \in ChainOf(q) : Matches(x.rule, q, p)}
    BY DEF Matching, Matches, ChainOf
  <2>2. Matching(q, p)' = {x \in ChainOf(q)' : Matches(x.rule, q, p)}
    BY DEF Matching, Matches, ChainOf
  <2>3. QED
    BY <2>1, <2>2
<1>2. QED
  BY <1>1 DEF Accepts

(* A rule added at the end lets no more pass.                              *)
LEMMA AddNarrows ==
  ASSUME HostInv, NEW r \in Runs, Adds(r), NEW p \in Packets, Accepts(r, p)'
  PROVE  Accepts(r, p)
<1>1. PICK rule \in RulesOf(r) : ruleset' = ruleset \cup {Handled(rule, lastHandle + 1)}
  BY DEF Adds
<1> DEFINE new == Handled(rule, lastHandle + 1)
<1>2. new.handle = lastHandle + 1
  BY DEF Handled
<1>3. \A y \in ruleset : y.handle < new.handle
  BY <1>2 DEF HostInv, ChainInv, TypeOK, HandledRules
<1> HIDE DEF new
<1>4. Matching(r, p) \subseteq Matching(r, p)' /\ Matching(r, p)' \subseteq Matching(r, p) \cup {new}
  BY <1>1 DEF Matching, Matches, new
<1>5. CASE Matching(r, p)' = {}
  BY <1>4, <1>5 DEF Accepts
<1>6. ASSUME NEW x \in Matching(r, p)', x.rule.kind = "allow",
             \A y \in Matching(r, p)' : y.handle < x.handle => y.rule.kind = "allow"
      PROVE  Accepts(r, p)
  <2>1. CASE x \in Matching(r, p)
    BY <1>4, <1>6, <2>1 DEF Accepts
  <2>2. CASE x = new
    <3>1. \A y \in Matching(r, p) : y.rule.kind = "allow"
      BY <1>3, <1>4, <1>6, <2>2 DEF Matching
    <3>2. QED
      BY <3>1 DEF Accepts
  <2>3. QED
    BY <1>4, <1>6, <2>1, <2>2
<1>7. QED
  BY <1>5, <1>6 DEF Accepts

(* A rule but the final drop is withdrawn, and no more may pass.           *)
LEMMA DeleteNarrows ==
  ASSUME HostInv, NEW r \in Runs, Deletes(r, {"allow", "block"}), NEW p \in Packets,
         Rule(r, "drop", 1) \in Installed, Accepts(r, p)'
  PROVE  Accepts(r, p)
<1>1. PICK z \in ruleset : /\ z.rule \in RulesOf(r) /\ z.rule.kind \in {"allow", "block"}
                           /\ ruleset' = ruleset \ {z}
  BY DEF Deletes
<1>2. PICK d \in ruleset : d.rule = Rule(r, "drop", 1)
  BY DEF Installed
<1>3. d.rule.kind = "drop" /\ d.rule.run = r
  BY <1>2 DEF Rule
<1>4. Matching(r, p)' = Matching(r, p) \ {z}
  BY <1>1 DEF Matching, Matches
<1>5. d \in Matching(r, p)'
  BY <1>1, <1>3, <1>4 DEF Matching, Matches
<1>6. PICK x \in Matching(r, p)' :
        /\ x.rule.kind = "allow"
        /\ \A y \in Matching(r, p)' : y.handle < x.handle => y.rule.kind = "allow"
  BY <1>5 DEF Accepts
<1>7. x \in ruleset /\ x.rule.run = r /\ z.rule.run = r
  BY <1>1, <1>4, RulesOfRun DEF Matching, Matches
<1>8. z.handle < x.handle => z.rule.kind = "allow"
  <2>1. z.rule.kind # "allow" => x.handle < z.handle
    BY <1>1, <1>6, <1>7 DEF HostInv, ChainInv
  <2>2. x.handle \in Nat /\ z.handle \in Nat
    BY <1>1, <1>7 DEF HostInv, TypeOK, HandledRules
  <2>3. QED
    BY <2>1, <2>2
<1>9. \A y \in Matching(r, p) : y.handle < x.handle => y.rule.kind = "allow"
  BY <1>4, <1>6, <1>8
<1>10. QED
  BY <1>4, <1>6, <1>9 DEF Accepts

(* Without the final drop no less passes.                                  *)
LEMMA DropWidens ==
  ASSUME NEW r \in Runs, Deletes(r, {"drop"}), NEW p \in Packets, Accepts(r, p)
  PROVE  Accepts(r, p)'
<1>1. PICK z \in ruleset : z.rule.kind = "drop" /\ ruleset' = ruleset \ {z}
  BY DEF Deletes
<1>2. Matching(r, p)' = Matching(r, p) \ {z}
  BY <1>1 DEF Matching, Matches
<1>3. QED
  BY <1>1, <1>2 DEF Accepts

LEMMA HostContractInit ==
  ASSUME Init
  PROVE  Contract!Init
<1>1. StageOf = [r \in Runs |-> "building"]
  BY DEF Init, StageOf
<1>2. \A r \in Runs, p \in Packets : Accepts(r, p)
  BY DEF Init, Accepts, Matching
<1>3. Passes = [r \in Runs |-> Packets]
  BY <1>2 DEF Passes
<1>4. QED
  BY <1>1, <1>3 DEF Contract!Init

(* A step of run r is a move of r and of no other run.                     *)
LEMMA MovesOnlyItself ==
  ASSUME HostInv, NEW r \in Runs, Local(r), Effect(r)
  PROVE  Contract!Moves(r, StageOf[r], StageOf'[r])
<1>1. \A q \in Runs : q # r => ChainOf(q)' = ChainOf(q)
  <2>1. \A rule \in RulesOf(r) : rule.run = r
    BY RulesOfRun
  <2>2. \A rule : Handled(rule, lastHandle + 1).rule = rule
    BY DEF Handled
  <2>3. CASE ruleset' = ruleset
    BY <2>3 DEF ChainOf
  <2>4. CASE Adds(r)
    BY <2>1, <2>2, <2>4 DEF Adds, ChainOf
  <2>5. CASE \E kinds : Deletes(r, kinds)
    BY <2>1, <2>5 DEF Deletes, ChainOf
  <2>6. CASE Alone
    BY <2>6 DEF Alone
  <2>7. QED
    BY <2>3, <2>4, <2>5, <2>6 DEF Effect
<1>2. \A q \in Runs : q # r => StageOf'[q] = StageOf[q] /\ Passes'[q] = Passes[q]
  <2>1. ASSUME NEW q \in Runs, q # r PROVE StageOf'[q] = StageOf[q]
    BY <2>1 DEF Local, StageOf
  <2>2. ASSUME NEW q \in Runs, q # r PROVE Passes'[q] = Passes[q]
    BY <1>1, <2>2, SamePasses DEF Passes
  <2>3. QED
    BY <2>1, <2>2
<1>3. DOMAIN StageOf = Runs /\ DOMAIN Passes = Runs
      /\ DOMAIN StageOf' = Runs /\ DOMAIN Passes' = Runs
  BY DEF StageOf, Passes
<1>4. StageOf' = [StageOf EXCEPT ![r] = StageOf'[r]]
  <2>1. StageOf = [q \in Runs |-> StageOf[q]] /\ StageOf' = [q \in Runs |-> StageOf'[q]]
    BY DEF StageOf
  <2>2. QED
    BY <1>2, <2>1
<1>5. Passes' = [Passes EXCEPT ![r] = Passes'[r]]
  <2>1. Passes = [q \in Runs |-> Passes[q]] /\ Passes' = [q \in Runs |-> Passes'[q]]
    BY DEF Passes
  <2>2. QED
    BY <1>2, <2>1
<1>6. QED
  BY <1>4, <1>5 DEF Contract!Moves

LEMMA HostContractStep ==
  ASSUME Undisturbed, HostInv, NeverCuts', NEW r \in Runs, Apply(r) \/ VmSends(r) \/ ReleaseNetwork(r)
  PROVE  Contract!Next \/ UNCHANGED Contract!vars
<1>1. Local(r) /\ Effect(r)
  BY StepsAreLocal, StepEffect DEF HostInv
<1>2. Contract!Moves(r, StageOf[r], StageOf'[r])
  BY <1>1, MovesOnlyItself
<1>3. /\ StageOf' = [StageOf EXCEPT ![r] = StageOf'[r]]
      /\ Passes' = [Passes EXCEPT ![r] = Passes'[r]]
  BY <1>2 DEF Contract!Moves
<1>4. /\ StageOf = [q \in Runs |-> StageOf[q]]
      /\ Passes = [q \in Runs |-> Passes[q]]
      /\ Passes[r] = {p \in Packets : Accepts(r, p)}
      /\ Passes'[r] = {p \in Packets : Accepts(r, p)'}
  BY DEF StageOf, Passes
<1>5. /\ pc[r] \in Building => StageOf[r] = "building"
      /\ pc[r] = "up" => StageOf[r] = "guarding"
      /\ pc[r] \in {"delAllow", "delBlock", "delDrop"} => StageOf[r] = "closing"
      /\ pc[r] \in {"delChain", "delTable", "delTap"} => StageOf[r] = "open"
  BY DEF StageOf, Building
<1>6. /\ pc'[r] \in Building => StageOf'[r] = "building"
      /\ pc'[r] = "up" => StageOf'[r] = "guarding"
      /\ pc'[r] \in {"delAllow", "delBlock", "delDrop"} => StageOf'[r] = "closing"
      /\ pc'[r] \in {"delChain", "delTable", "delTap"} => StageOf'[r] = "open"
      /\ pc'[r] \in {"released", "failed"} => StageOf'[r] = "over"
  BY DEF StageOf, Building
<1>7. ruleset' = ruleset => Passes' = Passes
  <2>1. ruleset' = ruleset => ChainOf(r)' = ChainOf(r)
    BY DEF ChainOf
  <2>2. ruleset' = ruleset => Passes'[r] = Passes[r]
    BY <1>4, <2>1, SamePasses
  <2>3. QED
    BY <1>3, <1>4, <2>2
<1>8. CASE pc[r] \in Building /\ pc'[r] \in Building /\ ruleset' = ruleset
  <2>1. StageOf' = StageOf
    BY <1>3, <1>4, <1>5, <1>6, <1>8
  <2>2. QED
    BY <1>7, <1>8, <2>1 DEF Contract!vars
<1>9. CASE pc[r] \in Building /\ pc'[r] = "failed" /\ ruleset' = ruleset
  BY <1>2, <1>5, <1>6, <1>7, <1>9 DEF Contract!Next, Contract!End
<1>10. CASE pc[r] \in Building /\ pc'[r] \in {"dns", "block", "drop", "hydrate"} /\ Adds(r)
  <2>1. Passes'[r] \subseteq Passes[r]
    BY <1>4, <1>10, AddNarrows
  <2>2. \A p \in Packets : AllowedByPlan(p)' = AllowedByPlan(p)
    BY DEF AllowedByPlan
  <2>3. \A p \in Packets : AllowedByPlan(p) => Accepts(r, p)'
    <3>1. \A p \in Packets : AllowedByPlan(p)' => Accepts(r, p)'
      BY <1>10 DEF NeverCuts
    <3>2. QED
      BY <2>2, <3>1
  <2>4. Planned \subseteq Passes'[r]
    BY <1>4, <2>3 DEF Planned
  <2>5. StageOf[r] = "building" /\ StageOf'[r] = "building"
    BY <1>5, <1>6, <1>10 DEF Building
  <2>6. Contract!Build(r)
    BY <1>2, <2>1, <2>4, <2>5 DEF Contract!Build, Planned
  <2>7. QED
    BY <2>6 DEF Contract!Next
<1>11. CASE pc[r] = "hydrate" /\ pc'[r] = "up" /\ ruleset' = ruleset
  <2>1. Passes[r] = Planned
    BY <1>4, <1>11, CompleteIsPlan DEF Planned
  <2>2. Contract!Guard(r)
    BY <1>2, <1>5, <1>6, <1>7, <1>11, <2>1 DEF Contract!Guard, Building, Planned
  <2>3. QED
    BY <2>2 DEF Contract!Next
<1>12. CASE pc[r] = "up" /\ pc'[r] = "up" /\ ruleset' = ruleset
  <2>1. StageOf' = StageOf
    BY <1>3, <1>4, <1>5, <1>6, <1>12
  <2>2. QED
    BY <1>7, <1>12, <2>1 DEF Contract!vars
<1>13. CASE pc[r] = "up" /\ pc'[r] = "delAllow" /\ ruleset' = ruleset
  BY <1>2, <1>5, <1>6, <1>7, <1>13 DEF Contract!Next, Contract!Close
<1>14. CASE /\ pc[r] \in {"delAllow", "delBlock"}
            /\ pc'[r] \in {"delAllow", "delBlock", "delDrop"}
            /\ ruleset' = ruleset \/ Deletes(r, {"allow", "block"})
  <2>1. Rule(r, "drop", 1) \in Installed
    <3>1. Rule(r, "drop", 1) \in RulesOf(r) /\ Rule(r, "drop", 1).kind = "drop"
      BY RulesOfRun DEF Rule
    <3>2. QED
      BY <1>14, <3>1 DEF HostInv, RunInv, Progress, Wanted
  <2>2. Passes'[r] \subseteq Passes[r]
    BY <1>4, <1>7, <1>14, <2>1, DeleteNarrows
  <2>3. QED
    BY <1>2, <1>5, <1>6, <1>14, <2>2 DEF Contract!Next, Contract!Withdraw
<1>15. CASE /\ pc[r] = "delDrop" /\ pc'[r] = "delChain"
            /\ ruleset' = ruleset \/ Deletes(r, {"drop"})
  <2>1. Passes[r] \subseteq Passes'[r] /\ Passes'[r] \subseteq Packets
    BY <1>4, <1>7, <1>15, DropWidens
  <2>2. QED
    BY <1>2, <1>5, <1>6, <1>15, <2>1 DEF Contract!Next, Contract!Unguard
<1>16. CASE /\ pc[r] \in {"delChain", "delTable"} /\ pc'[r] \in {"delTable", "delTap"}
            /\ ruleset' = {}
  <2>1. \A p \in Packets : Accepts(r, p)'
    BY <1>16 DEF Accepts, Matching
  <2>2. Passes[r] \subseteq Passes'[r] /\ Passes'[r] \subseteq Packets
    BY <1>4, <2>1
  <2>3. QED
    BY <1>2, <1>5, <1>6, <1>16, <2>2 DEF Contract!Next, Contract!Unguard
<1>17. CASE /\ pc[r] \in {"delChain", "delTable"} /\ pc'[r] \in {"delTable", "delTap"}
            /\ ruleset' = ruleset
  <2>1. StageOf' = StageOf
    BY <1>3, <1>4, <1>5, <1>6, <1>17
  <2>2. QED
    BY <1>7, <1>17, <2>1 DEF Contract!vars
<1>18. CASE pc[r] = "delTap" /\ pc'[r] = "released" /\ ruleset' = ruleset
  BY <1>2, <1>5, <1>6, <1>7, <1>18 DEF Contract!Next, Contract!End
<1>19. QED
  BY <1>1, <1>8, <1>9, <1>10, <1>11, <1>12, <1>13, <1>14, <1>15, <1>17, <1>18, <1>16
  DEF Effect

(* The commands of every run implement the contract: a filter is built     *)
(* without cutting a packet of its plan, is the plan while the VM runs, is *)
(* withdrawn fail-closed up to the final drop, and is changed by no other  *)
(* run.                                                                    *)
THEOREM HostKeepsTheContract ==
  ASSUME Undisturbed
  PROVE  Spec => ImplementsContract
<1>1. Undisturbed
  OBVIOUS
<1>2. Init => Contract!Init
  BY HostContractInit
<1>3. Spec => []HostInv
  BY <1>1, HostInvariant
<1>4. ASSUME HostInv, NeverCuts', [Next]_vars
      PROVE  [Contract!Next]_Contract!vars
  <2>1. CASE UNCHANGED vars
    <3>1. StageOf' = StageOf
      BY <2>1 DEF vars, StageOf
    <3>2. \A q \in Runs, p \in Packets : Accepts(q, p)' = Accepts(q, p)
      BY <2>1 DEF vars, hostVars, nftVars, Accepts, Matching
    <3>3. Passes' = Passes
      BY <3>2 DEF Passes
    <3>4. QED
      BY <3>1, <3>3 DEF Contract!vars
  <2>2. QED
    BY <1>1, <1>4, <2>1, HostContractStep DEF Next
<1>5. QED
  BY <1>2, <1>3, <1>4, BuildingNeverCuts, PTL DEF Spec, ImplementsContract, Contract!Spec
=============================================================================
