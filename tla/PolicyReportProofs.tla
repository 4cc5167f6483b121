-------------------------- MODULE PolicyReportProofs --------------------------
(***************************************************************************)
(* What holds of every policy: the two copies of the network rules agree,  *)
(* a valid policy compiles or is one of the two kinds that are named, the  *)
(* VM gets the memory that was asked for, a path is normalised to what it  *)
(* resolves to, no mount of a valid policy leads out of the allowlist, and *)
(* the audits of a report say of the run what the policy asked for. For    *)
(* what is folded over a path or a stream, the induction is over its       *)
(* prefixes (DataInduction).                                               *)
(***************************************************************************)
EXTENDS PolicyReport, DataInduction, SequenceTheorems, TLAPS

(* A rule has no error exactly when the compiler builds it.                *)
LEMMA RulesAgree ==
  ASSUME NEW rule
  PROVE  RuleErrors(rule) = {} <=> Buildable(rule)
<1> DEFINE unknown == Normalized(rule.protocol) \notin {"tcp", "udp"}
           outside == rule.port \notin 1..65535
           one == Has(rule.host) # Has(rule.cidr)
           valid == Has(rule.cidr) => Normalized(rule.cidr) \in ValidCidrs
<1>1. RuleErrors(rule) =
        ErrorIf(unknown, "protocol") \cup ErrorIf(outside, "port")
          \cup ErrorIf(~one, "host") \cup ErrorIf(~one \/ ~valid, "cidr")
  BY DEF RuleErrors
<1>2. Buildable(rule) <=> ~unknown /\ ~outside /\ one /\ valid
  BY DEF Buildable
<1> HIDE DEF unknown, outside, one, valid
<1>3. QED
  BY <1>1, <1>2 DEF ErrorIf

(* The same of a whole network section.                                    *)
LEMMA NetworksAgree ==
  ASSUME NEW network, network.mode \in {"none", "allowlist"}
  PROVE  NetworkErrors(network) = {} <=> NetworkBuilds(network)
<1>1. CASE network.mode = "none" \/ network.egress = <<>>
  BY <1>1 DEF NetworkErrors, NetworkBuilds, ErrorIf
<1>2. CASE ~(network.mode = "none" \/ network.egress = <<>>)
  <2>1. NetworkErrors(network) = {} <=>
          \A n \in DOMAIN network.egress : RuleErrors(network.egress[n]) = {}
    BY <1>2 DEF NetworkErrors
  <2>2. QED
    BY <1>2, <2>1, RulesAgree DEF NetworkBuilds
<1>3. QED
  BY <1>1, <1>2

-----------------------------------------------------------------------------

(* The inputs stay, and a bundle is the bundle of a valid policy that      *)
(* compiles.                                                               *)
Inputs == policy \in Policies
BundleOfValid ==
  /\ Valid => PolicyErrors(policy, allow) = {}
  /\ Compiled => bundle = Bundle(policy) /\ CompileErrors(policy) = {}

PolicyInv == Inputs /\ BundleOfValid

LEMMA PolicyInit == Init => PolicyInv
  BY DEF Init, PolicyInv, Inputs, BundleOfValid, Compiled, Valid

LEMMA PolicyStep == PolicyInv /\ [Next]_vars => PolicyInv'
<1> SUFFICES ASSUME PolicyInv, [Next]_vars
             PROVE  PolicyInv'
  OBVIOUS
<1>1. Inputs'
  BY DEF PolicyInv, Inputs, Next, vars, inputs, Load, Validate, Compile, EmitMounts,
     EmitNetwork, EmitSamples, EmitHits, Report
<1>2. ASSUME Load \/ Validate PROVE BundleOfValid'
  BY <1>2 DEF Load, Validate, BundleOfValid, Compiled, Valid, inputs
<1>3. ASSUME Compile PROVE BundleOfValid'
  BY <1>3 DEF Compile, PolicyInv, BundleOfValid, Compiled, Valid, inputs
<1>4. ASSUME EmitMounts \/ EmitNetwork \/ EmitSamples \/ EmitHits \/ Report
      PROVE  BundleOfValid'
  <2>1. UNCHANGED <<policy, allow, bundle>> /\ Compiled
    BY <1>4 DEF EmitMounts, EmitNetwork, EmitSamples, EmitHits, Report, Compiled, Valid, inputs
  <2>2. QED
    BY <2>1 DEF PolicyInv, BundleOfValid, Compiled, Valid
<1>5. ASSUME UNCHANGED vars PROVE BundleOfValid'
  BY <1>5 DEF vars, PolicyInv, BundleOfValid, Compiled, Valid
<1>6. QED
  BY <1>1, <1>2, <1>3, <1>4, <1>5 DEF Next, PolicyInv

LEMMA PolicyInvariant == Spec => []PolicyInv
  BY PolicyInit, PolicyStep, PTL DEF Spec

(* Validator and compiler agree on every network section.                  *)
THEOREM NetworkRulesAgree == Spec => []ValidatorAndCompilerAgree
<1>1. PolicyInv => ValidatorAndCompilerAgree
  BY NetworksAgree, PoliciesAssumption DEF PolicyInv, Inputs, ValidatorAndCompilerAgree
<1>2. QED
  BY <1>1, PolicyInvariant, PTL

-----------------------------------------------------------------------------

(* A valid policy that the compiler refuses has one of the two faults of   *)
(* the memory text.                                                        *)
LEMMA ValidMemory ==
  ASSUME NEW p \in Policies, NEW a, PolicyErrors(p, a) = {}
  PROVE  /\ p.bad = {}
         /\ p.memory.unit \in {"Ki", "Mi", "Gi"}
         /\ NetworkErrors(p.network) = {}
<1>1. p.bad = {} /\ MemoryErrors(p.memory) = {} /\ NetworkErrors(p.network) = {}
  BY DEF PolicyErrors
<1>2. QED
  BY <1>1 DEF MemoryErrors, ErrorIf

LEMMA ValidCompiles ==
  ASSUME NEW p \in Policies, NEW a, PolicyErrors(p, a) = {}
  PROVE  /\ CompileErrors(p) # {} =>
              CompileErrors(p) = {"SR-CMP-001"}
                /\ (p.memory.padded \/ p.memory.number >= U64)
         /\ CompileErrors(p) = {} => BundleComplete(Bundle(p), p.network.mode)
<1>1. NetworkBuilds(p.network)
  <2>1. p.network.mode \in {"none", "allowlist"}
    BY PoliciesAssumption
  <2>2. QED
    BY <2>1, ValidMemory, NetworksAgree
<1>2. CompileErrors(p) = IF ~MemoryMaps(p.memory) THEN {"SR-CMP-001"} ELSE {}
  BY <1>1, ValidMemory DEF CompileErrors
<1>3. ~MemoryMaps(p.memory) => p.memory.padded \/ p.memory.number >= U64
  BY ValidMemory, PoliciesAssumption, CompileAssumption DEF MemoryMaps
<1>4. NetworkPlan(p.network) = <<>> <=> p.network.mode = "none"
  <2>1. CASE p.network.mode = "none"
    BY <2>1 DEF NetworkPlan
  <2>2. CASE p.network.mode = "allowlist"
    <3>1. p.network.egress \in Seq(Rules) /\ p.network.egress # <<>>
      BY <1>1, <2>2, PoliciesAssumption DEF NetworkBuilds
    <3>2. 1 \in DOMAIN p.network.egress
      BY <3>1
    <3>3. NetworkPlan(p.network) =
            [n \in DOMAIN p.network.egress |-> BuildRule(p.network.egress[n])]
      BY <2>2 DEF NetworkPlan
    <3>4. 1 \in DOMAIN NetworkPlan(p.network)
      BY <3>2, <3>3
    <3>5. DOMAIN << >> = {}
      OBVIOUS
    <3>6. QED
      BY <2>2, <3>4, <3>5
  <2>3. QED
    BY <2>1, <2>2, PoliciesAssumption
<1>5. BundleComplete(Bundle(p), p.network.mode)
  <2>1. Bundle(p).rules = NetworkPlan(p.network)
        /\ Bundle(p).events = RequiredEvents(p.network.mode)
    BY DEF Bundle
  <2>2. QED
    BY <1>4, <2>1 DEF BundleComplete
<1>6. QED
  BY <1>2, <1>3, <1>5

RefusedInv == PolicyInv /\ ValidPolicyCompiles

LEMMA RefusedStep == RefusedInv /\ [Next]_vars => RefusedInv'
<1> SUFFICES ASSUME RefusedInv, [Next]_vars
             PROVE  ValidPolicyCompiles'
  BY PolicyStep DEF RefusedInv
<1>1. CASE Load \/ Validate
  BY <1>1 DEF Load, Validate, ValidPolicyCompiles, inputs
<1>2. CASE Compile
  <2>1. PolicyErrors(policy, allow) = {} /\ policy \in Policies
    BY <1>2 DEF Compile, RefusedInv, PolicyInv, Inputs, BundleOfValid, Valid
  <2>2. policy' = policy /\ allow' = allow
    BY <1>2 DEF Compile, inputs
  <2>3. phase' = "refused" =>
          errors' = {"SR-CMP-001"} /\ (policy.memory.padded \/ policy.memory.number >= U64)
    BY <1>2, <2>1, ValidCompiles DEF Compile
  <2>4. QED
    BY <2>2, <2>3 DEF ValidPolicyCompiles
<1>3. CASE EmitMounts \/ EmitNetwork \/ EmitSamples \/ EmitHits \/ Report
  <2>1. phase' # "refused"
    BY <1>3 DEF EmitMounts, EmitNetwork, EmitSamples, EmitHits, Report
  <2>2. QED
    BY <2>1 DEF ValidPolicyCompiles
<1>4. CASE UNCHANGED vars
  BY <1>4 DEF vars, RefusedInv, ValidPolicyCompiles
<1>5. QED
  BY <1>1, <1>2, <1>3, <1>4 DEF Next

(* A valid policy that does not compile has one of these two faults.       *)
THEOREM ValidPoliciesCompile == Spec => []ValidPolicyCompiles
<1>1. Init => RefusedInv
  BY PolicyInit DEF RefusedInv, ValidPolicyCompiles, Init
<1>2. RefusedInv => ValidPolicyCompiles
  BY DEF RefusedInv
<1>3. QED
  BY <1>1, <1>2, RefusedStep, PTL DEF Spec

-----------------------------------------------------------------------------

(* The unit conversion, where the product fits a u64.                      *)
LEMMA MibOfKib ==
  ASSUME NEW m, m.number \in Nat, m.unit \in {"Ki", "Mi", "Gi"},
         NEW kib \in Nat,
         m.unit = "Ki" => kib = m.number,
         m.unit = "Mi" => kib = m.number * 1024,
         m.unit = "Gi" => kib = m.number * (1024 * 1024),
         kib < 1024 * U64
  PROVE  MemoryToMib(m) * 1024 <= kib /\ kib < (MemoryToMib(m) + 1) * 1024
<1>1. CASE m.unit = "Ki"
  <2>1. MemoryToMib(m) = m.number \div 1024
    BY <1>1 DEF MemoryToMib
  <2>2. QED
    BY <1>1, <2>1
<1>2. CASE m.unit = "Mi"
  <2>1. MemoryToMib(m) = m.number
    BY <1>2 DEF MemoryToMib
  <2>2. QED
    BY <1>2, <2>1
<1>3. CASE m.unit = "Gi"
  <2>1. MemoryToMib(m) = (m.number * 1024) % U64
    BY <1>3 DEF MemoryToMib
  <2>2. m.number * 1024 < U64 /\ m.number * 1024 \in Nat
    BY <1>3, CompileAssumption
  <2>3. (m.number * 1024) % U64 = m.number * 1024
    BY <2>2, CompileAssumption, SMTT(30)
  <2>4. QED
    BY <1>3, <2>1, <2>3
<1>4. QED
  BY <1>1, <1>2, <1>3

(* The VM's memory is the policy's, unless the product does not fit.       *)
THEOREM MemoryIsKept == Spec => []MemoryIsExact
<1>1. PolicyInv => MemoryIsExact
  <2> SUFFICES ASSUME PolicyInv, Compiled
               PROVE  MemoryIsExact
    BY DEF MemoryIsExact
  <2> DEFINE m == policy.memory
             kib == m.number * (CASE m.unit = "Ki" -> 1
                                  [] m.unit = "Mi" -> 1024
                                  [] m.unit = "Gi" -> 1024 * 1024)
  <2>1. PolicyErrors(policy, allow) = {} /\ policy \in Policies
    BY DEF PolicyInv, BundleOfValid, Compiled, Valid, Inputs
  <2>2. m.unit \in {"Ki", "Mi", "Gi"} /\ m.number \in Nat
    BY <2>1, ValidMemory, PoliciesAssumption
  <2>3. /\ m.unit = "Ki" => kib = m.number
        /\ m.unit = "Mi" => kib = m.number * 1024
        /\ m.unit = "Gi" => kib = m.number * (1024 * 1024)
        /\ kib \in Nat
    BY <2>2
  <2>4. bundle.mib = MemoryToMib(m)
    BY DEF PolicyInv, BundleOfValid, Bundle
  <2>5. kib < 1024 * U64 => bundle.mib * 1024 <= kib /\ kib < (bundle.mib + 1) * 1024
    <3> HIDE DEF kib, m
    <3> QED
      BY <2>2, <2>3, <2>4, MibOfKib
  <2>6. QED
    BY <2>5 DEF MemoryIsExact
<1>2. QED
  BY <1>1, PolicyInvariant, PTL

-----------------------------------------------------------------------------

(* The components of a path one by one: the names after a place less the   *)
(* ".." there, and those of the first k that survive the first k.          *)
IsName(c) == c \notin {".", ".."}
Balance(comps, i, k) == Names(comps, i + 1, k) - Parents(comps, i + 1, k)
Delta(c) == IF IsName(c) THEN 1 ELSE IF c = ".." THEN -1 ELSE 0
Kept(comps, k) ==
  {i \in 1..k :
     /\ IsName(comps[i])
     /\ \A j \in (i + 1)..k : Parents(comps, i + 1, j) <= Names(comps, i + 1, j)}

CountIn(S, i, k) == Cardinality({j \in i..k : j \in S})

LEMMA CountNext ==
  ASSUME NEW i \in Nat, NEW k \in Nat, i <= k + 1, NEW S
  PROVE  /\ CountIn(S, i, k) \in Nat
         /\ CountIn(S, i, k + 1) = CountIn(S, i, k) + (IF k + 1 \in S THEN 1 ELSE 0)
<1> DEFINE A == {j \in i..k : j \in S}
           B == {j \in i..(k + 1) : j \in S}
<1>1. IsFiniteSet(A)
  <2>1. IsFiniteSet(i..k) /\ A \subseteq i..k
    BY FS_Interval
  <2>2. QED
    BY <2>1, FS_Subset
<1>2. k + 1 \notin A /\ B = IF k + 1 \in S THEN A \cup {k + 1} ELSE A
  OBVIOUS
<1> HIDE DEF A, B
<1>4. Cardinality(A) \in Nat /\ Cardinality({}) = 0
  BY <1>1, FS_CardinalityType, FS_EmptySet
<1>5. Cardinality(A \cup {k + 1}) = Cardinality(A) + 1
  BY <1>1, <1>2, FS_AddElement
<1>6. Cardinality(B) = Cardinality(A) + (IF k + 1 \in S THEN 1 ELSE 0)
  BY <1>2, <1>4, <1>5
<1>7. QED
  BY <1>4, <1>6 DEF A, B, CountIn

LEMMA BalanceNext ==
  ASSUME NEW comps, NEW i \in Nat, NEW k \in Nat, i <= k
  PROVE  /\ Balance(comps, i, k) \in Int
         /\ Balance(comps, i, k + 1) = Balance(comps, i, k) + Delta(comps[k + 1])
         /\ Balance(comps, i, k) >= 0 <=> Parents(comps, i + 1, k) <= Names(comps, i + 1, k)
<1> DEFINE N == {j \in Nat : IsName(comps[j])}
           P == {j \in Nat : comps[j] = ".."}
<1>1. ASSUME NEW a \in Nat, NEW b \in Nat
      PROVE  /\ Names(comps, a, b) = CountIn(N, a, b)
             /\ Parents(comps, a, b) = CountIn(P, a, b)
  <2>1. {j \in a..b : comps[j] \notin {".", ".."}} = {j \in a..b : j \in N}
    BY DEF IsName
  <2>2. {j \in a..b : comps[j] = ".."} = {j \in a..b : j \in P}
    OBVIOUS
  <2>3. QED
    BY <2>1, <2>2 DEF Names, Parents, CountIn
<1>2. ASSUME NEW a \in Nat, a <= k
      PROVE  /\ Names(comps, a + 1, k) \in Nat /\ Parents(comps, a + 1, k) \in Nat
             /\ Names(comps, a + 1, k + 1) = Names(comps, a + 1, k)
                  + (IF IsName(comps[k + 1]) THEN 1 ELSE 0)
             /\ Parents(comps, a + 1, k + 1) = Parents(comps, a + 1, k)
                  + (IF comps[k + 1] = ".." THEN 1 ELSE 0)
  <2>1. a + 1 \in Nat /\ k + 1 \in Nat /\ a + 1 <= k + 1
    BY <1>2
  <2>2. k + 1 \in N <=> IsName(comps[k + 1])
    OBVIOUS
  <2>3. k + 1 \in P <=> comps[k + 1] = ".."
    OBVIOUS
  <2> HIDE DEF N, P
  <2>4. /\ CountIn(N, a + 1, k) \in Nat
        /\ CountIn(N, a + 1, k + 1) = CountIn(N, a + 1, k) + (IF k + 1 \in N THEN 1 ELSE 0)
    BY <2>1, CountNext
  <2>5. /\ CountIn(P, a + 1, k) \in Nat
        /\ CountIn(P, a + 1, k + 1) = CountIn(P, a + 1, k) + (IF k + 1 \in P THEN 1 ELSE 0)
    BY <2>1, CountNext
  <2>6. /\ Names(comps, a + 1, k) = CountIn(N, a + 1, k)
        /\ Names(comps, a + 1, k + 1) = CountIn(N, a + 1, k + 1)
        /\ Parents(comps, a + 1, k) = CountIn(P, a + 1, k)
        /\ Parents(comps, a + 1, k + 1) = CountIn(P, a + 1, k + 1)
    BY <1>1, <2>1
  <2>7. QED
    BY <2>2, <2>3, <2>4, <2>5, <2>6
<1> HIDE DEF N, P
<1>3. ~(IsName(comps[k + 1]) /\ comps[k + 1] = "..")
  BY DEF IsName
<1>4. /\ Names(comps, i + 1, k) \in Nat /\ Parents(comps, i + 1, k) \in Nat
  BY <1>2
<1>5. Balance(comps, i, k + 1) = Balance(comps, i, k) + Delta(comps[k + 1])
  BY <1>2, <1>3, <1>4 DEF Balance, Delta
<1>6. QED
  BY <1>4, <1>5 DEF Balance

LEMMA BalanceOfNone ==
  ASSUME NEW comps, NEW k \in Nat
  PROVE  Balance(comps, k, k) = 0
<1>1. (k + 1)..k = {}
  OBVIOUS
<1>2. Names(comps, k + 1, k) = 0 /\ Parents(comps, k + 1, k) = 0
  BY <1>1, FS_EmptySet DEF Names, Parents
<1>3. QED
  BY <1>2 DEF Balance

(* What the next component keeps of what was kept, and adds.               *)
LEMMA KeptNext ==
  ASSUME NEW comps, NEW k \in Nat
  PROVE  /\ Kept(comps, k + 1) =
              {i \in Kept(comps, k) : Balance(comps, i, k) + Delta(comps[k + 1]) >= 0}
                \cup (IF IsName(comps[k + 1]) THEN {k + 1} ELSE {})
         /\ \A i \in Kept(comps, k) : Balance(comps, i, k) >= 0
<1>1. ASSUME NEW i \in Kept(comps, k)
      PROVE  Balance(comps, i, k) >= 0
  <2>1. i \in Nat /\ i <= k
    BY DEF Kept
  <2>2. CASE i = k
    <3>1. Balance(comps, k, k) = 0
      BY BalanceOfNone
    <3>2. QED
      BY <2>2, <3>1
  <2>3. CASE i # k
    <3>1. k \in (i + 1)..k
      BY <2>1, <2>3
    <3>2. QED
      BY <2>1, <3>1, BalanceNext DEF Kept
  <2>4. QED
    BY <2>2, <2>3
<1>2. ASSUME NEW i \in 1..k
      PROVE  i \in Kept(comps, k + 1) <=>
               i \in Kept(comps, k) /\ Balance(comps, i, k) + Delta(comps[k + 1]) >= 0
  <2>1. (i + 1)..(k + 1) = ((i + 1)..k) \cup {k + 1}
    OBVIOUS
  <2>2. Balance(comps, i, k) + Delta(comps[k + 1]) >= 0 <=>
          Parents(comps, i + 1, k + 1) <= Names(comps, i + 1, k + 1)
    <3>1. i \in Nat /\ i <= k /\ i <= k + 1 /\ k + 1 \in Nat
      OBVIOUS
    <3>2. Balance(comps, i, k + 1) = Balance(comps, i, k) + Delta(comps[k + 1])
      BY <3>1, BalanceNext
    <3>3. Balance(comps, i, k + 1) >= 0 <=>
            Parents(comps, i + 1, k + 1) <= Names(comps, i + 1, k + 1)
      BY <3>1, BalanceNext
    <3>4. QED
      BY <3>2, <3>3
  <2>3. QED
    BY <2>1, <2>2 DEF Kept
<1>3. k + 1 \in Kept(comps, k + 1) <=> IsName(comps[k + 1])
  <2>1. (k + 1 + 1)..(k + 1) = {}
    OBVIOUS
  <2>2. QED
    BY <2>1 DEF Kept
<1>4. Kept(comps, k) \subseteq 1..k /\ Kept(comps, k + 1) \subseteq 1..(k + 1)
      /\ 1..(k + 1) = (1..k) \cup {k + 1} /\ k + 1 \notin 1..k
  BY DEF Kept
<1>5. QED
  BY <1>1, <1>2, <1>3, <1>4

(* The components f are the kept ones in their order: q lists their        *)
(* places.                                                                 *)
Lists(comps, k, f, m, q) ==
  /\ m \in Nat /\ q \in [1..m -> 1..k]
  /\ f = [n \in 1..m |-> comps[q[n]]]
  /\ \A l, n \in 1..m : l < n => q[l] < q[n]
  /\ {q[n] : n \in 1..m} = Kept(comps, k)
  /\ \A n \in 1..m : Balance(comps, q[n], k) = m - n
Listed(comps, k, f) == \E m, q : Lists(comps, k, f, m, q)

LEMMA PushKeepsListed ==
  ASSUME NEW comps \in Seq(STRING), NEW k \in Nat, k + 1 \in 1..Len(comps),
         NEW f, Listed(comps, k, f)
  PROVE  Listed(comps, k + 1, PushComponent(f, comps[k + 1]))
<1>1. PICK m, q : Lists(comps, k, f, m, q)
  BY DEF Listed
<1> DEFINE c == comps[k + 1]
           g == PushComponent(f, c)
<1>2. /\ m \in Nat /\ q \in [1..m -> 1..k] /\ f = [n \in 1..m |-> comps[q[n]]]
      /\ \A l, n \in 1..m : l < n => q[l] < q[n]
      /\ {q[n] : n \in 1..m} = Kept(comps, k)
      /\ \A n \in 1..m : Balance(comps, q[n], k) = m - n
  BY <1>1 DEF Lists
<1>3. \A n \in 1..m : q[n] \in Nat /\ q[n] <= k /\ comps[q[n]] \in STRING
  BY <1>2
<1>4. f \in Seq(STRING) /\ Len(f) = m
  BY <1>2, <1>3
<1>5. \A n \in 1..m : Balance(comps, q[n], k + 1) = m - n + Delta(c)
  BY <1>2, <1>3, BalanceNext
<1>6. Kept(comps, k + 1) = {i \in Kept(comps, k) : Balance(comps, i, k) + Delta(c) >= 0}
                             \cup (IF IsName(c) THEN {k + 1} ELSE {})
  BY KeptNext
<1>7. c \in STRING
  OBVIOUS
<1> HIDE DEF c
<1>8. CASE c = "."
  <2>1. g = f /\ Delta(c) = 0 /\ ~IsName(c)
    BY <1>8 DEF PushComponent, Delta, IsName
  <2>2. Kept(comps, k + 1) = Kept(comps, k)
    <3>1. \A i \in Kept(comps, k) : Balance(comps, i, k) + Delta(c) >= 0
      BY <1>2, <2>1
    <3>2. QED
      BY <1>6, <2>1, <3>1
  <2>3. q \in [1..m -> 1..(k + 1)]
    BY <1>2
  <2>4. \A n \in 1..m : Balance(comps, q[n], k + 1) = m - n
    BY <1>2, <1>5, <2>1
  <2>5. Lists(comps, k + 1, g, m, q)
    BY <1>2, <2>1, <2>2, <2>3, <2>4 DEF Lists
  <2>6. QED
    BY <2>5 DEF Listed, c
<1>9. CASE c = ".."
  <2>1. Delta(c) = -1 /\ ~IsName(c)
    BY <1>9 DEF Delta, IsName
  <2>2. CASE m = 0
    <3>1. Kept(comps, k) = {}
      BY <1>2, <2>2
    <3>2. Kept(comps, k + 1) = {}
      BY <1>6, <2>1, <3>1
    <3>3. f = <<>> /\ g = f
      BY <1>4, <1>9, <2>2 DEF PushComponent
    <3>4. q \in [1..m -> 1..(k + 1)]
      BY <1>2
    <3>5. Lists(comps, k + 1, g, m, q)
      BY <1>2, <2>2, <3>2, <3>3, <3>4 DEF Lists
    <3>6. QED
      BY <3>5 DEF Listed, c
  <2>3. CASE m # 0
    <3> DEFINE r == [n \in 1..(m - 1) |-> q[n]]
    <3>1. m - 1 \in Nat /\ 1..(m - 1) \subseteq 1..m /\ r \in [1..(m - 1) -> 1..(k + 1)]
      BY <1>2, <2>3
    <3>2. \A n \in 1..(m - 1) : n \in 1..m /\ r[n] = q[n]
      BY <3>1
    <3>3. g = [n \in 1..(m - 1) |-> comps[r[n]]]
      <4>1. f # <<>>
        BY <1>4, <2>3
      <4>2. g = SubSeq(f, 1, m - 1)
        BY <1>4, <1>9, <4>1 DEF PushComponent, Front
      <4>3. SubSeq(f, 1, m - 1) = [n \in 1..(m - 1) |-> f[n]]
        BY <1>4, <3>1
      <4>4. \A n \in 1..(m - 1) : f[n] = comps[r[n]]
        BY <1>2, <3>2
      <4>5. QED
        BY <4>2, <4>3, <4>4
    <3>4. \A l, n \in 1..(m - 1) : l < n => r[l] < r[n]
      BY <1>2, <3>2
    <3>5. {r[n] : n \in 1..(m - 1)} = Kept(comps, k + 1)
      <4>1. ASSUME NEW n \in 1..m
            PROVE  Balance(comps, q[n], k) + Delta(c) >= 0 <=> n \in 1..(m - 1)
        BY <1>2, <2>1
      <4>2. Kept(comps, k + 1) = {i \in Kept(comps, k) : Balance(comps, i, k) + Delta(c) >= 0}
        BY <1>6, <2>1
      <4> HIDE DEF r
      <4>3. QED
        BY <1>2, <3>1, <3>2, <4>1, <4>2
    <3>6. \A n \in 1..(m - 1) : Balance(comps, r[n], k + 1) = (m - 1) - n
      <4> TAKE n \in 1..(m - 1)
      <4>1. Balance(comps, q[n], k + 1) = m - n + (-1)
        BY <1>5, <2>1, <3>2
      <4>2. QED
        BY <1>2, <3>2, <4>1
    <3> HIDE DEF r
    <3>7. Lists(comps, k + 1, g, m - 1, r)
      BY <3>1, <3>3, <3>4, <3>5, <3>6 DEF Lists
    <3>8. QED
      BY <3>7 DEF Listed, c
  <2>4. QED
    BY <2>2, <2>3
<1>10. CASE c \notin {".", ".."}
  <2>1. g = Append(f, c) /\ Delta(c) = 1 /\ IsName(c)
    BY <1>10 DEF PushComponent, Delta, IsName
  <2> DEFINE r == [n \in 1..(m + 1) |-> IF n = m + 1 THEN k + 1 ELSE q[n]]
  <2>2. m + 1 \in Nat /\ r \in [1..(m + 1) -> 1..(k + 1)]
    <3>1. \A n \in 1..(m + 1) : n # m + 1 => n \in 1..m
      BY <1>2
    <3>2. QED
      BY <1>2, <3>1
  <2>3. r[m + 1] = k + 1 /\ \A n \in 1..m : r[n] = q[n]
    BY <1>2
  <2>4. 1..(m + 1) = (1..m) \cup {m + 1} /\ m + 1 \notin 1..m
    BY <1>2
  <2> HIDE DEF r
  <2>5. g = [n \in 1..(m + 1) |-> comps[r[n]]]
    <3>1. /\ g \in Seq(STRING) /\ Len(g) = m + 1 /\ g[m + 1] = c
          /\ \A n \in 1..m : g[n] = f[n]
      BY <1>4, <1>7, <2>1, AppendProperties
    <3>2. g = [n \in 1..(m + 1) |-> g[n]]
      BY <3>1, LenProperties
    <3>3. \A n \in 1..(m + 1) : g[n] = comps[r[n]]
      BY <1>2, <2>3, <2>4, <3>1 DEF c
    <3>4. QED
      BY <3>2, <3>3
  <2>6. \A l, n \in 1..(m + 1) : l < n => r[l] < r[n]
    <3> TAKE l, n \in 1..(m + 1)
    <3> HAVE l < n
    <3>1. l \in 1..m
      BY <1>2
    <3>2. CASE n = m + 1
      BY <1>3, <2>3, <3>1, <3>2
    <3>3. CASE n \in 1..m
      BY <1>2, <2>3, <3>1, <3>3
    <3>4. QED
      BY <2>4, <3>2, <3>3
  <2>7. {r[n] : n \in 1..(m + 1)} = Kept(comps, k + 1)
    <3>1. \A i \in Kept(comps, k) : Balance(comps, i, k) + Delta(c) >= 0
      <4>1. \A n \in 1..m : m - n + 1 >= 0
        BY <1>2
      <4>2. QED
        BY <1>2, <2>1, <4>1
    <3>2. Kept(comps, k + 1) = Kept(comps, k) \cup {k + 1}
      BY <1>6, <2>1, <3>1
    <3>3. QED
      BY <1>2, <2>3, <2>4, <3>2
  <2>8. \A n \in 1..(m + 1) : Balance(comps, r[n], k + 1) = (m + 1) - n
    <3>1. ASSUME NEW n \in 1..m PROVE Balance(comps, r[n], k + 1) = (m + 1) - n
      BY <1>2, <1>5, <2>1, <2>3
    <3>2. Balance(comps, k + 1, k + 1) = 0
      BY BalanceOfNone
    <3>3. Balance(comps, r[m + 1], k + 1) = (m + 1) - (m + 1)
      BY <1>2, <2>3, <3>2
    <3>4. QED
      BY <2>4, <3>1, <3>3
  <2>9. Lists(comps, k + 1, g, m + 1, r)
    BY <2>2, <2>5, <2>6, <2>7, <2>8 DEF Lists
  <2>10. QED
    BY <2>9 DEF Listed, c
<1>11. QED
  BY <1>8, <1>9, <1>10

(* Where the places are listed, each has as many places up to it as the    *)
(* list says.                                                              *)
UpTo(q, n) == {q[l] : l \in 1..n}

LEMMA ListedPlaces ==
  ASSUME NEW m \in Nat, NEW k \in Nat, NEW q \in [1..m -> 1..k],
         \A l, n \in 1..m : l < n => q[l] < q[n]
  PROVE  \A n \in 0..m : Cardinality(UpTo(q, n)) = n
<1> TAKE n \in 0..m
<1> DEFINE S == {q[l] : l \in 1..n}
           p == [l \in 1..n |-> q[l]]
<1>1. n \in Nat /\ 1..n \subseteq 1..m
  OBVIOUS
<1>2. p \in [1..n -> S] /\ \A s \in S : \E l \in 1..n : p[l] = s
  OBVIOUS
<1>3. \A a, b \in 1..n : p[a] = p[b] => a = b
  <2> TAKE a, b \in 1..n
  <2>1. a \in Nat /\ b \in Nat /\ a \in 1..m /\ b \in 1..m
    BY <1>1
  <2>2. a < b \/ b < a \/ a = b
    BY <2>1
  <2>3. q[a] \in Nat /\ q[b] \in Nat /\ p[a] = q[a] /\ p[b] = q[b]
    BY <2>1
  <2>4. (a < b => q[a] < q[b]) /\ (b < a => q[b] < q[a])
    BY <2>1
  <2> HIDE DEF p
  <2>5. QED
    BY <2>2, <2>3, <2>4
<1> HIDE DEF p, S
<1>4. DOMAIN p = 1..n
  BY <1>2
<1>5. p \in Bijection(1..n, S)
  BY <1>2, <1>3, <1>4 DEF Bijection, Injection, Surjection, IsInjective
<1>6. ExistsBijection(1..n, S)
  BY <1>5 DEF ExistsBijection
<1>7. Cardinality(S) = n
  BY <1>1, <1>6, FS_CountingElements
<1>8. QED
  BY <1>7 DEF S, UpTo

LEMMA ListedIsResolved ==
  ASSUME NEW comps \in Seq(STRING), NEW f, Listed(comps, Len(comps), f), NEW abs
  PROVE  Resolved(Path(abs, comps)) = Path(abs, f)
<1> DEFINE kept == Survivors(comps)
           place(i) == Cardinality({j \in kept : j <= i})
<1>1. PICK m, q : Lists(comps, Len(comps), f, m, q)
  BY DEF Listed
<1>2. kept = Kept(comps, Len(comps)) /\ Len(comps) \in Nat
  <2>1. DOMAIN comps = 1..Len(comps) /\ Len(comps) \in Nat
    OBVIOUS
  <2>2. QED
    BY <2>1 DEF Survivors, Kept, IsName
<1> HIDE DEF kept
<1>3. /\ m \in Nat /\ q \in [1..m -> 1..Len(comps)]
      /\ f = [n \in 1..m |-> comps[q[n]]]
      /\ \A l, n \in 1..m : l < n => q[l] < q[n]
      /\ kept = {q[n] : n \in 1..m}
  BY <1>1, <1>2 DEF Lists
<1>4. \A n \in 0..m : Cardinality(UpTo(q, n)) = n
  BY <1>2, <1>3, ListedPlaces
<1>5. Cardinality(kept) = m
  <2>1. kept = UpTo(q, m) /\ m \in 0..m
    BY <1>3 DEF UpTo
  <2>2. QED
    BY <1>4, <2>1
<1>6. \A n \in 1..m : place(q[n]) = n
  <2> TAKE n \in 1..m
  <2>1. \A l \in 1..m : q[l] <= q[n] <=> l \in 1..n
    <3> TAKE l \in 1..m
    <3>1. l \in Nat /\ n \in Nat /\ q[l] \in Nat /\ q[n] \in Nat
      BY <1>2, <1>3
    <3>2. l < n => q[l] < q[n]
      BY <1>3
    <3>3. n < l => q[n] < q[l]
      BY <1>3
    <3>4. QED
      BY <3>1, <3>2, <3>3
  <2>2. {j \in kept : j <= q[n]} = UpTo(q, n)
    <3>1. 1..n \subseteq 1..m
      BY <1>3
    <3>2. QED
      BY <1>3, <2>1, <3>1 DEF UpTo
  <2>3. n \in 0..m /\ Cardinality(UpTo(q, n)) = n
    BY <1>3, <1>4
  <2>4. QED
    BY <2>2, <2>3
<1> HIDE DEF place
<1>7. \A n \in 1..m : (CHOOSE i \in kept : place(i) = n) = q[n]
  <2> TAKE n \in 1..m
  <2>1. q[n] \in kept /\ place(q[n]) = n
    BY <1>3, <1>6
  <2>2. \A i \in kept : place(i) = n => i = q[n]
    BY <1>3, <1>6
  <2>3. QED
    BY <2>1, <2>2
<1>8. [n \in 1..Cardinality(kept) |-> comps[CHOOSE i \in kept : place(i) = n]] = f
  <2> DEFINE at(n) == CHOOSE i \in kept : place(i) = n
  <2>1. \A n \in 1..m : comps[at(n)] = comps[q[n]]
    BY <1>7
  <2> HIDE DEF at
  <2>2. [n \in 1..Cardinality(kept) |-> comps[at(n)]] = f
    BY <1>3, <1>5, <2>1
  <2>3. QED
    BY <2>2 DEF at
<1>9. Resolved(Path(abs, comps)) =
        Path(abs, [n \in 1..Cardinality(kept) |-> comps[CHOOSE i \in kept : place(i) = n]])
  BY DEF Resolved, Path, kept, place
<1>10. QED
  BY <1>8, <1>9

LEMMA PushIsPath ==
  ASSUME NEW f \in Seq(STRING), NEW c \in STRING
  PROVE  PushComponent(f, c) \in Seq(STRING)
<1>1. f # <<>> => SubSeq(f, 1, Len(f) - 1) \in Seq(STRING)
  BY EmptySeq, SubSeqProperties
<1>2. Append(f, c) \in Seq(STRING)
  BY AppendProperties
<1>3. QED
  BY <1>1, <1>2 DEF PushComponent, Front

(* The values that normalize_path_lexically goes through.                  *)
LEMMA PushSteps ==
  ASSUME NEW comps \in Seq(STRING)
  PROVE  \E v : /\ v[0] = <<>>
                /\ v[Len(comps)] = FoldLeft(PushComponent, <<>>, comps)
                /\ \A k \in 1..Len(comps) : v[k] = PushComponent(v[k - 1], comps[k])
<1> DEFINE n == Len(comps)
           V == Seq(STRING)
           g == [p \in (1..n) \X V |-> PushComponent(p[2], comps[p[1]])]
           Is(h) == h = [s \in SUBSET (1..n) |->
                           IF s = {} THEN <<>>
                           ELSE PushComponent(h[s \ {Max(s)}], comps[Max(s)])]
           f == CHOOSE h : Is(h)
<1>1. n \in Nat /\ DOMAIN comps = 1..n
  BY LenProperties
<1>2. FoldLeft(PushComponent, <<>>, comps) = f[1..n]
  BY <1>1 DEF FoldLeft, MapThenFoldSet
<1>3. \E h : Is(h)
  <2>1. g \in [(1..n) \X V -> V] /\ \A i \in 1..n, v \in V : g[<<i, v>>] = PushComponent(v, comps[i])
    BY PushIsPath, ElementOfSeq
  <2>2. <<>> \in V
    BY EmptySeq
  <2> HIDE DEF g, V
  <2>3. PICK h \in [SUBSET (1..n) -> V] : Folds(n, <<>>, g, h)
    BY <1>1, <2>1, <2>2, FoldExists
  <2>4. \A s \in SUBSET (1..n) : s # {} => Max(s) \in 1..n /\ h[s \ {Max(s)}] \in V
    BY <1>1, <2>3, Greatest
  <2> HIDE DEF n
  <2>5. \A s \in SUBSET (1..n) :
          (IF s = {} THEN <<>> ELSE g[<<Max(s), h[s \ {Max(s)}]>>])
            = IF s = {} THEN <<>> ELSE PushComponent(h[s \ {Max(s)}], comps[Max(s)])
    BY <2>1, <2>4
  <2>6. Is(h)
    BY <2>3, <2>5 DEF Folds
  <2>7. QED
    BY <2>6
<1>4. Is(f)
  BY <1>3
<1> HIDE DEF f
<1>5. f[{}] = <<>>
  BY <1>4
<1>6. \A k \in 1..n : f[1..k] = PushComponent(f[1..(k - 1)], comps[k])
  <2> TAKE k \in 1..n
  <2>1. /\ 1..k \in SUBSET (1..n) /\ 1..k # {}
        /\ Max(1..k) = k /\ (1..k) \ {k} = 1..(k - 1)
    BY <1>1, PrefixSets
  <2> DEFINE s == 1..k
  <2>2. f[s] = PushComponent(f[s \ {Max(s)}], comps[Max(s)])
    <3> HIDE DEF s
    <3>1. s \in SUBSET (1..n) /\ s # {}
      BY <2>1 DEF s
    <3>2. QED
      BY <1>4, <3>1
  <2>3. QED
    BY <2>1, <2>2
<1> DEFINE v == [k \in 0..n |-> f[1..k]]
<1>7. v[0] = f[{}] /\ v[n] = f[1..n]
  <2>1. 1..0 = {} /\ 0 \in 0..n /\ n \in 0..n
    BY <1>1
  <2>2. QED
    BY <2>1
<1>8. \A k \in 1..n : v[k] = f[1..k] /\ v[k - 1] = f[1..(k - 1)]
  <2>1. \A k \in 1..n : k \in 0..n /\ k - 1 \in 0..n
    BY <1>1
  <2>2. QED
    BY <2>1
<1> HIDE DEF v, Is
<1>9. /\ v[0] = <<>> /\ v[n] = FoldLeft(PushComponent, <<>>, comps)
      /\ \A k \in 1..n : v[k] = PushComponent(v[k - 1], comps[k])
  BY <1>2, <1>5, <1>6, <1>7, <1>8
<1>10. QED
  BY <1>9

LEMMA NormalizedIsListed ==
  ASSUME NEW comps \in Seq(STRING)
  PROVE  Listed(comps, Len(comps), FoldLeft(PushComponent, <<>>, comps))
<1> DEFINE n == Len(comps)
<1>1. n \in Nat
  BY LenProperties
<1>2. PICK v : /\ v[0] = <<>> /\ v[n] = FoldLeft(PushComponent, <<>>, comps)
               /\ \A k \in 1..n : v[k] = PushComponent(v[k - 1], comps[k])
  BY PushSteps
<1> DEFINE T == {k \in Nat : k \in 0..n => Listed(comps, k, v[k])}
<1>7. 0 \in T
  <2>1. 1..0 = {} /\ Kept(comps, 0) = {}
    BY DEF Kept
  <2> DEFINE q == [i \in {} |-> 0]
  <2>2. q \in [1..0 -> 1..0] /\ <<>> = [i \in 1..0 |-> comps[q[i]]] /\ {q[i] : i \in 1..0} = {}
    BY <2>1
  <2>3. Lists(comps, 0, <<>>, 0, q)
    BY <2>1, <2>2 DEF Lists
  <2> HIDE DEF q
  <2>4. Listed(comps, 0, v[0])
    BY <1>2, <2>1, <2>3 DEF Listed
  <2>5. QED
    BY <2>4
<1>8. ASSUME NEW k \in Nat, k \in T
      PROVE  k + 1 \in T
  <2>1. CASE k + 1 \in 0..n
    <3>1. k + 1 \in 1..n /\ k \in 0..n /\ (k + 1) - 1 = k
      BY <1>1, <2>1
    <3>2. v[k + 1] = PushComponent(v[k], comps[k + 1])
      BY <1>2, <3>1
    <3>3. Listed(comps, k, v[k])
      BY <1>8, <3>1
    <3>4. Listed(comps, k + 1, v[k + 1])
      BY <3>1, <3>2, <3>3, PushKeepsListed
    <3>5. QED
      BY <3>4
  <2>2. QED
    BY <2>1
<1> HIDE DEF T
<1>9. n \in T
  BY <1>1, <1>7, <1>8, SetInduction
<1>10. QED
  BY <1>1, <1>2, <1>9 DEF T

LEMMA NormalIsResolved ==
  ASSUME NEW p \in Paths(STRING)
  PROVE  NormalizeLexically(p) = Resolved(p)
<1>1. p = Path(p.abs, p.comps) /\ p.comps \in Seq(STRING)
  BY DEF Paths, Path
<1>2. Resolved(p) = Path(p.abs, FoldLeft(PushComponent, <<>>, p.comps))
  BY <1>1, NormalizedIsListed, ListedIsResolved
<1>3. QED
  BY <1>2 DEF NormalizeLexically

(* The values that Path::components goes through.                          *)
LEMMA NamedSteps ==
  ASSUME NEW S, NEW comps \in Seq(S)
  PROVE  \E v : /\ v[0] = <<>>
                /\ v[Len(comps)] = FoldLeft(Named, <<>>, comps)
                /\ \A k \in 1..Len(comps) : v[k] = Named(v[k - 1], comps[k])
<1> DEFINE n == Len(comps)
           V == Seq(S)
           g == [e \in (1..n) \X V |-> Named(e[2], comps[e[1]])]
           Is(h) == h = [s \in SUBSET (1..n) |->
                           IF s = {} THEN <<>> ELSE Named(h[s \ {Max(s)}], comps[Max(s)])]
           f == CHOOSE h : Is(h)
<1>1. comps \in V /\ n \in Nat /\ DOMAIN comps = 1..n
  BY LenProperties
<1>2. FoldLeft(Named, <<>>, comps) = f[1..n]
  BY <1>1 DEF FoldLeft, MapThenFoldSet
<1>3. \A i \in 1..n : comps[i] \in S
  BY ElementOfSeq
<1>5. \E h : Is(h)
  <2>1. \A v \in V, i \in 1..n : Named(v, comps[i]) \in V
    <3> TAKE v \in V, i \in 1..n
    <3>1. comps[i] \in S /\ v \in Seq(S)
      BY <1>3
    <3> HIDE DEF n
    <3>2. Append(v, comps[i]) \in Seq(S)
      BY <3>1, AppendProperties
    <3>3. QED
      BY <3>1, <3>2 DEF Named
  <2>2. g \in [(1..n) \X V -> V] /\ \A i \in 1..n, v \in V : g[<<i, v>>] = Named(v, comps[i])
    BY <2>1
  <2>3. <<>> \in V
    BY EmptySeq
  <2> HIDE DEF g, V
  <2>4. PICK h \in [SUBSET (1..n) -> V] : Folds(n, <<>>, g, h)
    BY <1>1, <2>2, <2>3, FoldExists
  <2>5. \A s \in SUBSET (1..n) : s # {} => Max(s) \in 1..n /\ h[s \ {Max(s)}] \in V
    BY <1>1, <2>4, Greatest
  <2> HIDE DEF n
  <2>6. \A s \in SUBSET (1..n) :
          (IF s = {} THEN <<>> ELSE g[<<Max(s), h[s \ {Max(s)}]>>])
            = IF s = {} THEN <<>> ELSE Named(h[s \ {Max(s)}], comps[Max(s)])
    BY <2>2, <2>5
  <2>7. Is(h)
    BY <2>4, <2>6 DEF Folds
  <2>8. QED
    BY <2>7
<1>6. Is(f)
  BY <1>5
<1> HIDE DEF f
<1>7. f[{}] = <<>>
  BY <1>6
<1>8. \A k \in 1..n : f[1..k] = Named(f[1..(k - 1)], comps[k])
  <2> TAKE k \in 1..n
  <2>1. /\ 1..k \in SUBSET (1..n) /\ 1..k # {}
        /\ Max(1..k) = k /\ (1..k) \ {k} = 1..(k - 1)
    BY <1>1, PrefixSets
  <2> DEFINE s == 1..k
  <2>2. f[s] = Named(f[s \ {Max(s)}], comps[Max(s)])
    <3> HIDE DEF s
    <3>1. s \in SUBSET (1..n) /\ s # {}
      BY <2>1 DEF s
    <3>2. QED
      BY <1>6, <3>1
  <2>3. QED
    BY <2>1, <2>2
<1> DEFINE v == [k \in 0..n |-> f[1..k]]
<1>9. v[0] = f[{}] /\ v[n] = f[1..n]
  <2>1. 1..0 = {} /\ 0 \in 0..n /\ n \in 0..n
    BY <1>1
  <2>2. QED
    BY <2>1
<1>10. \A k \in 1..n : v[k] = f[1..k] /\ v[k - 1] = f[1..(k - 1)]
  <2>1. \A k \in 1..n : k \in 0..n /\ k - 1 \in 0..n
    BY <1>1
  <2>2. QED
    BY <2>1
<1> HIDE DEF v, Is
<1>11. /\ v[0] = <<>> /\ v[n] = FoldLeft(Named, <<>>, comps)
       /\ \A k \in 1..n : v[k] = Named(v[k - 1], comps[k])
  BY <1>2, <1>7, <1>8, <1>9, <1>10
<1>12. QED
  BY <1>11

(* A path without "." has the components that are written.                 *)
LEMMA PlainComponents ==
  ASSUME NEW S, "." \notin S, NEW p, p.comps \in Seq(S)
  PROVE  Components(p) = p.comps
<1> DEFINE comps == p.comps
           n == Len(comps)
           V == Seq(S)
<1>1. comps \in V /\ n \in Nat
  BY LenProperties
<1>2. \A i \in 1..n : comps[i] \in S
  BY ElementOfSeq
<1>3. Components(p) = FoldLeft(Named, <<>>, comps)
  BY DEF Components
<1> HIDE DEF comps
<1>4. PICK v : /\ v[0] = <<>> /\ v[n] = FoldLeft(Named, <<>>, comps)
               /\ \A k \in 1..n : v[k] = Named(v[k - 1], comps[k])
  BY <1>1, NamedSteps
<1>5. \A k \in 1..n : v[k] = Append(v[k - 1], comps[k])
  BY <1>2, <1>4 DEF Named
<1> HIDE DEF V
<1> DEFINE T == {k \in Nat : k \in 0..n =>
                   /\ v[k] \in V /\ Len(v[k]) = k
                   /\ \A i \in 1..k : v[k][i] = comps[i]}
<1>6. 0 \in T
  <2>1. 1..0 = {} /\ Len(<<>>) = 0 /\ <<>> \in V
    BY EmptySeq DEF V
  <2>2. QED
    BY <1>4, <2>1
<1>7. ASSUME NEW k \in Nat, k \in T
      PROVE  k + 1 \in T
  <2>1. CASE k + 1 \in 0..n
    <3>1. k + 1 \in 1..n /\ k \in 0..n /\ (k + 1) - 1 = k
      BY <1>1, <2>1
    <3> DEFINE u == v[k]
               w == v[k + 1]
    <3>2. u \in V /\ Len(u) = k /\ \A i \in 1..k : u[i] = comps[i]
      BY <1>7, <3>1
    <3>3. w = Append(u, comps[k + 1]) /\ comps[k + 1] \in S
      BY <1>2, <1>5, <3>1
    <3> HIDE DEF u, w
    <3>4. /\ w \in V /\ Len(w) = k + 1 /\ w[k + 1] = comps[k + 1]
          /\ \A i \in 1..k : w[i] = comps[i]
      BY <3>2, <3>3, AppendProperties DEF V
    <3>5. \A i \in 1..(k + 1) : w[i] = comps[i]
      <4>1. 1..(k + 1) = (1..k) \cup {k + 1}
        OBVIOUS
      <4>2. QED
        BY <3>4, <4>1
    <3>6. QED
      BY <3>4, <3>5 DEF w
  <2>2. QED
    BY <2>1
<1>8. n \in T
  <2> HIDE DEF T
  <2>1. QED
    BY <1>1, <1>6, <1>7, SetInduction
<1>9. v[n] \in V /\ Len(v[n]) = n /\ \A i \in 1..n : v[n][i] = comps[i]
  BY <1>1, <1>8
<1>10. v[n] = comps
  BY <1>1, <1>9, SeqEqual DEF V
<1>11. QED
  BY <1>3, <1>4, <1>10 DEF comps

(* Without ".." the normalisation of a path only drops its ".".            *)
LEMMA StraightIsResolved ==
  ASSUME NEW p \in Paths(STRING), \A i \in DOMAIN p.comps : p.comps[i] # ".."
  PROVE  Resolved(p) = Path(p.abs, Components(p))
<1> DEFINE comps == p.comps
           n == Len(comps)
<1>1. comps \in Seq(STRING) /\ n \in Nat /\ DOMAIN comps = 1..n
  BY LenProperties DEF Paths
<1>2. \A i \in 1..n : comps[i] # ".."
  BY <1>1
<1>3. Components(p) = FoldLeft(Named, <<>>, comps)
  BY DEF Components
<1>4. Resolved(p) = Path(p.abs, FoldLeft(PushComponent, <<>>, comps))
  BY NormalIsResolved DEF NormalizeLexically
<1> HIDE DEF comps
<1>5. PICK u : /\ u[0] = <<>> /\ u[n] = FoldLeft(PushComponent, <<>>, comps)
               /\ \A k \in 1..n : u[k] = PushComponent(u[k - 1], comps[k])
  BY <1>1, PushSteps
<1>6. PICK v : /\ v[0] = <<>> /\ v[n] = FoldLeft(Named, <<>>, comps)
               /\ \A k \in 1..n : v[k] = Named(v[k - 1], comps[k])
  BY <1>1, NamedSteps
<1>7. \A k \in 1..n : u[k] = Named(u[k - 1], comps[k])
  BY <1>2, <1>5 DEF PushComponent, Named
<1> DEFINE T == {k \in Nat : k \in 0..n => u[k] = v[k]}
<1>8. 0 \in T
  BY <1>5, <1>6
<1>9. ASSUME NEW k \in Nat, k \in T
      PROVE  k + 1 \in T
  <2>1. CASE k + 1 \in 0..n
    <3>1. k + 1 \in 1..n /\ k \in 0..n /\ (k + 1) - 1 = k
      BY <1>1, <2>1
    <3>2. u[k] = v[k]
      BY <1>9, <3>1
    <3>3. u[k + 1] = Named(u[k], comps[k + 1]) /\ v[k + 1] = Named(v[k], comps[k + 1])
      BY <1>6, <1>7, <3>1
    <3>4. QED
      BY <3>2, <3>3
  <2>2. QED
    BY <2>1
<1>10. n \in T
  <2> HIDE DEF T
  <2>1. QED
    BY <1>1, <1>8, <1>9, SetInduction
<1>11. u[n] = v[n]
  BY <1>1, <1>10
<1>12. QED
  BY <1>3, <1>4, <1>5, <1>6, <1>11

(* What a source is resolved to has no "." and no "..".                    *)
LEMMA ResolvedIsPlain ==
  ASSUME NEW p \in Paths(STRING)
  PROVE  Resolved(p).comps \in Seq(STRING \ {".", ".."})
<1> DEFINE comps == p.comps
           f == FoldLeft(PushComponent, <<>>, comps)
           Plain == STRING \ {".", ".."}
<1>1. comps \in Seq(STRING) /\ p = Path(p.abs, comps)
  BY DEF Paths, Path
<1> HIDE DEF comps, f
<1>2. Listed(comps, Len(comps), f) /\ Len(comps) \in Nat
  BY <1>1, NormalizedIsListed DEF f
<1>3. PICK m, q : Lists(comps, Len(comps), f, m, q)
  BY <1>2 DEF Listed
<1>4. /\ m \in Nat /\ q \in [1..m -> 1..Len(comps)]
      /\ f = [n \in 1..m |-> comps[q[n]]]
      /\ {q[n] : n \in 1..m} = Kept(comps, Len(comps))
  BY <1>3 DEF Lists
<1>5. \A n \in 1..m : comps[q[n]] \in Plain
  <2> TAKE n \in 1..m
  <2>1. q[n] \in Kept(comps, Len(comps))
    BY <1>4
  <2>2. comps[q[n]] \in STRING
    BY <1>1, <1>4, ElementOfSeq
  <2>3. QED
    BY <2>1, <2>2 DEF Kept, IsName
<1> HIDE DEF Plain
<1>6. f \in Seq(Plain)
  BY <1>4, <1>5
<1>7. Resolved(p) = Path(p.abs, f)
  BY <1>1, <1>2, ListedIsResolved
<1>8. QED
  BY <1>6, <1>7 DEF Path, Plain

(* The two halves of ValidMountsAreInside.                                 *)
LEMMA ValidSourceIsInside ==
  ASSUME NEW m \in Mounts, NEW a, MountErrors(m, a) = {}, AllowlistLoads(a)
  PROVE  LET source == IF m.real.kind = "missing" THEN Resolved(m.source) ELSE m.real.path IN
         /\ m.real.kind # "denied"
         /\ \E prefix \in a.host : IsPrefix(Components(prefix), source.comps)
         /\ \A prefix \in Sensitive : ~IsPrefix(prefix.comps, source.comps)
<1> DEFINE source == IF m.real.kind = "missing" THEN Resolved(m.source) ELSE m.real.path
<1>1. m.source \in Paths(STRING) /\ m.real.path \in Paths(STRING \ {".", ".."})
  BY DEF Mounts
<1>2. Canonical(m) = source
  BY <1>1, NormalIsResolved DEF Canonical
<1>3. source.comps \in Seq(STRING \ {".", ".."})
  BY <1>1, ResolvedIsPlain DEF Paths
<1> HIDE DEF source
<1>4. Components(source) = source.comps
  <2> DEFINE S == STRING \ {".", ".."}
  <2>1. "." \notin S /\ source.comps \in Seq(S)
    BY <1>3
  <2> HIDE DEF S
  <2>2. QED
    BY <2>1, PlainComponents
<1>5. SourceErrors(m, a.host) = {}
  BY DEF MountErrors
<1>6. /\ m.real.kind # "denied"
      /\ \E prefix \in a.host : StartsWith(source, prefix)
      /\ \A prefix \in Sensitive : ~StartsWith(source, prefix)
  BY <1>2, <1>5 DEF SourceErrors
<1>7. PICK prefix \in a.host : StartsWith(source, prefix)
  BY <1>6
<1>8. source.abs = TRUE /\ IsPrefix(Components(prefix), source.comps)
  BY <1>4, <1>7 DEF AllowlistLoads, StartsWith
<1>9. ASSUME NEW s \in Sensitive PROVE ~IsPrefix(s.comps, source.comps)
  <2>1. PICK d \in {"proc", "sys", "dev"} : s = Path(TRUE, <<d>>)
    BY DEF Sensitive
  <2>2. s.abs = TRUE /\ s.comps = <<d>>
    BY <2>1 DEF Path
  <2>3. <<d>> \in Seq({"proc", "sys", "dev"}) /\ "." \notin {"proc", "sys", "dev"}
    BY <2>1
  <2>4. Components(s) = s.comps
    BY <2>2, <2>3, PlainComponents
  <2>5. QED
    BY <1>4, <1>6, <1>8, <2>2, <2>4 DEF StartsWith
<1>10. QED
  BY <1>6, <1>8, <1>9 DEF source

LEMMA ValidTargetIsInside ==
  ASSUME NEW m \in Mounts, NEW a, MountErrors(m, a) = {}, AllowlistLoads(a),
         \A i \in DOMAIN m.target.comps : m.target.comps[i] # ".."
  PROVE  LET target == Resolved(m.target) IN
         /\ \E prefix \in a.guest : IsPrefix(Components(prefix), target.comps)
         /\ target.abs /\ target.comps # <<>>
         /\ \A prefix \in GuestDenied : ~IsPrefix(prefix.comps, target.comps)
<1> DEFINE target == Resolved(m.target)
           Denied == {"proc", "sys", "dev", "run", "boot", "etc", "bin", "sbin", "lib", "lib64",
                      "usr"}
<1>1. target.abs = m.target.abs /\ target.comps = Components(m.target)
  <2>1. m.target \in Paths(STRING)
    BY DEF Mounts
  <2>2. target = Path(m.target.abs, Components(m.target))
    BY <2>1, StraightIsResolved
  <2>3. QED
    BY <2>2 DEF Path
<1> HIDE DEF target
<1>2. TargetErrors(m, a.guest) = {}
  BY DEF MountErrors
<1>3. /\ m.target.abs /\ Components(m.target) # <<>>
      /\ \E prefix \in a.guest : StartsWith(m.target, prefix)
      /\ \A prefix \in GuestDenied : ~StartsWith(m.target, prefix)
  BY <1>2 DEF TargetErrors
<1>4. \E prefix \in a.guest : IsPrefix(Components(prefix), target.comps)
  BY <1>1, <1>3 DEF StartsWith
<1>5. ASSUME NEW g \in GuestDenied PROVE ~IsPrefix(g.comps, target.comps)
  <2>1. PICK d \in Denied : g = Path(TRUE, <<d>>)
    BY DEF GuestDenied, Sensitive
  <2>2. g.abs = TRUE /\ g.comps = <<d>>
    BY <2>1 DEF Path
  <2>3. "." \notin Denied
    OBVIOUS
  <2> HIDE DEF Denied
  <2>4. <<d>> \in Seq(Denied)
    BY <2>1
  <2>5. Components(g) = g.comps
    BY <2>2, <2>3, <2>4, PlainComponents
  <2>6. m.target.abs = TRUE
    BY <1>3, <2>2, <2>5 DEF Mounts, Paths
  <2>7. QED
    BY <1>1, <1>3, <2>2, <2>5, <2>6 DEF StartsWith
<1>6. QED
  BY <1>1, <1>3, <1>4, <1>5 DEF target

(* A missing source is taken for what is left of its text when every ".."  *)
(* has taken the name before it, for paths of every length; its ancestors  *)
(* that are symbolic links are not followed.                               *)
THEOREM PathsResolve == Spec => []NormalFormIsResolved
<1>1. PolicyInv => NormalFormIsResolved
  <2> SUFFICES ASSUME PolicyInv, NEW n \in DOMAIN policy.mounts
               PROVE  NormalizeLexically(policy.mounts[n].source)
                        = Resolved(policy.mounts[n].source)
    BY DEF NormalFormIsResolved
  <2>1. policy.mounts \in Seq(Mounts)
    BY PoliciesAssumption DEF PolicyInv, Inputs
  <2>2. policy.mounts[n] \in Mounts
    BY <2>1
  <2>3. policy.mounts[n].source \in Paths(STRING)
    BY <2>2 DEF Mounts
  <2>4. QED
    BY <2>3, NormalIsResolved
<1>2. QED
  BY <1>1, PolicyInvariant, PTL

(* The source of a mount of a valid policy is inside, by its real path or, *)
(* while it does not exist, by its text, whatever ".." it is written with; *)
(* so is a target that is written without "..". Of a target with ".." the  *)
(* validator promises nothing, and nothing is proved.                      *)
THEOREM MountsAreInside == Spec => []ValidMountsAreInside
<1>1. PolicyInv => ValidMountsAreInside
  <2> SUFFICES ASSUME PolicyInv, Valid, NEW n \in DOMAIN policy.mounts
               PROVE  LET m == policy.mounts[n]
                          source == IF m.real.kind = "missing" THEN Resolved(m.source)
                                    ELSE m.real.path
                          target == Resolved(m.target) IN
                      /\ m.real.kind # "denied"
                      /\ \E prefix \in allow.host : IsPrefix(Components(prefix), source.comps)
                      /\ \A prefix \in Sensitive : ~IsPrefix(prefix.comps, source.comps)
                      /\ (\A i \in DOMAIN m.target.comps : m.target.comps[i] # "..") =>
                           /\ \E prefix \in allow.guest :
                                IsPrefix(Components(prefix), target.comps)
                           /\ target.abs /\ target.comps # <<>>
                           /\ \A prefix \in GuestDenied : ~IsPrefix(prefix.comps, target.comps)
    BY DEF ValidMountsAreInside
  <2> DEFINE m == policy.mounts[n]
  <2>1. policy.mounts \in Seq(Mounts) /\ PolicyErrors(policy, allow) = {}
    BY PoliciesAssumption DEF PolicyInv, Inputs, BundleOfValid
  <2>2. m \in Mounts
    BY <2>1
  <2>3. AllowlistLoads(allow) /\ MountErrors(m, allow) = {}
    BY <2>1 DEF PolicyErrors, ErrorIf
  <2> HIDE DEF m
  <2>4. LET source == IF m.real.kind = "missing" THEN Resolved(m.source) ELSE m.real.path IN
        /\ m.real.kind # "denied"
        /\ \E prefix \in allow.host : IsPrefix(Components(prefix), source.comps)
        /\ \A prefix \in Sensitive : ~IsPrefix(prefix.comps, source.comps)
    BY <2>2, <2>3, ValidSourceIsInside
  <2>5. ASSUME \A i \in DOMAIN m.target.comps : m.target.comps[i] # ".."
        PROVE  LET target == Resolved(m.target) IN
               /\ \E prefix \in allow.guest : IsPrefix(Components(prefix), target.comps)
               /\ target.abs /\ target.comps # <<>>
               /\ \A prefix \in GuestDenied : ~IsPrefix(prefix.comps, target.comps)
    BY <2>2, <2>3, <2>5, ValidTargetIsInside
  <2>6. QED
    BY <2>4, <2>5 DEF m
<1>2. QED
  BY <1>1, PolicyInvariant, PTL

-----------------------------------------------------------------------------

(* The sum of a field of what a function gives to the elements of a set.   *)
FieldOf(f, field, S) == [n \in S |-> f[n][field]]
FieldSum(f, field, S) == MapThenSumSet(LAMBDA n : f[n][field], S)

LEMMA FieldSumIs ==
  ASSUME NEW f, NEW field, NEW S, IsFiniteSet(S), \A n \in S : f[n][field] \in Nat
  PROVE  FieldSum(f, field, S) = Total(FieldOf(f, field, S), S)
<1> DEFINE g == FieldOf(f, field, S)
           Is(h) == h = [s \in SUBSET S |-> IF s = {} THEN 0
                                            ELSE f[Picked(s)][field] + h[s \ {Picked(s)}]]
<1>1. g \in [S -> Nat] /\ \A n \in S : g[n] = f[n][field]
  BY DEF FieldOf
<1> HIDE DEF g
<1>2. \A s \in SUBSET S : s # {} => Picked(s) \in S
  BY DEF Picked
<1>3. \A h : Is(h) <=> Sums(g, S, h)
  BY <1>1, <1>2 DEF Sums
<1>4. FieldSum(f, field, S) = (CHOOSE h : Is(h))[S]
  BY DEF FieldSum, MapThenSumSet, MapThenFoldSet, Picked
<1>5. \E h : Sums(g, S, h)
  BY <1>1, SumsExist
<1> HIDE DEF Is
<1>6. Is(CHOOSE h : Is(h))
  BY <1>3, <1>5
<1> DEFINE h == CHOOSE h : Is(h)
<1>7. Sums(g, S, h)
  BY <1>3, <1>6
<1> HIDE DEF h
<1>8. h[S] = Total(g, S)
  BY <1>1, <1>7, SumsUnique
<1>9. QED
  BY <1>4, <1>8 DEF g, h

LEMMA AddressesAddUp ==
  ASSUME NEW S, IsFiniteSet(S), NEW f \in [S -> Nat]
  PROVE  MapThenSumSet(LAMBDA n : f[n], S) \in Nat
<1> DEFINE Is(h) == h = [s \in SUBSET S |-> IF s = {} THEN 0
                                            ELSE f[Picked(s)] + h[s \ {Picked(s)}]]
<1>1. \A h : Is(h) <=> Sums(f, S, h)
  BY DEF Sums
<1>2. MapThenSumSet(LAMBDA n : f[n], S) = (CHOOSE h : Is(h))[S]
  BY DEF MapThenSumSet, MapThenFoldSet, Picked
<1>3. \E h : Sums(f, S, h)
  BY SumsExist
<1> HIDE DEF Is
<1>4. Is(CHOOSE h : Is(h))
  BY <1>1, <1>3
<1> DEFINE h == CHOOSE h : Is(h)
<1>5. Sums(f, S, h)
  BY <1>1, <1>4
<1> HIDE DEF h
<1>6. h[S] \in Nat
  BY <1>5, SumsAre
<1>7. QED
  BY <1>2, <1>6 DEF h

-----------------------------------------------------------------------------
(* The events of one type, when more events are written.                   *)

Event ==
       [type : {"mount.validated", "mount.applied", "network.rule.applied"}]
  \cup [type : {"network.plan.generated"}, mode : {"allowlist"}, rulesTotal : Nat]
  \cup [type : {"resource.sampled"}, usage : Nat]
  \cup [type : {"network.rule.hit"}, allowedHits : Nat, blockedHits : Nat]

LEMMA OfConcat ==
  ASSUME NEW es \in Seq(Event), NEW fs \in Seq(Event)
  PROVE  /\ es \o fs \in Seq(Event)
         /\ \A n \in DOMAIN es : n \in DOMAIN (es \o fs) /\ (es \o fs)[n] = es[n]
         /\ \A n \in DOMAIN fs : /\ Len(es) + n \in DOMAIN (es \o fs)
                                 /\ (es \o fs)[Len(es) + n] = fs[n]
         /\ \A type : Of(es \o fs, type) = Of(es, type) \cup {Len(es) + n : n \in Of(fs, type)}
<1> DEFINE gs == es \o fs
<1>1. /\ gs \in Seq(Event) /\ Len(gs) = Len(es) + Len(fs)
      /\ \A i \in 1..Len(gs) : gs[i] = IF i <= Len(es) THEN es[i] ELSE fs[i - Len(es)]
  BY ConcatProperties
<1>2. /\ Len(es) \in Nat /\ DOMAIN es = 1..Len(es)
      /\ Len(fs) \in Nat /\ DOMAIN fs = 1..Len(fs)
      /\ DOMAIN gs = 1..Len(gs)
  BY <1>1, LenProperties
<1> HIDE DEF gs
<1>3. \A n \in DOMAIN es : n \in DOMAIN gs /\ gs[n] = es[n]
  BY <1>1, <1>2
<1>4. ASSUME NEW n \in DOMAIN fs PROVE Len(es) + n \in DOMAIN gs /\ gs[Len(es) + n] = fs[n]
  <2>1. /\ n \in Nat /\ Len(es) + n \in 1..Len(gs) /\ ~(Len(es) + n <= Len(es))
        /\ (Len(es) + n) - Len(es) = n
    BY <1>1, <1>2
  <2>2. QED
    BY <1>1, <1>2, <2>1
<1>5. \A i \in DOMAIN gs : i \in DOMAIN es \/ \E n \in DOMAIN fs : i = Len(es) + n
  <2> TAKE i \in DOMAIN gs
  <2>1. CASE i <= Len(es)
    BY <1>1, <1>2, <2>1
  <2>2. CASE ~(i <= Len(es))
    <3>1. i - Len(es) \in DOMAIN fs /\ i = Len(es) + (i - Len(es))
      BY <1>1, <1>2, <2>2
    <3>2. QED
      BY <3>1
  <2>3. QED
    BY <2>1, <2>2
<1>6. ASSUME NEW type
      PROVE  Of(gs, type) = Of(es, type) \cup {Len(es) + n : n \in Of(fs, type)}
  BY <1>3, <1>4, <1>5 DEF Of
<1>7. QED
  BY <1>1, <1>3, <1>4, <1>6 DEF gs

LEMMA OfStays ==
  ASSUME NEW es \in Seq(Event), NEW fs \in Seq(Event), NEW type, Of(fs, type) = {}
  PROVE  /\ Of(es \o fs, type) = Of(es, type)
         /\ \A n \in Of(es, type) : (es \o fs)[n] = es[n]
<1>1. \A n \in Of(es, type) : n \in DOMAIN es
  BY DEF Of
<1>2. Of(es \o fs, type) = Of(es, type) \cup {Len(es) + n : n \in Of(fs, type)}
  BY OfConcat
<1>3. {Len(es) + n : n \in Of(fs, type)} = {}
  OBVIOUS
<1>4. \A n \in DOMAIN es : (es \o fs)[n] = es[n]
  BY OfConcat
<1>5. QED
  BY <1>1, <1>2, <1>3, <1>4

LEMMA OfIsFinite ==
  ASSUME NEW es \in Seq(Event), NEW type
  PROVE  /\ Of(es, type) \in SUBSET (1..Len(es)) /\ IsFiniteSet(Of(es, type))
         /\ Of(es, type) # {} => Max(Of(es, type)) \in Of(es, type)
<1>1. Len(es) \in Nat /\ DOMAIN es = 1..Len(es)
  BY LenProperties
<1>2. Of(es, type) \in SUBSET (1..Len(es))
  BY <1>1 DEF Of
<1>3. IsFiniteSet(1..Len(es))
  BY <1>1, FS_Interval
<1>4. QED
  BY <1>1, <1>2, <1>3, FS_Subset, Greatest

(* What the events of a run without a failure tell.                        *)
MountsTell(es, mounts) ==
  /\ Count(es, "mount.validated") = mounts
  /\ Count(es, "mount.applied") = mounts

PlanTells(es, rules) ==
  /\ Of(es, "network.plan.generated") # {} <=> rules # <<>>
  /\ Of(es, "network.rule.applied") # {} => rules # <<>>
  /\ \A n \in Of(es, "network.plan.generated") :
       es[n].mode = "allowlist" /\ es[n].rulesTotal = Len(rules)

SamplesTell(es) ==
  \E b, n \in Nat : /\ Of(es, "resource.sampled") = (b + 1)..(b + n)
                    /\ \A k \in 1..n : es[b + k].usage = k

HitTotal(es, field) ==
  LET S == Of(es, "network.rule.hit") IN Total(FieldOf(es, field, S), S)
CounterTotal(cs, k, field) == Total(FieldOf(cs, field, 1..k), 1..k)
HitsTell(es, cs) ==
  \A field \in {"allowedHits", "blockedHits"} :
    HitTotal(es, field) = CounterTotal(cs, Len(cs), field)

-----------------------------------------------------------------------------
(* The four kinds of events that are written one after the other.          *)

MountEvents(m) ==
  [n \in 1..(2 * m) |-> [type |-> IF n % 2 = 1 THEN "mount.validated" ELSE "mount.applied"]]

LEMMA MountsAreTold ==
  ASSUME NEW m \in Nat
  PROVE  /\ MountEvents(m) \in Seq(Event)
         /\ MountsTell(MountEvents(m), m)
         /\ \A type : type \notin {"mount.validated", "mount.applied"} =>
              Of(MountEvents(m), type) = {}
<1> DEFINE es == MountEvents(m)
           odd == [n \in 1..m |-> 2 * n - 1]
           even == [n \in 1..m |-> 2 * n]
<1>1. 2 * m \in Nat /\ DOMAIN es = 1..(2 * m)
  BY DEF MountEvents
<1>2. \A n \in 1..(2 * m) :
        es[n] = [type |-> IF n % 2 = 1 THEN "mount.validated" ELSE "mount.applied"]
  BY DEF MountEvents
<1>3. es = [n \in 1..(2 * m) |-> es[n]]
  BY DEF MountEvents
<1> HIDE DEF es
<1>4. \A n \in 1..(2 * m) : es[n] \in Event
  <2>1. [type |-> "mount.validated"] \in Event /\ [type |-> "mount.applied"] \in Event
    BY DEF Event
  <2>2. QED
    BY <1>2, <2>1
<1>5. es \in Seq(Event)
  BY <1>1, <1>3, <1>4
<1>6. /\ odd \in [1..m -> 1..(2 * m)] /\ \A l, n \in 1..m : l < n => odd[l] < odd[n]
      /\ even \in [1..m -> 1..(2 * m)] /\ \A l, n \in 1..m : l < n => even[l] < even[n]
  OBVIOUS
<1>7. Of(es, "mount.validated") = UpTo(odd, m)
  <2>1. \A n \in 1..(2 * m) : n % 2 = 1 => (n + 1) \div 2 \in 1..m /\ n = 2 * ((n + 1) \div 2) - 1
    OBVIOUS
  <2>2. \A n \in 1..m : (2 * n - 1) % 2 = 1
    OBVIOUS
  <2>3. Of(es, "mount.validated") = {n \in 1..(2 * m) : n % 2 = 1}
    BY <1>1, <1>2 DEF Of
  <2>4. QED
    BY <1>6, <2>1, <2>2, <2>3 DEF UpTo
<1>8. Of(es, "mount.applied") = UpTo(even, m)
  <2>1. \A n \in 1..(2 * m) : n % 2 # 1 => n \div 2 \in 1..m /\ n = 2 * (n \div 2)
    OBVIOUS
  <2>2. \A n \in 1..m : (2 * n) % 2 # 1
    OBVIOUS
  <2>3. Of(es, "mount.applied") = {n \in 1..(2 * m) : n % 2 # 1}
    BY <1>1, <1>2 DEF Of
  <2>4. QED
    BY <1>6, <2>1, <2>2, <2>3 DEF UpTo
<1> HIDE DEF odd, even
<1>9. Cardinality(UpTo(odd, m)) = m /\ Cardinality(UpTo(even, m)) = m
  <2>1. m \in 0..m
    OBVIOUS
  <2>2. Cardinality(UpTo(odd, m)) = m
    BY <1>1, <1>6, <2>1, ListedPlaces
  <2>3. Cardinality(UpTo(even, m)) = m
    BY <1>1, <1>6, <2>1, ListedPlaces
  <2>4. QED
    BY <2>2, <2>3
<1>10. MountsTell(es, m)
  BY <1>7, <1>8, <1>9 DEF MountsTell, Count
<1>11. ASSUME NEW type, type \notin {"mount.validated", "mount.applied"}
       PROVE  Of(es, type) = {}
  BY <1>1, <1>2, <1>11 DEF Of
<1>12. QED
  BY <1>5, <1>10, <1>11 DEF es

NetworkStart(rules, k) ==
  <<[type |-> "network.plan.generated", mode |-> "allowlist", rulesTotal |-> Len(rules)]>>
    \o [n \in 1..k |-> [type |-> "network.rule.applied"]]

LEMMA PlanIsTold ==
  ASSUME NEW rules, rules # <<>>, Len(rules) \in Nat, NEW k \in Nat
  PROVE  /\ NetworkStart(rules, k) \in Seq(Event)
         /\ PlanTells(NetworkStart(rules, k), rules)
         /\ \A type : type \notin {"network.plan.generated", "network.rule.applied"} =>
              Of(NetworkStart(rules, k), type) = {}
<1> DEFINE plan == [type |-> "network.plan.generated", mode |-> "allowlist", rulesTotal |-> Len(rules)]
           es == <<plan>>
           fs == [n \in 1..k |-> [type |-> "network.rule.applied"]]
<1>1. NetworkStart(rules, k) = es \o fs
  BY DEF NetworkStart
<1>2. plan \in Event /\ [type |-> "network.rule.applied"] \in Event
  BY DEF Event
<1>3. es \in Seq(Event) /\ Len(es) = 1 /\ DOMAIN es = {1} /\ es[1] = plan
  <2> HIDE DEF plan
  <2>1. QED
    BY <1>2
<1>4. fs \in Seq(Event) /\ DOMAIN fs = 1..k
  <2>1. fs \in [1..k -> Event]
    BY <1>2
  <2>2. QED
    BY <2>1
<1>5. \A n \in 1..k : fs[n].type = "network.rule.applied"
  OBVIOUS
<1> DEFINE gs == es \o fs
<1> HIDE DEF es, fs
<1>6. /\ gs \in Seq(Event)
      /\ \A n \in DOMAIN es : gs[n] = es[n]
      /\ \A type : Of(gs, type) = Of(es, type) \cup {Len(es) + n : n \in Of(fs, type)}
  BY <1>3, <1>4, OfConcat
<1> HIDE DEF gs
<1>7. \A type : Of(es, type) = IF type = "network.plan.generated" THEN {1} ELSE {}
  BY <1>3 DEF Of
<1>8. \A type : type # "network.rule.applied" => Of(fs, type) = {}
  BY <1>4, <1>5 DEF Of
<1>9. Of(gs, "network.plan.generated") = {1} /\ gs[1] = plan
  <2>1. Of(fs, "network.plan.generated") = {} /\ Of(es, "network.plan.generated") = {1}
    BY <1>7, <1>8
  <2>2. QED
    BY <1>3, <1>6, <2>1
<1>10. PlanTells(gs, rules)
  BY <1>9 DEF PlanTells
<1>11. ASSUME NEW type, type \notin {"network.plan.generated", "network.rule.applied"}
       PROVE  Of(gs, type) = {}
  <2>1. Of(fs, type) = {} /\ Of(es, type) = {}
    BY <1>7, <1>8, <1>11
  <2>2. QED
    BY <1>6, <2>1
<1>12. QED
  BY <1>1, <1>6, <1>10, <1>11 DEF gs

Samples(n) == [k \in 1..n |-> [type |-> "resource.sampled", usage |-> k]]

LEMMA SamplesAreTold ==
  ASSUME NEW es \in Seq(Event), Of(es, "resource.sampled") = {}, NEW n \in Nat
  PROVE  /\ Samples(n) \in Seq(Event)
         /\ SamplesTell(es \o Samples(n))
         /\ \A type : type # "resource.sampled" => Of(Samples(n), type) = {}
<1> DEFINE fs == Samples(n)
           gs == es \o fs
           b == Len(es)
<1>1. \A k \in 1..n : [type |-> "resource.sampled", usage |-> k] \in Event
  BY DEF Event
<1>2. fs \in Seq(Event) /\ DOMAIN fs = 1..n /\ \A k \in 1..n : fs[k].type = "resource.sampled" /\ fs[k].usage = k
  <2>1. fs \in [1..n -> Event]
    BY <1>1 DEF Samples
  <2>2. QED
    BY <2>1 DEF Samples
<1>3. b \in Nat
  BY LenProperties
<1> HIDE DEF fs
<1>4. Of(fs, "resource.sampled") = 1..n /\ \A type : type # "resource.sampled" => Of(fs, type) = {}
  BY <1>2 DEF Of
<1>5. /\ Of(gs, "resource.sampled") = {b + k : k \in 1..n}
      /\ \A k \in 1..n : gs[b + k] = fs[k]
  <2>1. Of(gs, "resource.sampled") = Of(es, "resource.sampled") \cup {b + k : k \in Of(fs, "resource.sampled")}
    BY <1>2, OfConcat
  <2>2. \A k \in DOMAIN fs : gs[b + k] = fs[k]
    BY <1>2, OfConcat
  <2>3. QED
    BY <1>2, <1>4, <2>1, <2>2
<1>6. {b + k : k \in 1..n} = (b + 1)..(b + n)
  <2>1. \A i \in (b + 1)..(b + n) : i - b \in 1..n /\ i = b + (i - b)
    BY <1>3
  <2>2. \A k \in 1..n : b + k \in (b + 1)..(b + n)
    BY <1>3
  <2> HIDE DEF b
  <2>3. QED
    BY <2>1, <2>2
<1>7. SamplesTell(gs)
  <2> HIDE DEF gs, b
  <2>1. Of(gs, "resource.sampled") = (b + 1)..(b + n) /\ \A k \in 1..n : gs[b + k].usage = k
    BY <1>2, <1>5, <1>6
  <2>2. QED
    BY <1>3, <2>1 DEF SamplesTell
<1>8. QED
  BY <1>2, <1>4, <1>7 DEF fs

-----------------------------------------------------------------------------

Sampled == [allowedHits : Nat, blockedHits : Nat]

(* The hits of the first k counters are emitted after es.                  *)
Emitted(es, cs, k, fs) ==
  /\ fs \in Seq(Event)
  /\ \A type : type # "network.rule.hit" => Of(fs, type) = Of(es, type)
  /\ \A n \in DOMAIN es : n \in DOMAIN fs /\ fs[n] = es[n]
  /\ \A field \in {"allowedHits", "blockedHits"} : HitTotal(fs, field) = CounterTotal(cs, k, field)

LEMMA HitFieldIsNat ==
  ASSUME NEW es \in Seq(Event), NEW field \in {"allowedHits", "blockedHits"},
         NEW n \in Of(es, "network.rule.hit")
  PROVE  es[n][field] \in Nat
<1>1. es[n] \in Event /\ es[n].type = "network.rule.hit"
  <2>1. n \in 1..Len(es)
    BY LenProperties DEF Of
  <2>2. QED
    BY <2>1, ElementOfSeq DEF Of
<1>2. es[n] \in [type : {"network.rule.hit"}, allowedHits : Nat, blockedHits : Nat]
  BY <1>1 DEF Event
<1>3. QED
  BY <1>2

LEMMA CountersNext ==
  ASSUME NEW cs \in Seq(Sampled), NEW field \in {"allowedHits", "blockedHits"},
         NEW k \in Nat, k + 1 \in 1..Len(cs)
  PROVE  /\ CounterTotal(cs, k, field) \in Nat /\ cs[k + 1][field] \in Nat
         /\ CounterTotal(cs, k + 1, field) = CounterTotal(cs, k, field) + cs[k + 1][field]
<1> DEFINE S == 1..k
           U == 1..(k + 1)
           f == FieldOf(cs, field, S)
           g == FieldOf(cs, field, U)
<1>1. U = S \cup {k + 1} /\ k + 1 \notin S /\ IsFiniteSet(S)
  <2>1. IsFiniteSet(S)
    BY FS_Interval
  <2>2. 1..(k + 1) = (1..k) \cup {k + 1} /\ k + 1 \notin 1..k
    OBVIOUS
  <2>3. QED
    BY <2>1, <2>2
<1>2. \A n \in U : cs[n][field] \in Nat
  <2> TAKE n \in U
  <2>1. n \in 1..Len(cs)
    BY LenProperties
  <2>2. cs[n] \in Sampled
    BY <2>1, ElementOfSeq
  <2>3. QED
    BY <2>2 DEF Sampled
<1> HIDE DEF S, U
<1>3. /\ f \in [S -> Nat] /\ g \in [U -> Nat]
      /\ (\A n \in S : g[n] = f[n]) /\ g[k + 1] = cs[k + 1][field]
  BY <1>1, <1>2 DEF FieldOf
<1> HIDE DEF f, g
<1>4. Total(f, S) \in Nat
  BY <1>1, <1>3, TotalIs
<1>5. Total(g, U) = Total(f, S) + g[k + 1]
  BY <1>1, <1>3, TotalExtend
<1>6. QED
  BY <1>1, <1>2, <1>3, <1>4, <1>5 DEF CounterTotal, f, g, S, U

LEMMA EmitHitIsTold ==
  ASSUME NEW es \in Seq(Event), NEW cs \in Seq(Sampled), NEW k \in Nat, k + 1 \in 1..Len(cs),
         NEW fs, Emitted(es, cs, k, fs)
  PROVE  Emitted(es, cs, k + 1, EmitHit(fs, cs[k + 1]))
<1> DEFINE c == cs[k + 1]
           gs == EmitHit(fs, c)
<1>1. c \in Sampled
  BY ElementOfSeq
<1>2. \A field \in {"allowedHits", "blockedHits"} :
        /\ CounterTotal(cs, k, field) \in Nat /\ c[field] \in Nat
        /\ CounterTotal(cs, k + 1, field) = CounterTotal(cs, k, field) + c[field]
  BY CountersNext
<1>3. /\ fs \in Seq(Event)
      /\ \A type : type # "network.rule.hit" => Of(fs, type) = Of(es, type)
      /\ \A n \in DOMAIN es : n \in DOMAIN fs /\ fs[n] = es[n]
      /\ \A field \in {"allowedHits", "blockedHits"} :
           HitTotal(fs, field) = CounterTotal(cs, k, field)
  BY DEF Emitted
<1> HIDE DEF c
<1>4. CASE c.allowedHits = 0 /\ c.blockedHits = 0
  <2>1. gs = fs
    BY <1>4 DEF EmitHit
  <2>2. \A field \in {"allowedHits", "blockedHits"} : c[field] = 0
    BY <1>4
  <2>3. QED
    BY <1>2, <1>3, <2>1, <2>2 DEF Emitted, c
<1>5. CASE ~(c.allowedHits = 0 /\ c.blockedHits = 0)
  <2> DEFINE e == Hit(c)
             x == Len(fs) + 1
             S == Of(fs, "network.rule.hit")
             U == Of(gs, "network.rule.hit")
  <2>1. gs = Append(fs, e)
    BY <1>5 DEF EmitHit
  <2>2. /\ e \in Event /\ e.type = "network.rule.hit"
        /\ \A field \in {"allowedHits", "blockedHits"} : e[field] = c[field]
    BY <1>1 DEF Hit, Event, Sampled
  <2> HIDE DEF e, gs
  <2>3. /\ gs \in Seq(Event) /\ Len(gs) = x /\ gs[x] = e
        /\ \A n \in 1..Len(fs) : gs[n] = fs[n]
    BY <1>3, <2>1, <2>2, AppendProperties
  <2>4. /\ Len(fs) \in Nat /\ DOMAIN fs = 1..Len(fs)
        /\ DOMAIN gs = (1..Len(fs)) \cup {x} /\ x \notin 1..Len(fs)
    BY <1>3, <2>3, LenProperties
  <2> HIDE DEF x
  <2>5. \A type : type # "network.rule.hit" => Of(gs, type) = Of(fs, type)
    BY <2>2, <2>3, <2>4 DEF Of
  <2>6. U = S \cup {x} /\ x \notin S /\ \A n \in S : gs[n] = fs[n]
    BY <2>2, <2>3, <2>4 DEF Of
  <2>7. IsFiniteSet(S)
    BY <1>3, OfIsFinite
  <2> HIDE DEF S, U
  <2>8. ASSUME NEW field \in {"allowedHits", "blockedHits"}
        PROVE  HitTotal(gs, field) = CounterTotal(cs, k + 1, field)
    <3> DEFINE f == FieldOf(fs, field, S)
               g == FieldOf(gs, field, U)
    <3>1. \A n \in S : fs[n][field] \in Nat
      BY <1>3, HitFieldIsNat DEF S
    <3>2. \A n \in U : gs[n][field] \in Nat
      BY <2>3, HitFieldIsNat DEF U
    <3>3. /\ f \in [S -> Nat] /\ g \in [U -> Nat]
          /\ (\A n \in S : g[n] = f[n]) /\ g[x] = c[field]
      BY <2>2, <2>3, <2>6, <3>1, <3>2 DEF FieldOf
    <3> HIDE DEF f, g
    <3>4. Total(g, U) = Total(f, S) + g[x]
      BY <2>6, <2>7, <3>3, TotalExtend
    <3>5. HitTotal(gs, field) = Total(g, U) /\ HitTotal(fs, field) = Total(f, S)
      BY DEF HitTotal, S, U, f, g
    <3>6. QED
      BY <1>2, <1>3, <3>3, <3>4, <3>5
  <2>9. \A n \in DOMAIN es : n \in DOMAIN gs /\ gs[n] = es[n]
    BY <1>3, <2>3, <2>4
  <2>10. Emitted(es, cs, k + 1, gs)
    BY <1>3, <2>3, <2>5, <2>8, <2>9 DEF Emitted
  <2>11. QED
    BY <2>10 DEF gs, c
<1>6. QED
  BY <1>4, <1>5

LEMMA EmitHitIsEvents ==
  ASSUME NEW fs \in Seq(Event), NEW c \in Sampled
  PROVE  EmitHit(fs, c) \in Seq(Event)
<1>1. Hit(c) \in Event
  BY DEF Hit, Event, Sampled
<1>2. Append(fs, Hit(c)) \in Seq(Event)
  BY <1>1, AppendProperties
<1>3. QED
  BY <1>2 DEF EmitHit

LEMMA HitsAreTold ==
  ASSUME NEW es \in Seq(Event), Of(es, "network.rule.hit") = {}, NEW cs \in Seq(Sampled)
  PROVE  Emitted(es, cs, Len(cs), FoldLeft(EmitHit, es, cs))
<1> DEFINE n == Len(cs)
           V == Seq(Event)
           g == [p \in (1..n) \X V |-> EmitHit(p[2], cs[p[1]])]
           Is(h) == h = [s \in SUBSET (1..n) |->
                           IF s = {} THEN es ELSE EmitHit(h[s \ {Max(s)}], cs[Max(s)])]
           f == CHOOSE h : Is(h)
<1>1. n \in Nat /\ DOMAIN cs = 1..n
  BY LenProperties
<1>2. FoldLeft(EmitHit, es, cs) = f[1..n]
  BY <1>1 DEF FoldLeft, MapThenFoldSet
<1>3. \E h : Is(h)
  <2>1. g \in [(1..n) \X V -> V] /\ \A i \in 1..n, v \in V : g[<<i, v>>] = EmitHit(v, cs[i])
    BY EmitHitIsEvents, ElementOfSeq
  <2>2. es \in V
    OBVIOUS
  <2> HIDE DEF g, V
  <2>3. PICK h \in [SUBSET (1..n) -> V] : Folds(n, es, g, h)
    BY <1>1, <2>1, <2>2, FoldExists
  <2>4. \A s \in SUBSET (1..n) : s # {} => Max(s) \in 1..n /\ h[s \ {Max(s)}] \in V
    BY <1>1, <2>3, Greatest
  <2> HIDE DEF n
  <2>5. \A s \in SUBSET (1..n) :
          (IF s = {} THEN es ELSE g[<<Max(s), h[s \ {Max(s)}]>>])
            = IF s = {} THEN es ELSE EmitHit(h[s \ {Max(s)}], cs[Max(s)])
    BY <2>1, <2>4
  <2>6. Is(h)
    BY <2>3, <2>5 DEF Folds
  <2>7. QED
    BY <2>6
<1>4. Is(f)
  BY <1>3
<1> HIDE DEF f
<1>5. f[{}] = es
  BY <1>4
<1>6. \A k \in 1..n : f[1..k] = EmitHit(f[1..(k - 1)], cs[k])
  <2> TAKE k \in 1..n
  <2>1. /\ 1..k \in SUBSET (1..n) /\ 1..k # {}
        /\ Max(1..k) = k /\ (1..k) \ {k} = 1..(k - 1)
    BY <1>1, PrefixSets
  <2> DEFINE s == 1..k
  <2>2. f[s] = EmitHit(f[s \ {Max(s)}], cs[Max(s)])
    <3> HIDE DEF s
    <3>1. s \in SUBSET (1..n) /\ s # {}
      BY <2>1 DEF s
    <3>2. QED
      BY <1>4, <3>1
  <2>3. QED
    BY <2>1, <2>2
<1> HIDE DEF Is
<1> DEFINE T == {k \in Nat : k \in 0..n => Emitted(es, cs, k, f[1..k])}
<1>7. 0 \in T
  <2>1. 1..0 = {}
    OBVIOUS
  <2>2. ASSUME NEW field \in {"allowedHits", "blockedHits"}
        PROVE  HitTotal(es, field) = CounterTotal(cs, 0, field)
    <3>1. FieldOf(es, field, {}) = FieldOf(cs, field, {}) /\ FieldOf(es, field, {}) \in [{} -> Nat]
      BY DEF FieldOf
    <3>2. QED
      BY <2>1, <3>1 DEF HitTotal, CounterTotal
  <2>3. Emitted(es, cs, 0, es)
    BY <2>2 DEF Emitted
  <2>4. QED
    BY <1>5, <2>1, <2>3
<1>8. ASSUME NEW k \in Nat, k \in T
      PROVE  k + 1 \in T
  <2>1. CASE k + 1 \in 0..n
    <3>1. k + 1 \in 1..n /\ k \in 0..n /\ (k + 1) - 1 = k
      BY <1>1, <2>1
    <3>2. f[1..(k + 1)] = EmitHit(f[1..k], cs[k + 1])
      BY <1>6, <3>1
    <3>3. Emitted(es, cs, k, f[1..k])
      BY <1>8, <3>1
    <3>4. Emitted(es, cs, k + 1, f[1..(k + 1)])
      BY <3>1, <3>2, <3>3, EmitHitIsTold
    <3>5. QED
      BY <3>4
  <2>2. QED
    BY <2>1
<1> HIDE DEF T
<1>9. n \in T
  BY <1>1, <1>7, <1>8, SetInduction
<1>10. QED
  BY <1>1, <1>2, <1>9 DEF T

-----------------------------------------------------------------------------

(* The events of a type are the same in es and in gs.                      *)
Keeps(es, gs, type) ==
  Of(gs, type) = Of(es, type) /\ \A n \in Of(es, type) : gs[n] = es[n]

LEMMA MountsStay ==
  ASSUME NEW es, NEW gs, NEW m, MountsTell(es, m),
         Keeps(es, gs, "mount.validated"), Keeps(es, gs, "mount.applied")
  PROVE  MountsTell(gs, m)
  BY DEF MountsTell, Keeps, Count

LEMMA PlanStays ==
  ASSUME NEW es, NEW gs, NEW rules, PlanTells(es, rules),
         Keeps(es, gs, "network.plan.generated"), Keeps(es, gs, "network.rule.applied")
  PROVE  PlanTells(gs, rules)
  BY DEF PlanTells, Keeps

LEMMA SamplesStay ==
  ASSUME NEW es, NEW gs, SamplesTell(es), Keeps(es, gs, "resource.sampled")
  PROVE  SamplesTell(gs)
<1>1. PICK b \in Nat, n \in Nat : /\ Of(es, "resource.sampled") = (b + 1)..(b + n)
                                  /\ \A k \in 1..n : es[b + k].usage = k
  BY DEF SamplesTell
<1>2. \A k \in 1..n : b + k \in (b + 1)..(b + n)
  OBVIOUS
<1>3. Of(gs, "resource.sampled") = (b + 1)..(b + n) /\ \A k \in 1..n : gs[b + k].usage = k
  BY <1>1, <1>2 DEF Keeps
<1>4. QED
  BY <1>3 DEF SamplesTell

LEMMA AppendedKeeps ==
  ASSUME NEW es \in Seq(Event), NEW fs \in Seq(Event), NEW type, Of(fs, type) = {}
  PROVE  Keeps(es, es \o fs, type)
  BY OfStays DEF Keeps

(* The parts of the bundle of a valid policy.                              *)
LEMMA BundleParts ==
  ASSUME PolicyInv, Compiled
  PROVE  /\ Len(policy.mounts) \in Nat /\ Len(bundle.mounts) = Len(policy.mounts)
         /\ Len(bundle.rules) \in Nat /\ DOMAIN bundle.rules = 1..Len(bundle.rules)
         /\ bundle.rules = <<>> <=> policy.network.mode = "none"
         /\ policy.network.mode \in {"none", "allowlist"}
         /\ bundle.rules # <<>> => Len(bundle.rules) = Len(policy.network.egress)
<1>1. policy \in Policies /\ PolicyErrors(policy, allow) = {} /\ bundle = Bundle(policy)
  BY DEF PolicyInv, Inputs, BundleOfValid, Compiled, Valid
<1>2. /\ policy.mounts \in Seq(Mounts) /\ policy.network.egress \in Seq(Rules)
      /\ policy.network.mode \in {"none", "allowlist"}
  BY <1>1, PoliciesAssumption
<1>3. bundle.mounts = MountPlan(policy.mounts) /\ bundle.rules = NetworkPlan(policy.network)
  BY <1>1 DEF Bundle
<1>4. Len(policy.mounts) \in Nat /\ Len(bundle.mounts) = Len(policy.mounts)
  BY <1>2, <1>3, LenProperties DEF MountPlan
<1>5. NetworkBuilds(policy.network)
  <2>1. NetworkErrors(policy.network) = {}
    BY <1>1, ValidMemory
  <2>2. QED
    BY <1>2, <2>1, NetworksAgree
<1>6. CASE policy.network.mode = "none"
  <2>1. bundle.rules = <<>>
    BY <1>3, <1>6 DEF NetworkPlan
  <2>2. Len(<<>>) = 0 /\ DOMAIN <<>> = 1..0
    OBVIOUS
  <2>3. QED
    BY <1>2, <1>4, <1>6, <2>1, <2>2
<1>7. CASE policy.network.mode = "allowlist"
  <2> DEFINE egress == policy.network.egress
  <2>1. egress # <<>> /\ bundle.rules = [n \in DOMAIN egress |-> BuildRule(egress[n])]
    BY <1>3, <1>5, <1>7 DEF NetworkPlan, NetworkBuilds
  <2>2. DOMAIN egress = 1..Len(egress) /\ Len(egress) \in Nat /\ Len(egress) # 0
    BY <1>2, <2>1, LenProperties, EmptySeq
  <2>3. Len(bundle.rules) = Len(egress) /\ DOMAIN bundle.rules = 1..Len(egress)
    BY <2>1, <2>2
  <2>4. Len(<<>>) = 0
    OBVIOUS
  <2>5. bundle.rules # <<>>
    BY <2>2, <2>3, <2>4
  <2>6. QED
    BY <1>2, <1>4, <1>7, <2>2, <2>3, <2>5
<1>8. QED
  BY <1>2, <1>6, <1>7

-----------------------------------------------------------------------------

After == {"network", "monitor", "hits", "report", "reported"}

(* How far the event stream tells the policy, phase by phase.              *)
AuditInv ==
  /\ events \in Seq(Event) /\ targets \in Nat /\ counters \in Seq(Sampled)
  /\ phase \notin After => events = <<>>
  /\ phase \in After => MountsTell(events, Len(bundle.mounts))
  /\ phase = "network" => /\ bundle.rules # <<>>
                          /\ Of(events, "network.plan.generated") = {}
                          /\ Of(events, "network.rule.applied") = {}
  /\ phase \in After \ {"network"} => PlanTells(events, bundle.rules)
  /\ phase \in {"network", "monitor"} => Of(events, "resource.sampled") = {}
  /\ phase \in {"hits", "report", "reported"} => SamplesTell(events)
  /\ phase \notin {"report", "reported"} =>
       Of(events, "network.rule.hit") = {} /\ counters = <<>>
  /\ phase \in {"report", "reported"} => HitsTell(events, counters)

LEMMA NothingTold ==
  /\ <<>> \in Seq(Event) /\ <<>> \in Seq(Sampled)
  /\ \A type : Of(<<>>, type) = {}
  BY EmptySeq DEF Of

LEMMA NoHitsTold ==
  ASSUME NEW es, Of(es, "network.rule.hit") = {}
  PROVE  HitsTell(es, <<>>)
<1> SUFFICES ASSUME NEW field \in {"allowedHits", "blockedHits"}
             PROVE  HitTotal(es, field) = CounterTotal(<<>>, Len(<<>>), field)
  BY DEF HitsTell
<1>1. Len(<<>>) = 0 /\ 1..0 = {}
  OBVIOUS
<1>2. FieldOf(es, field, {}) = FieldOf(<<>>, field, {})
  BY DEF FieldOf
<1>3. QED
  BY <1>1, <1>2 DEF HitTotal, CounterTotal

LEMMA AuditInit == Init => AuditInv
  BY NothingTold DEF Init, AuditInv, After

LEMMA BeforeStep ==
  ASSUME AuditInv, Load \/ Validate \/ Compile
  PROVE  AuditInv'
<1>1. /\ phase \notin After /\ phase' \notin After
      /\ UNCHANGED <<events, targets, counters>>
  BY DEF Load, Validate, Compile, After
<1>2. events = <<>> /\ targets \in Nat /\ phase \notin {"report", "reported"}
      /\ phase' \notin {"report", "reported"}
  BY <1>1 DEF AuditInv, After
<1>3. QED
  BY <1>1, <1>2, NothingTold DEF AuditInv, After

LEMMA MountsStep ==
  ASSUME PolicyInv, AuditInv, EmitMounts
  PROVE  AuditInv'
<1> DEFINE m == Len(bundle.mounts)
<1>1. phase = "mount" /\ UNCHANGED <<bundle, targets, counters>>
      /\ phase' = (IF bundle.rules = <<>> THEN "monitor" ELSE "network")
  BY DEF EmitMounts
<1>2. m \in Nat
  BY <1>1, BundleParts DEF Compiled
<1>3. events = <<>> /\ targets \in Nat /\ counters = <<>>
  BY <1>1 DEF AuditInv, After
<1>4. events' = events \o MountEvents(m)
  BY DEF EmitMounts, Emit, MountEvents
<1>5. /\ MountEvents(m) \in Seq(Event) /\ MountsTell(MountEvents(m), m)
      /\ \A type : type \notin {"mount.validated", "mount.applied"} => Of(MountEvents(m), type) = {}
  BY <1>2, MountsAreTold
<1>6. events' = MountEvents(m)
  BY <1>3, <1>4, <1>5, ConcatEmptySeq
<1> HIDE DEF m
<1>7. /\ events' \in Seq(Event) /\ MountsTell(events', m)
      /\ Of(events', "network.plan.generated") = {} /\ Of(events', "network.rule.applied") = {}
      /\ Of(events', "resource.sampled") = {} /\ Of(events', "network.rule.hit") = {}
  BY <1>5, <1>6
<1>8. bundle.rules = <<>> => PlanTells(events', bundle.rules)
  BY <1>7 DEF PlanTells
<1>9. QED
  BY <1>1, <1>3, <1>7, <1>8, NothingTold DEF AuditInv, After, m

LEMMA NetworkStep ==
  ASSUME PolicyInv, AuditInv, EmitNetwork
  PROVE  AuditInv'
<1> DEFINE fs == NetworkStart(bundle.rules, targets')
<1>1. phase = "network" /\ phase' = "monitor" /\ UNCHANGED <<bundle, counters>>
  BY DEF EmitNetwork
<1>2. /\ events \in Seq(Event) /\ MountsTell(events, Len(bundle.mounts)) /\ bundle.rules # <<>>
      /\ Of(events, "network.plan.generated") = {} /\ Of(events, "network.rule.applied") = {}
      /\ Of(events, "resource.sampled") = {} /\ Of(events, "network.rule.hit") = {}
      /\ counters = <<>>
  BY <1>1 DEF AuditInv, After
<1>3. Len(bundle.rules) \in Nat /\ DOMAIN bundle.rules = 1..Len(bundle.rules)
  BY <1>1, BundleParts DEF Compiled
<1>4. targets' \in Nat
  <2> DEFINE S == DOMAIN bundle.rules
  <2>1. PICK addresses \in [S -> 1..MaxTargets] :
          targets' = MapThenSumSet(LAMBDA n : addresses[n], S)
    BY DEF EmitNetwork
  <2>2. IsFiniteSet(S)
    BY <1>3, FS_Interval
  <2>3. addresses \in [S -> Nat]
    BY ReportAssumption
  <2> HIDE DEF S
  <2>4. MapThenSumSet(LAMBDA n : addresses[n], S) \in Nat
    BY <2>2, <2>3, AddressesAddUp
  <2>5. QED
    BY <2>1, <2>4
<1>5. events' = events \o fs
  BY DEF EmitNetwork, Emit, NetworkStart
<1>6. /\ fs \in Seq(Event) /\ PlanTells(fs, bundle.rules)
      /\ \A type : type \notin {"network.plan.generated", "network.rule.applied"} => Of(fs, type) = {}
  BY <1>2, <1>3, <1>4, PlanIsTold
<1> HIDE DEF fs
<1>7. events' \in Seq(Event)
  BY <1>2, <1>5, <1>6, OfConcat
<1>8. \A type : type \notin {"network.plan.generated", "network.rule.applied"} =>
        Keeps(events, events', type)
  BY <1>2, <1>5, <1>6, AppendedKeeps
<1>9. MountsTell(events', Len(bundle.mounts))
  BY <1>2, <1>8, MountsStay
<1>10. Of(events', "resource.sampled") = {} /\ Of(events', "network.rule.hit") = {}
  BY <1>2, <1>8 DEF Keeps
<1>11. PlanTells(events', bundle.rules)
  <2>1. ASSUME NEW type, Of(events, type) = {}
        PROVE  Of(events', type) = {Len(events) + n : n \in Of(fs, type)}
    BY <1>2, <1>5, <1>6, <2>1, OfConcat
  <2>2. \A n \in DOMAIN fs : events'[Len(events) + n] = fs[n]
    BY <1>2, <1>5, <1>6, OfConcat
  <2>3. \A type : Of(fs, type) \subseteq DOMAIN fs
    BY DEF Of
  <2>4. Of(events', "network.plan.generated") =
          {Len(events) + n : n \in Of(fs, "network.plan.generated")}
    BY <1>2, <2>1
  <2>5. QED
    BY <1>2, <1>6, <2>2, <2>3, <2>4 DEF PlanTells
<1>12. QED
  BY <1>1, <1>2, <1>4, <1>7, <1>9, <1>10, <1>11, NothingTold DEF AuditInv, After

LEMMA SamplesStep ==
  ASSUME AuditInv, EmitSamples
  PROVE  AuditInv'
<1>1. /\ phase = "monitor" /\ UNCHANGED <<bundle, targets, counters>>
      /\ phase' = (IF bundle.rules = <<>> THEN "report" ELSE "hits")
  BY DEF EmitSamples
<1>2. PICK n \in 0..MaxSamples : events' = events \o Samples(n)
  BY DEF EmitSamples, Emit, Samples
<1> DEFINE fs == Samples(n)
<1>3. n \in Nat
  BY ReportAssumption
<1>4. /\ events \in Seq(Event) /\ MountsTell(events, Len(bundle.mounts))
      /\ PlanTells(events, bundle.rules) /\ targets \in Nat
      /\ Of(events, "resource.sampled") = {} /\ Of(events, "network.rule.hit") = {}
      /\ counters = <<>>
  BY <1>1 DEF AuditInv, After
<1>5. /\ fs \in Seq(Event) /\ SamplesTell(events \o fs)
      /\ \A type : type # "resource.sampled" => Of(fs, type) = {}
  BY <1>3, <1>4, SamplesAreTold
<1>6. events' = events \o fs
  BY <1>2
<1> HIDE DEF fs
<1>7. events' \in Seq(Event) /\ SamplesTell(events')
  BY <1>4, <1>5, <1>6, OfConcat
<1>8. \A type : type # "resource.sampled" => Keeps(events, events', type)
  BY <1>4, <1>5, <1>6, AppendedKeeps
<1>9. MountsTell(events', Len(bundle.mounts)) /\ PlanTells(events', bundle.rules)
  BY <1>4, <1>8, MountsStay, PlanStays
<1>10. Of(events', "network.rule.hit") = {}
  BY <1>4, <1>8 DEF Keeps
<1>11. HitsTell(events', counters)
  BY <1>4, <1>10, NoHitsTold
<1>12. QED
  BY <1>1, <1>4, <1>7, <1>9, <1>10, <1>11, NothingTold DEF AuditInv, After

LEMMA HitsStep ==
  ASSUME AuditInv, EmitHits
  PROVE  AuditInv'
<1>1. /\ phase = "hits" /\ phase' = "report" /\ UNCHANGED <<bundle, targets>>
      /\ counters' \in [1..targets -> Counters] /\ events' = FoldLeft(EmitHit, events, counters')
  BY DEF EmitHits
<1>2. /\ events \in Seq(Event) /\ MountsTell(events, Len(bundle.mounts))
      /\ PlanTells(events, bundle.rules) /\ SamplesTell(events)
      /\ targets \in Nat /\ Of(events, "network.rule.hit") = {}
  BY <1>1 DEF AuditInv, After
<1>3. counters' \in Seq(Sampled)
  <2>1. Counters \subseteq Sampled
    BY ReportAssumption DEF Counters, Sampled
  <2>2. counters' \in [1..targets -> Sampled]
    BY <1>1, <2>1
  <2>3. QED
    BY <1>2, <2>2
<1>4. Emitted(events, counters', Len(counters'), events')
  BY <1>1, <1>2, <1>3, HitsAreTold
<1>5. /\ events' \in Seq(Event) /\ HitsTell(events', counters')
      /\ \A type : type # "network.rule.hit" => Of(events', type) = Of(events, type)
      /\ \A n \in DOMAIN events : events'[n] = events[n]
  BY <1>4 DEF Emitted, HitsTell
<1>6. \A type : type # "network.rule.hit" => Keeps(events, events', type)
  <2>1. \A type : Of(events, type) \subseteq DOMAIN events
    BY DEF Of
  <2>2. QED
    BY <1>5, <2>1 DEF Keeps
<1>7. /\ MountsTell(events', Len(bundle.mounts)) /\ PlanTells(events', bundle.rules)
      /\ SamplesTell(events')
  BY <1>2, <1>6, MountsStay, PlanStays, SamplesStay
<1>8. QED
  BY <1>1, <1>2, <1>3, <1>5, <1>7 DEF AuditInv, After

LEMMA AuditStep == PolicyInv /\ AuditInv /\ [Next]_vars => AuditInv'
<1> SUFFICES ASSUME PolicyInv, AuditInv, [Next]_vars
             PROVE  AuditInv'
  OBVIOUS
<1>1. CASE Load \/ Validate \/ Compile
  BY <1>1, BeforeStep
<1>2. CASE EmitMounts
  BY <1>2, MountsStep
<1>3. CASE EmitNetwork
  BY <1>3, NetworkStep
<1>4. CASE EmitSamples
  BY <1>4, SamplesStep
<1>5. CASE EmitHits
  BY <1>5, HitsStep
<1>6. CASE Report
  BY <1>6 DEF Report, AuditInv, After
<1>7. CASE UNCHANGED vars
  BY <1>7 DEF vars, AuditInv
<1>8. QED
  BY <1>1, <1>2, <1>3, <1>4, <1>5, <1>6, <1>7 DEF Next

-----------------------------------------------------------------------------

(* No mount is rejected, so that there is no reason for it.                *)
LEMMA NoneRejected ==
  ASSUME NEW es \in Seq(Event)
  PROVE  /\ Of(es, "mount.rejected") = {}
         /\ \A n \in 1..Len(es) : es[n].type # "mount.rejected"
<1>1. \A e \in Event : e.type # "mount.rejected"
  BY DEF Event
<1>2. \A n \in 1..Len(es) : es[n].type # "mount.rejected"
  BY <1>1, ElementOfSeq
<1>3. QED
  BY <1>2, LenProperties DEF Of

LEMMA NoReasons ==
  ASSUME NEW es \in Seq(Event)
  PROVE  Reasons(es) = <<>>
<1> DEFINE n == Len(es)
           Next1(rs, e) == IF e.type # "mount.rejected" THEN rs
                           ELSE IF Contains(rs, e.errorCode) THEN rs
                           ELSE Append(rs, e.errorCode)
           Is(h) == h = [s \in SUBSET (1..n) |->
                           IF s = {} THEN <<>> ELSE Next1(h[s \ {Max(s)}], es[Max(s)])]
           f == CHOOSE h : Is(h)
<1>1. n \in Nat /\ DOMAIN es = 1..n
  BY LenProperties
<1>2. Reasons(es) = f[1..n]
  BY <1>1 DEF Reasons, FoldLeft, MapThenFoldSet
<1>3. \A rs : \A i \in 1..n : Next1(rs, es[i]) = rs
  BY NoneRejected
<1> HIDE DEF Next1
<1>4. \A s \in SUBSET (1..n) : s # {} => Max(s) \in s
  BY <1>1, Greatest
<1> HIDE DEF n
<1>5. \E h : Is(h)
  <2> DEFINE h == [s \in SUBSET (1..n) |-> <<>>]
  <2>1. \A s \in SUBSET (1..n) :
          <<>> = IF s = {} THEN <<>> ELSE Next1(h[s \ {Max(s)}], es[Max(s)])
    BY <1>3, <1>4
  <2>2. Is(h)
    BY <2>1
  <2> HIDE DEF h
  <2>3. QED
    BY <2>2
<1>6. Is(f)
  BY <1>5
<1> HIDE DEF f
<1> DEFINE S == 1..n
           T == {s \in SUBSET S : f[s] = <<>>}
<1>7. {} \in T
  BY <1>6
<1>8. ASSUME NEW s \in SUBSET S, s # {}, \A x \in s : s \ {x} \in T
      PROVE  s \in T
  <2>1. f[s] = Next1(f[s \ {Max(s)}], es[Max(s)]) /\ Max(s) \in s
    BY <1>4, <1>6, <1>8
  <2>2. QED
    BY <1>3, <1>8, <2>1
<1>9. IsFiniteSet(S)
  BY <1>1, FS_Interval
<1> HIDE DEF S, T
<1>10. S \in T
  <2>1. SUBSET S \subseteq T
    BY <1>7, <1>8, <1>9, SubsetInduction
  <2>2. S \in SUBSET S
    OBVIOUS
  <2>3. QED
    BY <2>1, <2>2
<1>11. QED
  BY <1>2, <1>10 DEF S, T

(* The usage of the last sample is the number of samples.                  *)
LEMMA UsageIsCount ==
  ASSUME NEW es \in Seq(Event), SamplesTell(es)
  PROVE  ResourceUsage(es) = Count(es, "resource.sampled")
<1> DEFINE S == Of(es, "resource.sampled")
<1>1. PICK b \in Nat, n \in Nat : /\ S = (b + 1)..(b + n)
                                  /\ \A k \in 1..n : es[b + k].usage = k
  BY DEF SamplesTell
<1>2. Cardinality(S) = n
  <2>1. Cardinality((b + 1)..(b + n)) = IF b + 1 > b + n THEN 0 ELSE (b + n) - (b + 1) + 1
    BY FS_Interval
  <2>2. QED
    BY <1>1, <2>1
<1>3. S # {} => Max(S) \in S
  BY OfIsFinite
<1>4. CASE n = 0
  <2>1. S = {}
    BY <1>1, <1>4
  <2>2. QED
    BY <1>2, <1>4, <2>1 DEF ResourceUsage, Count
<1>5. CASE n # 0
  <2>1. S \in SUBSET (1..(b + n)) /\ S # {} /\ b + n \in S /\ b + n \in Nat
    BY <1>1, <1>5
  <2>2. Max(S) \in S /\ \A i \in S : i <= Max(S)
    <3> HIDE DEF S
    <3>1. QED
      BY <2>1, Greatest
  <2>3. Max(S) = b + n
    <3>1. b + n <= Max(S) /\ Max(S) \in (b + 1)..(b + n)
      BY <1>1, <2>1, <2>2
    <3> HIDE DEF S
    <3>2. QED
      BY <3>1
  <2>4. ResourceUsage(es) = es[b + n].usage
    BY <2>1, <2>3 DEF ResourceUsage, Latest
  <2>5. QED
    BY <1>1, <1>2, <1>5, <2>4 DEF Count
<1>6. QED
  BY <1>4, <1>5

LEMMA MountAuditTells ==
  ASSUME NEW es \in Seq(Event), NEW m \in Nat, MountsTell(es, m)
  PROVE  MountAudit(es) = [requested |-> m, accepted |-> m, rejected |-> 0, reasons |-> <<>>]
<1>1. Count(es, "mount.rejected") = 0
  BY NoneRejected, FS_EmptySet DEF Count
<1>2. Count(es, "mount.validated") = m /\ Count(es, "mount.applied") = m
  BY DEF MountsTell
<1>3. QED
  BY <1>1, <1>2, NoReasons DEF MountAudit

(* What the audit adds up is what was read.                                *)
LEMMA HitsTellCounters ==
  ASSUME NEW es \in Seq(Event), NEW cs \in Seq(Sampled), HitsTell(es, cs),
         NEW field \in {"allowedHits", "blockedHits"}
  PROVE  Hits(es, field) = MapThenSumSet(LAMBDA n : cs[n][field], DOMAIN cs)
<1> DEFINE S == Of(es, "network.rule.hit")
           D == DOMAIN cs
<1>1. Hits(es, field) = FieldSum(es, field, S)
  BY DEF Hits, FieldSum
<1>2. MapThenSumSet(LAMBDA n : cs[n][field], D) = FieldSum(cs, field, D)
  BY DEF FieldSum
<1>3. IsFiniteSet(S) /\ \A n \in S : es[n][field] \in Nat
  BY OfIsFinite, HitFieldIsNat
<1>4. D = 1..Len(cs) /\ Len(cs) \in Nat
  BY LenProperties
<1>5. IsFiniteSet(D) /\ \A n \in D : cs[n][field] \in Nat
  <2>1. IsFiniteSet(D)
    BY <1>4, FS_Interval
  <2>2. \A n \in D : cs[n] \in Sampled
    BY <1>4, ElementOfSeq
  <2>3. QED
    BY <2>1, <2>2 DEF Sampled
<1>6. FieldSum(es, field, S) = HitTotal(es, field)
  BY <1>3, FieldSumIs DEF HitTotal
<1>7. FieldSum(cs, field, D) = CounterTotal(cs, Len(cs), field)
  <2>1. FieldSum(cs, field, D) = Total(FieldOf(cs, field, D), D)
    BY <1>5, FieldSumIs
  <2>2. QED
    BY <1>4, <2>1 DEF CounterTotal
<1>8. HitTotal(es, field) = CounterTotal(cs, Len(cs), field)
  BY DEF HitsTell
<1>9. QED
  BY <1>1, <1>2, <1>6, <1>7, <1>8

(* The mode and the rules of the audit are the policy's.                   *)
LEMMA PlanAuditTells ==
  ASSUME PolicyInv, Compiled, events \in Seq(Event), PlanTells(events, bundle.rules)
  PROVE  LET audit == NetworkAudit(events, policy.network.mode, Len(policy.network.egress)) IN
         /\ audit.mode = policy.network.mode
         /\ audit.rulesTotal = Len(policy.network.egress)
<1> DEFINE plans == Of(events, "network.plan.generated")
           applied == Of(events, "network.rule.applied")
           audit == NetworkAudit(events, policy.network.mode, Len(policy.network.egress))
<1>1. /\ bundle.rules = <<>> <=> policy.network.mode = "none"
      /\ policy.network.mode \in {"none", "allowlist"}
      /\ bundle.rules # <<>> => Len(bundle.rules) = Len(policy.network.egress)
  BY BundleParts
<1>2. /\ plans # {} <=> bundle.rules # <<>>
      /\ applied # {} => bundle.rules # <<>>
      /\ \A n \in plans : events[n].mode = "allowlist" /\ events[n].rulesTotal = Len(bundle.rules)
  BY DEF PlanTells
<1>3. CASE plans # {}
  <2>1. Max(plans) \in plans
    BY <1>3, OfIsFinite
  <2>2. audit.mode = events[Max(plans)].mode /\ audit.rulesTotal = events[Max(plans)].rulesTotal
    BY <1>3 DEF NetworkAudit, Latest
  <2>3. QED
    BY <1>1, <1>2, <1>3, <2>1, <2>2
<1>4. CASE plans = {}
  <2>1. Count(events, "network.rule.applied") = 0
    BY <1>2, <1>4, FS_EmptySet DEF Count
  <2>2. audit.mode = policy.network.mode /\ audit.rulesTotal = Len(policy.network.egress)
    BY <1>4, <2>1 DEF NetworkAudit
  <2>3. QED
    BY <2>2
<1>5. QED
  BY <1>3, <1>4

LEMMA AuditInvariant == Spec => [](PolicyInv /\ AuditInv)
<1>1. Init => PolicyInv /\ AuditInv
  BY PolicyInit, AuditInit
<1>2. (PolicyInv /\ AuditInv) /\ [Next]_vars => (PolicyInv /\ AuditInv)'
  BY PolicyStep, AuditStep
<1>3. QED
  BY <1>1, <1>2, PTL DEF Spec

(* The audits of a report say what the policy asked for and what was       *)
(* counted, although they are derived from the event stream alone.         *)
THEOREM AuditsTellThePolicy == Spec => []AuditIsOfThePolicy
<1>1. PolicyInv /\ AuditInv => AuditIsOfThePolicy
  <2> SUFFICES ASSUME PolicyInv, AuditInv, phase = "reported"
               PROVE  AuditIsOfThePolicy
    BY DEF AuditIsOfThePolicy
  <2> DEFINE audit == NetworkAudit(events, policy.network.mode, Len(policy.network.egress))
             sum(field) == MapThenSumSet(LAMBDA n : counters[n][field], DOMAIN counters)
  <2>1. /\ events \in Seq(Event) /\ counters \in Seq(Sampled)
        /\ MountsTell(events, Len(bundle.mounts)) /\ PlanTells(events, bundle.rules)
        /\ SamplesTell(events) /\ HitsTell(events, counters)
    BY DEF AuditInv, After
  <2>2. Compiled /\ Len(policy.mounts) \in Nat /\ Len(bundle.mounts) = Len(policy.mounts)
    BY BundleParts DEF Compiled
  <2>3. MountAudit(events) = [requested |-> Len(policy.mounts),
          accepted |-> Len(policy.mounts), rejected |-> 0, reasons |-> <<>>]
    BY <2>1, <2>2, MountAuditTells
  <2>4. audit.mode = policy.network.mode /\ audit.rulesTotal = Len(policy.network.egress)
    BY <2>1, <2>2, PlanAuditTells
  <2>5. audit.allowedHits = sum("allowedHits") /\ audit.blockedHits = sum("blockedHits")
    <3>1. Hits(events, "allowedHits") = sum("allowedHits")
      BY <2>1, HitsTellCounters
    <3>2. Hits(events, "blockedHits") = sum("blockedHits")
      BY <2>1, HitsTellCounters
    <3> HIDE DEF sum
    <3>3. QED
      BY <3>1, <3>2 DEF NetworkAudit
  <2>6. ResourceUsage(events) = Count(events, "resource.sampled")
    BY <2>1, UsageIsCount
  <2>7. QED
    BY <2>3, <2>4, <2>5, <2>6 DEF AuditIsOfThePolicy
<1>2. QED
  BY <1>1, AuditInvariant, PTL
=============================================================================
