SPECIFICATION Spec
CONSTANTS
  Policies <- MCPolicies
  Allowlists <- MCAllowlists
  ValidCidrs = {"net"}
  U64 = 2048
  MaxHits = 2
  MaxTargets = 2
  MaxSamples = 2
INVARIANTS
  ValidatorAndCompilerAgree
  ValidPolicyCompiles
  MemoryIsExact
  NormalFormIsResolved
  ValidMountsAreInside
  AuditIsOfThePolicy
CHECK_DEADLOCK FALSE
