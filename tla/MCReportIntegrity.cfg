SPECIFICATION ReportSpec
CONSTANTS
  MaxAppends = 3
  Versions <- MCVersions
  MaxDamages = 1
INVARIANTS ReportTypeOK LoadedChainVerifies LoadedIsAcked WrittenReportsVerify DamageIsReported
PROPERTIES DamageIsKept ArtifactsArePinned
