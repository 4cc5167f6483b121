------------------------- MODULE ReportIntegrityProofs -------------------------
(***************************************************************************)
(* Proofs about reports, for any number of events, any contents of the     *)
(* artifacts and any amount of damage: the event stream behaves in the     *)
(* composition as it does alone, what is written verifies, a report names  *)
(* the artifacts of its own run, and damage is reported as what it is.     *)
(***************************************************************************)
EXTENDS ReportIntegrity, EvidenceLogProofs, DataInduction, SequenceTheorems,
        FiniteSetTheorems, TLAPS

(* Each step of the composition is one of the event stream, or leaves it   *)
(* alone.                                                                  *)
LEMMA LogStep == [ReportNext]_allVars => [Next]_vars
<1> SUFFICES ASSUME [ReportNext]_allVars PROVE [Next]_vars
  OBVIOUS
<1>1. CASE StageKernel \/ Rebuild \/ BuildReport \/ ArchiveReport \/ DamageFile \/ DamageArchive
  BY <1>1 DEF StageKernel, Rebuild, BuildReport, ArchiveReport, DamageFile, DamageArchive
<1>2. CASE StageRootfs
  BY <1>2 DEF StageRootfs, Next
<1>3. CASE AppendEvent
  BY <1>3 DEF AppendEvent, Next
<1>4. CASE UNCHANGED allVars
  BY <1>4 DEF allVars
<1>5. QED
  BY <1>1, <1>2, <1>3, <1>4 DEF ReportNext

(* The composition implements the event stream, so that what is proved of  *)
(* the stream alone holds in it.                                           *)
THEOREM ReportKeepsTheLog == ReportSpec => Spec
<1>1. ReportInit => Init
  BY DEF ReportInit
<1>2. QED
  BY <1>1, LogStep, PTL DEF ReportSpec, Spec

LEMMA LogInvariant == ReportSpec => []IInv
<1>1. Spec => []IInv
  BY ChainInit, ChainStep, PTL DEF Spec
<1>2. QED
  BY <1>1, ReportKeepsTheLog, PTL

-----------------------------------------------------------------------------
(* The artifacts.                                                          *)

(* While a run is up, each of its artifacts has a copy in the workdir.     *)
StagedInv ==
  /\ staged \in [Artifacts -> Versions \cup {0, Other}]
  /\ source \in [Artifacts -> Versions \cup {0}]
  /\ stage = "rootfs" => staged["kernel"] # 0
  /\ stage = "run" => \A a \in Artifacts : staged[a] # 0

LEMMA StagedInit == ReportInit => StagedInv
  BY ReportAssumption DEF ReportInit, StagedInv, Artifacts

LEMMA StagedStep == StagedInv /\ [ReportNext]_allVars => StagedInv'
<1> SUFFICES ASSUME StagedInv, [ReportNext]_allVars PROVE StagedInv'
  OBVIOUS
<1>0. /\ staged \in [Artifacts -> Versions \cup {0, Other}]
      /\ source \in [Artifacts -> Versions \cup {0}]
  BY DEF StagedInv
<1>a. ASSUME NEW a \in Artifacts, Stages(a)
      PROVE  /\ staged' \in [Artifacts -> Versions \cup {0, Other}]
             /\ staged'[a] # 0
             /\ \A b \in Artifacts \ {a} : staged'[b] = staged[b]
  BY <1>0, <1>a DEF Stages
<1>b. ASSUME NEW a \in Artifacts, StageFails(a)
      PROVE  staged' \in [Artifacts -> Versions \cup {0, Other}] /\ stage' = "new"
  BY <1>0, <1>b DEF StageFails
<1>1. CASE StageKernel
  <2>1. source' = source
    BY <1>1 DEF StageKernel
  <2>2. CASE Stages("kernel") /\ stage' = "rootfs"
    BY <1>0, <1>a, <2>1, <2>2 DEF StagedInv, Artifacts
  <2>3. CASE StageFails("kernel")
    BY <1>0, <1>b, <2>1, <2>3 DEF StagedInv, Artifacts
  <2>4. QED
    BY <1>1, <2>2, <2>3 DEF StageKernel
<1>2. CASE StageRootfs
  <2>1. source' = source /\ stage = "rootfs" /\ staged["kernel"] # 0
    BY <1>2 DEF StageRootfs, StagedInv
  <2>2. CASE Stages("rootfs") /\ stage' \in {"run", "new"}
    BY <1>0, <1>a, <2>1, <2>2 DEF StagedInv, Artifacts
  <2>3. CASE StageFails("rootfs")
    BY <1>0, <1>b, <2>1, <2>3 DEF StagedInv, Artifacts
  <2>4. QED
    BY <1>2, <2>2, <2>3 DEF StageRootfs
<1>3. CASE Rebuild
  BY <1>3, <1>0 DEF Rebuild, StagedInv
<1>4. CASE BuildReport
  BY <1>4 DEF BuildReport, StagedInv
<1>5. CASE AppendEvent \/ ArchiveReport \/ DamageFile \/ DamageArchive \/ UNCHANGED allVars
  <2>1. UNCHANGED runVars
    BY <1>5 DEF AppendEvent, ArchiveReport, DamageFile, DamageArchive, allVars
  <2>2. QED
    BY <2>1 DEF runVars, StagedInv
<1>6. QED
  BY <1>1, <1>2, <1>3, <1>4, <1>5 DEF ReportNext

(* What the report hashes are the copies in the workdir.                   *)
LEMMA HashedAreStaged ==
  ASSUME StagedInv, stage = "run"
  PROVE  HashedArtifacts = staged /\ \A a \in Artifacts : HashedArtifacts[a] # Malformed
<1>1. HashedArtifacts = staged
  BY DEF HashedArtifacts, StagedInv
<1>2. \A a \in Artifacts : staged[a] # Malformed
  BY ReportAssumption DEF StagedInv, Malformed, Other
<1>3. QED
  BY <1>1, <1>2

-----------------------------------------------------------------------------
(* Reports.                                                                *)

ReportOf(s, h, b, e, m, d) ==
  [schema |-> s, hashes |-> h, body |-> b, events |-> e, meta |-> m, digest |-> d]

IsReport(r) == \E s, h, b, e, m, d : r = ReportOf(s, h, b, e, m, d)

(* The digest of a report is that of its other fields.                     *)
LEMMA DigestIs ==
  ASSUME NEW s, NEW h, NEW b, NEW e, NEW m, NEW d
  PROVE  /\ DigestOf(ReportOf(s, h, b, e, m, d)) = {ReportOf(s, h, b, e, m, {})}
         /\ Sealed(ReportOf(s, h, b, e, m, d)) =
              ReportOf(s, h, b, e, m, {ReportOf(s, h, b, e, m, {})})
  BY DEF DigestOf, Sealed, ReportOf

(* What verify_report says of it.                                          *)
LEMMA ErrorsAre ==
  ASSUME NEW s, NEW h, NEW b, NEW e, NEW m, NEW d
  PROVE  LET errors == Errors(<<ReportOf(s, h, b, e, m, d)>>) IN
         /\ errors \subseteq {"SR-EVD-301", "SR-EVD-302", "SR-EVD-303"}
         /\ "SR-EVD-301" \in errors <=> s # "v1"
         /\ "SR-EVD-302" \in errors <=>
              ~((\A a \in Artifacts : h[a] # Malformed) /\ d = {ReportOf(s, h, b, e, m, {})})
         /\ "SR-EVD-303" \in errors <=> ~ReportChainOk(e)
<1> DEFINE r == ReportOf(s, h, b, e, m, d)
<1>1. r.schema = s /\ r.hashes = h /\ r.events = e /\ r.digest = d
  BY DEF ReportOf
<1>2. DigestOf(r) = {ReportOf(s, h, b, e, m, {})}
  BY DEF DigestOf, ReportOf
<1>3. Errors(<<r>>) = VerifyReport(r)
  BY DEF Errors
<1>4. ArtifactHashOk(r) <=>
        (\A a \in Artifacts : h[a] # Malformed) /\ d = {ReportOf(s, h, b, e, m, {})}
  BY <1>1, <1>2 DEF ArtifactHashOk
<1>5. /\ "SR-EVD-301" \in VerifyReport(r) <=> r.schema # "v1"
      /\ "SR-EVD-302" \in VerifyReport(r) <=> ~ArtifactHashOk(r)
      /\ "SR-EVD-303" \in VerifyReport(r) <=> ~ReportChainOk(r.events)
      /\ VerifyReport(r) \subseteq {"SR-EVD-301", "SR-EVD-302", "SR-EVD-303"}
  <2> HIDE DEF r
  <2>1. QED
    BY DEF VerifyReport
<1>6. QED
  <2> HIDE DEF r
  <2>1. Errors(<<r>>) = VerifyReport(r)
    BY <1>3
  <2>2. QED
    BY <1>1, <1>4, <1>5, <2>1 DEF r

(* The events of a stream that loads verify.                               *)
LEMMA ReportEventsVerify == IInv /\ Loads => ReportChainOk(ReportEvents)
<1> SUFFICES ASSUME IInv, Loads PROVE ReportChainOk(ReportEvents)
  OBVIOUS
<1>1. EventChainOk(LoadedEvents) /\ LoadedEvents \in Seq(Fragments)
  BY LoadedChain, LoadedShape DEF LoadedChainVerifies
<1>2. DOMAIN ReportEvents = DOMAIN LoadedEvents /\ DOMAIN LoadedEvents = 1..Len(LoadedEvents)
  BY <1>1 DEF ReportEvents
<1>3. \A k \in DOMAIN LoadedEvents :
        /\ ReportEvents[k].hash_prev = LoadedEvents[k].hash_prev
        /\ ReportEvents[k].hash_self = LoadedEvents[k].hash_self
        /\ ReportEvents[k].derived = LoadedEvents[k].hash_self
  BY DEF ReportEvents
<1>4. ASSUME NEW k \in DOMAIN LoadedEvents
      PROVE  ReportEvents[k].hash_prev =
               IF k = 1 THEN GENESIS ELSE ReportEvents[k - 1].hash_self
  <2>1. k # 1 => k - 1 \in DOMAIN LoadedEvents
    BY <1>1, <1>2
  <2>2. QED
    BY <1>1, <1>3, <2>1 DEF EventChainOk
<1>5. QED
  BY <1>2, <1>3, <1>4 DEF ReportChainOk, EventChainOk

(* The report that is built has no error.                                  *)
LEMMA BuiltVerifies ==
  ASSUME IInv, Loads, StagedInv, stage = "run"
  PROVE  IsReport(BuiltReport) /\ Errors(<<BuiltReport>>) = {}
<1> DEFINE h == HashedArtifacts
           e == ReportEvents
           d == {ReportOf("v1", h, "told", e, "none", {})}
<1>1. BuiltReport = Sealed(ReportOf("v1", h, "told", e, "none", {}))
  BY DEF BuiltReport, ReportOf
<1>2. (\A a \in Artifacts : h[a] # Malformed) /\ ReportChainOk(e)
  BY HashedAreStaged, ReportEventsVerify
<1> HIDE DEF h, e
<1>3. BuiltReport = ReportOf("v1", h, "told", e, "none", d)
  BY <1>1, DigestIs
<1>4. Errors(<<BuiltReport>>) = {}
  BY <1>2, <1>3, ErrorsAre
<1>5. QED
  BY <1>3, <1>4 DEF IsReport

(* The archive of a report has its errors, but for the wrong digest.       *)
LEMMA ArchivedErrors ==
  ASSUME NEW r, IsReport(r)
  PROVE  /\ IsReport(ArchivedReport(r))
         /\ Errors(<<ArchivedReport(r)>>) \subseteq Errors(<<r>>)
         /\ Errors(<<r>>) \subseteq Errors(<<ArchivedReport(r)>>) \cup {"SR-EVD-302"}
<1>1. PICK s, h, b, e, m, d : r = ReportOf(s, h, b, e, m, d)
  BY DEF IsReport
<1> DEFINE sealed == {ReportOf(s, h, b, e, "pass", {})}
<1>2. ArchivedReport(r) = Sealed(ReportOf(s, h, b, e, "pass", d))
  BY <1>1 DEF ArchivedReport, ReportOf
<1>3. ArchivedReport(r) = ReportOf(s, h, b, e, "pass", sealed)
  BY <1>2, DigestIs
<1>4. LET errors == Errors(<<r>>) IN
        /\ errors \subseteq {"SR-EVD-301", "SR-EVD-302", "SR-EVD-303"}
        /\ "SR-EVD-301" \in errors <=> s # "v1"
        /\ ~(\A a \in Artifacts : h[a] # Malformed) => "SR-EVD-302" \in errors
        /\ "SR-EVD-303" \in errors <=> ~ReportChainOk(e)
  BY <1>1, ErrorsAre
<1>5. LET errors == Errors(<<ArchivedReport(r)>>) IN
        /\ errors \subseteq {"SR-EVD-301", "SR-EVD-302", "SR-EVD-303"}
        /\ "SR-EVD-301" \in errors <=> s # "v1"
        /\ "SR-EVD-302" \in errors => ~(\A a \in Artifacts : h[a] # Malformed)
        /\ "SR-EVD-303" \in errors <=> ~ReportChainOk(e)
  BY <1>3, ErrorsAre
<1>6. QED
  BY <1>3, <1>4, <1>5 DEF IsReport

(* Damage leaves a report a report.                                        *)
LEMMA DamagedIsReport ==
  ASSUME NEW r, IsReport(r), NEW x \in Damaged(r)
  PROVE  IsReport(x)
<1>1. PICK s, h, b, e, m, d : r = ReportOf(s, h, b, e, m, d)
  BY DEF IsReport
<1>2. \/ x = [r EXCEPT !.schema = "v2"] \/ x = [r EXCEPT !.body = "other"]
      \/ x = [r EXCEPT !.digest = {}] \/ x = [r EXCEPT !.meta = "none"]
      \/ \E a \in Artifacts, v \in {Malformed, Other} : x = [r EXCEPT !.hashes[a] = v]
      \/ \E es \in DamagedEvents(r.events) : x = [r EXCEPT !.events = es]
  BY DEF Damaged
<1>3. CASE x = [r EXCEPT !.schema = "v2"]
  <2>1. x = ReportOf("v2", h, b, e, m, d)
    BY <1>1, <1>3 DEF ReportOf
  <2>2. QED
    BY <2>1 DEF IsReport
<1>4. CASE x = [r EXCEPT !.body = "other"]
  <2>1. x = ReportOf(s, h, "other", e, m, d)
    BY <1>1, <1>4 DEF ReportOf
  <2>2. QED
    BY <2>1 DEF IsReport
<1>5. CASE x = [r EXCEPT !.digest = {}]
  <2>1. x = ReportOf(s, h, b, e, m, {})
    BY <1>1, <1>5 DEF ReportOf
  <2>2. QED
    BY <2>1 DEF IsReport
<1>6. CASE x = [r EXCEPT !.meta = "none"]
  <2>1. x = ReportOf(s, h, b, e, "none", d)
    BY <1>1, <1>6 DEF ReportOf
  <2>2. QED
    BY <2>1 DEF IsReport
<1>7. ASSUME NEW a \in Artifacts, NEW v \in {Malformed, Other}, x = [r EXCEPT !.hashes[a] = v]
      PROVE  IsReport(x)
  <2>1. x = ReportOf(s, [h EXCEPT ![a] = v], b, e, m, d)
    BY <1>1, <1>7 DEF ReportOf
  <2>2. QED
    BY <2>1 DEF IsReport
<1>8. ASSUME NEW es, x = [r EXCEPT !.events = es]
      PROVE  IsReport(x)
  <2>1. x = ReportOf(s, h, b, es, m, d)
    BY <1>1, <1>8 DEF ReportOf
  <2>2. QED
    BY <2>1 DEF IsReport
<1>9. QED
  BY <1>2, <1>3, <1>4, <1>5, <1>6, <1>7, <1>8

-----------------------------------------------------------------------------

(* What is on disk, and what was written.                                  *)
FileInv == file # <<>> => IsReport(file[1]) /\ file = <<file[1]>>

WroteInv ==
  /\ wrote = [file |-> wrote.file, archive |-> wrote.archive, archived |-> wrote.archived]
  /\ wrote.file # <<>> => Errors(wrote.file) = {}
  /\ wrote.archive # <<>> =>
       /\ wrote.archived # <<>>
       /\ Errors(wrote.archive) \subseteq Errors(wrote.archived)
       /\ Errors(wrote.archived) \subseteq Errors(wrote.archive) \cup {"SR-EVD-302"}

ReportInv == StagedInv /\ FileInv /\ WroteInv

LEMMA ReportInvInit == ReportInit => ReportInv
  BY StagedInit DEF ReportInit, ReportInv, FileInv, WroteInv

LEMMA ReportInvStep == IInv /\ ReportInv /\ [ReportNext]_allVars => ReportInv'
<1> SUFFICES ASSUME IInv, ReportInv, [ReportNext]_allVars
             PROVE  FileInv' /\ WroteInv'
  BY StagedStep DEF ReportInv
<1>0. StagedInv /\ FileInv /\ WroteInv
  BY DEF ReportInv
<1>1. CASE StageKernel \/ StageRootfs \/ AppendEvent \/ Rebuild \/ UNCHANGED allVars
  <2>1. file' = file /\ wrote' = wrote
    BY <1>1 DEF StageKernel, StageRootfs, AppendEvent, Rebuild, allVars, reportVars
  <2>2. QED
    BY <1>0, <2>1 DEF FileInv, WroteInv
<1>2. CASE BuildReport
  <2>1. CASE Loads /\ file' = <<BuiltReport>> /\ wrote' = [wrote EXCEPT !.file = file']
    <3>1. IsReport(BuiltReport) /\ Errors(<<BuiltReport>>) = {}
      BY <1>0, <1>2, <2>1, BuiltVerifies DEF BuildReport
    <3>2. FileInv'
      BY <2>1, <3>1 DEF FileInv
    <3>3. wrote'.file = <<BuiltReport>> /\ wrote'.archive = wrote.archive
            /\ wrote'.archived = wrote.archived
            /\ wrote' = [file |-> file', archive |-> wrote.archive, archived |-> wrote.archived]
      BY <1>0, <2>1 DEF WroteInv
    <3>4. QED
      BY <1>0, <3>1, <3>2, <3>3 DEF WroteInv
  <2>2. CASE file' = <<>> /\ wrote' = [wrote EXCEPT !.file = <<>>]
    <3>1. wrote'.file = <<>> /\ wrote'.archive = wrote.archive
            /\ wrote'.archived = wrote.archived
            /\ wrote' = [file |-> <<>>, archive |-> wrote.archive, archived |-> wrote.archived]
      BY <1>0, <2>2 DEF WroteInv
    <3>2. QED
      BY <1>0, <2>2, <3>1 DEF FileInv, WroteInv
  <2>3. CASE UNCHANGED <<file, wrote>>
    BY <1>0, <2>3 DEF FileInv, WroteInv
  <2>4. QED
    BY <1>2, <2>1, <2>2, <2>3 DEF BuildReport
<1>3. CASE ArchiveReport
  <2>1. file # <<>> /\ file' = file /\ IsReport(file[1]) /\ file = <<file[1]>>
    BY <1>0, <1>3 DEF ArchiveReport, FileInv
  <2>2. /\ wrote'.file = wrote.file /\ wrote'.archive = archive' /\ wrote'.archived = file
        /\ wrote' = [file |-> wrote.file, archive |-> archive', archived |-> file]
    BY <1>0, <1>3 DEF ArchiveReport, WroteInv
  <2>3. archive' = <<ArchivedReport(file[1])>> \/ archive' = <<>>
    BY <1>3 DEF ArchiveReport
  <2>4. /\ Errors(<<ArchivedReport(file[1])>>) \subseteq Errors(file)
        /\ Errors(file) \subseteq Errors(<<ArchivedReport(file[1])>>) \cup {"SR-EVD-302"}
    BY <2>1, ArchivedErrors
  <2>5. QED
    BY <1>0, <2>1, <2>2, <2>3, <2>4 DEF FileInv, WroteInv
<1>4. CASE DamageFile
  <2>1. wrote' = wrote /\ (file' = <<>> \/ \E r \in Damaged(file[1]) : file' = <<r>>)
    BY <1>4 DEF DamageFile
  <2>2. IsReport(file[1])
    BY <1>0, <1>4 DEF DamageFile, FileInv
  <2>3. file' = <<>> \/ \E r : IsReport(r) /\ file' = <<r>>
    BY <2>1, <2>2, DamagedIsReport
  <2>4. QED
    BY <1>0, <2>1, <2>3 DEF FileInv, WroteInv
<1>5. CASE DamageArchive
  BY <1>0, <1>5 DEF DamageArchive, FileInv, WroteInv
<1>6. QED
  BY <1>1, <1>2, <1>3, <1>4, <1>5 DEF ReportNext

LEMMA ReportInvariant == ReportSpec => []ReportInv
<1>1. ReportInit => ReportInv
  BY ReportInvInit
<1>2. QED
  BY <1>1, ReportInvStep, LogInvariant, PTL DEF ReportSpec

(* Every report that was written verifies, and the archive of a report has *)
(* its errors, but for a wrong digest.                                     *)
THEOREM ReportsVerify == ReportSpec => []WrittenReportsVerify
<1>1. ReportInv => WrittenReportsVerify
  BY DEF ReportInv, WroteInv, WrittenReportsVerify
<1>2. QED
  BY <1>1, ReportInvariant, PTL

(* A report names the artifacts that its VM was started with.              *)
THEOREM ReportsNameTheirArtifacts == ReportSpec => ArtifactsArePinned
<1> DEFINE Pinned == stage = "run" /\ stage' = "done" /\ file' # file /\ file' # <<>> =>
                       file'[1].hashes = staged
<1>1. ASSUME ReportInv, [ReportNext]_allVars PROVE Pinned
  <2> SUFFICES ASSUME stage = "run", stage' = "done", file' # file, file' # <<>>
               PROVE  file'[1].hashes = staged
    OBVIOUS
  <2>1. BuildReport
    BY <1>1 DEF ReportNext, StageKernel, StageRootfs, AppendEvent, Rebuild, ArchiveReport,
       DamageFile, DamageArchive, allVars, runVars, reportVars
  <2>2. file' = <<BuiltReport>>
    BY <2>1 DEF BuildReport
  <2>3. BuiltReport.hashes = HashedArtifacts
    BY DEF BuiltReport, Sealed
  <2>4. QED
    BY <1>1, <2>2, <2>3, HashedAreStaged DEF ReportInv
<1>2. ReportInv /\ [ReportNext]_allVars => [Pinned]_allVars
  BY <1>1
<1>3. QED
  BY <1>2, ReportInvariant, PTL DEF ReportSpec, ArtifactsArePinned
-----------------------------------------------------------------------------
(* Events in a report, and what damage makes of them.                      *)

(* Events as the program writes them into a report: each names the one     *)
(* before it, and has a later hash.                                        *)
WrittenEvents == [hash_prev : Nat, hash_self : Nat, derived : Nat]
Genuine(es) ==
  /\ es \in Seq(WrittenEvents)
  /\ \A k \in DOMAIN es : es[k].derived = es[k].hash_self /\ es[k].hash_prev < es[k].hash_self
  /\ EventChainOk(es)

(* Events of a damaged report: each is one that was written, or its hash   *)
(* is not its own.                                                         *)
DiskEvents == [hash_prev : Nat, hash_self : Nat \cup {Malformed}, derived : Nat \cup {Other}]
MadeOf(now, then) ==
  /\ now \in Seq(DiskEvents)
  /\ \A k \in DOMAIN now :
       now[k].derived = now[k].hash_self => \E n \in DOMAIN then : now[k] = then[n]

LEMMA GenuineTypes ==
  ASSUME NEW es, Genuine(es)
  PROVE  /\ DOMAIN es = 1..Len(es) /\ Len(es) \in Nat
         /\ \A k \in DOMAIN es :
              /\ es[k] \in WrittenEvents
              /\ es[k].hash_self \in Nat /\ es[k].hash_prev \in Nat
              /\ es[k].hash_prev < es[k].hash_self
<1>1. es \in Seq(WrittenEvents)
  BY DEF Genuine
<1>2. DOMAIN es = 1..Len(es) /\ Len(es) \in Nat
  BY <1>1
<1>3. \A k \in DOMAIN es : es[k] \in WrittenEvents
  BY <1>1, <1>2, ElementOfSeq
<1>4. QED
  BY <1>2, <1>3 DEF Genuine, WrittenEvents

(* The hashes of a chain grow.                                             *)
LEMMA HashesGrow ==
  ASSUME NEW es, Genuine(es)
  PROVE  \A m, n \in DOMAIN es : m < n => es[m].hash_self < es[n].hash_self
<1> DEFINE P == {d \in Nat : \A m, n \in DOMAIN es : n = m + d + 1 => es[m].hash_self < es[n].hash_self}
<1>0. /\ DOMAIN es = 1..Len(es) /\ Len(es) \in Nat
      /\ \A k \in DOMAIN es : es[k].hash_self \in Nat /\ es[k].hash_prev \in Nat
  BY GenuineTypes
<1>1. \A m \in DOMAIN es : m + 1 \in DOMAIN es => es[m].hash_self < es[m + 1].hash_self
  <2> TAKE m \in DOMAIN es
  <2> HAVE m + 1 \in DOMAIN es
  <2>1. m + 1 # 1 /\ m + 1 - 1 = m
    BY <1>0
  <2>2. es[m + 1].hash_prev = es[m].hash_self
    BY <2>1 DEF Genuine, EventChainOk
  <2>3. QED
    BY <2>2 DEF Genuine
<1>2. 0 \in P
  BY <1>0, <1>1
<1>3. ASSUME NEW d \in Nat, d \in P PROVE d + 1 \in P
  <2> SUFFICES ASSUME NEW m \in DOMAIN es, NEW n \in DOMAIN es, n = m + (d + 1) + 1
               PROVE  es[m].hash_self < es[n].hash_self
    OBVIOUS
  <2>1. m + d + 1 \in DOMAIN es /\ m + d + 1 + 1 = n
    BY <1>0
  <2>2. es[m].hash_self < es[m + d + 1].hash_self
    BY <1>3, <2>1
  <2>3. es[m + d + 1].hash_self < es[n].hash_self
    BY <1>1, <2>1
  <2>4. QED
    BY <1>0, <2>1, <2>2, <2>3
<1> HIDE DEF P
<1>4. \A d \in Nat : d \in P
  BY <1>2, <1>3, SetInduction
<1>5. ASSUME NEW m \in DOMAIN es, NEW n \in DOMAIN es, m < n
      PROVE  es[m].hash_self < es[n].hash_self
  <2>1. n - m - 1 \in Nat /\ n = m + (n - m - 1) + 1
    BY <1>0, <1>5
  <2>2. n - m - 1 \in P
    BY <1>4, <2>1
  <2>3. QED
    BY <2>1, <2>2 DEF P
<1>6. QED
  BY <1>5

(* An event that names the hash of the event before k is event k.          *)
LEMMA PlaceInChain ==
  ASSUME NEW es, Genuine(es), NEW n \in DOMAIN es, NEW k \in Nat \ {0},
         k - 1 \in DOMAIN es \cup {0},
         es[n].hash_prev = IF k = 1 THEN GENESIS ELSE es[k - 1].hash_self
  PROVE  n = k
<1>0. /\ DOMAIN es = 1..Len(es) /\ Len(es) \in Nat
      /\ \A j \in DOMAIN es : es[j].hash_self \in Nat /\ es[j].hash_prev \in Nat
                                /\ es[j].hash_prev < es[j].hash_self
  BY GenuineTypes
<1>1. es[n].hash_prev = IF n = 1 THEN GENESIS ELSE es[n - 1].hash_self
  BY DEF Genuine, EventChainOk
<1>2. \A j \in DOMAIN es : es[j].hash_self # GENESIS
  BY <1>0 DEF GENESIS
<1>3. n = 1 \/ n - 1 \in DOMAIN es
  BY <1>0
<1>4. CASE n = 1 \/ k = 1
  BY <1>0, <1>1, <1>2, <1>3, <1>4
<1>5. CASE n # 1 /\ k # 1
  <2>1. n - 1 \in DOMAIN es /\ k - 1 \in DOMAIN es /\ es[n - 1].hash_self = es[k - 1].hash_self
    BY <1>0, <1>1, <1>3, <1>5
  <2>2. ~(n - 1 < k - 1) /\ ~(k - 1 < n - 1)
    BY <1>0, <2>1, HashesGrow
  <2>3. QED
    BY <1>0, <2>1, <2>2
<1>6. QED
  BY <1>4, <1>5

(* Damaged events that verify are the beginning of those written.          *)
LEMMA ChainIsBeginning ==
  ASSUME NEW now, NEW then, Genuine(then), MadeOf(now, then), ReportChainOk(now)
  PROVE  Len(now) <= Len(then) /\ \A k \in DOMAIN now : now[k] = then[k]
<1> DEFINE Bad == {k \in DOMAIN now : k \notin DOMAIN then \/ now[k] # then[k]}
<1>0. /\ DOMAIN now = 1..Len(now) /\ Len(now) \in Nat
      /\ DOMAIN then = 1..Len(then) /\ Len(then) \in Nat
  BY DEF Genuine, MadeOf
<1>1. Bad = {}
  <2> SUFFICES ASSUME Bad # {} PROVE FALSE
    OBVIOUS
  <2>1. Bad \in SUBSET Nat
    BY <1>0
  <2>2. PICK k \in Bad : \A m \in Bad : k <= m
    BY <2>1, Least
  <2>3. PICK n \in DOMAIN then : now[k] = then[n]
    BY DEF MadeOf, ReportChainOk
  <2>4. k - 1 \in DOMAIN then \cup {0} /\ (k # 1 => now[k - 1] = then[k - 1])
    BY <1>0, <2>2
  <2>5. now[k].hash_prev = IF k = 1 THEN GENESIS ELSE then[k - 1].hash_self
    BY <2>4 DEF ReportChainOk, EventChainOk
  <2>6. k \in Nat \ {0} /\ then[n].hash_prev = IF k = 1 THEN GENESIS ELSE then[k - 1].hash_self
    BY <1>0, <2>3, <2>5
  <2>7. n = k
    BY <2>4, <2>6, PlaceInChain
  <2>8. QED
    BY <2>3, <2>7
<1>2. \A k \in DOMAIN now : k \in DOMAIN then /\ now[k] = then[k]
  BY <1>1
<1>3. Len(now) <= Len(then)
  <2>1. CASE Len(now) = 0
    BY <1>0, <2>1
  <2>2. CASE Len(now) # 0
    <3>1. Len(now) \in DOMAIN now
      BY <1>0, <2>2
    <3>2. QED
      BY <1>0, <1>2, <3>1
  <2>3. QED
    BY <2>1, <2>2
<1>4. QED
  BY <1>2, <1>3

(* IsPrefix, index by index.                                               *)
LEMMA PrefixIs ==
  ASSUME NEW S, NEW a \in Seq(S), NEW b \in Seq(S)
  PROVE  IsPrefix(a, b) <=> Len(a) <= Len(b) /\ \A k \in DOMAIN a : a[k] = b[k]
<1>0. Len(a) \in Nat /\ Len(b) \in Nat /\ DOMAIN a = 1..Len(a) /\ DOMAIN b = 1..Len(b)
  OBVIOUS
<1> SUFFICES ASSUME Len(a) <= Len(b)
             PROVE  SubSeq(a, 1, Len(a)) = SubSeq(b, 1, Len(a)) <=> \A k \in DOMAIN a : a[k] = b[k]
  BY DEF IsPrefix
<1> DEFINE n == Len(a)
<1>1. SubSeq(a, 1, n) = a
  BY SubSeqFull
<1>2. \A k \in 1..n : b[k] \in S
  BY <1>0, ElementOfSeq
<1> HIDE DEF n
<1>3. n \in Nat
  BY <1>0 DEF n
<1>4. /\ SubSeq(b, 1, n) \in Seq(S) /\ Len(SubSeq(b, 1, n)) = n
      /\ \A k \in 1..n : SubSeq(b, 1, n)[k] = b[k]
  <2>1. /\ SubSeq(b, 1, n) \in Seq(S)
        /\ Len(SubSeq(b, 1, n)) = IF 1 <= n THEN n - 1 + 1 ELSE 0
        /\ \A i \in 1..n - 1 + 1 : SubSeq(b, 1, n)[i] = b[1 + i - 1]
    BY <1>2, <1>3, SubSeqProperties
  <2>2. QED
    BY <1>3, <2>1
<1>5. SubSeq(b, 1, n) = a <=> \A k \in 1..n : a[k] = b[k]
  <2>1. ASSUME \A k \in 1..n : a[k] = b[k] PROVE SubSeq(b, 1, n) = a
    BY <1>4, <2>1, SeqEqual DEF n
  <2>2. QED
    BY <1>4, <2>1
<1>6. QED
  BY <1>0, <1>1, <1>5 DEF n

(* The beginning of events as written is as written, and verifies.         *)
LEMMA BeginningIsChain ==
  ASSUME NEW now \in Seq(DiskEvents), NEW then, Genuine(then),
         Len(now) <= Len(then), \A k \in DOMAIN now : now[k] = then[k]
  PROVE  Genuine(now) /\ ReportChainOk(now)
<1>0. /\ DOMAIN now = 1..Len(now) /\ Len(now) \in Nat
      /\ \A k \in DOMAIN now : k \in DOMAIN then
  BY GenuineTypes
<1>1. now \in Seq(WrittenEvents)
  <2>1. \A k \in DOMAIN now : now[k] \in WrittenEvents
    BY <1>0, GenuineTypes
  <2>2. QED
    BY <1>0, <2>1
<1>2. \A k \in DOMAIN now : now[k].derived = now[k].hash_self /\ now[k].hash_prev < now[k].hash_self
  BY <1>0 DEF Genuine
<1>3. EventChainOk(now)
  <2> SUFFICES ASSUME NEW k \in DOMAIN now
               PROVE  now[k].hash_prev = IF k = 1 THEN GENESIS ELSE now[k - 1].hash_self
    BY DEF EventChainOk
  <2>1. then[k].hash_prev = IF k = 1 THEN GENESIS ELSE then[k - 1].hash_self
    BY <1>0 DEF Genuine, EventChainOk
  <2>2. k # 1 => k - 1 \in DOMAIN now
    BY <1>0
  <2>3. QED
    BY <2>1, <2>2
<1>4. QED
  BY <1>1, <1>2, <1>3 DEF Genuine, ReportChainOk

-----------------------------------------------------------------------------

(* What is left when an element is removed are the others.                 *)
LEMMA RemoveAtIs ==
  ASSUME NEW S, NEW s, s \in Seq(S), NEW k, k \in 1..Len(s)
  PROVE  LET x == RemoveAt(s, k) IN
         x \in Seq(S) /\ \A j \in DOMAIN x : \E n \in 1..Len(s) : x[j] = s[n]
<1> DEFINE n == Len(s)
           a == SubSeq(s, 1, k - 1)
           b == SubSeq(s, k + 1, n)
           c == a \o b
<1>0. DOMAIN s = 1..n /\ n \in Nat /\ k \in Nat /\ 1 <= k /\ k <= n
  OBVIOUS
<1>1. a \in Seq(S) /\ Len(a) = k - 1 /\ \A j \in 1..(k - 1) : a[j] = s[j]
  <2>1. \A j \in 1..(k - 1) : s[j] \in S
    BY <1>0, ElementOfSeq
  <2>2. /\ a \in Seq(S)
        /\ Len(a) = IF 1 <= k - 1 THEN k - 1 - 1 + 1 ELSE 0
        /\ \A j \in 1..k - 1 - 1 + 1 : a[j] = s[1 + j - 1]
    BY <1>0, <2>1, SubSeqProperties
  <2> HIDE DEF a, n
  <2>3. QED
    BY <1>0, <2>2
<1>2. b \in Seq(S) /\ Len(b) = n - k /\ \A j \in 1..(n - k) : b[j] = s[k + j]
  <2>1. \A j \in (k + 1)..n : s[j] \in S
    BY <1>0, ElementOfSeq
  <2>2. /\ b \in Seq(S)
        /\ Len(b) = IF k + 1 <= n THEN n - (k + 1) + 1 ELSE 0
        /\ \A j \in 1..n - (k + 1) + 1 : b[j] = s[k + 1 + j - 1]
    BY <1>0, <2>1, SubSeqProperties
  <2> HIDE DEF b, n
  <2>3. n - (k + 1) + 1 = n - k /\ (k + 1 <= n \/ n - k = 0)
    BY <1>0
  <2>4. Len(b) = n - k
    BY <1>0, <2>2, <2>3
  <2>5. ASSUME NEW j \in 1..(n - k) PROVE b[j] = s[k + j]
    <3>1. k + 1 + j - 1 = k + j
      BY <1>0
    <3>2. QED
      BY <2>2, <2>3, <3>1
  <2>6. QED
    BY <2>2, <2>4, <2>5
<1> HIDE DEF a, b
<1>3. /\ c \in Seq(S)
      /\ Len(c) = Len(a) + Len(b)
      /\ \A j \in 1..Len(a) + Len(b) : c[j] = IF j <= Len(a) THEN a[j] ELSE b[j - Len(a)]
  BY <1>1, <1>2, ConcatProperties
<1>4. RemoveAt(s, k) = c
  BY DEF RemoveAt, a, b
<1> HIDE DEF c
<1>5. DOMAIN c = 1..(Len(a) + Len(b))
  BY <1>3
<1> HIDE DEF n
<1>6. ASSUME NEW j \in 1..(Len(a) + Len(b))
      PROVE  \E m \in 1..n : c[j] = s[m]
  <2>1. CASE j <= Len(a)
    <3>1. j \in 1..(k - 1) /\ j \in 1..n
      BY <1>0, <1>1, <2>1
    <3>2. c[j] = s[j]
      BY <1>1, <1>3, <2>1, <3>1
    <3>3. QED
      BY <3>1, <3>2
  <2>2. CASE ~(j <= Len(a))
    <3> DEFINE l == j - Len(a)
    <3>1. l \in 1..(n - k) /\ k + l \in 1..n
      BY <1>0, <1>1, <1>2, <2>2
    <3>2. c[j] = b[l]
      BY <1>3, <2>2
    <3> HIDE DEF l
    <3>3. c[j] = s[k + l]
      BY <1>2, <3>1, <3>2
    <3>4. QED
      BY <3>1, <3>3
  <2>3. QED
    BY <2>1, <2>2
<1>7. QED
  BY <1>3, <1>4, <1>5, <1>6 DEF n

(* Damage to the events makes none that would pass for one as written.     *)
LEMMA DamagedEventsAre ==
  ASSUME NEW es, NEW then, MadeOf(es, then), NEW x \in DamagedEvents(es)
  PROVE  MadeOf(x, then)
<1>0. /\ es \in Seq(DiskEvents) /\ DOMAIN es = 1..Len(es) /\ Len(es) \in Nat
      /\ \A k \in DOMAIN es : es[k] \in DiskEvents
  BY ElementOfSeq DEF MadeOf
<1>1. ASSUME NEW k \in DOMAIN es, x = RemoveAt(es, k)
      PROVE  MadeOf(x, then)
  <2>1. es \in Seq(DiskEvents) /\ k \in 1..Len(es)
    BY <1>0
  <2>2. /\ RemoveAt(es, k) \in Seq(DiskEvents)
        /\ \A j \in DOMAIN RemoveAt(es, k) : \E n \in 1..Len(es) : RemoveAt(es, k)[j] = es[n]
    BY <2>1, RemoveAtIs
  <2>3. x \in Seq(DiskEvents) /\ \A j \in DOMAIN x : \E n \in DOMAIN es : x[j] = es[n]
    BY <1>0, <1>1, <2>2
  <2>4. QED
    BY <2>3 DEF MadeOf
<1>2. ASSUME NEW k \in DOMAIN es, NEW e \in DiskEvents, e.derived # e.hash_self,
             x = [es EXCEPT ![k] = e]
      PROVE  MadeOf(x, then)
  <2>1. x \in Seq(DiskEvents) /\ DOMAIN x = DOMAIN es
          /\ \A j \in DOMAIN es : x[j] = IF j = k THEN e ELSE es[j]
    BY <1>0, <1>2
  <2>2. QED
    BY <1>2, <2>1 DEF MadeOf
<1>3. ASSUME NEW k \in DOMAIN es, x = [es EXCEPT ![k].derived = Other]
      PROVE  MadeOf(x, then)
  <2> DEFINE e == [es[k] EXCEPT !.derived = Other]
  <2>1. e \in DiskEvents /\ e.derived # e.hash_self
    BY <1>0 DEF DiskEvents, Other, Malformed
  <2>2. x = [es EXCEPT ![k] = e]
    BY <1>3
  <2> HIDE DEF e
  <2>3. QED
    BY <1>2, <2>1, <2>2
<1>4. ASSUME NEW k \in DOMAIN es, x = [es EXCEPT ![k].hash_self = Malformed]
      PROVE  MadeOf(x, then)
  <2> DEFINE e == [es[k] EXCEPT !.hash_self = Malformed]
  <2>1. e \in DiskEvents /\ e.derived # e.hash_self
    BY <1>0 DEF DiskEvents, Other, Malformed
  <2>2. x = [es EXCEPT ![k] = e]
    BY <1>4
  <2> HIDE DEF e
  <2>3. QED
    BY <1>2, <2>1, <2>2
<1>5. ASSUME NEW k \in DOMAIN es \ {1}, x = [es EXCEPT ![k] = es[k - 1], ![k - 1] = es[k]]
      PROVE  MadeOf(x, then)
  <2>1. k - 1 \in DOMAIN es
    BY <1>0
  <2>2. x \in Seq(DiskEvents) /\ DOMAIN x = DOMAIN es
          /\ \A j \in DOMAIN es : x[j] = IF j = k - 1 THEN es[k] ELSE IF j = k THEN es[k - 1] ELSE es[j]
    BY <1>0, <1>5, <2>1
  <2>3. QED
    BY <2>1, <2>2 DEF MadeOf
<1>6. QED
  BY <1>1, <1>3, <1>4, <1>5 DEF DamagedEvents

-----------------------------------------------------------------------------
(* What is on disk beside what was written there.                          *)

(* Every event has a later hash than the one it names.                     *)
HashOrder ==
  /\ \A n \in 1..Len(acked) : acked[n].hash_prev < acked[n].hash_self
  /\ \A n \in 1..Len(tail) : tail[n] # Torn => tail[n].hash_prev < tail[n].hash_self

LEMMA HashOrderInit == Init => HashOrder
  BY DEF Init, HashOrder

LEMMA HashOrderStep == TypeOK /\ HashOrder /\ [Next]_vars => HashOrder'
<1> SUFFICES ASSUME TypeOK, HashOrder, [Next]_vars PROVE HashOrder'
  OBVIOUS
<1>1. NewEvent \in Events /\ NewEvent.hash_prev < NewEvent.hash_self
  BY DEF TypeOK, NewEvent, Events
<1>2. CASE AppendOk
  <2>1. /\ Len(acked') = Len(acked) + 1 /\ Len(acked) \in Nat
        /\ \A n \in 1..Len(acked') : acked'[n] = IF n <= Len(acked) THEN acked[n] ELSE NewEvent
    BY <1>1, <1>2 DEF TypeOK, AppendOk
  <2>2. tail' = <<>>
    BY <1>2 DEF AppendOk
  <2>3. QED
    BY <1>1, <2>1, <2>2 DEF HashOrder
<1>3. CASE AppendFails
  <2>1. acked' = acked
    BY <1>3 DEF AppendFails
  <2>2. CASE tail' = tail
    BY <2>1, <2>2 DEF HashOrder
  <2>3. CASE tail' # tail
    <3>1. PICK f \in {Torn, NewEvent} : tail' = Append(tail, f)
      BY <1>3, <2>3 DEF AppendFails
    <3>2. /\ Len(tail') = Len(tail) + 1 /\ Len(tail) \in Nat
          /\ \A n \in 1..Len(tail') : tail'[n] = IF n <= Len(tail) THEN tail[n] ELSE f
      BY <3>1 DEF TypeOK
    <3>3. QED
      BY <1>1, <2>1, <3>1, <3>2 DEF HashOrder
  <2>4. QED
    BY <2>2, <2>3
<1>4. CASE InitializeEventStream
  BY <1>4 DEF InitializeEventStream, HashOrder
<1>5. CASE UNCHANGED vars
  BY <1>5 DEF vars, HashOrder
<1>6. QED
  BY <1>2, <1>3, <1>4, <1>5 DEF Next

(* The events that a report tells are a chain whose hashes grow.           *)
LEMMA ReportEventsGenuine == IInv /\ HashOrder /\ Loads => Genuine(ReportEvents)
<1> SUFFICES ASSUME IInv, HashOrder, Loads PROVE Genuine(ReportEvents)
  OBVIOUS
<1>1. /\ LoadedEvents \in Seq(Fragments)
      /\ Len(LoadedEvents) = Len(acked) + Len(tail)
      /\ Len(tail) \in {0, 1}
      /\ \A n \in 1..Len(acked) : LoadedEvents[n] = acked[n]
      /\ Len(tail) = 1 => LoadedEvents[Len(acked) + 1] = tail[1] /\ tail[1] # Torn
  BY LoadedShape
<1>2. /\ acked \in Seq(Events) /\ Len(acked) \in Nat /\ tail \in Seq(Fragments)
      /\ \A n \in 1..Len(acked) : acked[n] \in Events
      /\ \A n \in 1..Len(tail) : tail[n] # Torn => tail[n] \in Events
  <2>1. acked \in Seq(Events) /\ tail \in Seq(Fragments)
    BY DEF IInv, TypeOK
  <2>2. \A n \in 1..Len(acked) : acked[n] \in Events
    BY <2>1, ElementOfSeq
  <2>3. \A n \in 1..Len(tail) : tail[n] \in Fragments
    BY <2>1, ElementOfSeq
  <2>4. QED
    BY <2>1, <2>2, <2>3 DEF Fragments
<1>3. ASSUME NEW n \in 1..Len(LoadedEvents)
      PROVE  LoadedEvents[n] \in Events /\ LoadedEvents[n].hash_prev < LoadedEvents[n].hash_self
  <2>1. n \in 1..Len(acked) \/ (n = Len(acked) + 1 /\ Len(tail) = 1)
    BY <1>1, <1>2, IndexCases
  <2>2. QED
    BY <1>1, <1>2, <2>1 DEF HashOrder
<1>4. /\ DOMAIN ReportEvents = 1..Len(LoadedEvents) /\ Len(LoadedEvents) \in Nat
      /\ \A k \in 1..Len(LoadedEvents) :
           ReportEvents[k] = [hash_prev |-> LoadedEvents[k].hash_prev,
                              hash_self |-> LoadedEvents[k].hash_self,
                              derived |-> LoadedEvents[k].hash_self]
  BY <1>1, <1>2 DEF ReportEvents
<1>5. ReportEvents \in Seq(WrittenEvents)
  <2>1. \A k \in 1..Len(LoadedEvents) : ReportEvents[k] \in WrittenEvents
    BY <1>3, <1>4 DEF WrittenEvents, Events
  <2>2. ReportEvents = [k \in 1..Len(LoadedEvents) |-> ReportEvents[k]]
    BY <1>1, <1>2 DEF ReportEvents
  <2>3. QED
    BY <1>4, <2>1, <2>2
<1>6. ReportChainOk(ReportEvents)
  BY ReportEventsVerify
<1>7. QED
  BY <1>3, <1>4, <1>5, <1>6 DEF Genuine, ReportChainOk

-----------------------------------------------------------------------------

(* A report has the types of a report on disk.                             *)
Typed(r) ==
  /\ r.schema \in {"v1", "v2"} /\ r.body \in {"told", "other"} /\ r.meta \in {"none", "pass"}
  /\ r.hashes \in [Artifacts -> Hashes]
  /\ r.events \in Seq(DiskEvents)
  /\ Cardinality(r.digest) \in {0, 1}

TypedFile(f) == f # <<>> => f = <<f[1]>> /\ IsReport(f[1]) /\ Typed(f[1])

(* What is on disk is made of what was written there.                      *)
MadeFrom(now, then) ==
  now # <<>> =>
    /\ then # <<>>
    /\ MadeOf(now[1].events, then[1].events)
    /\ now[1].digest \in {{}, then[1].digest}

DiskInv ==
  /\ TypedFile(file) /\ TypedFile(archive)
  /\ TypedFile(wrote.file) /\ TypedFile(wrote.archive) /\ TypedFile(wrote.archived)
  /\ MadeFrom(file, wrote.file) /\ MadeFrom(archive, wrote.archive)
  /\ wrote.file # <<>> => Genuine(wrote.file[1].events)
  /\ wrote.archive # <<>> /\ Errors(wrote.archive) = {} => Genuine(wrote.archive[1].events)

LEMMA TypedIs == \A f : TypedFile(f) => OnDisk(f)
  BY DEF TypedFile, Typed, OnDisk, DiskEvents

(* Damage changes the events as said before, may take the digest away, and *)
(* leaves a report of the same types.                                      *)
LEMMA DamagedIs ==
  ASSUME NEW r, IsReport(r), Typed(r), NEW then, MadeOf(r.events, then), NEW x \in Damaged(r)
  PROVE  IsReport(x) /\ Typed(x) /\ MadeOf(x.events, then) /\ x.digest \in {{}, r.digest}
<1>0. IsReport(x)
  BY DamagedIsReport
<1>1. PICK s, h, b, e, m, d : r = ReportOf(s, h, b, e, m, d)
  BY DEF IsReport
<1>r. /\ r.schema = s /\ r.hashes = h /\ r.body = b /\ r.events = e /\ r.meta = m /\ r.digest = d
      /\ Malformed \in Hashes /\ Other \in Hashes
  BY <1>1 DEF ReportOf, Hashes
<1>2. Cardinality({}) = 0
  BY FS_EmptySet
<1>3. CASE \/ x = [r EXCEPT !.schema = "v2"] \/ x = [r EXCEPT !.body = "other"]
           \/ x = [r EXCEPT !.meta = "none"] \/ x = [r EXCEPT !.digest = {}]
  <2>1. \/ x = ReportOf("v2", h, b, e, m, d) \/ x = ReportOf(s, h, "other", e, m, d)
        \/ x = ReportOf(s, h, b, e, "none", d) \/ x = ReportOf(s, h, b, e, m, {})
    BY <1>1, <1>3 DEF ReportOf
  <2>2. /\ x.schema \in {s, "v2"} /\ x.hashes = h /\ x.body \in {b, "other"} /\ x.events = e
        /\ x.meta \in {m, "none"} /\ x.digest \in {{}, d}
    BY <2>1 DEF ReportOf
  <2>3. QED
    BY <1>0, <1>2, <1>r, <2>2 DEF Typed
<1>4. ASSUME NEW a \in Artifacts, NEW v \in {Malformed, Other}, x = [r EXCEPT !.hashes[a] = v]
      PROVE  Typed(x) /\ MadeOf(x.events, then) /\ x.digest \in {{}, r.digest}
  <2>1. x = ReportOf(s, [h EXCEPT ![a] = v], b, e, m, d)
    BY <1>1, <1>4 DEF ReportOf
  <2>2. [h EXCEPT ![a] = v] \in [Artifacts -> Hashes]
    BY <1>r DEF Typed
  <2>3. QED
    BY <1>r, <2>1, <2>2 DEF ReportOf, Typed
<1>5. ASSUME NEW es \in DamagedEvents(e), x = [r EXCEPT !.events = es]
      PROVE  Typed(x) /\ MadeOf(x.events, then) /\ x.digest \in {{}, r.digest}
  <2>1. x = ReportOf(s, h, b, es, m, d)
    BY <1>1, <1>5 DEF ReportOf
  <2>2. MadeOf(es, then)
    BY <1>r, DamagedEventsAre
  <2>3. es \in Seq(DiskEvents)
    BY <2>2 DEF MadeOf
  <2>4. QED
    BY <1>r, <2>1, <2>2, <2>3 DEF ReportOf, Typed
<1>6. QED
  BY <1>0, <1>3, <1>4, <1>5, <1>r DEF Damaged

(* What is archived keeps the types and the events.                        *)
LEMMA ArchivedIs ==
  ASSUME NEW r, IsReport(r), Typed(r)
  PROVE  LET x == ArchivedReport(r) IN
         IsReport(x) /\ Typed(x) /\ x.events = r.events
<1>1. PICK s, h, b, e, m, d : r = ReportOf(s, h, b, e, m, d)
  BY DEF IsReport
<1> DEFINE seal == {ReportOf(s, h, b, e, "pass", {})}
<1>2. ArchivedReport(r) = Sealed(ReportOf(s, h, b, e, "pass", d))
  BY <1>1 DEF ArchivedReport, ReportOf
<1>3. ArchivedReport(r) = ReportOf(s, h, b, e, "pass", seal)
  BY <1>2, DigestIs
<1>4. Cardinality(seal) = 1
  BY FS_Singleton
<1>5. r.schema = s /\ r.hashes = h /\ r.body = b /\ r.events = e
  BY <1>1 DEF ReportOf
<1> HIDE DEF seal
<1>6. LET x == ArchivedReport(r) IN
        /\ x.schema = s /\ x.hashes = h /\ x.body = b /\ x.events = e
        /\ x.meta = "pass" /\ x.digest = seal
  BY <1>3 DEF ReportOf
<1>7. IsReport(ArchivedReport(r))
  BY <1>3 DEF IsReport
<1>8. QED
  BY <1>4, <1>5, <1>6, <1>7 DEF Typed

(* The report that is built is typed, and its events are as written.       *)
LEMMA BuiltIs ==
  ASSUME IInv, HashOrder, Loads, StagedInv, stage = "run"
  PROVE  /\ IsReport(BuiltReport) /\ Typed(BuiltReport)
         /\ Genuine(BuiltReport.events)
<1> DEFINE h == HashedArtifacts
           e == ReportEvents
           seal == {ReportOf("v1", h, "told", e, "none", {})}
<1>1. BuiltReport = Sealed(ReportOf("v1", h, "told", e, "none", {}))
  BY DEF BuiltReport, ReportOf
<1>2. BuiltReport = ReportOf("v1", h, "told", e, "none", seal)
  BY <1>1, DigestIs
<1>3. h \in [Artifacts -> Hashes]
  <2>1. h = staged
    BY HashedAreStaged
  <2>2. \A a \in Artifacts : staged[a] \in Hashes
    BY DEF StagedInv, Hashes
  <2>3. QED
    BY <2>1, <2>2 DEF StagedInv
<1>4. Genuine(e)
  BY ReportEventsGenuine
<1>5. Cardinality(seal) = 1
  BY FS_Singleton
<1> HIDE DEF h, e, seal
<1>6. e \in Seq(DiskEvents)
  <2>1. e \in Seq(WrittenEvents)
    BY <1>4 DEF Genuine
  <2>2. WrittenEvents \subseteq DiskEvents
    BY DEF WrittenEvents, DiskEvents
  <2>3. QED
    BY <2>1, <2>2, SeqMonotonic
<1>7. /\ BuiltReport.schema = "v1" /\ BuiltReport.hashes = h /\ BuiltReport.body = "told"
      /\ BuiltReport.events = e /\ BuiltReport.meta = "none" /\ BuiltReport.digest = seal
  BY <1>2 DEF ReportOf
<1>8. IsReport(BuiltReport)
  BY <1>2 DEF IsReport
<1>9. QED
  BY <1>3, <1>4, <1>5, <1>6, <1>7, <1>8 DEF Typed

LEMMA MadeOfItself ==
  ASSUME NEW r, Typed(r)
  PROVE  MadeFrom(<<r>>, <<r>>)
  BY DEF Typed, MadeFrom, MadeOf

(* An archive that verifies has its events from a report that did.         *)
LEMMA ArchiveIsGenuine ==
  ASSUME NEW now, NEW then, IsReport(now), Typed(now), Genuine(then.events),
         MadeOf(now.events, then.events), Errors(<<ArchivedReport(now)>>) = {}
  PROVE  Genuine(now.events)
<1> DEFINE x == ArchivedReport(now)
<1>1. IsReport(x) /\ x.events = now.events
  BY ArchivedIs
<1>2. PICK s, h, b, e, m, d : x = ReportOf(s, h, b, e, m, d)
  BY <1>1 DEF IsReport
<1>3. ReportChainOk(e)
  BY <1>2, ErrorsAre
<1>4. e = now.events
  BY <1>1, <1>2 DEF ReportOf
<1>5. Len(now.events) <= Len(then.events) /\ \A k \in DOMAIN now.events : now.events[k] = then.events[k]
  BY <1>3, <1>4, ChainIsBeginning
<1>6. now.events \in Seq(DiskEvents)
  BY DEF Typed
<1>7. QED
  BY <1>5, <1>6, BeginningIsChain

-----------------------------------------------------------------------------

LEMMA DiskInit == ReportInit => DiskInv
  BY DEF ReportInit, DiskInv, TypedFile, MadeFrom

LEMMA DiskStep == IInv /\ HashOrder /\ ReportInv /\ DiskInv /\ [ReportNext]_allVars => DiskInv'
<1> SUFFICES ASSUME IInv, HashOrder, ReportInv, DiskInv, [ReportNext]_allVars PROVE DiskInv'
  OBVIOUS
<1>0. StagedInv /\ WroteInv
  BY DEF ReportInv
<1>1. CASE StageKernel \/ StageRootfs \/ AppendEvent \/ Rebuild \/ UNCHANGED allVars
  <2>1. file' = file /\ archive' = archive /\ wrote' = wrote
    BY <1>1 DEF StageKernel, StageRootfs, AppendEvent, Rebuild, allVars, reportVars
  <2>2. QED
    BY <2>1 DEF DiskInv
<1>2. CASE BuildReport
  <2>0. archive' = archive /\ stage = "run"
    BY <1>2 DEF BuildReport
  <2>1. CASE Loads /\ file' = <<BuiltReport>> /\ wrote' = [wrote EXCEPT !.file = file']
    <3>1. IsReport(BuiltReport) /\ Typed(BuiltReport) /\ Genuine(BuiltReport.events)
      BY <1>0, <2>0, <2>1, BuiltIs
    <3>2. wrote'.file = file' /\ wrote'.archive = wrote.archive /\ wrote'.archived = wrote.archived
      BY <1>0, <2>1 DEF WroteInv
    <3>3. TypedFile(file') /\ MadeFrom(file', file') /\ Genuine(file'[1].events)
      BY <2>1, <3>1, MadeOfItself DEF TypedFile
    <3>4. QED
      BY <2>0, <3>2, <3>3 DEF DiskInv
  <2>2. CASE file' = <<>> /\ wrote' = [wrote EXCEPT !.file = <<>>]
    <3>1. wrote'.file = <<>> /\ wrote'.archive = wrote.archive /\ wrote'.archived = wrote.archived
      BY <1>0, <2>2 DEF WroteInv
    <3>2. QED
      BY <2>0, <2>2, <3>1 DEF DiskInv, TypedFile, MadeFrom
  <2>3. CASE UNCHANGED <<file, wrote>>
    BY <2>0, <2>3 DEF DiskInv
  <2>4. QED
    BY <1>2, <2>1, <2>2, <2>3 DEF BuildReport
<1>3. CASE ArchiveReport
  <2>1. file # <<>> /\ file' = file /\ IsReport(file[1]) /\ Typed(file[1])
    BY <1>3 DEF ArchiveReport, DiskInv, TypedFile
  <2>2. wrote'.file = wrote.file /\ wrote'.archive = archive' /\ wrote'.archived = file
    BY <1>0, <1>3 DEF ArchiveReport, WroteInv
  <2>3. archive' = <<ArchivedReport(file[1])>> \/ archive' = <<>>
    BY <1>3 DEF ArchiveReport
  <2>4. /\ IsReport(ArchivedReport(file[1])) /\ Typed(ArchivedReport(file[1]))
        /\ ArchivedReport(file[1]).events = file[1].events
    BY <2>1, ArchivedIs
  <2>5. TypedFile(archive') /\ MadeFrom(archive', archive')
    BY <2>3, <2>4, MadeOfItself DEF TypedFile, MadeFrom
  <2>6. archive' # <<>> /\ Errors(archive') = {} => Genuine(archive'[1].events)
    <3> SUFFICES ASSUME archive' # <<>>, Errors(archive') = {} PROVE Genuine(archive'[1].events)
      OBVIOUS
    <3>1. archive' = <<ArchivedReport(file[1])>>
      BY <2>3
    <3>2. MadeOf(file[1].events, wrote.file[1].events) /\ Genuine(wrote.file[1].events)
      BY <2>1 DEF DiskInv, MadeFrom
    <3>3. Genuine(file[1].events)
      BY <2>1, <3>1, <3>2, ArchiveIsGenuine
    <3>4. QED
      BY <2>4, <3>1, <3>3
  <2>7. QED
    BY <2>1, <2>2, <2>5, <2>6 DEF DiskInv
<1>4. CASE DamageFile
  <2>1. wrote' = wrote /\ archive' = archive /\ file # <<>>
          /\ (file' = <<>> \/ \E r \in Damaged(file[1]) : file' = <<r>>)
    BY <1>4 DEF DamageFile
  <2>2. CASE file' = <<>>
    BY <2>1, <2>2 DEF DiskInv, TypedFile, MadeFrom
  <2>3. ASSUME NEW r \in Damaged(file[1]), file' = <<r>> PROVE DiskInv'
    <3>1. /\ IsReport(file[1]) /\ Typed(file[1])
          /\ MadeOf(file[1].events, wrote.file[1].events) /\ wrote.file # <<>>
          /\ file[1].digest \in {{}, wrote.file[1].digest}
      BY <2>1 DEF DiskInv, TypedFile, MadeFrom
    <3>2. /\ IsReport(r) /\ Typed(r) /\ MadeOf(r.events, wrote.file[1].events)
          /\ r.digest \in {{}, file[1].digest}
      BY <3>1, DamagedIs
    <3>3. TypedFile(file') /\ MadeFrom(file', wrote.file)
      BY <2>3, <3>1, <3>2 DEF TypedFile, MadeFrom
    <3>4. QED
      BY <2>1, <3>3 DEF DiskInv
  <2>4. QED
    BY <2>1, <2>2, <2>3
<1>5. CASE DamageArchive
  <2>1. wrote' = wrote /\ file' = file /\ archive # <<>>
          /\ (archive' = <<>> \/ \E r \in Damaged(archive[1]) : archive' = <<r>>)
    BY <1>5 DEF DamageArchive
  <2>2. CASE archive' = <<>>
    BY <2>1, <2>2 DEF DiskInv, TypedFile, MadeFrom
  <2>3. ASSUME NEW r \in Damaged(archive[1]), archive' = <<r>> PROVE DiskInv'
    <3>1. /\ IsReport(archive[1]) /\ Typed(archive[1])
          /\ MadeOf(archive[1].events, wrote.archive[1].events) /\ wrote.archive # <<>>
          /\ archive[1].digest \in {{}, wrote.archive[1].digest}
      BY <2>1 DEF DiskInv, TypedFile, MadeFrom
    <3>2. /\ IsReport(r) /\ Typed(r) /\ MadeOf(r.events, wrote.archive[1].events)
          /\ r.digest \in {{}, archive[1].digest}
      BY <3>1, DamagedIs
    <3>3. TypedFile(archive') /\ MadeFrom(archive', wrote.archive)
      BY <2>3, <3>1, <3>2 DEF TypedFile, MadeFrom
    <3>4. QED
      BY <2>1, <3>3 DEF DiskInv
  <2>4. QED
    BY <2>1, <2>2, <2>3
<1>6. QED
  BY <1>1, <1>2, <1>3, <1>4, <1>5 DEF ReportNext

(* A report made of one that verifies differs from it as its errors say.   *)
LEMMA ErrorsTellDamage ==
  ASSUME NEW now, NEW then, IsReport(now), IsReport(then), Typed(now), Genuine(then.events),
         MadeOf(now.events, then.events), now.digest \in {{}, then.digest},
         Errors(<<then>>) = {}
  PROVE  /\ "SR-EVD-302" \in Errors(<<now>>) <=> now # then
         /\ "SR-EVD-301" \in Errors(<<now>>) <=> now.schema # then.schema
         /\ "SR-EVD-303" \in Errors(<<now>>) <=> ~IsPrefix(now.events, then.events)
<1>1. PICK s, h, b, e, m, d : now = ReportOf(s, h, b, e, m, d)
  BY DEF IsReport
<1>2. PICK s0, h0, b0, e0, m0, d0 : then = ReportOf(s0, h0, b0, e0, m0, d0)
  BY DEF IsReport
<1> DEFINE bare == ReportOf(s, h, b, e, m, {})
           bare0 == ReportOf(s0, h0, b0, e0, m0, {})
<1>3. s0 = "v1" /\ (\A a \in Artifacts : h0[a] # Malformed) /\ d0 = {bare0}
  BY <1>2, ErrorsAre
<1>4. /\ now.schema = s /\ now.events = e /\ now.digest = d
      /\ then.schema = s0 /\ then.events = e0 /\ then.digest = d0
  BY <1>1, <1>2 DEF ReportOf
<1>5. /\ "SR-EVD-301" \in Errors(<<now>>) <=> s # "v1"
      /\ "SR-EVD-302" \in Errors(<<now>>) <=> ~((\A a \in Artifacts : h[a] # Malformed) /\ d = {bare})
      /\ "SR-EVD-303" \in Errors(<<now>>) <=> ~ReportChainOk(e)
  BY <1>1, ErrorsAre
<1>6. bare = bare0 => s = s0 /\ h = h0 /\ b = b0 /\ e = e0 /\ m = m0
  BY DEF ReportOf
<1>7. "SR-EVD-302" \in Errors(<<now>>) <=> now # then
  <2>1. ASSUME now = then PROVE "SR-EVD-302" \notin Errors(<<now>>)
    BY <2>1
  <2>2. ASSUME "SR-EVD-302" \notin Errors(<<now>>) PROVE now = then
    <3>1. d = {bare}
      BY <1>5, <2>2
    <3> HIDE DEF bare, bare0
    <3>2. d = d0
      BY <1>4, <3>1
    <3>3. bare = bare0
      BY <1>3, <3>1, <3>2
    <3>4. QED
      BY <1>1, <1>2, <1>6, <3>2, <3>3
  <2>3. QED
    BY <2>1, <2>2
<1>8. ReportChainOk(e) <=> IsPrefix(e, e0)
  <2>1. e \in Seq(DiskEvents) /\ e0 \in Seq(WrittenEvents)
    BY <1>4 DEF Typed, Genuine
  <2>2. e0 \in Seq(DiskEvents)
    <3>1. WrittenEvents \subseteq DiskEvents
      BY DEF WrittenEvents, DiskEvents
    <3>2. QED
      BY <2>1, <3>1, SeqMonotonic
  <2>3. IsPrefix(e, e0) <=> Len(e) <= Len(e0) /\ \A k \in DOMAIN e : e[k] = e0[k]
    BY <2>1, <2>2, PrefixIs
  <2>4. QED
    BY <1>4, <2>1, <2>3, ChainIsBeginning, BeginningIsChain
<1>9. QED
  BY <1>3, <1>4, <1>5, <1>7, <1>8

LEMMA DiskInvariant == ReportSpec => [](HashOrder /\ DiskInv)
<1>1. Init => HashOrder
  BY HashOrderInit
<1>2. ReportInit => HashOrder /\ DiskInv
  BY <1>1, DiskInit DEF ReportInit
<1>3. IInv => TypeOK
  BY DEF IInv
<1>4. IInv /\ HashOrder /\ ReportInv /\ DiskInv /\ [ReportNext]_allVars => HashOrder' /\ DiskInv'
  BY <1>3, LogStep, HashOrderStep, DiskStep
<1>5. QED
  BY <1>2, <1>4, LogInvariant, ReportInvariant, PTL DEF ReportSpec

(* Damage to a report is reported, and as what it is, however much of it   *)
(* there is: any at all by 302, the schema by 301, the events by 303.      *)
THEOREM DamageIsSeen == ReportSpec => []DamageIsReported
<1>1. ReportInv /\ DiskInv => DamageIsReported
  <2> SUFFICES ASSUME ReportInv, DiskInv,
                      NEW f \in {<<file, wrote.file>>, <<archive, wrote.archive>>},
                      f[1] # <<>>, f[2] # <<>>, Errors(f[2]) = {}
               PROVE  LET now == f[1][1] then == f[2][1] errors == Errors(f[1]) IN
                        /\ "SR-EVD-302" \in errors <=> now # then
                        /\ "SR-EVD-301" \in errors <=> now.schema # then.schema
                        /\ "SR-EVD-303" \in errors <=> ~IsPrefix(now.events, then.events)
    BY DEF DamageIsReported
  <2>1. TypedFile(f[1]) /\ TypedFile(f[2]) /\ MadeFrom(f[1], f[2])
    BY DEF DiskInv
  <2>2. Genuine(f[2][1].events)
    <3>1. CASE f = <<file, wrote.file>>
      BY <3>1 DEF DiskInv
    <3>2. CASE f = <<archive, wrote.archive>>
      BY <3>2 DEF DiskInv
    <3>3. QED
      BY <3>1, <3>2
  <2> DEFINE now == f[1][1]
             then == f[2][1]
  <2>3. /\ f[1] = <<now>> /\ f[2] = <<then>> /\ IsReport(now) /\ IsReport(then) /\ Typed(now)
        /\ MadeOf(now.events, then.events) /\ now.digest \in {{}, then.digest}
    BY <2>1 DEF TypedFile, MadeFrom
  <2> HIDE DEF now, then
  <2>4. Errors(<<then>>) = {} /\ Genuine(then.events)
    BY <2>2, <2>3 DEF then
  <2>5. /\ "SR-EVD-302" \in Errors(<<now>>) <=> now # then
        /\ "SR-EVD-301" \in Errors(<<now>>) <=> now.schema # then.schema
        /\ "SR-EVD-303" \in Errors(<<now>>) <=> ~IsPrefix(now.events, then.events)
    BY <2>3, <2>4, ErrorsTellDamage
  <2>6. QED
    BY <2>3, <2>5 DEF now, then
<1>2. QED
  BY <1>1, ReportInvariant, DiskInvariant, PTL

-----------------------------------------------------------------------------

LEMMA StageStep ==
  ASSUME stage \in {"new", "rootfs", "run", "done"}, damages \in 0..MaxDamages,
         [ReportNext]_allVars
  PROVE  stage' \in {"new", "rootfs", "run", "done"} /\ damages' \in 0..MaxDamages
<1>1. CASE StageKernel \/ StageRootfs \/ AppendEvent \/ Rebuild \/ BuildReport
            \/ ArchiveReport \/ UNCHANGED allVars
  BY <1>1 DEF StageKernel, StageRootfs, StageFails, AppendEvent, Rebuild, BuildReport,
     ArchiveReport, allVars, reportVars, runVars
<1>2. CASE DamageFile \/ DamageArchive
  BY <1>2, ReportAssumption DEF DamageFile, DamageArchive, runVars
<1>3. QED
  BY <1>1, <1>2 DEF ReportNext

(* Every variable keeps its type, for any contents and amount of damage.   *)
THEOREM ReportTypes == ReportSpec => []ReportTypeOK
<1> DEFINE Stage == stage \in {"new", "rootfs", "run", "done"} /\ damages \in 0..MaxDamages
<1>1. ReportInit => Stage
  BY ReportAssumption DEF ReportInit
<1>2. Stage /\ [ReportNext]_allVars => Stage'
  BY StageStep
<1>3. IInv /\ ReportInv /\ DiskInv /\ Stage => ReportTypeOK
  <2> SUFFICES ASSUME IInv, StagedInv, DiskInv, Stage PROVE ReportTypeOK
    BY DEF ReportInv
  <2>1. stage = "run" => 0 \notin Range(staged)
    BY DEF StagedInv, Range
  <2>2. OnDisk(file) /\ OnDisk(archive) /\ OnDisk(wrote.file) /\ OnDisk(wrote.archive)
          /\ OnDisk(wrote.archived)
    BY TypedIs DEF DiskInv
  <2>3. QED
    BY <2>1, <2>2 DEF ReportTypeOK, IInv, StagedInv
<1>4. QED
  BY <1>1, <1>2, <1>3, LogInvariant, ReportInvariant, DiskInvariant, PTL DEF ReportSpec
=============================================================================
