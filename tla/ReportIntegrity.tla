---------------------------- MODULE ReportIntegrity ----------------------------
(***************************************************************************)
(* From the event stream to a verified report: prepare stages the kernel   *)
(* and the rootfs in the workdir, the run appends its events, the CLI      *)
(* loads them, hashes the artifacts and seals the report with a digest,    *)
(* the archiver adds its metadata and seals it again, and verify_report    *)
(* checks a report as it is on disk.                                       *)
(*                                                                         *)
(* Beside the program, the artifacts in the current directory may be built *)
(* anew or removed at any time, and a report on disk may be damaged. A     *)
(* report that is missing, cut off or no JSON is <<>>; one that parses is  *)
(* <<report>>. The workdir is never the current directory, and it is       *)
(* prepared again, as the library allows, until there is a report in it.   *)
(*                                                                         *)
(* A digest is the set of the content it was computed of, since no two     *)
(* contents have one digest; {} is text that is no digest. What            *)
(* derive_event_hash gives for an event of a report is in its derived.     *)
(***************************************************************************)
EXTENDS EvidenceLog, FiniteSets, SequencesExt

CONSTANTS
  Versions,     \* the contents of an artifact file
  MaxDamages    \* bound on the changes that damage makes

ASSUME ReportAssumption ==
  /\ Versions \subseteq Nat \ {0} /\ 1 \in Versions
  /\ MaxDamages \in Nat

VARIABLES
  stage,     \* "new", "rootfs" (the kernel is staged), "run", "done"
  source,    \* the artifacts in the current directory, 0 if missing
  staged,    \* their copies in the workdir, 0 if missing
  file,      \* run_report.json in the workdir
  archive,   \* run_report.json in the archived bundle
  wrote,     \* history: both as they were written, and what was archived
  damages    \* changes that damage made so far

runVars == <<stage, source, staged>>
reportVars == <<file, archive, wrote, damages>>
allVars == <<vars, runVars, reportVars>>

Artifacts == {"kernel", "rootfs"}
Malformed == -1   \* text that is no sha256 hash
Other == -2       \* a hash, or content, of nothing that the program wrote

ReportInit ==
  /\ Init
  /\ stage = "new"
  /\ source = [a \in Artifacts |-> 1]
  /\ staged = [a \in Artifacts |-> 0]
  /\ file = <<>> /\ archive = <<>>
  /\ wrote = [file |-> <<>>, archive |-> <<>>, archived |-> <<>>]
  /\ damages = 0

-----------------------------------------------------------------------------
(* prepare.                                                                *)

(* materialize_artifact_path: a relative path is looked for in the current *)
(* directory, and copied from there, and then in the workdir.              *)
Stages(a) ==
  \/ source[a] # 0 /\ staged' = [staged EXCEPT ![a] = source[a]]
  \/ source[a] = 0 /\ staged[a] # 0 /\ UNCHANGED staged

(* It is in neither, or cannot be read, or the copy fails half way and its *)
(* beginning is left in the workdir, where a later prepare may find it.    *)
StageFails(a) ==
  /\ stage' = "new"
  /\ \/ UNCHANGED staged
     \/ source[a] # 0 /\ staged' = [staged EXCEPT ![a] = Other]

StageKernel ==
  /\ stage # "rootfs" /\ file = <<>> /\ archive = <<>>
  /\ \/ Stages("kernel") /\ stage' = "rootfs"
     \/ StageFails("kernel")
  /\ UNCHANGED <<vars, source, reportVars>>

(* The rootfs, then the new event stream, which may not open.              *)
StageRootfs ==
  /\ stage = "rootfs"
  /\ \/ Stages("rootfs") /\ InitializeEventStream /\ stage' = "run"
     \/ Stages("rootfs") /\ stage' = "new" /\ UNCHANGED vars
     \/ StageFails("rootfs") /\ UNCHANGED vars
  /\ UNCHANGED <<source, reportVars>>

(* Every event of the run.                                                 *)
AppendEvent ==
  /\ stage = "run"
  /\ AppendOk \/ AppendFails
  /\ UNCHANGED <<runVars, reportVars>>

(* Somebody builds an artifact anew, or removes it.                        *)
Rebuild ==
  /\ \E a \in Artifacts, v \in Versions \cup {0} :
       v # source[a] /\ source' = [source EXCEPT ![a] = v]
  /\ UNCHANGED <<vars, stage, staged, reportVars>>

-----------------------------------------------------------------------------
(* The report.                                                             *)

(* Mutant: the digest leaves out what it does not list by name.            *)
DigestOfListed(report) == {[report EXCEPT !.digest = {}, !.body = "told"]}

(* compute_integrity_digest: over the whole report, with an empty digest.  *)
DigestOf(report) == {[report EXCEPT !.digest = {}]}

Sealed(report) == [report EXCEPT !.digest = DigestOf(report)]

ReportEvents ==
  [k \in DOMAIN LoadedEvents |->
     [hash_prev |-> LoadedEvents[k].hash_prev, hash_self |-> LoadedEvents[k].hash_self,
      derived |-> LoadedEvents[k].hash_self]]

(* Mutant: the path is looked for in the current directory first.          *)
HashedArtifactsOfSource ==
  [a \in Artifacts |-> IF source[a] # 0 THEN source[a] ELSE staged[a]]

(* resolve_path: the copy in the workdir, when there is one.               *)
HashedArtifacts == [a \in Artifacts |-> IF staged[a] # 0 THEN staged[a] ELSE source[a]]

(* build_report_from_events and the seal. The hashes of the policy and the *)
(* command are with the exit code, the times and the audits in body.       *)
BuiltReport ==
  Sealed([schema |-> "v1", hashes |-> HashedArtifacts, body |-> "told",
          events |-> ReportEvents, meta |-> "none", digest |-> {}])

(* build_and_write_report: nothing is written of a stream that does not    *)
(* load, or when an artifact cannot be read; the write may fail half way.  *)
BuildReport ==
  /\ stage = "run"
  /\ stage' = "done"
  /\ \/ /\ Loads
        /\ file' = <<BuiltReport>>
        /\ wrote' = [wrote EXCEPT !.file = file']
     \/ /\ Loads
        /\ file' = <<>>
        /\ wrote' = [wrote EXCEPT !.file = <<>>]
     \/ UNCHANGED <<file, wrote>>
  /\ UNCHANGED <<vars, source, staged, archive, damages>>

(* Mutant: the metadata is added to a report that is already sealed.       *)
ArchivedReportKeepsDigest(report) == [report EXCEPT !.meta = "pass"]

(* archive_report: the archive and verification metadata, and a new seal.  *)
(* The verification says "pass", and the report is not verified.           *)
ArchivedReport(report) == Sealed([report EXCEPT !.meta = "pass"])

ArchiveReport ==
  /\ file # <<>>
  /\ archive' \in {<<ArchivedReport(file[1])>>, <<>>}
  /\ wrote' = [wrote EXCEPT !.archive = archive', !.archived = file]
  /\ UNCHANGED <<vars, runVars, file, damages>>

-----------------------------------------------------------------------------
(* Damage changes one thing in a report on disk.                           *)

DamagedEvents(events) ==
  {RemoveAt(events, k) : k \in DOMAIN events}
    \cup {[events EXCEPT ![k].derived = Other] : k \in DOMAIN events}
    \cup {[events EXCEPT ![k].hash_self = Malformed] : k \in DOMAIN events}
    \cup {[events EXCEPT ![k] = events[k - 1], ![k - 1] = events[k]] :
            k \in DOMAIN events \ {1}}

Damaged(report) ==
  {[report EXCEPT !.schema = "v2"], [report EXCEPT !.body = "other"],
   [report EXCEPT !.digest = {}], [report EXCEPT !.meta = "none"]}
    \cup {[report EXCEPT !.hashes[a] = h] : a \in Artifacts, h \in {Malformed, Other}}
    \cup {[report EXCEPT !.events = es] : es \in DamagedEvents(report.events)}

DamageFile ==
  /\ file # <<>> /\ damages < MaxDamages
  /\ file' = <<>> \/ \E r \in Damaged(file[1]) : file' = <<r>>
  /\ damages' = damages + 1
  /\ UNCHANGED <<vars, runVars, archive, wrote>>

DamageArchive ==
  /\ archive # <<>> /\ damages < MaxDamages
  /\ archive' = <<>> \/ \E r \in Damaged(archive[1]) : archive' = <<r>>
  /\ damages' = damages + 1
  /\ UNCHANGED <<vars, runVars, file, wrote>>

ReportNext ==
  \/ StageKernel \/ StageRootfs \/ AppendEvent \/ Rebuild
  \/ BuildReport \/ ArchiveReport \/ DamageFile \/ DamageArchive

ReportSpec == ReportInit /\ [][ReportNext]_allVars

-----------------------------------------------------------------------------
(* verify_report.                                                          *)

ReportChainOk(events) ==
  EventChainOk(events) /\ \A k \in DOMAIN events : events[k].derived = events[k].hash_self

ArtifactHashOk(report) ==
  /\ \A a \in Artifacts : report.hashes[a] # Malformed
  /\ report.digest = DigestOf(report)

VerifyReport(report) ==
  {c \in {"SR-EVD-301", "SR-EVD-302", "SR-EVD-303"} :
     CASE c = "SR-EVD-301" -> report.schema # "v1"
       [] c = "SR-EVD-302" -> ~ArtifactHashOk(report)
       [] c = "SR-EVD-303" -> ~ReportChainOk(report.events)}

(* verify_report_cmd: the exit status is 0 iff there is no error.          *)
Errors(onDisk) == IF onDisk = <<>> THEN {"SR-EVD-002"} ELSE VerifyReport(onDisk[1])

-----------------------------------------------------------------------------

Hashes == Versions \cup {Malformed, Other}
OnDisk(f) ==
  f # <<>> =>
    /\ f[1].schema \in {"v1", "v2"} /\ f[1].body \in {"told", "other"}
    /\ f[1].meta \in {"none", "pass"}
    /\ f[1].hashes \in [Artifacts -> Hashes]
    /\ f[1].events \in Seq([hash_prev : Nat, hash_self : Nat \cup {Malformed},
                            derived : Nat \cup {Other}])
    /\ Cardinality(f[1].digest) \in {0, 1}

(* Every variable has its type, those of the event stream included.        *)
ReportTypeOK ==
  /\ TypeOK
  /\ stage \in {"new", "rootfs", "run", "done"}
  /\ source \in [Artifacts -> Versions \cup {0}]
  /\ staged \in [Artifacts -> Versions \cup {0, Other}]
  /\ stage = "run" => 0 \notin Range(staged)
  /\ OnDisk(file) /\ OnDisk(archive)
  /\ OnDisk(wrote.file) /\ OnDisk(wrote.archive) /\ OnDisk(wrote.archived)
  /\ damages \in 0..MaxDamages

(* plan/M4/OVERVIEW.md:27 wants reports that verify offline: whatever      *)
(* event writes failed before it, a report that was written verifies, and  *)
(* so does what is archived of it; of a damaged report the archive keeps   *)
(* every error but the wrong digest, which it replaces.                    *)
WrittenReportsVerify ==
  /\ wrote.file # <<>> => Errors(wrote.file) = {}
  /\ wrote.archive # <<>> =>
       /\ wrote.archived = wrote.file => Errors(wrote.archive) = {}
       /\ Errors(wrote.archive) \subseteq Errors(wrote.archived)
       /\ Errors(wrote.archived) \subseteq Errors(wrote.archive) \cup {"SR-EVD-302"}

(* Damage to a report is reported, and as what it is: any at all by 302,   *)
(* the schema by 301, and the events by 303, but for a cut at their end,   *)
(* which keeps the chain.                                                  *)
DamageIsReported ==
  \A f \in {<<file, wrote.file>>, <<archive, wrote.archive>>} :
    f[1] # <<>> /\ f[2] # <<>> /\ Errors(f[2]) = {} =>
      LET now == f[1][1] then == f[2][1] errors == Errors(f[1]) IN
        /\ "SR-EVD-302" \in errors <=> now # then
        /\ "SR-EVD-301" \in errors <=> now.schema # then.schema
        /\ "SR-EVD-303" \in errors <=> ~IsPrefix(now.events, then.events)

(* A report names the copies that its VM was started with, although they   *)
(* are hashed when the run is over and what they are copies of may have    *)
(* been built anew or removed (DRAFT.md:58 wants the hashes fixed before   *)
(* the run).                                                               *)
ArtifactsArePinned ==
  [][stage = "run" /\ stage' = "done" /\ file' # file /\ file' # <<>> =>
       file'[1].hashes = staged]_allVars
=============================================================================
