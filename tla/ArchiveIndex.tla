----------------------------- MODULE ArchiveIndex -----------------------------
(***************************************************************************)
(* sr-evidence's archive: archive_report writes a report into a bundle     *)
(* directory of its own and then appends an entry to index.json, which it  *)
(* reads, extends and rewrites in place. Several processes may archive     *)
(* into one root; each may fail at every file operation and die between    *)
(* any two of them.                                                        *)
(*                                                                         *)
(* fs::write truncates the file and then writes it, from its start. When   *)
(* two writers truncated the index before either wrote, the second write   *)
(* lands on the content of the first: it may cover all of it or leave a    *)
(* remainder after its own end, which no longer parses.                    *)
(*                                                                         *)
(* A bundle id has the run id and the nanoseconds of the call in it: two   *)
(* calls are taken to have different ones.                                 *)
(***************************************************************************)
EXTENDS Integers, Sequences

CONSTANTS
  Archivers,   \* processes that archive into one archive root
  MaxCalls     \* bound on the calls of archive_report by one process

ASSUME ArchiveAssumption == MaxCalls \in Nat \ {0}

VARIABLES
  pc,        \* the process's place in archive_report
  calls,     \* its calls so far; its bundle is <<process, calls>>
  snapshot,  \* the entries that append_archive_index loaded
  reports,   \* the archived report of each bundle: "none", "torn", "whole"
  index,     \* index.json: its text ("absent", "empty", "torn", "whole") and, when
             \* that is whole, its entries
  acked,     \* history: bundles whose archive_report returned Ok
  raced      \* history: bundles indexed while another process held a snapshot

vars == <<pc, calls, snapshot, reports, index, acked, raced>>

Bundles == Archivers \X (1..MaxCalls)

(* Mutant: the bundle of the call before.                                  *)
BundleOfLast(a) == <<a, calls[a] - 1>>

(* build_bundle_id.                                                        *)
Bundle(a) == <<a, calls[a]>>

Text(t, es) == [text |-> t, entries |-> es]
Absent == Text("absent", <<>>)
Empty == Text("empty", <<>>)
Torn == Text("torn", <<>>)
Whole(es) == Text("whole", es)

Pcs == {"idle", "create", "write", "load", "open", "rewrite", "dead"}

Init ==
  /\ pc = [a \in Archivers |-> "idle"]
  /\ calls = [a \in Archivers |-> 0]
  /\ snapshot = [a \in Archivers |-> <<>>]
  /\ reports = [b \in Bundles |-> "none"]
  /\ index = Absent
  /\ acked = {}
  /\ raced = {}

Goto(a, l) == pc' = [pc EXCEPT ![a] = l]
Stored(b, r) == reports' = [reports EXCEPT ![b] = r]

-----------------------------------------------------------------------------

(* archive_report is called; creating the root may fail.                   *)
ArchiveReport(a) ==
  /\ pc[a] = "idle"
  /\ calls[a] < MaxCalls
  /\ calls' = [calls EXCEPT ![a] = @ + 1]
  /\ Goto(a, "create") \/ Goto(a, "idle")
  /\ UNCHANGED <<snapshot, reports, index, acked, raced>>

(* write_archived_report: create the bundle directory and the file.        *)
CreateReport(a) ==
  /\ pc[a] = "create"
  /\ \/ Goto(a, "write") /\ Stored(Bundle(a), "torn")
     \/ Goto(a, "idle") /\ UNCHANGED reports
  /\ UNCHANGED <<calls, snapshot, index, acked, raced>>

(* Mutant: the error of write_archived_report is dropped.                  *)
WriteReportGoesOn(a) ==
  /\ pc[a] = "write"
  /\ Goto(a, "load")
  /\ Stored(Bundle(a), "whole") \/ UNCHANGED reports
  /\ UNCHANGED <<calls, snapshot, index, acked, raced>>

(* write_archived_report writes the report; an error returns.              *)
WriteReport(a) ==
  /\ pc[a] = "write"
  /\ \/ Goto(a, "load") /\ Stored(Bundle(a), "whole")
     \/ Goto(a, "idle") /\ UNCHANGED reports
  /\ UNCHANGED <<calls, snapshot, index, acked, raced>>

(* Mutant: an index that does not parse is taken to be empty.              *)
LoadArchiveIndexOrDefault(a) ==
  /\ pc[a] = "load"
  /\ snapshot' = [snapshot EXCEPT ![a] = index.entries]
  /\ Goto(a, "open")
  /\ UNCHANGED <<calls, reports, index, acked, raced>>

(* load_archive_index: an absent index has no entries; one that cannot be  *)
(* read or parsed, an empty file included, is an error that ends the call. *)
LoadArchiveIndex(a) ==
  /\ pc[a] = "load"
  /\ \/ /\ index.text \in {"absent", "whole"}
        /\ snapshot' = [snapshot EXCEPT ![a] = index.entries]
        /\ Goto(a, "open")
     \/ Goto(a, "idle") /\ UNCHANGED snapshot
  /\ UNCHANGED <<calls, reports, index, acked, raced>>

(* append_archive_index: open and truncate the index, whatever it is now.  *)
OpenIndex(a) ==
  /\ pc[a] = "open"
  /\ \/ Goto(a, "rewrite") /\ index' = Empty
     \/ Goto(a, "idle") /\ UNCHANGED index
  /\ UNCHANGED <<calls, snapshot, reports, acked, raced>>

(* Mutant: what is written is the index as it was loaded.                  *)
ExtendedNot(a) == Whole(snapshot[a])

(* The new content of the index, and what a write of it may leave: on what *)
(* another writer put there since the truncation it may leave a remainder, *)
(* and a write that is cut off leaves what was there or a part of it.      *)
Extended(a) == Whole(Append(snapshot[a], Bundle(a)))
Written(a) == IF index.text = "empty" THEN {Extended(a)} ELSE {Extended(a), Torn}
CutOff == {index, Torn}

(* Another process stands between its load and the end of its write.       *)
OthersHoldSnapshot(a) == \E b \in Archivers \ {a} : pc[b] \in {"open", "rewrite"}

(* append_archive_index: write the snapshot and the new entry; then        *)
(* archive_report returns.                                                 *)
RewriteIndex(a) ==
  /\ pc[a] = "rewrite"
  /\ \/ /\ index' \in Written(a)
        /\ acked' = acked \cup {Bundle(a)}
        /\ raced' = IF OthersHoldSnapshot(a) THEN raced \cup {Bundle(a)} ELSE raced
     \/ /\ index' \in CutOff
        /\ UNCHANGED <<acked, raced>>
  /\ Goto(a, "idle")
  /\ UNCHANGED <<calls, snapshot, reports>>

(* The process dies, in a write to the index before, in or after it.       *)
Crash(a) ==
  /\ pc[a] \notin {"idle", "dead"}
  /\ Goto(a, "dead")
  /\ \/ UNCHANGED index
     \/ pc[a] = "rewrite" /\ index' \in CutOff \cup Written(a)
  /\ UNCHANGED <<calls, snapshot, reports, acked, raced>>

-----------------------------------------------------------------------------

Next == \E a \in Archivers :
  \/ ArchiveReport(a) \/ CreateReport(a) \/ WriteReport(a)
  \/ LoadArchiveIndex(a) \/ OpenIndex(a) \/ RewriteIndex(a) \/ Crash(a)

Spec == Init /\ [][Next]_vars

-----------------------------------------------------------------------------

Entries(es) == {es[n] : n \in DOMAIN es}
Loads == index.text \in {"absent", "whole"}
Writing == \E a \in Archivers : pc[a] \in {"open", "rewrite"}

Texts == [text : {"absent", "empty", "torn", "whole"}, entries : Seq(Bundles)]

(* Every variable has its type.                                            *)
TypeOK ==
  /\ pc \in [Archivers -> Pcs]
  /\ calls \in [Archivers -> 0..MaxCalls]
  /\ \A a \in Archivers : pc[a] # "idle" => calls[a] > 0
  /\ snapshot \in [Archivers -> Seq(Bundles)]
  /\ reports \in [Bundles -> {"none", "torn", "whole"}]
  /\ index \in Texts
  /\ acked \subseteq Bundles
  /\ raced \subseteq Bundles

(* The report is written before its entry: load_archived_report succeeds   *)
(* for every bundle that the index names and for every one that            *)
(* archive_report acknowledged, whoever crashed in between.                *)
EntryHasReport ==
  \A b \in Entries(index.entries) \cup acked : reports[b] = "whole"

(* An index that loads has every bundle that was acknowledged, except one  *)
(* that was indexed while another process held a snapshot: crashes and     *)
(* errors alone, however they fall, never lose an acknowledged entry.      *)
LostNeedsRace == Loads => acked \ raced \subseteq Entries(index.entries)

(* A damaged index is never taken for an empty one: once no process is     *)
(* left that loaded it before, it stays as it is for someone to repair,    *)
(* and no process comes to write it.                                       *)
DamageIsKept == [][~Loads /\ ~Writing => index' = index /\ ~Writing']_vars
=============================================================================
