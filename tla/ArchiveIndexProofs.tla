-------------------------- MODULE ArchiveIndexProofs --------------------------
(***************************************************************************)
(* Safety of the archive for any number of processes, calls and crashes.   *)
(***************************************************************************)
EXTENDS ArchiveIndex, TLAPS

(* The entries of a sequence of bundles, and what pushing one adds.        *)
LEMMA PushedEntries ==
  ASSUME NEW es \in Seq(Bundles), NEW b \in Bundles
  PROVE  /\ Append(es, b) \in Seq(Bundles)
         /\ Entries(Append(es, b)) = Entries(es) \cup {b}
<1> DEFINE fs == Append(es, b)
<1>1. /\ fs \in Seq(Bundles)
      /\ DOMAIN es = 1..Len(es) /\ DOMAIN fs = 1..(Len(es) + 1)
      /\ Len(es) \in Nat
      /\ \A n \in 1..Len(es) : fs[n] = es[n]
      /\ fs[Len(es) + 1] = b
  OBVIOUS
<1> HIDE DEF fs
<1>2. ASSUME NEW x \in Entries(fs)
      PROVE  x \in Entries(es) \cup {b}
  <2>1. PICK n \in 1..(Len(es) + 1) : x = fs[n]
    BY <1>1 DEF Entries
  <2>2. n \in 1..Len(es) \/ n = Len(es) + 1
    BY <1>1
  <2>3. QED
    BY <1>1, <2>1, <2>2 DEF Entries
<1>3. ASSUME NEW x \in Entries(es) \cup {b}
      PROVE  x \in Entries(fs)
  <2>1. CASE x \in Entries(es)
    <3>1. PICK n \in 1..Len(es) : x = es[n]
      BY <1>1, <2>1 DEF Entries
    <3>2. n \in 1..(Len(es) + 1) /\ x = fs[n]
      BY <1>1, <3>1
    <3>3. QED
      BY <1>1, <3>2 DEF Entries
  <2>2. CASE x = b
    <3>1. Len(es) + 1 \in 1..(Len(es) + 1)
      BY <1>1
    <3>2. QED
      BY <1>1, <2>2, <3>1 DEF Entries
  <2>3. QED
    BY <1>3, <2>1, <2>2
<1>4. QED
  BY <1>1, <1>2, <1>3 DEF fs

(* A process that is in a call has a bundle.                               *)
LEMMA BundleType ==
  ASSUME TypeOK, NEW a \in Archivers, calls[a] > 0
  PROVE  Bundle(a) \in Bundles
  BY ArchiveAssumption DEF TypeOK, Bundle, Bundles

LEMMA NoEntries ==
  /\ Absent \in Texts /\ Empty \in Texts /\ Torn \in Texts
  /\ Entries(Absent.entries) = {} /\ Entries(Empty.entries) = {}
  /\ Entries(Torn.entries) = {}
  /\ Absent.text = "absent" /\ Empty.text = "empty" /\ Torn.text = "torn"
<1>1. <<>> \in Seq(Bundles) /\ Entries(<<>>) = {}
  BY DEF Entries
<1>2. QED
  BY <1>1 DEF Absent, Empty, Torn, Text, Texts

LEMMA ExtendedType ==
  ASSUME TypeOK, NEW a \in Archivers, pc[a] = "rewrite"
  PROVE  /\ Bundle(a) \in Bundles
         /\ snapshot[a] \in Seq(Bundles)
         /\ Extended(a).text = "whole"
         /\ Extended(a).entries \in Seq(Bundles)
         /\ Extended(a) \in Texts
         /\ Entries(Extended(a).entries) = Entries(snapshot[a]) \cup {Bundle(a)}
<1>1. calls[a] > 0
  BY DEF TypeOK
<1>2. Bundle(a) \in Bundles
  BY <1>1, BundleType
<1>3. snapshot[a] \in Seq(Bundles)
  BY DEF TypeOK
<1>4. /\ Append(snapshot[a], Bundle(a)) \in Seq(Bundles)
      /\ Entries(Append(snapshot[a], Bundle(a))) = Entries(snapshot[a]) \cup {Bundle(a)}
  BY <1>2, <1>3, PushedEntries
<1>5. QED
  BY <1>2, <1>3, <1>4 DEF Extended, Whole, Text, Texts

-----------------------------------------------------------------------------

LEMMA TypeInit == Init => TypeOK
  BY ArchiveAssumption, NoEntries DEF Init, TypeOK, Pcs

LEMMA TypeStep == TypeOK /\ [Next]_vars => TypeOK'
<1> SUFFICES ASSUME TypeOK, [Next]_vars
             PROVE  TypeOK'
  OBVIOUS
<1>1. CASE UNCHANGED vars
  BY <1>1 DEF TypeOK, vars
<1>2. ASSUME NEW a \in Archivers, ArchiveReport(a)
      PROVE  TypeOK'
  <2>1. calls[a] + 1 \in 0..MaxCalls /\ calls[a] + 1 > 0
    BY <1>2, ArchiveAssumption DEF TypeOK, ArchiveReport
  <2>2. pc' \in [Archivers -> Pcs] /\ calls' \in [Archivers -> 0..MaxCalls]
    BY <1>2, <2>1 DEF TypeOK, ArchiveReport, Goto, Pcs
  <2>3. \A b \in Archivers : pc'[b] # "idle" => calls'[b] > 0
    BY <1>2, <2>1 DEF TypeOK, ArchiveReport, Goto
  <2>4. QED
    BY <1>2, <2>2, <2>3 DEF TypeOK, ArchiveReport
<1>3. ASSUME NEW a \in Archivers, CreateReport(a)
      PROVE  TypeOK'
  BY <1>3 DEF TypeOK, CreateReport, Goto, Stored, Pcs
<1>4. ASSUME NEW a \in Archivers, WriteReport(a)
      PROVE  TypeOK'
  BY <1>4 DEF TypeOK, WriteReport, Goto, Stored, Pcs
<1>5. ASSUME NEW a \in Archivers, LoadArchiveIndex(a)
      PROVE  TypeOK'
  <2>1. index.entries \in Seq(Bundles)
    BY DEF TypeOK, Texts
  <2>2. snapshot' \in [Archivers -> Seq(Bundles)]
    BY <1>5, <2>1 DEF TypeOK, LoadArchiveIndex
  <2>3. pc' \in [Archivers -> Pcs] /\ \A b \in Archivers : pc'[b] # "idle" => pc[b] # "idle"
    BY <1>5 DEF TypeOK, LoadArchiveIndex, Goto, Pcs
  <2>4. QED
    BY <1>5, <2>2, <2>3 DEF TypeOK, LoadArchiveIndex
<1>6. ASSUME NEW a \in Archivers, OpenIndex(a)
      PROVE  TypeOK'
  <2>1. index' \in Texts
    BY <1>6, NoEntries DEF TypeOK, OpenIndex
  <2>2. QED
    BY <1>6, <2>1 DEF TypeOK, OpenIndex, Goto, Pcs
<1>7. ASSUME NEW a \in Archivers, RewriteIndex(a)
      PROVE  TypeOK'
  <2>1. /\ Bundle(a) \in Bundles
        /\ Extended(a) \in Texts
    BY <1>7, ExtendedType DEF RewriteIndex
  <2>2. index' \in Texts
    BY <1>7, <2>1, NoEntries DEF TypeOK, RewriteIndex, Written, CutOff
  <2>3. acked' \subseteq Bundles /\ raced' \subseteq Bundles
    BY <1>7, <2>1 DEF TypeOK, RewriteIndex
  <2>4. QED
    BY <1>7, <2>2, <2>3 DEF TypeOK, RewriteIndex, Goto, Pcs
<1>8. ASSUME NEW a \in Archivers, Crash(a)
      PROVE  TypeOK'
  <2>1. index' \in Texts
    BY <1>8, ExtendedType, NoEntries DEF TypeOK, Crash, Written, CutOff
  <2>2. QED
    BY <1>8, <2>1 DEF TypeOK, Crash, Goto, Pcs
<1>9. QED
  BY <1>1, <1>2, <1>3, <1>4, <1>5, <1>6, <1>7, <1>8 DEF Next

(* The archive's variables keep their types.                               *)
THEOREM ArchiveTypes == Spec => []TypeOK
<1>1. QED
  BY TypeInit, TypeStep, PTL DEF Spec

-----------------------------------------------------------------------------
(* Every entry has its report.                                             *)

(* The report of a call is not there before it is created and is whole     *)
(* when the call goes on to the index.                                     *)
ReportOfCall ==
  \A a \in Archivers :
    /\ \A b \in Bundles : b[1] = a /\ b[2] > calls[a] => reports[b] = "none"
    /\ pc[a] = "create" => reports[Bundle(a)] = "none"
    /\ pc[a] \in {"load", "open", "rewrite"} => reports[Bundle(a)] = "whole"

(* What a process loaded has reports as well.                              *)
SnapshotHasReport ==
  \A a \in Archivers : \A b \in Entries(snapshot[a]) : reports[b] = "whole"

ReportInv == TypeOK /\ ReportOfCall /\ SnapshotHasReport /\ EntryHasReport

(* A whole report stays whole: only a call's own report is written.        *)
LEMMA WholeStays ==
  ASSUME ReportInv, Next, NEW b \in Bundles, reports[b] = "whole"
  PROVE  reports'[b] = "whole"
<1>1. PICK a \in Archivers :
        \/ ArchiveReport(a) \/ CreateReport(a) \/ WriteReport(a)
        \/ LoadArchiveIndex(a) \/ OpenIndex(a) \/ RewriteIndex(a) \/ Crash(a)
  BY DEF Next
<1>2. CASE CreateReport(a)
  <2>1. Bundle(a) # b
    BY <1>2 DEF CreateReport, ReportInv, ReportOfCall
  <2>2. QED
    BY <1>2, <2>1 DEF CreateReport, Stored, ReportInv, TypeOK
<1>3. CASE WriteReport(a)
  BY <1>3 DEF WriteReport, Stored, ReportInv, TypeOK
<1>4. QED
  BY <1>1, <1>2, <1>3 DEF ArchiveReport, LoadArchiveIndex, OpenIndex,
     RewriteIndex, Crash

LEMMA ReportInit == Init => ReportInv
<1> SUFFICES ASSUME Init PROVE ReportInv
  OBVIOUS
<1>1. TypeOK
  BY TypeInit
<1>2. ReportOfCall
  BY DEF Init, ReportOfCall
<1>3. Entries(<<>>) = {}
  BY DEF Entries
<1>4. SnapshotHasReport /\ EntryHasReport
  BY <1>3, NoEntries DEF Init, SnapshotHasReport, EntryHasReport
<1>5. QED
  BY <1>1, <1>2, <1>4 DEF ReportInv

LEMMA ReportOfCallStep == ReportInv /\ Next => ReportOfCall'
<1> SUFFICES ASSUME ReportInv, Next PROVE ReportOfCall'
  OBVIOUS
<1> USE DEF ReportInv
<1>1. TypeOK /\ TypeOK'
  BY TypeStep
<1>2. PICK a \in Archivers :
        \/ ArchiveReport(a) \/ CreateReport(a) \/ WriteReport(a)
        \/ LoadArchiveIndex(a) \/ OpenIndex(a) \/ RewriteIndex(a) \/ Crash(a)
  BY DEF Next
<1>3. \A c \in Archivers : calls[c] \in Nat /\ calls'[c] \in Nat
  BY <1>1, ArchiveAssumption DEF TypeOK
<1>4. CASE ArchiveReport(a)
  <2>1. calls[a] + 1 \in 1..MaxCalls
    BY <1>1, <1>3, <1>4, ArchiveAssumption DEF ArchiveReport, TypeOK
  <2>2. <<a, calls[a] + 1>> \in Bundles
    BY <2>1 DEF Bundles
  <2>3. reports[<<a, calls[a] + 1>>] = "none"
    BY <1>3, <2>2 DEF ReportOfCall
  <2>4. ASSUME NEW c \in Archivers, c # a
        PROVE  pc'[c] = pc[c] /\ calls'[c] = calls[c] /\ Bundle(c)' = Bundle(c)
    BY <1>1, <1>4, <2>4 DEF ArchiveReport, Goto, Bundle, TypeOK
  <2>5. /\ pc'[a] \in {"create", "idle"}
        /\ calls'[a] = calls[a] + 1
        /\ Bundle(a)' = <<a, calls[a] + 1>>
        /\ reports' = reports
    BY <1>1, <1>4 DEF ArchiveReport, Goto, Bundle, TypeOK
  <2>6. ASSUME NEW c \in Archivers, NEW b \in Bundles, b[1] = c, b[2] > calls'[c]
        PROVE  reports'[b] = "none"
    <3>1. b[2] \in Nat /\ b[2] > calls[c]
      BY <1>3, <2>4, <2>5, <2>6 DEF Bundles
    <3>2. QED
      BY <2>5, <2>6, <3>1 DEF ReportOfCall
  <2>7. QED
    BY <2>3, <2>4, <2>5, <2>6 DEF ReportOfCall
<1>5. CASE CreateReport(a)
  <2>1. Bundle(a) \in Bundles /\ Bundle(a)[1] = a /\ Bundle(a)[2] = calls[a]
    BY <1>1, <1>5, BundleType DEF CreateReport, Bundle, TypeOK
  <2>2. \A b \in Bundles : b # Bundle(a) => reports'[b] = reports[b]
    BY <1>1, <1>5, <2>1 DEF CreateReport, Stored, TypeOK
  <2>3. \A c \in Archivers : c # a => Bundle(c) # Bundle(a)
    BY DEF Bundle
  <2>4. ASSUME NEW c \in Archivers, c # a
        PROVE  pc'[c] = pc[c] /\ calls'[c] = calls[c] /\ Bundle(c)' = Bundle(c)
    BY <1>1, <1>5, <2>4 DEF CreateReport, Goto, Bundle, TypeOK
  <2>5. ASSUME NEW c \in Archivers, NEW b \in Bundles, b[1] = c, b[2] > calls'[c]
        PROVE  reports'[b] = "none"
    BY <1>3, <1>5, <2>1, <2>2, <2>5 DEF CreateReport, ReportOfCall
  <2>6. pc'[a] \in {"write", "idle"}
    BY <1>1, <1>5 DEF CreateReport, Goto, TypeOK
  <2>7. ASSUME NEW c \in Archivers, c # a, pc[c] # "idle"
        PROVE  Bundle(c) \in Bundles
    BY <1>1, <2>7, BundleType DEF TypeOK
  <2>8. QED
    BY <2>2, <2>3, <2>4, <2>5, <2>6, <2>7 DEF ReportOfCall
<1>6. CASE WriteReport(a)
  <2>1. Bundle(a) \in Bundles /\ Bundle(a)[1] = a /\ Bundle(a)[2] = calls[a]
    BY <1>1, <1>6, BundleType DEF WriteReport, Bundle, TypeOK
  <2>2. \A b \in Bundles : b # Bundle(a) => reports'[b] = reports[b]
    BY <1>1, <1>6, <2>1 DEF WriteReport, Stored, TypeOK
  <2>3. \A c \in Archivers : c # a => Bundle(c) # Bundle(a)
    BY DEF Bundle
  <2>4. ASSUME NEW c \in Archivers, c # a
        PROVE  pc'[c] = pc[c] /\ calls'[c] = calls[c] /\ Bundle(c)' = Bundle(c)
    BY <1>1, <1>6, <2>4 DEF WriteReport, Goto, Bundle, TypeOK
  <2>5. ASSUME NEW c \in Archivers, NEW b \in Bundles, b[1] = c, b[2] > calls'[c]
        PROVE  reports'[b] = "none"
    BY <1>3, <1>6, <2>1, <2>2, <2>5 DEF WriteReport, ReportOfCall
  <2>6. \/ pc'[a] = "idle"
        \/ pc'[a] = "load" /\ Bundle(a)' = Bundle(a) /\ reports'[Bundle(a)] = "whole"
    BY <1>1, <1>6, <2>1 DEF WriteReport, Goto, Stored, Bundle, TypeOK
  <2>7. ASSUME NEW c \in Archivers, c # a, pc[c] # "idle"
        PROVE  Bundle(c) \in Bundles
    BY <1>1, <2>7, BundleType DEF TypeOK
  <2>8. QED
    BY <2>2, <2>3, <2>4, <2>5, <2>6, <2>7 DEF ReportOfCall
<1>7. CASE LoadArchiveIndex(a) \/ OpenIndex(a) \/ RewriteIndex(a) \/ Crash(a)
  <2>1. reports' = reports /\ calls' = calls
    BY <1>7 DEF LoadArchiveIndex, OpenIndex, RewriteIndex, Crash
  <2>2. \A c \in Archivers : \/ pc'[c] = pc[c]
                             \/ pc'[c] \in {"idle", "dead"}
                             \/ /\ pc'[c] \in {"open", "rewrite"}
                                /\ pc[c] \in {"load", "open"}
    BY <1>1, <1>7 DEF LoadArchiveIndex, OpenIndex, RewriteIndex, Crash, Goto, TypeOK
  <2>3. QED
    BY <2>1, <2>2 DEF ReportOfCall, Bundle
<1>8. QED
  BY <1>2, <1>4, <1>5, <1>6, <1>7

LEMMA ReportStep == ReportInv /\ [Next]_vars => ReportInv'
<1> SUFFICES ASSUME ReportInv, [Next]_vars PROVE ReportInv'
  OBVIOUS
<1>1. TypeOK'
  BY TypeStep DEF ReportInv
<1>2. CASE UNCHANGED vars
  BY <1>1, <1>2 DEF vars, ReportInv, ReportOfCall, SnapshotHasReport,
     EntryHasReport, Bundle
<1>3. CASE Next
  <2>1. PICK a \in Archivers :
          \/ ArchiveReport(a) \/ CreateReport(a) \/ WriteReport(a)
          \/ LoadArchiveIndex(a) \/ OpenIndex(a) \/ RewriteIndex(a) \/ Crash(a)
    BY <1>3 DEF Next
  <2>2. /\ \A b \in Bundles : reports[b] = "whole" => reports'[b] = "whole"
        /\ \A b \in acked : b \in Bundles /\ reports[b] = "whole"
        /\ \A b \in Entries(index.entries) : b \in Bundles /\ reports[b] = "whole"
        /\ \A c \in Archivers : \A b \in Entries(snapshot[c]) :
             b \in Bundles /\ reports[b] = "whole"
    <3>1. \A b \in Bundles : reports[b] = "whole" => reports'[b] = "whole"
      BY <1>3, WholeStays
    <3>2. \A es \in Seq(Bundles) : Entries(es) \subseteq Bundles
      BY DEF Entries
    <3>3. /\ index.entries \in Seq(Bundles)
          /\ \A c \in Archivers : snapshot[c] \in Seq(Bundles)
      BY DEF ReportInv, TypeOK, Texts
    <3>4. QED
      BY <3>1, <3>2, <3>3 DEF ReportInv, TypeOK, EntryHasReport, SnapshotHasReport
  <2>3. SnapshotHasReport'
    <3>1. ASSUME NEW c \in Archivers
          PROVE  snapshot'[c] \in {snapshot[c], index.entries}
      BY <2>1 DEF ArchiveReport, CreateReport, WriteReport, LoadArchiveIndex,
         OpenIndex, RewriteIndex, Crash, ReportInv, TypeOK
    <3>2. QED
      BY <2>2, <3>1 DEF SnapshotHasReport, Entries
  <2>4. ASSUME pc[a] = "rewrite"
        PROVE  /\ Bundle(a) \in Bundles /\ reports[Bundle(a)] = "whole"
               /\ Entries(Extended(a).entries) = Entries(snapshot[a]) \cup {Bundle(a)}
    BY <2>4, ExtendedType DEF ReportInv, ReportOfCall
  <2>5. acked' \subseteq acked \cup (IF pc[a] = "rewrite" THEN {Bundle(a)} ELSE {})
    BY <2>1 DEF ArchiveReport, CreateReport, WriteReport, LoadArchiveIndex,
       OpenIndex, RewriteIndex, Crash
  <2>6. \/ index' \in {index, Empty, Torn}
        \/ pc[a] = "rewrite" /\ index' = Extended(a)
    BY <2>1 DEF ArchiveReport, CreateReport, WriteReport, LoadArchiveIndex,
       OpenIndex, RewriteIndex, Crash, Written, CutOff
  <2>7. Entries(index'.entries) \subseteq
          Entries(index.entries) \cup
          (IF pc[a] = "rewrite" THEN Entries(snapshot[a]) \cup {Bundle(a)} ELSE {})
    BY <2>4, <2>6, NoEntries
  <2>8. EntryHasReport'
    <3>1. \A b \in Entries(index'.entries) \cup acked' : reports'[b] = "whole"
      BY <2>2, <2>4, <2>5, <2>7
    <3>2. QED
      BY <3>1 DEF EntryHasReport, Entries
  <2>9. QED
    BY <1>1, <1>3, <2>3, <2>8, ReportOfCallStep DEF ReportInv
<1>4. QED
  BY <1>2, <1>3

(* A bundle that is in the index, or was acknowledged, has its report.     *)
THEOREM EntriesHaveReports == Spec => []EntryHasReport
<1>1. ReportInv => EntryHasReport
  BY DEF ReportInv
<1>2. QED
  BY <1>1, ReportInit, ReportStep, PTL DEF Spec

-----------------------------------------------------------------------------
(* A lost entry needs a race.                                              *)

(* What a process between its load and its write still holds: everything   *)
(* that was acknowledged when it loaded, and what was acknowledged since   *)
(* was raced.                                                              *)
HoldersKnow ==
  \A a \in Archivers : pc[a] \in {"open", "rewrite"} =>
    acked \ raced \subseteq Entries(snapshot[a])

RaceInv == TypeOK /\ HoldersKnow /\ LostNeedsRace

LEMMA RaceInit == Init => RaceInv
  BY TypeInit DEF Init, RaceInv, HoldersKnow, LostNeedsRace

LEMMA RaceStep == RaceInv /\ [Next]_vars => RaceInv'
<1> SUFFICES ASSUME RaceInv, [Next]_vars PROVE RaceInv'
  OBVIOUS
<1>1. TypeOK /\ TypeOK'
  BY TypeStep DEF RaceInv
<1>2. CASE UNCHANGED vars
  BY <1>1, <1>2 DEF vars, RaceInv, HoldersKnow, LostNeedsRace, Loads, Entries
<1>3. ASSUME NEW a \in Archivers,
             ArchiveReport(a) \/ CreateReport(a) \/ WriteReport(a)
      PROVE  RaceInv'
  <2>1. /\ UNCHANGED <<snapshot, index, acked, raced>>
        /\ \A c \in Archivers : pc'[c] = pc[c] \/ pc'[c] \notin {"open", "rewrite"}
    BY <1>1, <1>3 DEF ArchiveReport, CreateReport, WriteReport, Goto, TypeOK
  <2>2. QED
    BY <1>1, <2>1 DEF RaceInv, HoldersKnow, LostNeedsRace, Loads, Entries
<1>4. ASSUME NEW a \in Archivers, LoadArchiveIndex(a)
      PROVE  RaceInv'
  <2>1. UNCHANGED <<index, acked, raced>>
    BY <1>4 DEF LoadArchiveIndex
  <2>2. \A c \in Archivers :
          \/ pc'[c] = pc[c] /\ snapshot'[c] = snapshot[c]
          \/ pc'[c] \notin {"open", "rewrite"}
          \/ Loads /\ snapshot'[c] = index.entries
    BY <1>1, <1>4 DEF LoadArchiveIndex, Goto, Loads, TypeOK
  <2>3. QED
    BY <1>1, <2>1, <2>2 DEF RaceInv, HoldersKnow, LostNeedsRace, Loads, Entries
<1>5. ASSUME NEW a \in Archivers, OpenIndex(a)
      PROVE  RaceInv'
  <2>1. UNCHANGED <<snapshot, acked, raced>> /\ index' \in {index, Empty}
    BY <1>5 DEF OpenIndex
  <2>2. \A c \in Archivers : pc'[c] \in {"open", "rewrite"} => pc[c] \in {"open", "rewrite"}
    BY <1>1, <1>5 DEF OpenIndex, Goto, TypeOK
  <2>3. LostNeedsRace'
    BY <2>1, NoEntries DEF RaceInv, LostNeedsRace, Loads, Entries
  <2>4. QED
    BY <1>1, <2>1, <2>2, <2>3 DEF RaceInv, HoldersKnow, Entries
<1>6. ASSUME NEW a \in Archivers, RewriteIndex(a)
      PROVE  RaceInv'
  <2>1. /\ snapshot' = snapshot
        /\ pc[a] = "rewrite" /\ pc'[a] = "idle"
        /\ \A c \in Archivers \ {a} : pc'[c] = pc[c]
    BY <1>1, <1>6 DEF RewriteIndex, Goto, TypeOK
  <2>2. Entries(Extended(a).entries) = Entries(snapshot[a]) \cup {Bundle(a)}
    BY <1>1, <2>1, ExtendedType
  <2>3. acked \ raced \subseteq Entries(snapshot[a])
    BY <2>1 DEF RaceInv, HoldersKnow
  <2>4. CASE UNCHANGED <<acked, raced>> /\ index' \in CutOff
    BY <1>1, <2>1, <2>4, NoEntries
       DEF RaceInv, HoldersKnow, LostNeedsRace, CutOff, Loads, Entries
  <2>5. CASE /\ index' \in Written(a)
             /\ acked' = acked \cup {Bundle(a)}
             /\ raced' = IF OthersHoldSnapshot(a) THEN raced \cup {Bundle(a)} ELSE raced
    <3>1. acked' \ raced' \subseteq (acked \ raced) \cup {Bundle(a)}
      BY <2>5
    <3>2. index' \in {Extended(a), Torn}
      BY <2>5 DEF Written
    <3>3. index'.text = "whole" \/ index'.text = "absent" => index' = Extended(a)
      BY <3>2, NoEntries
    <3>4. LostNeedsRace'
      <4>1. ASSUME index'.text \in {"absent", "whole"}
            PROVE  acked' \ raced' \subseteq Entries(index'.entries)
        BY <2>2, <2>3, <3>1, <3>3, <4>1
      <4>2. QED
        BY <4>1 DEF LostNeedsRace, Loads, Entries
    <3>5. ASSUME NEW c \in Archivers, pc'[c] \in {"open", "rewrite"}
          PROVE  acked' \ raced' \subseteq Entries(snapshot'[c])
      <4>1. c # a /\ pc[c] \in {"open", "rewrite"}
        BY <2>1, <3>5
      <4>2. OthersHoldSnapshot(a)
        BY <4>1 DEF OthersHoldSnapshot
      <4>3. acked' \ raced' \subseteq acked \ raced
        BY <2>5, <4>2
      <4>4. QED
        BY <2>1, <4>1, <4>3 DEF RaceInv, HoldersKnow
    <3>6. HoldersKnow'
      BY <3>5 DEF HoldersKnow, Entries
    <3>7. QED
      BY <1>1, <3>4, <3>6 DEF RaceInv
  <2>6. QED
    BY <1>6, <2>4, <2>5 DEF RewriteIndex
<1>7. ASSUME NEW a \in Archivers, Crash(a)
      PROVE  RaceInv'
  <2>1. /\ UNCHANGED <<snapshot, acked, raced>>
        /\ \A c \in Archivers : pc'[c] = pc[c] \/ pc'[c] = "dead"
    BY <1>1, <1>7 DEF Crash, Goto, TypeOK
  <2>2. index' \in {index, Torn} \/ (pc[a] = "rewrite" /\ index' = Extended(a))
    BY <1>7 DEF Crash, CutOff, Written
  <2>3. LostNeedsRace'
    <3>1. CASE index' \in {index, Torn}
      BY <2>1, <3>1, NoEntries DEF RaceInv, LostNeedsRace, Loads, Entries
    <3>2. CASE pc[a] = "rewrite" /\ index' = Extended(a)
      <4>1. acked \ raced \subseteq Entries(snapshot[a])
        BY <3>2 DEF RaceInv, HoldersKnow
      <4>2. Entries(index'.entries) = Entries(snapshot[a]) \cup {Bundle(a)}
        BY <1>1, <3>2, ExtendedType
      <4>3. acked' \ raced' \subseteq Entries(index'.entries)
        BY <2>1, <4>1, <4>2
      <4>4. QED
        BY <4>3 DEF LostNeedsRace, Entries
    <3>3. QED
      BY <2>2, <3>1, <3>2
  <2>4. QED
    BY <1>1, <2>1, <2>3 DEF RaceInv, HoldersKnow, Entries
<1>8. QED
  BY <1>2, <1>3, <1>4, <1>5, <1>6, <1>7 DEF Next

(* Crashes and errors alone lose no acknowledged entry.                    *)
THEOREM LostEntriesWereRaced == Spec => []LostNeedsRace
<1>1. RaceInv => LostNeedsRace
  BY DEF RaceInv
<1>2. QED
  BY <1>1, RaceInit, RaceStep, PTL DEF Spec

(* No step changes a damaged index that nobody is about to rewrite, and    *)
(* none leads there.                                                       *)
THEOREM DamagedIndexStays == Spec => DamageIsKept
<1>1. ASSUME TypeOK, [Next]_vars, ~Loads, ~Writing
      PROVE  index' = index
  BY <1>1 DEF Next, Writing, ArchiveReport, CreateReport, WriteReport,
     LoadArchiveIndex, OpenIndex, RewriteIndex, Crash, vars
<1>2. ASSUME TypeOK, [Next]_vars, ~Loads, ~Writing
      PROVE  ~Writing'
  <2>1. CASE UNCHANGED vars
    BY <1>2, <2>1 DEF Writing, vars
  <2>2. CASE \E a \in Archivers : ArchiveReport(a) \/ CreateReport(a) \/ WriteReport(a)
    BY <1>2, <2>2 DEF Writing, TypeOK, ArchiveReport, CreateReport, WriteReport, Goto
  <2>3. CASE \E a \in Archivers : LoadArchiveIndex(a)
    BY <1>2, <2>3 DEF Writing, TypeOK, LoadArchiveIndex, Goto, Loads
  <2>4. CASE \E a \in Archivers : OpenIndex(a) \/ RewriteIndex(a) \/ Crash(a)
    BY <1>2, <2>4 DEF Writing, TypeOK, OpenIndex, RewriteIndex, Crash, Goto
  <2>5. QED
    BY <1>2, <2>1, <2>2, <2>3, <2>4 DEF Next
<1>3. ASSUME TypeOK, [Next]_vars
      PROVE  [~Loads /\ ~Writing => index' = index /\ ~Writing']_vars
  BY <1>1, <1>2, <1>3
<1>4. QED
  BY <1>3, TypeInit, TypeStep, PTL DEF Spec, DamageIsKept
=============================================================================
