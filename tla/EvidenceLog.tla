----------------------------- MODULE EvidenceLog -----------------------------
(***************************************************************************)
(* The event stream of a run: sr-evidence's append_event writes one JSON   *)
(* line per event, each carrying the hash of the event before it; the      *)
(* runner's write_event keeps the last hash; the CLI's load_events reads   *)
(* the stream back, and the verifier checks the chain.                     *)
(*                                                                         *)
(* A line is written in two writes, the JSON text and the newline, and     *)
(* either may fail half way. The runner ignores some of those errors and   *)
(* goes on appending, so a torn line is glued to the event that follows.   *)
(*                                                                         *)
(* Hashes are numbers: the hash of the n-th attempted event is n, because  *)
(* it covers the timestamp and the whole content of the event.             *)
(***************************************************************************)
EXTENDS Integers, Sequences

CONSTANT MaxAppends   \* bound on the attempted appends

ASSUME AppendsAssumption == MaxAppends \in Nat

VARIABLES
  lines,     \* the lines that end in a newline, each a sequence of fragments
  tail,      \* the fragments after the last newline
  last,      \* PreparedRun.last_event_hash
  attempts,  \* appends attempted so far
  acked      \* history: the events whose append returned Ok

vars == <<lines, tail, last, attempts, acked>>

GENESIS == 0
Events == [hash_prev : Nat, hash_self : Nat]
Torn == [hash_prev |-> -1, hash_self |-> -1]
Fragments == Events \cup {Torn}

Init ==
  /\ lines = <<>>
  /\ tail = <<>>
  /\ last = GENESIS
  /\ attempts = 0
  /\ acked = <<>>

(* The event that append_event builds from the runner's last hash.         *)
NewEvent == [hash_prev |-> last, hash_self |-> attempts + 1]

(* Mutant: the torn end of the file is cut off before the append.          *)
AppendOkRepairs ==
  /\ attempts < MaxAppends
  /\ attempts' = attempts + 1
  /\ lines' = Append(lines, <<NewEvent>>)
  /\ tail' = <<>>
  /\ last' = NewEvent.hash_self
  /\ acked' = Append(acked, NewEvent)

(* append_event succeeds and write_event advances the chain.               *)
AppendOk ==
  /\ attempts < MaxAppends
  /\ attempts' = attempts + 1
  /\ lines' = Append(lines, Append(tail, NewEvent))
  /\ tail' = <<>>
  /\ last' = NewEvent.hash_self
  /\ acked' = Append(acked, NewEvent)

(* Mutant: last_event_hash advances although the append failed.            *)
AppendFailsAdvances ==
  /\ attempts < MaxAppends
  /\ attempts' = attempts + 1
  /\ \/ UNCHANGED tail
     \/ tail' = Append(tail, Torn)
  /\ last' = NewEvent.hash_self
  /\ UNCHANGED <<lines, acked>>

(* Mutant: a short write is reported as a success.                         *)
AppendFailsAcked ==
  /\ attempts < MaxAppends
  /\ attempts' = attempts + 1
  /\ tail' = Append(tail, Torn)
  /\ acked' = Append(acked, Torn)
  /\ UNCHANGED <<lines, last>>

(* append_event fails: nothing was written, or a part of the JSON text, or *)
(* all of it without the newline. write_event keeps the last hash.         *)
AppendFails ==
  /\ attempts < MaxAppends
  /\ attempts' = attempts + 1
  /\ \/ UNCHANGED tail
     \/ tail' = Append(tail, Torn)
     \/ tail' = Append(tail, NewEvent)
  /\ UNCHANGED <<lines, last, acked>>

(* Mutant: prepare starts a new chain at the end of the old stream.        *)
InitializeAppends ==
  /\ last' = GENESIS
  /\ acked' = <<>>
  /\ UNCHANGED <<lines, tail, attempts>>

(* A later prepare in the same workdir truncates the stream and starts a   *)
(* new chain.                                                              *)
InitializeEventStream ==
  /\ lines' = <<>>
  /\ tail' = <<>>
  /\ last' = GENESIS
  /\ acked' = <<>>
  /\ UNCHANGED attempts

Next == AppendOk \/ AppendFails \/ InitializeEventStream

Spec == Init /\ [][Next]_vars

-----------------------------------------------------------------------------

(* load_events parses a line iff it is one whole event: a torn line, and a *)
(* line of two fragments, is not JSON. A blank tail is skipped.            *)
Parses(line) == Len(line) = 1 /\ line[1] # Torn

Loads ==
  /\ \A i \in DOMAIN lines : Parses(lines[i])
  /\ tail = <<>> \/ Parses(tail)

LoadedEvents == [i \in DOMAIN lines |-> lines[i][1]] \o tail

(* verifier.rs: the chain starts at the genesis hash, every event names    *)
(* the hash of the one before, and every hash is that of its event.        *)
EventChainOk(events) ==
  \A i \in DOMAIN events :
    events[i].hash_prev = IF i = 1 THEN GENESIS ELSE events[i - 1].hash_self

-----------------------------------------------------------------------------

(* Every variable has its type.                                            *)
TypeOK ==
  /\ lines \in Seq(Seq(Fragments))
  /\ tail \in Seq(Fragments)
  /\ last \in 0..attempts
  /\ attempts \in 0..MaxAppends
  /\ acked \in Seq(Events)

(* Whatever writes failed before it, a stream that load_events accepts     *)
(* passes the verifier's chain check: a failed write never leaves a        *)
(* readable stream with a broken chain.                                    *)
LoadedChainVerifies == Loads => EventChainOk(LoadedEvents)

(* A stream that loads holds every acknowledged event in order, and at     *)
(* most one event more: the last one, written whole but reported as failed.*)
LoadedIsAcked ==
  Loads =>
    /\ Len(LoadedEvents) \in {Len(acked), Len(acked) + 1}
    /\ \A i \in DOMAIN acked : LoadedEvents[i] = acked[i]

(* A damaged stream never loads again: appending cannot repair it, only a  *)
(* new prepare can.                                                        *)
DamageIsKept == [][~Loads /\ Loads' => lines' = <<>> /\ tail' = <<>>]_vars
=============================================================================
