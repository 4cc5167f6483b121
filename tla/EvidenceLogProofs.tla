--------------------------- MODULE EvidenceLogProofs ---------------------------
(***************************************************************************)
(* Proofs about the event stream for any number of appends, each of which  *)
(* may fail in any of the modelled ways.                                   *)
(*                                                                         *)
(* The strengthening says how the stream is linked to the runner's last    *)
(* hash: each closed line ends in the event whose append closed it, and    *)
(* whatever lies after the last newline was written with hash_prev = last, *)
(* because last moves only when a newline is written.                      *)
(***************************************************************************)
EXTENDS EvidenceLog, TLAPS

(* The hash that the event after the n-th one of a chain must name.        *)
HashAfter(events, n) == IF n = 0 THEN GENESIS ELSE events[n].hash_self

(* Each acknowledged event closed one line; acknowledged events form a     *)
(* chain that ends at last; the open tail continues it.                    *)
LinesAreAcked ==
  /\ Len(lines) = Len(acked)
  /\ \A n \in 1..Len(lines) :
       /\ Len(lines[n]) \in Nat \ {0}
       /\ lines[n][Len(lines[n])] = acked[n]

AckedChain ==
  /\ \A n \in 1..Len(acked) : acked[n].hash_prev = HashAfter(acked, n - 1)
  /\ last = HashAfter(acked, Len(acked))

TailContinues ==
  \A n \in 1..Len(tail) : tail[n] # Torn => tail[n].hash_prev = last

IInv == TypeOK /\ LinesAreAcked /\ AckedChain /\ TailContinues

(* The type invariant is inductive by itself.                              *)
LEMMA TypeInit == Init => TypeOK
  BY AppendsAssumption DEF Init, TypeOK, GENESIS

LEMMA TypeStep == TypeOK /\ [Next]_vars => TypeOK'
<1> SUFFICES ASSUME TypeOK, [Next]_vars PROVE TypeOK'
  OBVIOUS
<1>1. CASE AppendOk
  <2>1. NewEvent \in Events
    BY DEF TypeOK, NewEvent, Events
  <2>2. Append(tail, NewEvent) \in Seq(Fragments)
    BY <2>1 DEF TypeOK, Fragments
  <2>3. lines' \in Seq(Seq(Fragments)) /\ tail' \in Seq(Fragments)
    BY <1>1, <2>2 DEF TypeOK, AppendOk
  <2>4. acked' \in Seq(Events)
    BY <1>1, <2>1 DEF TypeOK, AppendOk
  <2>5. attempts' \in 0..MaxAppends /\ last' \in 0..attempts'
    BY <1>1, AppendsAssumption DEF TypeOK, AppendOk, NewEvent
  <2>6. QED
    BY <2>3, <2>4, <2>5 DEF TypeOK
<1>2. CASE AppendFails
  <2>1. NewEvent \in Fragments /\ Torn \in Fragments
    BY DEF TypeOK, NewEvent, Events, Fragments
  <2>2. tail' \in Seq(Fragments)
    <3>1. tail' = tail \/ \E f \in Fragments : tail' = Append(tail, f)
      BY <1>2, <2>1 DEF AppendFails
    <3>2. tail \in Seq(Fragments)
      BY DEF TypeOK
    <3>3. QED
      BY <3>1, <3>2
  <2>3. attempts' \in 0..MaxAppends /\ last' \in 0..attempts'
    BY <1>2, AppendsAssumption DEF TypeOK, AppendFails
  <2>4. QED
    BY <1>2, <2>2, <2>3 DEF TypeOK, AppendFails
<1>3. CASE InitializeEventStream
  BY <1>3 DEF TypeOK, InitializeEventStream, GENESIS
<1>4. CASE UNCHANGED vars
  BY <1>4 DEF TypeOK, vars
<1>5. QED
  BY <1>1, <1>2, <1>3, <1>4 DEF Next

(* Every variable keeps its type, for every MaxAppends.                    *)
THEOREM TypeCorrect == Spec => []TypeOK
<1>1. Init => TypeOK
  BY TypeInit
<1>2. TypeOK /\ [Next]_vars => TypeOK'
  BY TypeStep
<1>3. QED
  BY <1>1, <1>2, PTL DEF Spec

LEMMA ChainInit == Init => IInv
  BY TypeInit DEF Init, IInv, LinesAreAcked, AckedChain, TailContinues, HashAfter

LEMMA ChainStep == IInv /\ [Next]_vars => IInv'
<1> SUFFICES ASSUME IInv, [Next]_vars PROVE IInv'
  OBVIOUS
<1>t. TypeOK /\ TypeOK'
  BY TypeStep DEF IInv
<1>1. CASE AppendOk
  <2>n. NewEvent \in Events /\ NewEvent.hash_prev = last
    BY <1>t DEF TypeOK, NewEvent, Events
  <2>1. /\ Len(acked') = Len(acked) + 1
        /\ acked'[Len(acked) + 1] = NewEvent
        /\ \A n \in 1..Len(acked) : acked'[n] = acked[n]
    BY <1>1, <1>t, <2>n DEF TypeOK, AppendOk
  <2>2. /\ Len(lines') = Len(lines) + 1
        /\ lines'[Len(lines) + 1] = Append(tail, NewEvent)
        /\ \A n \in 1..Len(lines) : lines'[n] = lines[n]
    BY <1>1, <1>t DEF TypeOK, AppendOk
  <2>3. LinesAreAcked'
    <3>1. /\ Len(Append(tail, NewEvent)) = Len(tail) + 1
          /\ Len(tail) \in Nat
          /\ Append(tail, NewEvent)[Len(tail) + 1] = NewEvent
      BY <1>t DEF TypeOK
    <3>2. ASSUME NEW n \in 1..Len(lines')
          PROVE  /\ Len(lines'[n]) \in Nat \ {0}
                 /\ lines'[n][Len(lines'[n])] = acked'[n]
      <4>1. CASE n = Len(lines) + 1
        BY <4>1, <2>1, <2>2, <3>1 DEF LinesAreAcked, IInv
      <4>2. CASE n \in 1..Len(lines)
        BY <4>2, <2>1, <2>2 DEF LinesAreAcked, IInv
      <4>3. QED
        BY <1>t, <2>2, <4>1, <4>2 DEF TypeOK
    <3>3. QED
      BY <2>1, <2>2, <3>2 DEF LinesAreAcked, IInv
  <2>4. AckedChain'
    <3>1. \A n \in 0..Len(acked) : HashAfter(acked', n) = HashAfter(acked, n)
      BY <1>t, <2>1 DEF HashAfter, TypeOK
    <3>2. HashAfter(acked', Len(acked')) = NewEvent.hash_self
      BY <1>t, <2>1 DEF HashAfter, TypeOK
    <3>3. last' = HashAfter(acked', Len(acked'))
      BY <1>1, <2>1, <3>2 DEF AppendOk
    <3>4. ASSUME NEW n \in 1..Len(acked')
          PROVE  acked'[n].hash_prev = HashAfter(acked', n - 1)
      <4>1. n - 1 \in 0..Len(acked)
        BY <1>t, <2>1 DEF TypeOK
      <4>2. CASE n = Len(acked) + 1
        BY <1>t, <2>n, <2>1, <3>1, <4>1, <4>2 DEF IInv, AckedChain, TypeOK
      <4>3. CASE n \in 1..Len(acked)
        BY <2>1, <3>1, <4>1, <4>3 DEF IInv, AckedChain
      <4>4. QED
        BY <1>t, <2>1, <4>2, <4>3 DEF TypeOK
    <3>5. QED
      BY <3>3, <3>4 DEF AckedChain
  <2>5. TailContinues'
    BY <1>1 DEF AppendOk, TailContinues
  <2>6. QED
    BY <1>t, <2>3, <2>4, <2>5 DEF IInv
<1>2. CASE AppendFails
  <2>1. LinesAreAcked' /\ AckedChain'
    BY <1>2 DEF IInv, AppendFails, LinesAreAcked, AckedChain, HashAfter
  <2>2. ASSUME NEW n \in 1..Len(tail'), tail'[n] # Torn
        PROVE  tail'[n].hash_prev = last'
    <3>1. last' = last /\ \A m \in 1..Len(tail) : tail[m] # Torn => tail[m].hash_prev = last
      BY <1>2 DEF IInv, AppendFails, TailContinues
    <3>2. CASE tail' = tail
      BY <2>2, <3>1, <3>2
    <3>3. CASE tail' # tail
      <4>1. PICK f \in {Torn, NewEvent} : tail' = Append(tail, f)
        BY <1>2, <3>3 DEF AppendFails
      <4>2. /\ Len(tail') = Len(tail) + 1 /\ Len(tail) \in Nat
            /\ tail'[Len(tail) + 1] = f
            /\ \A m \in 1..Len(tail) : tail'[m] = tail[m]
        BY <1>t, <4>1 DEF TypeOK
      <4>3. CASE n = Len(tail) + 1
        BY <2>2, <3>1, <4>1, <4>2, <4>3 DEF NewEvent
      <4>4. CASE n \in 1..Len(tail)
        BY <2>2, <3>1, <4>2, <4>4
      <4>5. QED
        BY <4>2, <4>3, <4>4
    <3>4. QED
      BY <3>2, <3>3
  <2>3. TailContinues'
    BY <2>2 DEF TailContinues
  <2>4. QED
    BY <1>t, <2>1, <2>3 DEF IInv
<1>3. CASE InitializeEventStream
  BY <1>3, <1>t DEF IInv, InitializeEventStream, LinesAreAcked, AckedChain,
       TailContinues, HashAfter
<1>4. CASE UNCHANGED vars
  BY <1>4, <1>t DEF IInv, vars, LinesAreAcked, AckedChain, TailContinues,
       HashAfter
<1>5. QED
  BY <1>1, <1>2, <1>3, <1>4 DEF Next

(* What the strengthening says of a stream that load_events accepts.       *)
LEMMA LoadedShape ==
  ASSUME IInv, Loads
  PROVE  /\ LoadedEvents \in Seq(Fragments)
         /\ Len(LoadedEvents) = Len(acked) + Len(tail)
         /\ Len(tail) \in {0, 1}
         /\ \A n \in 1..Len(acked) : LoadedEvents[n] = acked[n]
         /\ Len(tail) = 1 =>
              /\ LoadedEvents[Len(acked) + 1] = tail[1]
              /\ tail[1] # Torn
<1> DEFINE closed == [n \in DOMAIN lines |-> lines[n][1]]
<1>1. \A n \in 1..Len(lines) : Len(lines[n]) = 1 /\ lines[n][1] = acked[n]
  BY DEF IInv, TypeOK, LinesAreAcked, Loads, Parses
<1>2. /\ Len(lines) = Len(acked) /\ Len(acked) \in Nat
      /\ DOMAIN lines = 1..Len(acked) /\ DOMAIN acked = 1..Len(acked)
      /\ acked \in Seq(Fragments) /\ tail \in Seq(Fragments)
  BY DEF IInv, TypeOK, LinesAreAcked, Fragments
<1>3. closed = acked
  BY <1>1, <1>2
<1>4. LoadedEvents = acked \o tail
  BY <1>3 DEF LoadedEvents
<1>5. Len(tail) = 0 \/ (Len(tail) = 1 /\ tail[1] # Torn)
  BY <1>2 DEF Loads, Parses
<1>6. QED
  BY <1>2, <1>4, <1>5

(* An index into a chain of a events and t more.                           *)
LEMMA IndexCases ==
  ASSUME NEW a \in Nat, NEW t \in {0, 1}, NEW n \in 1..(a + t)
  PROVE  /\ n = 1 \/ n - 1 \in 1..a
         /\ n \in 1..a \/ (n = a + 1 /\ t = 1)
  OBVIOUS

LEMMA AtMostOneMore ==
  ASSUME NEW a \in Nat, NEW t \in {0, 1}
  PROVE  a + t \in {a, a + 1}
  OBVIOUS

LEMMA LoadedChain == IInv => LoadedChainVerifies
<1> SUFFICES ASSUME IInv, Loads
             PROVE  EventChainOk(LoadedEvents)
  BY DEF LoadedChainVerifies
<1>1. /\ LoadedEvents \in Seq(Fragments) /\ Len(acked) \in Nat
      /\ DOMAIN LoadedEvents = 1..(Len(acked) + Len(tail))
  BY LoadedShape DEF IInv, TypeOK
<1> SUFFICES ASSUME NEW n \in 1..(Len(acked) + Len(tail))
             PROVE  LoadedEvents[n].hash_prev =
                      IF n = 1 THEN GENESIS ELSE LoadedEvents[n - 1].hash_self
  BY <1>1 DEF EventChainOk
<1>0. Len(tail) \in {0, 1}
  BY LoadedShape
<1>2. n = 1 \/ n - 1 \in 1..Len(acked)
  BY <1>0, <1>1, IndexCases
<1>3. HashAfter(acked, n - 1) =
        IF n = 1 THEN GENESIS ELSE LoadedEvents[n - 1].hash_self
  BY <1>1, <1>2, LoadedShape DEF HashAfter
<1>4. CASE n \in 1..Len(acked)
  BY <1>3, <1>4, LoadedShape DEF IInv, AckedChain
<1>5. CASE n = Len(acked) + 1 /\ Len(tail) = 1
  <2>1. tail[1].hash_prev = last
    BY <1>5, LoadedShape DEF IInv, TailContinues
  <2>2. last = HashAfter(acked, n - 1)
    BY <1>1, <1>5 DEF IInv, AckedChain
  <2>3. QED
    BY <1>3, <1>5, <2>1, <2>2, LoadedShape
<1>6. n \in 1..Len(acked) \/ (n = Len(acked) + 1 /\ Len(tail) = 1)
  BY <1>0, <1>1, IndexCases
<1>7. QED
  BY <1>4, <1>5, <1>6

LEMMA LoadedAcked == IInv => LoadedIsAcked
<1> SUFFICES ASSUME IInv, Loads
             PROVE  /\ Len(LoadedEvents) \in {Len(acked), Len(acked) + 1}
                    /\ \A n \in DOMAIN acked : LoadedEvents[n] = acked[n]
  BY DEF LoadedIsAcked
<1>1. Len(acked) \in Nat /\ DOMAIN acked = 1..Len(acked)
  BY DEF IInv, TypeOK
<1>2. Len(tail) \in {0, 1}
  BY LoadedShape
<1>3. Len(LoadedEvents) = Len(acked) + Len(tail)
  BY LoadedShape
<1>4. \A n \in 1..Len(acked) : LoadedEvents[n] = acked[n]
  BY LoadedShape
<1>5. Len(LoadedEvents) \in {Len(acked), Len(acked) + 1}
  BY <1>1, <1>2, <1>3, AtMostOneMore
<1>6. QED
  BY <1>1, <1>4, <1>5

(* However many appends failed and however they failed, a stream that      *)
(* load_events accepts passes the verifier's chain check.                  *)
THEOREM ChainHolds == Spec => []LoadedChainVerifies
<1>1. Spec => []IInv
  BY ChainInit, ChainStep, PTL DEF Spec
<1>2. QED
  BY <1>1, LoadedChain, PTL

(* A stream that loads holds every acknowledged event, in order, and at    *)
(* most one event more.                                                    *)
THEOREM AckedAreLoaded == Spec => []LoadedIsAcked
<1>1. Spec => []IInv
  BY ChainInit, ChainStep, PTL DEF Spec
<1>2. QED
  BY <1>1, LoadedAcked, PTL

LEMMA DamageStep ==
  ASSUME TypeOK, [Next]_vars, ~Loads, Loads'
  PROVE  lines' = <<>> /\ tail' = <<>>
<1>1. ASSUME AppendOk PROVE FALSE
  <2>1. /\ Len(lines') = Len(lines) + 1 /\ Len(lines) \in Nat
        /\ lines'[Len(lines) + 1] = Append(tail, NewEvent)
        /\ \A n \in 1..Len(lines) : lines'[n] = lines[n]
        /\ DOMAIN lines = 1..Len(lines) /\ DOMAIN lines' = 1..(Len(lines) + 1)
    BY <1>1 DEF TypeOK, AppendOk
  <2>2. \A n \in 1..Len(lines) : Parses(lines[n])
    BY <2>1 DEF Loads
  <2>3. Len(Append(tail, NewEvent)) = 1
    BY <2>1 DEF Loads, Parses
  <2>4. tail = <<>>
    BY <2>3 DEF TypeOK
  <2>5. QED
    BY <2>1, <2>2, <2>4 DEF Loads
<1>2. ASSUME AppendFails PROVE FALSE
  <2>1. \A n \in DOMAIN lines : Parses(lines[n])
    BY <1>2 DEF AppendFails, Loads
  <2>2. tail # <<>> /\ ~Parses(tail)
    BY <2>1 DEF Loads
  <2>3. tail' = tail \/ Len(tail') = Len(tail) + 1
    BY <1>2 DEF AppendFails, TypeOK
  <2>4. Len(tail) \in Nat \ {0}
    BY <2>2 DEF TypeOK
  <2>5. tail' # <<>> /\ ~Parses(tail')
    <3>1. CASE tail' = tail
      BY <2>2, <3>1
    <3>2. CASE Len(tail') = Len(tail) + 1
      BY <2>4, <3>2 DEF Parses
    <3>3. QED
      BY <2>3, <3>1, <3>2
  <2>6. QED
    BY <2>5 DEF Loads
<1>3. CASE InitializeEventStream
  BY <1>3 DEF InitializeEventStream
<1>4. ASSUME UNCHANGED vars PROVE FALSE
  BY <1>4 DEF vars, Loads
<1>5. QED
  BY <1>1, <1>2, <1>3, <1>4 DEF Next

(* No append repairs a damaged stream.                                     *)
THEOREM DamageStays == Spec => DamageIsKept
<1>1. TypeOK /\ [Next]_vars => [~Loads /\ Loads' => lines' = <<>> /\ tail' = <<>>]_vars
  BY DamageStep
<1>2. QED
  BY <1>1, TypeCorrect, PTL DEF Spec, DamageIsKept
=============================================================================
