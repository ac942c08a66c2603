---------------------------- MODULE MetricsProofs ----------------------------
(* What Metrics.tla promises, for any ports, limits and numbers of viewers.

   The argument: what the history has recorded, the last sample, the cache, the
   reading under way and the counters follow each other in this order (Chain).
   Each has forgotten at most what the next one has, and stands for at most as
   much traffic, as long as no chain was passed over; a difference of two samples
   is then never more than what passed between them. *)
EXTENDS Metrics, FiniteSetTheorems, TLAPS

(* Readings, and what else has bytes and knows what was forgotten. *)
IsAmount(a) == \A p \in Ports : a.bytes[p] \in Nat /\ a.gone[p] \in Nat
Total(a, p) == a.bytes[p] + a.gone[p]
Below(a, b) == \A p \in Ports : a.gone[p] <= b.gone[p] /\ Total(a, p) <= Total(b, p)
Covers(a, record) == \A p \in Ports : record[p] <= Total(a, p)

(* The counters of this moment, and the reading under way as it would be if the
   chains it still lacks were read now. *)
BothChains(f) == [p \in Ports |-> f["IN"][p] + f["OUT"][p]]
Current == [bytes |-> BothChains(kernel), gone |-> BothChains(gone)]

ToCome(f, p) ==
  IF refresh.place = "idle" THEN f["IN"][p] + f["OUT"][p]
  ELSE IF refresh.place = "half" THEN f["OUT"][p] ELSE 0
Ahead ==
  [bytes |-> [p \in Ports |-> refresh.reading.bytes[p] + ToCome(kernel, p)],
   gone |-> [p \in Ports |-> refresh.reading.gone[p] + ToCome(gone, p)]]

Started == refresh.place = "idle" => refresh.reading = NoReading
Taken ==
  /\ refresh.place \in {"half", "read", "pending"} => refresh.reading.taken
  /\ prev.taken => cache.taken

Chain ==
  ~torn =>
    /\ Covers(Current, recorded)
    /\ refresh.reading.whole => Covers(Ahead, recorded) /\ Below(Ahead, Current)
    /\ cache.taken /\ cache.whole =>
         /\ Covers(cache, recorded) /\ Below(cache, Current)
         /\ refresh.reading.whole => Below(cache, Ahead)
    /\ prev.taken =>
         /\ Covers(prev, recorded) /\ Below(prev, Current)
         /\ refresh.reading.whole => Below(prev, Ahead)
         /\ cache.whole => Below(prev, cache)

Inv == TypeOK /\ Started /\ Taken /\ Chain

LEMMA Transitive ==
  ASSUME NEW a, NEW b, NEW c, IsAmount(a), IsAmount(b), IsAmount(c), Below(a, b), Below(b, c)
  PROVE  Below(a, c)
BY DEF IsAmount, Below, Total

LEMMA CoversMore ==
  ASSUME NEW a, NEW b, NEW record \in [Ports -> Nat], IsAmount(a), IsAmount(b),
         Covers(a, record), Below(a, b)
  PROVE  Covers(b, record)
BY DEF IsAmount, Below, Covers, Total

LEMMA Reflexive == \A a : IsAmount(a) => Below(a, a)
BY DEF IsAmount, Below, Total

(* The difference of two samples is added to the record. *)
LEMMA Difference ==
  ASSUME NEW a, NEW b, NEW record \in [Ports -> Nat], IsAmount(a), IsAmount(b),
         Covers(a, record), Below(a, b)
  PROVE  Covers(b, [p \in Ports |->
                      record[p] + IF b.bytes[p] - a.bytes[p] > 0
                                    THEN b.bytes[p] - a.bytes[p] ELSE 0])
BY DEF IsAmount, Below, Covers, Total

(* Everything compared is an amount, before a step and after it. *)
Measured == IsAmount(Current) /\ IsAmount(Ahead) /\ IsAmount(cache) /\ IsAmount(prev)

LEMMA Amounts == TypeOK => Measured
<1> SUFFICES ASSUME TypeOK PROVE Measured
  OBVIOUS
<1>1. IsAmount(cache) /\ IsAmount(prev) /\ IsAmount(refresh.reading)
  BY DEF TypeOK, IsAmount, Reading
<1>2. \A p \in Ports : /\ kernel["IN"][p] \in Nat /\ kernel["OUT"][p] \in Nat
                       /\ gone["IN"][p] \in Nat /\ gone["OUT"][p] \in Nat
  BY DEF TypeOK, Chains
<1>3. IsAmount(Current)
  BY <1>2 DEF IsAmount, Current, BothChains
<1>4. IsAmount(Ahead)
  BY <1>1, <1>2 DEF IsAmount, Ahead, ToCome
<1> QED BY <1>1, <1>3, <1>4 DEF Measured

LEMMA AmountsAfter == TypeOK' => Measured'
BY Amounts, PTL

(* Nothing has been counted when the panel starts. *)
LEMMA InitInv == Init => Inv
<1> SUFFICES ASSUME Init PROVE Inv
  OBVIOUS
<1>1. TypeOK
  <2>1. Zero \in [Ports -> Nat]
    BY DEF Zero
  <2>2. NoReading \in Reading
    BY <2>1 DEF NoReading, Reading
  <2>3. 0 \in 0..MaxTicks /\ 0 \in 0..MaxEvents /\ 0 <= MaxHistory
    BY NumbersAssumption
  <2>4. <<>> \in Seq(Entry) /\ Len(<<>>) = 0
    OBVIOUS
  <2> QED BY <2>1, <2>2, <2>3, <2>4 DEF Init, TypeOK
<1>2. Started /\ Taken
  BY DEF Init, Started, Taken, NoReading
<1>3. Chain
  <2>1. \A p \in Ports : recorded[p] = 0
    BY DEF Init, Zero
  <2>2. /\ \A p \in Ports : Ahead.bytes[p] = Current.bytes[p] /\ Ahead.gone[p] = Current.gone[p]
    BY DEF Init, Ahead, Current, ToCome, BothChains, NoReading, Zero, Chains
  <2>3. IsAmount(Current) /\ IsAmount(Ahead)
    BY <1>1, Amounts DEF Measured
  <2>4. Covers(Current, recorded) /\ Covers(Ahead, recorded) /\ Below(Ahead, Current)
    BY <2>1, <2>2, <2>3 DEF Covers, Below, Total, IsAmount
  <2>5. ~cache.taken /\ ~prev.taken
    BY DEF Init, NoReading
  <2> QED BY <2>4, <2>5 DEF Chain
<1> QED BY <1>1, <1>2, <1>3 DEF Inv

(* The entries of one sample, in any order. *)
LEMMA EntryTypes ==
  ASSUME TypeOK, now < MaxTicks, NEW entries \in SetToSeqs(NewEntries)
  PROVE  NewEntries \subseteq Entry /\ entries \in Seq(Entry)
<1>1. NewEntries \subseteq Entry
  <2>1. ASSUME NEW p \in Ports, Delta(p) > 0
        PROVE  Delta(p) \in Nat \ {0} /\ now + 1 \in Nat
    BY <2>1, NumbersAssumption DEF TypeOK, Reading, Delta
  <2> QED BY <2>1 DEF NewEntries, Entry
<1>2. IsFiniteSet(NewEntries)
  <2> DEFINE more == {q \in Ports : Delta(q) > 0}
             F(p) == [port |-> p, bytes |-> Delta(p), tick |-> now + 1]
  <2>1. IsFiniteSet(more)
    BY PortsAssumption, FS_Subset
  <2>2. NewEntries = {F(p) : p \in more}
    BY DEF NewEntries
  <2> DEFINE f == [p \in more |-> F(p)]
  <2>3. f \in Surjection(more, NewEntries)
    BY <2>2 DEF Surjection
  <2> QED BY <2>1, <2>3, FS_Surjection
<1>3. Cardinality(NewEntries) \in Nat
  BY <1>2, FS_CardinalityType
<1>4. entries \in [1..Cardinality(NewEntries) -> NewEntries]
  BY DEF SetToSeqs
<1> QED BY <1>1, <1>3, <1>4

(* The history keeps its newest entries. *)
LEMMA NewestTypes ==
  ASSUME NEW h \in Seq(Entry)
  PROVE  NewestEntries(h) \in Seq(Entry) /\ Len(NewestEntries(h)) <= MaxHistory
<1>1. CASE Len(h) <= MaxHistory
  BY <1>1, NumbersAssumption DEF NewestEntries
<1>2. CASE Len(h) > MaxHistory
  <2> DEFINE m == Len(h) - MaxHistory + 1
  <2>1. Len(h) \in Nat /\ m \in 1..Len(h) /\ Len(h) - m + 1 = MaxHistory
    BY <1>2, NumbersAssumption
  <2>2. SubSeq(h, m, Len(h)) \in Seq(Entry) /\ Len(SubSeq(h, m, Len(h))) = Len(h) - m + 1
    <3> HIDE DEF m
    <3> QED BY <2>1
  <2> QED BY <1>2, <2>1, <2>2 DEF NewestEntries
<1> QED BY <1>1, <1>2, NumbersAssumption

LEMMA AppendedTypes ==
  ASSUME TypeOK, now < MaxTicks, Appended
  PROVE  history' \in Seq(Entry) /\ Len(history') <= MaxHistory
<1>1. PICK entries \in SetToSeqs(NewEntries) : history' = NewestEntries(history \o entries)
  BY DEF Appended
<1>2. history \o entries \in Seq(Entry)
  BY EntryTypes DEF TypeOK
<1> QED BY <1>1, <1>2, NewestTypes

(* One chain more, or passed over, leaves a reading. *)
LEMMA ReadTypes ==
  ASSUME TypeOK, NEW sofar \in Reading, NEW c \in Chains, NEW place \in {"half", "read"},
         Read(sofar, c, place)
  PROVE  TypeOK'
<1>1. Listed(sofar, c) \in Reading
  <2>1. /\ [p \in Ports |-> sofar.bytes[p] + kernel[c][p]] \in [Ports -> Nat]
        /\ [p \in Ports |-> sofar.gone[p] + gone[c][p]] \in [Ports -> Nat]
    <3>1. \A p \in Ports : sofar.bytes[p] \in Nat /\ sofar.gone[p] \in Nat
      BY DEF Reading
    <3>2. \A p \in Ports : kernel[c][p] \in Nat /\ gone[c][p] \in Nat
      BY DEF TypeOK
    <3> QED BY <3>1, <3>2
  <2>2. sofar.whole \in BOOLEAN
    BY DEF Reading
  <2> QED BY <2>1, <2>2 DEF Listed, Reading
<1>4. Unlisted(sofar) \in Reading
  BY DEF Unlisted, Reading
<1>2. refresh' \in [place : {"idle", "half", "read", "pending"}, reading : Reading]
  BY <1>1, <1>4 DEF Read
<1>3. events' \in 0..MaxEvents
  BY NumbersAssumption DEF TypeOK, Read, Happens
<1> QED BY <1>2, <1>3 DEF TypeOK, Read, counters, store, persist

(* Every step keeps the types. *)
LEMMA TypeStep ==
  ASSUME TypeOK, Taken, [Next]_vars
  PROVE  TypeOK'
<1> USE DEF counters, store, persist
<1>0. Zero \in [Ports -> Nat] /\ NoReading \in Reading
  BY DEF Zero, NoReading, Reading
<1>1. ASSUME NEW c \in Chains, NEW busy \in (SUBSET Ports) \ {{}}, Traffic(c, busy)
      PROVE  TypeOK'
  <2>1. [p \in Ports |-> kernel[c][p] + IF p \in busy THEN 1 ELSE 0] \in [Ports -> Nat]
    BY DEF TypeOK
  <2>2. kernel' \in [Chains -> [Ports -> Nat]]
    BY <1>1, <2>1 DEF TypeOK, Traffic
  <2>3. events' \in 0..MaxEvents
    BY <1>1, NumbersAssumption DEF TypeOK, Traffic, Happens
  <2> QED BY <1>1, <2>2, <2>3 DEF TypeOK, Traffic
<1>2. CASE Reset
  <2>1. \A c \in Chains : [p \in Ports |-> gone[c][p] + kernel[c][p]] \in [Ports -> Nat]
    BY DEF TypeOK
  <2>2. kernel' \in [Chains -> [Ports -> Nat]] /\ gone' \in [Chains -> [Ports -> Nat]]
    BY <1>0, <1>2, <2>1 DEF Reset
  <2>3. events' \in 0..MaxEvents
    BY <1>2, NumbersAssumption DEF TypeOK, Reset, Happens
  <2> QED BY <1>2, <2>2, <2>3 DEF TypeOK, Reset
<1>3. CASE ReadIn
  BY <1>0, <1>3, ReadTypes DEF ReadIn, Chains
<1>4. CASE ReadOut
  <2>1. refresh.reading \in Reading
    BY DEF TypeOK
  <2> QED BY <1>4, <2>1, ReadTypes DEF ReadOut, Chains
<1>5. CASE RequestLock
  BY <1>5 DEF TypeOK, RequestLock
<1>6. CASE StoreReading
  BY <1>0, <1>6 DEF TypeOK, StoreReading
<1>7. ASSUME NEW v \in Viewers, ViewerArrives(v) \/ Answer(v) PROVE TypeOK'
  BY <1>7 DEF TypeOK, ViewerArrives, Answer
<1>8. ASSUME Sample PROVE now' \in 0..MaxTicks /\ torn' \in BOOLEAN /\ prev' \in Reading
  <2>1. now' \in 0..MaxTicks
    BY <1>8, NumbersAssumption DEF TypeOK, Sample
  <2>2. torn' \in BOOLEAN
    BY <1>8 DEF TypeOK, Sample
  <2> QED BY <1>8, <2>1, <2>2 DEF TypeOK, Sample
<1>9. CASE SampleOnly
  BY <1>8, <1>9 DEF TypeOK, SampleOnly
<1>10. CASE Persist
  <2>1. now < MaxTicks /\ Appended
    BY <1>10 DEF Persist, Sample
  <2>2. history' \in Seq(Entry) /\ Len(history') <= MaxHistory
    BY <2>1, AppendedTypes
  <2>3. saved' \in Seq(Entry) /\ Len(saved') <= MaxHistory
    BY <1>10, <2>2 DEF TypeOK, Persist
  <2>4. SetToSeqs(NewEntries) # {}
    BY <2>1 DEF Appended
  <2>5. made' \subseteq Entry
    BY <1>10, <2>1, <2>4, EntryTypes DEF TypeOK, Persist
  <2>6. recorded' \in [Ports -> Nat]
    <3>1. \A p \in Ports : Delta(p) \in Int
      BY DEF TypeOK, Reading, Delta
    <3>2. \A p \in Ports : recorded[p] + (IF Delta(p) > 0 THEN Delta(p) ELSE 0) \in Nat
      <4> HIDE DEF Delta
      <4> QED BY <3>1 DEF TypeOK
    <3> QED BY <1>10, <3>2 DEF Persist, Recorded
  <2>7. events' \in 0..MaxEvents
    BY <1>10, NumbersAssumption DEF TypeOK, Persist, Happens
  <2> QED BY <1>8, <1>10, <2>2, <2>3, <2>5, <2>6, <2>7 DEF TypeOK, Persist
<1>11. CASE UpdateElsewhere
  BY <1>11 DEF TypeOK, UpdateElsewhere
<1>12. CASE Restart
  <2>1. events' \in 0..MaxEvents
    BY <1>12, NumbersAssumption DEF TypeOK, Restart, Happens
  <2> QED BY <1>0, <1>12, <2>1 DEF TypeOK, Restart
<1>13. CASE UNCHANGED vars
  BY <1>13 DEF TypeOK, vars
<1> QED BY <1>1, <1>2, <1>3, <1>4, <1>5, <1>6, <1>7, <1>9, <1>10, <1>11, <1>12, <1>13
        DEF Next

(* Between two rounds the refresh has read nothing; a sample has a cache. *)
LEMMA PlacesStep ==
  ASSUME TypeOK, Started, Taken, [Next]_vars
  PROVE  Started' /\ Taken'
<1> USE DEF counters, store, persist, Started, Taken
<1>1. CASE \E c \in Chains, busy \in (SUBSET Ports) \ {{}} : Traffic(c, busy)
  BY <1>1 DEF Traffic
<1>2. CASE Reset
  BY <1>2 DEF Reset
<1>3. CASE ReadIn \/ ReadOut
  <2>1. refresh'.place # "idle" /\ UNCHANGED <<cache, prev>>
    BY <1>3 DEF ReadIn, ReadOut, Read
  <2>2. refresh'.reading.taken
    <3>1. ASSUME NEW sofar \in Reading, NEW c \in Chains, NEW place, Read(sofar, c, place)
          PROVE  refresh'.reading.taken
      <4>1. Listed(sofar, c).taken /\ Unlisted(sofar).taken
        BY DEF Listed, Unlisted, Reading
      <4> QED BY <3>1, <4>1 DEF Read
    <3>2. NoReading \in Reading /\ refresh.reading \in Reading
      BY DEF TypeOK, NoReading, Reading, Zero
    <3> QED BY <1>3, <3>1, <3>2 DEF ReadIn, ReadOut, Chains
  <2> QED BY <2>1, <2>2
<1>4. CASE RequestLock
  BY <1>4 DEF TypeOK, RequestLock
<1>5. CASE StoreReading
  BY <1>5 DEF StoreReading
<1>6. ASSUME NEW v \in Viewers, ViewerArrives(v) \/ Answer(v) PROVE Started' /\ Taken'
  BY <1>6 DEF ViewerArrives, Answer
<1>7. CASE SampleOnly \/ Persist
  BY <1>7 DEF SampleOnly, Persist, Sample, Readable
<1>8. CASE UpdateElsewhere
  BY <1>8 DEF UpdateElsewhere
<1>9. CASE Restart
  BY <1>9 DEF Restart, NoReading
<1>10. CASE UNCHANGED vars
  BY <1>10 DEF vars
<1> QED BY <1>1, <1>2, <1>3, <1>4, <1>5, <1>6, <1>7, <1>8, <1>9, <1>10 DEF Next

(* What counts, forgets or reads leaves everything compared in its order. *)
LEMMA ChainGrows ==
  ASSUME TypeOK, TypeOK', Chain,
         UNCHANGED <<cache, prev, recorded, torn>>, Below(Current, Current'),
         refresh'.reading.whole =>
           refresh.reading.whole /\ Below(Ahead, Ahead') /\ Below(Ahead', Current')
  PROVE  Chain'
<1>1. /\ IsAmount(Current) /\ IsAmount(Ahead) /\ IsAmount(cache) /\ IsAmount(prev)
      /\ IsAmount(Current') /\ IsAmount(Ahead')
  BY Amounts, AmountsAfter DEF Measured
<1>2. recorded \in [Ports -> Nat]
  BY DEF TypeOK
<1> SUFFICES ASSUME ~torn PROVE Chain'
  BY DEF Chain
<1>3. Covers(Current', recorded)
  BY <1>1, <1>2, CoversMore DEF Chain
<1>4. refresh'.reading.whole => Covers(Ahead', recorded)
  BY <1>1, <1>2, CoversMore DEF Chain
<1>5. cache.taken /\ cache.whole =>
        Below(cache, Current') /\ (refresh'.reading.whole => Below(cache, Ahead'))
  BY <1>1, Transitive DEF Chain
<1>6. prev.taken =>
        Below(prev, Current') /\ (refresh'.reading.whole => Below(prev, Ahead'))
  BY <1>1, Transitive DEF Chain
<1> QED BY <1>3, <1>4, <1>5, <1>6 DEF Chain

LEMMA ChainStep ==
  ASSUME TypeOK, TypeOK', Started, Taken, Started', Chain, [Next]_vars
  PROVE  Chain'
<1> USE DEF counters, store, persist
<1>0. \A p \in Ports :
        /\ kernel["IN"][p] \in Nat /\ kernel["OUT"][p] \in Nat
        /\ gone["IN"][p] \in Nat /\ gone["OUT"][p] \in Nat
        /\ kernel'["IN"][p] \in Nat /\ kernel'["OUT"][p] \in Nat
        /\ gone'["IN"][p] \in Nat /\ gone'["OUT"][p] \in Nat
        /\ refresh.reading.bytes[p] \in Nat /\ refresh.reading.gone[p] \in Nat
  <2>1. refresh.reading \in Reading
    BY DEF TypeOK
  <2>2. \A p \in Ports : refresh.reading.bytes[p] \in Nat /\ refresh.reading.gone[p] \in Nat
    BY <2>1 DEF Reading
  <2>3. \A p \in Ports, c \in Chains : /\ kernel[c][p] \in Nat /\ gone[c][p] \in Nat
                                      /\ kernel'[c][p] \in Nat /\ gone'[c][p] \in Nat
    BY DEF TypeOK
  <2> QED BY <2>2, <2>3 DEF Chains
<1>1. ASSUME UNCHANGED <<refresh, cache, prev, recorded, torn>>,
             \A p \in Ports, c \in Chains :
               gone[c][p] <= gone'[c][p]
               /\ kernel[c][p] + gone[c][p] <= kernel'[c][p] + gone'[c][p]
      PROVE  Chain'
  <2>1. Below(Current, Current')
    BY <1>0, <1>1 DEF Below, Total, Current, BothChains, Chains
  <2>2. Below(Ahead, Ahead')
    BY <1>0, <1>1 DEF Below, Total, Ahead, ToCome, Chains
  <2>3. ASSUME Below(Ahead, Current) PROVE Below(Ahead', Current')
    BY <1>0, <1>1, <2>3 DEF Below, Total, Current, BothChains, Ahead, ToCome, Chains
  <2>4. CASE torn
    BY <1>1, <2>4 DEF Chain
  <2>5. CASE ~torn
    <3>1. refresh.reading.whole => Below(Ahead, Current)
      BY <2>5 DEF Chain
    <3> QED BY <1>1, <2>1, <2>2, <2>3, <3>1, ChainGrows
  <2> QED BY <2>4, <2>5
<1>2. ASSUME UNCHANGED <<kernel, gone, cache, prev, recorded, torn>>,
             refresh'.reading.whole => refresh.reading.whole,
             refresh'.reading.whole =>
               \A p \in Ports : /\ Ahead'.bytes[p] = Ahead.bytes[p]
                                /\ Ahead'.gone[p] = Ahead.gone[p]
      PROVE  Chain'
  <2>1. Current' = Current
    BY <1>2 DEF Current, BothChains
  <2>2. IsAmount(Current) /\ IsAmount(Ahead)
    BY Amounts DEF Measured
  <2>3. Below(Current, Current')
    BY <2>1, <2>2, Reflexive
  <2>4. refresh'.reading.whole =>
          Below(Ahead, Ahead') /\ (Below(Ahead, Current) => Below(Ahead', Current'))
    BY <1>2, <2>1, <2>2 DEF Below, Total, IsAmount
  <2>5. CASE torn
    BY <1>2, <2>5 DEF Chain
  <2>6. CASE ~torn
    <3>1. refresh.reading.whole => Below(Ahead, Current)
      BY <2>6 DEF Chain
    <3> QED BY <1>2, <2>3, <2>4, <3>1, ChainGrows
  <2> QED BY <2>5, <2>6
<1>3. ASSUME NEW c \in Chains, NEW busy \in (SUBSET Ports) \ {{}}, Traffic(c, busy)
      PROVE  Chain'
  <2>1. \A p \in Ports, d \in Chains :
          kernel[d][p] \in Nat /\ gone[d][p] \in Nat /\ kernel[d][p] <= kernel'[d][p]
    <3>1. \A d \in Chains : kernel[d] \in [Ports -> Nat] /\ gone[d] \in [Ports -> Nat]
      BY DEF TypeOK
    <3>2. \A p \in Ports : kernel[c][p] <= kernel[c][p] + IF p \in busy THEN 1 ELSE 0
      BY <3>1
    <3>3. kernel' = [kernel EXCEPT ![c] =
                       [p \in Ports |-> kernel[c][p] + IF p \in busy THEN 1 ELSE 0]]
      BY <1>3 DEF Traffic
    <3>4. kernel \in [Chains -> [Ports -> Nat]]
      BY DEF TypeOK
    <3>5. \A p \in Ports, d \in Chains : kernel[d][p] <= kernel'[d][p]
      BY <3>1, <3>2, <3>3, <3>4
    <3> QED BY <3>1, <3>5
  <2>2. \A p \in Ports, d \in Chains : kernel'[d][p] \in Nat
    BY DEF TypeOK
  <2> QED BY <1>1, <1>3, <2>1, <2>2 DEF Traffic
<1>4. CASE Reset
  <2>1. \A p \in Ports, d \in Chains :
          /\ kernel[d][p] \in Nat /\ gone[d][p] \in Nat
          /\ kernel'[d][p] = 0 /\ gone'[d][p] = gone[d][p] + kernel[d][p]
    BY <1>4 DEF TypeOK, Reset, Zero
  <2> QED BY <1>1, <1>4, <2>1 DEF Reset
<1>5. CASE ReadIn
  <2>1. refresh.place = "idle" /\ refresh.reading = NoReading /\ Read(NoReading, "IN", "half")
    BY <1>5 DEF ReadIn, Started
  <2>2. CASE refresh' = [place |-> "half", reading |-> Listed(NoReading, "IN")]
    <3>1. \A p \in Ports : /\ Ahead.bytes[p] = kernel["IN"][p] + kernel["OUT"][p]
                           /\ Ahead.gone[p] = gone["IN"][p] + gone["OUT"][p]
      BY <1>0, <2>1 DEF Ahead, ToCome, NoReading, Zero
    <3>2. \A p \in Ports : /\ Ahead'.bytes[p] = kernel["IN"][p] + kernel["OUT"][p]
                           /\ Ahead'.gone[p] = gone["IN"][p] + gone["OUT"][p]
      BY <1>0, <1>5, <2>1, <2>2 DEF Read, Ahead, ToCome, Listed, NoReading, Zero
    <3>3. refresh.reading.whole
      BY <2>1 DEF NoReading
    <3> QED BY <1>2, <2>1, <3>1, <3>2, <3>3 DEF Read
  <2>3. CASE refresh' = [place |-> "half", reading |-> Unlisted(NoReading)]
    <3>1. ~refresh'.reading.whole
      BY <2>3 DEF Unlisted, NoReading
    <3> QED BY <1>2, <2>1, <3>1 DEF Read
  <2> QED BY <2>1, <2>2, <2>3 DEF Read
<1>6. CASE ReadOut
  <2>1. refresh.place = "half" /\ Read(refresh.reading, "OUT", "read")
    BY <1>6 DEF ReadOut
  <2>2. CASE refresh' = [place |-> "read", reading |-> Listed(refresh.reading, "OUT")]
    <3>1. \A p \in Ports :
            /\ Ahead.bytes[p] = refresh.reading.bytes[p] + kernel["OUT"][p]
            /\ Ahead.gone[p] = refresh.reading.gone[p] + gone["OUT"][p]
      BY <1>0, <2>1 DEF Ahead, ToCome
    <3>2. \A p \in Ports :
            /\ Ahead'.bytes[p] = refresh.reading.bytes[p] + kernel["OUT"][p]
            /\ Ahead'.gone[p] = refresh.reading.gone[p] + gone["OUT"][p]
      BY <1>0, <2>1, <2>2 DEF Read, Ahead, ToCome, Listed
    <3>3. refresh'.reading.whole => refresh.reading.whole
      BY <2>2 DEF Listed
    <3> QED BY <1>2, <2>1, <3>1, <3>2, <3>3 DEF Read
  <2>3. CASE refresh' = [place |-> "read", reading |-> Unlisted(refresh.reading)]
    <3>1. refresh.reading \in Reading
      BY DEF TypeOK
    <3>2. ~refresh'.reading.whole
      BY <2>3, <3>1 DEF Unlisted, Reading
    <3> QED BY <1>2, <2>1, <3>2 DEF Read
  <2> QED BY <2>1, <2>2, <2>3 DEF Read
<1>7. CASE RequestLock
  <2>1. refresh.place = "read" /\ refresh'.place = "pending"
        /\ refresh'.reading = refresh.reading
    BY <1>7 DEF TypeOK, RequestLock
  <2>2. \A p \in Ports : /\ Ahead'.bytes[p] = Ahead.bytes[p]
                         /\ Ahead'.gone[p] = Ahead.gone[p]
    BY <2>1 DEF Ahead, ToCome
  <2> QED BY <1>2, <1>7, <2>1, <2>2 DEF RequestLock
<1>8. CASE StoreReading
  <2>1. /\ refresh.place = "pending" /\ cache' = refresh.reading
        /\ refresh'.place = "idle" /\ refresh'.reading = NoReading
        /\ UNCHANGED <<kernel, gone, prev, recorded, torn>>
    BY <1>8 DEF StoreReading
  <2>2. Current' = Current
    BY <2>1 DEF Current, BothChains
  <2>3. \A p \in Ports : /\ Ahead'.bytes[p] = Current.bytes[p]
                         /\ Ahead'.gone[p] = Current.gone[p]
                         /\ cache'.bytes[p] = Ahead.bytes[p]
                         /\ cache'.gone[p] = Ahead.gone[p]
    BY <1>0, <2>1 DEF Ahead, Current, ToCome, BothChains, NoReading, Zero
  <2>4. /\ IsAmount(Current) /\ IsAmount(Ahead) /\ IsAmount(prev) /\ IsAmount(Ahead')
        /\ IsAmount(cache')
    BY Amounts, AmountsAfter DEF Measured
  <2>5. Below(Current, Ahead') /\ Below(Ahead', Current) /\ Below(Ahead, cache')
        /\ Below(cache', Ahead)
    BY <2>3, <2>4 DEF Below, Total, IsAmount
  <2> SUFFICES ASSUME ~torn PROVE Chain'
    BY <2>1 DEF Chain
  <2>6. recorded \in [Ports -> Nat] /\ Covers(Current, recorded)
    BY DEF TypeOK, Chain
  <2>7. Covers(Ahead', recorded)
    BY <2>4, <2>5, <2>6, CoversMore
  <2>8. cache'.whole => Covers(cache', recorded)
    BY <2>1, <2>4, <2>5, <2>6, CoversMore DEF Chain
  <2>9. cache'.whole => Below(cache', Current) /\ Below(cache', Ahead')
    BY <2>1, <2>4, <2>5, Transitive DEF Chain
  <2>10. prev.taken => Below(prev, Ahead') /\ (cache'.whole => Below(prev, cache'))
    BY <2>1, <2>4, <2>5, Transitive DEF Chain
  <2> QED BY <2>1, <2>2, <2>5, <2>6, <2>7, <2>8, <2>9, <2>10 DEF Chain
<1>9. ASSUME NEW v \in Viewers, ViewerArrives(v) \/ Answer(v) PROVE Chain'
  <2>1. UNCHANGED <<kernel, gone, refresh, cache, prev, recorded, torn>>
    BY <1>9 DEF ViewerArrives, Answer
  <2> QED BY <2>1, <1>2 DEF Ahead, ToCome
<1>10. ASSUME Sample, UNCHANGED <<kernel, gone, refresh, cache>>,
              ~torn' => cache.whole /\ Covers(cache, recorded')
       PROVE  Chain'
  <2>1. cache.taken /\ prev' = cache /\ (torn => torn')
    BY <1>10 DEF Sample, Readable
  <2>2. /\ IsAmount(Current) /\ IsAmount(Ahead) /\ IsAmount(cache)
        /\ Current' = Current /\ Ahead' = Ahead
    BY <1>10, Amounts DEF Measured, Current, BothChains, Ahead, ToCome
  <2> SUFFICES ASSUME ~torn' PROVE Chain'
    BY DEF Chain
  <2>3. Covers(cache, recorded') /\ recorded' \in [Ports -> Nat] /\ Below(cache, cache)
    BY <1>10, <2>2, Reflexive DEF TypeOK
  <2>4. Covers(Current, recorded')
    BY <1>10, <2>1, <2>2, <2>3, CoversMore DEF Chain
  <2>5. refresh.reading.whole => Covers(Ahead, recorded')
    BY <1>10, <2>1, <2>2, <2>3, CoversMore DEF Chain
  <2> QED BY <1>10, <2>1, <2>2, <2>3, <2>4, <2>5 DEF Chain
<1>11. CASE SampleOnly
  <2>1. ~torn' => ~torn /\ cache.whole /\ cache.taken
    BY <1>11 DEF SampleOnly, Sample, Readable
  <2>2. ~torn' => Covers(cache, recorded)
    BY <2>1 DEF Chain
  <2> QED BY <1>10, <1>11, <2>1, <2>2 DEF SampleOnly
<1>12. CASE Persist
  <2>1. prev.taken /\ (~torn' => ~torn /\ cache.whole)
    BY <1>12 DEF Persist, Sample
  <2>2. IsAmount(prev) /\ IsAmount(cache) /\ recorded \in [Ports -> Nat]
    BY Amounts DEF Measured, TypeOK
  <2>3. ~torn' => Covers(prev, recorded) /\ Below(prev, cache)
    BY <2>1 DEF Chain
  <2>4. recorded' = [p \in Ports |->
                       recorded[p] + IF cache.bytes[p] - prev.bytes[p] > 0
                                       THEN cache.bytes[p] - prev.bytes[p] ELSE 0]
    BY <1>12 DEF Persist, Recorded, Delta
  <2>5. ~torn' => Covers(cache, recorded')
    BY <2>2, <2>3, <2>4, Difference
  <2> QED BY <1>10, <1>12, <2>1, <2>5 DEF Persist
<1>13. CASE UpdateElsewhere
  <2>1. UNCHANGED <<kernel, gone, refresh, cache, prev, recorded, torn>>
    BY <1>13 DEF UpdateElsewhere
  <2> QED BY <2>1, <1>2 DEF Ahead, ToCome
<1>14. CASE Restart
  <2>1. /\ refresh'.place = "idle" /\ refresh'.reading = NoReading
        /\ ~cache'.taken /\ ~prev'.taken
        /\ UNCHANGED <<kernel, gone, recorded, torn>>
    BY <1>14 DEF Restart, NoReading
  <2>2. Current' = Current
    BY <2>1 DEF Current, BothChains
  <2>3. \A p \in Ports : /\ Ahead'.bytes[p] = Current.bytes[p]
                         /\ Ahead'.gone[p] = Current.gone[p]
    BY <1>0, <2>1 DEF Ahead, Current, ToCome, BothChains, NoReading, Zero
  <2>4. IsAmount(Current) /\ IsAmount(Ahead')
    BY Amounts, AmountsAfter DEF Measured
  <2>5. Below(Ahead', Current) /\ Below(Current, Ahead')
    BY <2>3, <2>4 DEF Below, Total, IsAmount
  <2> SUFFICES ASSUME ~torn PROVE Chain'
    BY <2>1 DEF Chain
  <2>6. Covers(Current, recorded) /\ recorded \in [Ports -> Nat]
    BY DEF Chain, TypeOK
  <2>7. Covers(Ahead', recorded)
    BY <2>4, <2>5, <2>6, CoversMore
  <2> QED BY <2>1, <2>2, <2>5, <2>6, <2>7 DEF Chain
<1>15. CASE UNCHANGED vars
  <2>1. UNCHANGED <<kernel, gone, refresh, cache, prev, recorded, torn>>
    BY <1>15 DEF vars
  <2> QED BY <2>1, <1>2 DEF Ahead, ToCome
<1> QED BY <1>3, <1>4, <1>5, <1>6, <1>7, <1>8, <1>9, <1>11, <1>12, <1>13, <1>14, <1>15
        DEF Next

LEMMA StepInv == Inv /\ [Next]_vars => Inv'
BY TypeStep, PlacesStep, ChainStep DEF Inv

LEMMA Invariance == Spec => []Inv
BY InitInv, StepInv, PTL DEF Spec

(* Types and the limit of the history, for any ports and viewers. *)
THEOREM TypeCorrect == Spec => []TypeOK
BY Invariance, PTL DEF Inv

(* The history shows no traffic that did not pass, through resets, restarts and
   failed saves, as long as no sample lacked a chain (metrics.go:112-144). *)
THEOREM NothingIsCountedTwice == Spec => []HistoryNeverOvercounts
<1>1. Inv => HistoryNeverOvercounts
  <2> SUFFICES ASSUME Inv, ~torn, NEW p \in Ports PROVE recorded[p] <= Passed(p)
    BY DEF HistoryNeverOvercounts
  <2>1. /\ kernel["IN"][p] \in Nat /\ kernel["OUT"][p] \in Nat
        /\ gone["IN"][p] \in Nat /\ gone["OUT"][p] \in Nat
    BY DEF Inv, TypeOK, Chains
  <2>2. recorded[p] <= Total(Current, p)
    BY DEF Inv, Chain, Covers
  <2>3. Total(Current, p) = Passed(p)
    BY <2>1 DEF Total, Current, BothChains, Passed
  <2> QED BY <2>2, <2>3
<1> QED BY <1>1, Invariance, PTL

-----------------------------------------------------------------------------
(* What is left of the window: a sample makes one entry a port at most, so however many
   entries follow one, it takes its time to fill the history. *)

Room(t, n) == Cardinality(Ports) * (n - t + 1)
Spaced(h, n) == \A i \in 1..Len(h) : Len(h) - i < Room(h[i].tick, n)
Window ==
  /\ Spaced(history, now) /\ Spaced(saved, now)
  /\ \A e \in made : e \in ToSet(history) \/ MaxHistory < Room(e.tick, now)

LEMMA PortsCounted == Cardinality(Ports) \in Nat \ {0}
<1>1. Cardinality(Ports) \in Nat
  BY PortsAssumption, FS_CardinalityType
<1>2. Cardinality(Ports) # 0
  BY PortsAssumption, FS_EmptySet
<1> QED BY <1>1, <1>2

LEMMA RoomGrows ==
  ASSUME NEW t \in Int, NEW n \in Int
  PROVE  /\ Room(t, n) \in Int
         /\ Room(t, n + 1) = Room(t, n) + Cardinality(Ports)
         /\ Room(n, n) = Cardinality(Ports)
<1> DEFINE c == Cardinality(Ports)
<1>1. c \in Int
  BY PortsCounted
<1> HIDE DEF c
<1>2. c * (n - t + 1) \in Int /\ c * (n - n + 1) = c
  BY <1>1
<1>3. c * ((n + 1) - t + 1) = c * (n - t + 1) + c
  BY <1>1
<1> QED BY <1>2, <1>3 DEF Room, c

(* The entries of a sample, each of them once. *)
LEMMA EntryNumber ==
  ASSUME NEW entries \in SetToSeqs(NewEntries)
  PROVE  /\ entries \in Seq(NewEntries) /\ Len(entries) <= Cardinality(Ports)
         /\ ToSet(entries) = NewEntries
<1> DEFINE more == {q \in Ports : Delta(q) > 0}
           F(p) == [port |-> p, bytes |-> Delta(p), tick |-> now + 1]
           n == Cardinality(NewEntries)
<1>1. IsFiniteSet(more) /\ Cardinality(more) <= Cardinality(Ports)
  BY PortsAssumption, FS_Subset
<1>2. IsFiniteSet(NewEntries) /\ Cardinality(NewEntries) <= Cardinality(more)
  <2> DEFINE f == [p \in more |-> F(p)]
  <2>1. f \in Surjection(more, NewEntries)
    BY DEF NewEntries, Surjection
  <2> QED BY <1>1, <2>1, FS_Surjection
<1>3. n \in Nat
  BY <1>2, FS_CardinalityType
<1>4. /\ entries \in [1..n -> NewEntries]
      /\ \A i, j \in 1..n : i # j => entries[i] # entries[j]
  BY DEF SetToSeqs
<1>5. entries \in Seq(NewEntries) /\ Len(entries) = n /\ DOMAIN entries = 1..n
  BY <1>3, <1>4
<1>6. n <= Cardinality(Ports)
  <2>1. Cardinality(more) \in Nat /\ Cardinality(Ports) \in Nat
    BY <1>1, PortsAssumption, FS_CardinalityType
  <2> QED BY <1>1, <1>2, <1>3, <2>1
<1>7. entries \in Surjection(1..n, NewEntries)
  <2>1. IsFiniteSet(1..n) /\ Cardinality(1..n) = n
    BY <1>3, FS_Interval
  <2>2. entries \in Injection(1..n, NewEntries)
    <3> HIDE DEF n
    <3> QED BY <1>4 DEF Injection, IsInjective
  <2> QED BY <1>2, <2>1, <2>2, FS_Injection
<1>8. ToSet(entries) = NewEntries
  BY <1>5, <1>7 DEF ToSet, Surjection
<1> QED BY <1>5, <1>6, <1>8

LEMMA TickTypes ==
  ASSUME NEW h \in Seq(Entry), NEW i \in 1..Len(h)
  PROVE  h[i] \in Entry /\ h[i].tick \in Int
<1>1. h[i] \in Entry
  OBVIOUS
<1> QED BY <1>1 DEF Entry

(* Time passes. *)
LEMMA StillSpaced ==
  ASSUME NEW h \in Seq(Entry), NEW n \in Nat, Spaced(h, n)
  PROVE  Spaced(h, n + 1)
<1> SUFFICES ASSUME NEW i \in 1..Len(h) PROVE Len(h) - i < Room(h[i].tick, n + 1)
  BY DEF Spaced
<1>1. Len(h) - i < Room(h[i].tick, n) /\ Len(h) \in Nat /\ i \in Int
  BY DEF Spaced
<1>2. h[i].tick \in Int /\ n \in Int
  BY TickTypes
<1>3. /\ Room(h[i].tick, n) \in Int /\ Cardinality(Ports) \in Nat
      /\ Room(h[i].tick, n + 1) = Room(h[i].tick, n) + Cardinality(Ports)
  BY <1>2, RoomGrows, PortsCounted
<1> QED BY <1>1, <1>3

(* A batch of new entries. *)
LEMMA AppendedSpaced ==
  ASSUME NEW h \in Seq(Entry), NEW n \in Nat, Spaced(h, n),
         NEW batch \in Seq(Entry), Len(batch) <= Cardinality(Ports),
         \A i \in 1..Len(batch) : batch[i].tick = n + 1
  PROVE  Spaced(h \o batch, n + 1)
<1> DEFINE all == h \o batch
           c == Cardinality(Ports)
<1>1. /\ Len(all) = Len(h) + Len(batch) /\ Len(h) \in Nat /\ Len(batch) \in Nat
      /\ \A i \in 1..Len(h) : all[i] = h[i]
      /\ \A i \in 1..Len(batch) : all[Len(h) + i] = batch[i]
  OBVIOUS
<1>2. c \in Nat
  BY PortsCounted
<1> HIDE DEF all
<1> SUFFICES ASSUME NEW i \in 1..Len(all) PROVE Len(all) - i < Room(all[i].tick, n + 1)
  BY DEF Spaced, all
<1>3. CASE i <= Len(h)
  <2>1. i \in 1..Len(h) /\ all[i] = h[i]
    BY <1>1, <1>3
  <2>2. Len(h) - i < Room(h[i].tick, n) /\ h[i].tick \in Int
    BY <2>1, TickTypes DEF Spaced
  <2>3. Room(h[i].tick, n) \in Int /\ Room(h[i].tick, n + 1) = Room(h[i].tick, n) + c
    <3>1. n \in Int
      OBVIOUS
    <3> QED BY <2>2, <3>1, RoomGrows
  <2> HIDE DEF c
  <2> QED BY <1>1, <1>2, <2>1, <2>2, <2>3 DEF c
<1>4. CASE i > Len(h)
  <2>1. i - Len(h) \in 1..Len(batch) /\ i = Len(h) + (i - Len(h))
    BY <1>1, <1>4
  <2>2. all[i] = batch[i - Len(h)]
    BY <1>1, <2>1
  <2>3. all[i].tick = n + 1
    BY <2>1, <2>2
  <2>4. Room(n + 1, n + 1) = c
    BY RoomGrows
  <2> HIDE DEF c
  <2> QED BY <1>1, <1>2, <1>4, <2>1, <2>3, <2>4 DEF c
<1> QED BY <1>1, <1>3, <1>4

(* The oldest are dropped when the newest fill the history. *)
LEMMA NewestSpaced ==
  ASSUME NEW h \in Seq(Entry), NEW n \in Nat, Spaced(h, n)
  PROVE  /\ Spaced(NewestEntries(h), n)
         /\ \A e \in ToSet(h) : e \in ToSet(NewestEntries(h)) \/ MaxHistory < Room(e.tick, n)
<1>1. Len(h) \in Nat /\ DOMAIN h = 1..Len(h) /\ MaxHistory \in Nat \ {0}
  BY NumbersAssumption
<1>2. CASE Len(h) <= MaxHistory
  <2>1. NewestEntries(h) = h
    BY <1>1, <1>2 DEF NewestEntries
  <2> QED BY <2>1
<1>3. CASE Len(h) > MaxHistory
  <2> DEFINE d == Len(h) - MaxHistory
             new == NewestEntries(h)
  <2>1. d \in Nat /\ d + 1 \in 1..Len(h) /\ Len(h) = d + MaxHistory
    BY <1>1, <1>3
  <2>2. new = SubSeq(h, d + 1, Len(h))
    BY <1>1, <1>3 DEF NewestEntries
  <2> HIDE DEF d, new
  <2>3. /\ Len(new) = MaxHistory /\ DOMAIN new = 1..MaxHistory
        /\ \A i \in 1..MaxHistory : new[i] = h[d + i]
    <3>1. Len(h) - (d + 1) + 1 = MaxHistory /\ d + 1 <= Len(h)
      BY <1>1, <2>1
    <3>2. new = [i \in 1..(Len(h) - (d + 1) + 1) |-> h[(d + 1) + i - 1]]
      BY <1>1, <2>1, <2>2
    <3>3. \A i \in 1..MaxHistory : (d + 1) + i - 1 = d + i
      BY <2>1
    <3>4. new = [i \in 1..MaxHistory |-> h[d + i]]
      BY <3>1, <3>2, <3>3
    <3> QED BY <1>1, <3>4
  <2>4. Spaced(new, n)
    <3> SUFFICES ASSUME NEW i \in 1..MaxHistory PROVE MaxHistory - i < Room(new[i].tick, n)
      BY <2>3 DEF Spaced
    <3>1. d + i \in 1..Len(h) /\ Len(h) - (d + i) = MaxHistory - i
      BY <1>1, <2>1
    <3> QED BY <2>3, <3>1 DEF Spaced
  <2>5. ASSUME NEW e \in ToSet(h), e \notin ToSet(new)
        PROVE  MaxHistory < Room(e.tick, n)
    <3>1. PICK i \in 1..Len(h) : h[i] = e
      BY <1>1 DEF ToSet
    <3>2. ~(i > d)
      <4> SUFFICES ASSUME i > d PROVE FALSE
        OBVIOUS
      <4>1. i - d \in 1..MaxHistory /\ d + (i - d) = i
        BY <1>1, <2>1
      <4>2. new[i - d] = e
        BY <2>3, <3>1, <4>1
      <4> QED BY <2>3, <2>5, <4>1, <4>2 DEF ToSet
    <3>3. MaxHistory <= Len(h) - i /\ Len(h) - i \in Int
      BY <1>1, <2>1, <3>2
    <3>4. Len(h) - i < Room(h[i].tick, n)
      BY <3>1 DEF Spaced
    <3>5. Room(h[i].tick, n) \in Int
      <4>1. h[i].tick \in Int /\ n \in Int
        BY <3>1, TickTypes
      <4> QED BY <4>1, RoomGrows
    <3> QED BY <1>1, <3>1, <3>3, <3>4, <3>5
  <2> QED BY <2>4, <2>5 DEF new
<1> QED BY <1>1, <1>2, <1>3

LEMMA SetOfBoth ==
  ASSUME NEW h \in Seq(Entry), NEW batch \in Seq(Entry)
  PROVE  ToSet(h \o batch) = ToSet(h) \cup ToSet(batch)
<1> DEFINE all == h \o batch
<1>1. /\ DOMAIN all = 1..Len(all) /\ DOMAIN h = 1..Len(h) /\ DOMAIN batch = 1..Len(batch)
      /\ Len(all) = Len(h) + Len(batch) /\ Len(h) \in Nat /\ Len(batch) \in Nat
      /\ \A i \in 1..Len(h) : all[i] = h[i]
      /\ \A i \in 1..Len(batch) : all[Len(h) + i] = batch[i]
  OBVIOUS
<1> HIDE DEF all
<1>2. ToSet(all) \subseteq ToSet(h) \cup ToSet(batch)
  <2> SUFFICES ASSUME NEW i \in 1..Len(all) PROVE all[i] \in ToSet(h) \cup ToSet(batch)
    BY <1>1 DEF ToSet
  <2>1. CASE i <= Len(h)
    BY <1>1, <2>1 DEF ToSet
  <2>2. CASE i > Len(h)
    <3>1. i - Len(h) \in 1..Len(batch) /\ Len(h) + (i - Len(h)) = i
      BY <1>1, <2>2
    <3> QED BY <1>1, <3>1 DEF ToSet
  <2> QED BY <1>1, <2>1, <2>2
<1>3. ToSet(h) \subseteq ToSet(all)
  BY <1>1 DEF ToSet
<1>4. ToSet(batch) \subseteq ToSet(all)
  <2> SUFFICES ASSUME NEW i \in 1..Len(batch) PROVE batch[i] \in ToSet(all)
    BY <1>1 DEF ToSet
  <2>1. Len(h) + i \in 1..Len(all)
    BY <1>1
  <2> QED BY <1>1, <2>1 DEF ToSet
<1> QED BY <1>2, <1>3, <1>4 DEF all

LEMMA InitWindow == Init => Window
BY DEF Init, Window, Spaced

(* Only the samples and the store touch the window; whatever was dropped by then is
   older than it, and only gets older. *)
LEMMA WindowStep == Inv /\ Window /\ [Next]_vars => Window'
<1> SUFFICES ASSUME Inv, Window, [Next]_vars PROVE Window'
  OBVIOUS
<1>1. /\ history \in Seq(Entry) /\ saved \in Seq(Entry) /\ made \subseteq Entry
      /\ now \in Nat
  <2>1. MaxTicks \in Nat
    BY NumbersAssumption
  <2> QED BY <2>1 DEF Inv, TypeOK
<1>2. Spaced(history, now) /\ Spaced(saved, now)
  BY DEF Window
<1>3. ASSUME NEW e \in Entry, MaxHistory < Room(e.tick, now)
      PROVE  MaxHistory < Room(e.tick, now + 1)
  <2>1. e.tick \in Int /\ now \in Int /\ MaxHistory \in Int
    BY <1>1, NumbersAssumption DEF Entry
  <2>2. /\ Room(e.tick, now) \in Int /\ Cardinality(Ports) \in Nat
        /\ Room(e.tick, now + 1) = Room(e.tick, now) + Cardinality(Ports)
    BY <2>1, RoomGrows, PortsCounted
  <2> QED BY <1>3, <2>1, <2>2
<1>4. CASE UNCHANGED <<history, saved, made, now>>
  BY <1>4 DEF Window, Spaced, Room
<1>5. CASE SampleOnly
  <2>1. now' = now + 1 /\ UNCHANGED <<history, saved, made>>
    BY <1>5 DEF SampleOnly, Sample, store
  <2>2. Spaced(history, now + 1) /\ Spaced(saved, now + 1)
    BY <1>1, <1>2, StillSpaced
  <2>3. \A e \in made : e \in ToSet(history) \/ MaxHistory < Room(e.tick, now + 1)
    BY <1>1, <1>3 DEF Window
  <2> QED BY <2>1, <2>2, <2>3 DEF Window, Spaced, Room
<1>6. CASE Persist
  <2>1. /\ now' = now + 1 /\ made' = made \cup NewEntries
        /\ saved' = history' \/ saved' = saved
    BY <1>6 DEF Persist, Sample
  <2>2. PICK batch \in SetToSeqs(NewEntries) : history' = NewestEntries(history \o batch)
    BY <1>6 DEF Persist, Appended
  <2>3. /\ batch \in Seq(NewEntries) /\ Len(batch) <= Cardinality(Ports)
        /\ ToSet(batch) = NewEntries
    BY EntryNumber
  <2>4. NewEntries \subseteq Entry
    <3>1. \A q \in Ports : Delta(q) \in Int
      BY DEF Delta, Inv, TypeOK, Reading
    <3>2. \A q \in Ports : Delta(q) > 0 => Delta(q) \in Nat \ {0}
      BY <3>1
    <3> QED BY <1>1, <3>2 DEF NewEntries, Entry
  <2>5. batch \in Seq(Entry)
    BY <2>3, <2>4
  <2>6. \A i \in 1..Len(batch) : batch[i].tick = now + 1
    <3>1. \A i \in 1..Len(batch) : batch[i] \in NewEntries
      BY <2>3
    <3>2. \A e \in NewEntries : e.tick = now + 1
      BY DEF NewEntries
    <3> QED BY <3>1, <3>2
  <2> DEFINE all == history \o batch
  <2>7. all \in Seq(Entry) /\ ToSet(all) = ToSet(history) \cup NewEntries
    <3>1. all \in Seq(Entry)
      BY <1>1, <2>5
    <3>2. ToSet(all) = ToSet(history) \cup ToSet(batch)
      BY <1>1, <2>5, SetOfBoth
    <3> QED BY <2>3, <3>1, <3>2
  <2>8. Spaced(all, now + 1)
    BY <1>1, <1>2, <2>3, <2>5, <2>6, AppendedSpaced
  <2> HIDE DEF all
  <2>9. history' = NewestEntries(all)
    BY <2>2 DEF all
  <2>10. now + 1 \in Nat
    BY <1>1
  <2>11. /\ Spaced(history', now + 1)
         /\ \A e \in ToSet(all) : e \in ToSet(history') \/ MaxHistory < Room(e.tick, now + 1)
    BY <2>7, <2>8, <2>9, <2>10, NewestSpaced
  <2>12. Spaced(saved, now + 1)
    BY <1>1, <1>2, StillSpaced
  <2>13. Spaced(saved', now + 1)
    BY <2>1, <2>11, <2>12
  <2>14. \A e \in made' : e \in ToSet(history') \/ MaxHistory < Room(e.tick, now + 1)
    <3> SUFFICES ASSUME NEW e \in made'
                 PROVE  e \in ToSet(history') \/ MaxHistory < Room(e.tick, now + 1)
      OBVIOUS
    <3>1. CASE e \in ToSet(all)
      BY <2>11, <3>1
    <3>2. CASE e \notin ToSet(all)
      <4>1. e \in made /\ e \notin ToSet(history) /\ e \in Entry
        BY <1>1, <2>1, <2>7, <3>2
      <4> QED BY <1>3, <4>1 DEF Window
    <3> QED BY <3>1, <3>2
  <2> QED BY <2>1, <2>11, <2>13, <2>14 DEF Window, Spaced, Room
<1>7. CASE UpdateElsewhere
  <2>1. saved' = history /\ UNCHANGED <<history, made, now>>
    BY <1>7 DEF UpdateElsewhere, persist
  <2> QED BY <2>1 DEF Window, Spaced, Room
<1>8. CASE Restart
  <2>1. history' = saved /\ made' \subseteq ToSet(saved) /\ UNCHANGED <<saved, now>>
    BY <1>8 DEF Restart
  <2> QED BY <2>1 DEF Window, Spaced, Room
<1>9. UNCHANGED <<history, saved, made, now>> \/ SampleOnly \/ Persist \/ UpdateElsewhere
      \/ Restart
  BY DEF Next, vars, store, persist, Traffic, Reset, ReadIn, ReadOut, Read, RequestLock,
         StoreReading, ViewerArrives, Answer
<1> QED BY <1>4, <1>5, <1>6, <1>7, <1>8, <1>9

(* An entry of the last MaxHistory \div |Ports| samples has fewer than MaxHistory
   entries after it, and is never dropped: one limit for all the ports is enough for
   that many samples of each (metrics.go:112-144). *)
THEOREM WindowIsCovered == Spec => []HistoryCoversWindow
<1>1. Inv /\ Window => HistoryCoversWindow
  <2> SUFFICES ASSUME Inv, Window, NEW e \in made,
                      e.tick > now - (MaxHistory \div Cardinality(Ports)),
                      e \notin ToSet(history)
               PROVE  FALSE
    BY DEF HistoryCoversWindow
  <2>1. e.tick \in Int /\ now \in Int /\ MaxHistory \in Nat
    BY NumbersAssumption DEF Inv, TypeOK, Entry
  <2>2. MaxHistory < Cardinality(Ports) * (now - e.tick + 1)
    BY DEF Window, Room
  <2>3. ASSUME NEW m \in Nat, NEW c \in Nat \ {0}, NEW k \in Int, k <= m \div c
        PROVE  c * k <= m
    <3> DEFINE w == m \div c
    <3>1. w \in Int /\ c * w <= m
      BY <2>3
    <3> HIDE DEF w
    <3>2. w - k \in Nat
      BY <2>3, <3>1 DEF w
    <3>3. c * (w - k) >= 0 /\ c * w = c * k + c * (w - k)
      BY <3>1, <3>2
    <3> QED BY <3>1, <3>3
  <2>4. MaxHistory \div Cardinality(Ports) \in Int
    BY <2>1, PortsCounted
  <2>5. now - e.tick + 1 \in Int /\ now - e.tick + 1 <= MaxHistory \div Cardinality(Ports)
    BY <2>1, <2>4
  <2>6. Cardinality(Ports) * (now - e.tick + 1) <= MaxHistory
    BY <2>1, <2>3, <2>5, PortsCounted
  <2>7. Cardinality(Ports) * (now - e.tick + 1) \in Int
    BY <2>1, PortsCounted
  <2> QED BY <2>1, <2>2, <2>6, <2>7
<1> QED BY <1>1, InitWindow, WindowStep, Invariance, PTL DEF Spec
=============================================================================
