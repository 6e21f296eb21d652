---------------------- MODULE SchedulingPoliciesProofs ----------------------
(***************************************************************************)
(* Who is served, for any UEs and limits.  In slots of one direction a UE that *)
(* waits under RoundRobin loses each slot to UEs that then stand behind it.    *)
(* They stay there, except that the slot numbers repeat: once while it waits   *)
(* the current slot may pass the one in which the UE was last served, or, if it *)
(* never was, the number may wrap.  A UE without an average that waits under   *)
(* ProportionalFair loses to UEs that get a sample, and with two an average.   *)
(***************************************************************************)
EXTENDS SchedulingPolicies, NumberLemmas, SequenceTheorems

CycleLength == Cycle(SlotsPerFrame)

NextSlot(cur) == IF cur + 1 = CycleLength THEN 0 ELSE cur + 1

Stamps == 0..(CycleLength - 1)

Ages == 0..(WINDOW + 1)

\* The averages there are.
Averages == {<<0, 1>>} \cup ((Nat \ {0}) \X (Nat \ {0}))

\* The oldest sample is in front.
Falling(ages) == \A i, j \in DOMAIN ages : i <= j => ages[j] <= ages[i]

\* A history has a sample; all are older than the slot when it has begun.
HistoryGood(history, at) ==
  /\ history \in [ages : Seq(Ages), cached_avg_rate : Averages]
  /\ history.ages # <<>> /\ Falling(history.ages)
  /\ at = 1 => \A i \in DOMAIN history.ages : history.ages[i] >= 1

PolicyInv ==
  /\ TypeOK
  /\ \A r \in DOMAIN rate_history : HistoryGood(rate_history[r], step)

-----------------------------------------------------------------------------
(* The inductive invariant of the waits.  In what follows w is how long r has *)
(* waited, cur the current slot and at the step of the slot.                  *)

N == Cardinality(Rntis)

\* One direction is scheduled, and the UEs are fewer than half the slots of an SFN
\* cycle, half the priority of a UE never scheduled and half the window.
FewUes ==
  Len(Directions) = 1 /\ 2 * N <= CycleLength /\ 2 * N <= NEVER /\ 2 * N <= WINDOW

\* The slots since the one of a number, on the circle of slot numbers.
Age(cur, last) == IF last <= cur THEN cur - last ELSE (cur - last) + CycleLength

\* The UEs served later than r.
Later(r, stamps, cur) ==
  {o \in DOMAIN stamps \ {r} : Age(cur, stamps[o]) < Age(cur, stamps[r])}

\* Of a UE served before: it has lost to as many UEs as stand behind it, or its slot
\* number has come round while it waited and everybody may have stood in front again.
Known(r, w, stamps, cur, at) ==
  LET behind == Cardinality(Later(r, stamps, cur))
      age == Age(cur, stamps[r])
  IN  \/ w <= behind
      \/ /\ age < w + at
         /\ w + (IF age = 0 /\ at = 1 THEN 1 ELSE 0) <= N + behind

\* The UEs served in the last w + at slots, as long as slot numbers have not wrapped.
Recently(r, w, stamps, cur, at) ==
  {o \in DOMAIN stamps \ {r} : stamps[o] <= cur /\ cur - stamps[o] < w + at}

\* Of a UE never served: the same, and the numbers may have wrapped while it waited.
Unknown(r, w, stamps, cur, at) ==
  LET recent == Cardinality(Recently(r, w, stamps, cur, at))
  IN  w <= recent \/ (cur < w + at /\ w <= (N - 1) + recent)

Turn(r, w, stamps, cur, at) ==
  IF r \in DOMAIN stamps THEN Known(r, w, stamps, cur, at) ELSE Unknown(r, w, stamps, cur, at)

\* The newest sample.
Newest(ages) == ages[Len(ages)]

\* The UEs with a sample of the last w + at slots, and those of them with an average.
Sampling(r, w, histories, at) ==
  {o \in DOMAIN histories \ {r} : Newest(histories[o].ages) < w + at}

Averaged(r, w, histories, at) ==
  {o \in Sampling(r, w, histories, at) : histories[o].cached_avg_rate # <<0, 1>>}

\* Of a UE without an average: each time it lost, another one got a sample or, having
\* one, an average.
NewTurn(r, w, histories, at) ==
  w <= Cardinality(Sampling(r, w, histories, at)) + Cardinality(Averaged(r, w, histories, at))

Unaveraged(r, histories) == r \in DOMAIN histories => histories[r].cached_avg_rate = <<0, 1>>

Waiting == \E d \in DirectionNames, r \in Rntis : waited[d][r] # 0

\* RoundRobin has the slot before the next one, or is new.
Clock ==
  \/ absolute_slot(timing) = NextSlot(current_slot)
  \/ step = 0 /\ DOMAIN last_scheduled = {} /\ ~Waiting

Turns ==
  \A d \in DirectionNames, r \in Rntis :
    IF strategy = "RoundRobin"
      THEN Turn(r, waited[d][r], last_scheduled, current_slot, step)
      ELSE Unaveraged(r, rate_history) => NewTurn(r, waited[d][r], rate_history, step)

\* Waits are not counted beyond MaxWait.
WaitInv ==
  /\ PolicyInv
  /\ strategy = "RoundRobin" => Clock
  /\ 2 * N <= MaxWait => Turns

-----------------------------------------------------------------------------
(* Slot numbers.                                                            *)

\* The numbers a proof about slots needs.
LEMMA CycleType ==
  /\ CycleLength \in Nat \ {0} /\ MAX_SFN \in Nat \ {0} /\ SlotsPerFrame \in Nat \ {0}
  /\ CycleLength = MAX_SFN * SlotsPerFrame
  /\ WORD \in Nat \ {0} /\ WORD > CycleLength /\ WINDOW \in Nat /\ NEVER \in Nat
<1>1. MAX_SFN * SlotsPerFrame \in Nat \ {0}
  BY PoliciesAssumption, MaxSfnAssumption
<1> QED BY <1>1, PoliciesAssumption, MaxSfnAssumption DEF CycleLength, Cycle

\* The slots of a cycle are numbered one after the other (FrameTiming::advance and
\* absolute_slot).
LEMMA NextTiming ==
  ASSUME NEW t \in FrameTimings(SlotsPerFrame)
  PROVE  /\ advanced(t, 1) \in FrameTimings(SlotsPerFrame)
         /\ absolute_slot(t) \in Stamps
         /\ absolute_slot(advanced(t, 1)) = NextSlot(absolute_slot(t))
<1> DEFINE n == SlotsPerFrame
           r == (t.slot + 1) % n
           g == (t.sfn + (t.slot + 1) \div n) % MAX_SFN
<1>0. n \in Nat \ {0} /\ MAX_SFN \in Nat \ {0}
  BY CycleType
<1>1. /\ t \in [sfn : 0..(MAX_SFN - 1), slot : 0..(n - 1), slots_per_frame : {n}]
      /\ t.sfn \in 0..(MAX_SFN - 1) /\ t.slot \in 0..(n - 1) /\ t.slots_per_frame = n
  BY DEF FrameTimings
<1>2. /\ t.sfn * n + t.slot \in 0..(MAX_SFN * n - 1)
      /\ r \in 0..(n - 1) /\ g \in 0..(MAX_SFN - 1)
      /\ g * n + r = ((t.sfn * n + t.slot) + 1) % (MAX_SFN * n)
  <2>1. AddsDigits(MAX_SFN, n, t.sfn, t.slot, 1) /\ t.sfn * n + t.slot \in 0..(MAX_SFN * n - 1)
    BY <1>0, <1>1, TwoDigits
  <2> QED BY <2>1, Zenon DEF AddsDigits
<1>3. advanced(t, 1) = [t EXCEPT !.slot = r, !.sfn = g]
  BY <1>1 DEF advanced
<1> HIDE DEF r, g
<1>4. advanced(t, 1) \in [sfn : 0..(MAX_SFN - 1), slot : 0..(n - 1), slots_per_frame : {n}]
      /\ absolute_slot(advanced(t, 1)) = g * n + r
  BY <1>1, <1>2, <1>3 DEF absolute_slot
<1>5. absolute_slot(t) = t.sfn * n + t.slot
  BY <1>1 DEF absolute_slot
<1> DEFINE a == absolute_slot(t)
<1>6. a \in Stamps /\ absolute_slot(advanced(t, 1)) = (a + 1) % CycleLength
  BY <1>2, <1>4, <1>5, CycleType DEF Stamps
<1>7. (a + 1) % CycleLength = NextSlot(a)
  <2> HIDE DEF a
  <2>1. a + 1 \in Int /\ 0 <= a + 1 /\ a + 1 <= CycleLength
    BY <1>6, CycleType DEF Stamps
  <2>2. CycleLength <= a + 1 => (a + 1) % CycleLength = (a + 1) - CycleLength
    <3> DEFINE b == a + 1
    <3>1. b \in Int /\ b < 2 * CycleLength
      BY <2>1, CycleType
    <3> HIDE DEF b
    <3>2. CycleLength <= b => b % CycleLength = b - CycleLength
      BY <3>1, CycleType, ModWord
    <3> QED BY <3>2 DEF b
  <2>3. a + 1 < CycleLength => (a + 1) % CycleLength = a + 1
    <3> DEFINE b == a + 1
    <3>1. b \in Int /\ 0 <= b
      BY <2>1
    <3> HIDE DEF b
    <3>2. b < CycleLength => b % CycleLength = b
      BY <3>1, CycleType, ModWord
    <3> QED BY <3>2 DEF b
  <2> QED BY <2>1, <2>2, <2>3, <1>6, CycleType DEF NextSlot, Stamps
<1> QED BY <1>4, <1>6, <1>7 DEF FrameTimings

-----------------------------------------------------------------------------
(* Samples.                                                                 *)

\* The first sample in the window exists, as the new one is in it.
LEMMA FirstInWindow ==
  ASSUME NEW samples, NEW n \in Nat \ {0}, samples[n] <= WINDOW
  PROVE  \E i \in 1..n : samples[i] <= WINDOW /\ \A j \in 1..(i - 1) : ~(samples[j] <= WINDOW)
<1> DEFINE T == {i \in 1..n : samples[i] <= WINDOW}
<1>1. T \subseteq Nat /\ n \in T
  OBVIOUS
<1>2. PICK i \in T : \A j \in T : i <= j
  BY <1>1, SmallestNat
<1>3. ASSUME NEW j \in 1..(i - 1), samples[j] <= WINDOW PROVE FALSE
  <2>1. j \in T /\ i \in Nat /\ j \in Nat /\ j < i
    BY <1>1, <1>3
  <2> QED BY <1>2, <2>1
<1> QED BY <1>2, <1>3

\* The samples left end in the new one and are in order, and one that is left out was
\* out of the window (ProportionalFairPolicy::update_history).
LEMMA SampledType ==
  ASSUME NEW ages \in Seq(Ages), Falling(ages)
  PROVE  /\ Sampled(ages) \in Seq(Ages) /\ Sampled(ages) # <<>> /\ Falling(Sampled(ages))
         /\ Newest(Sampled(ages)) = 0
         /\ ages # <<>> /\ Newest(ages) \in 1..WINDOW
              => Len(Sampled(ages)) >= 2 /\ Sampled(ages)[1] >= 1
<1> DEFINE samples == Append(ages, 0)
           n == Len(samples)
           InWindow(i) == samples[i] <= WINDOW
           first == CHOOSE i \in 1..n : InWindow(i) /\ \A j \in 1..(i - 1) : ~InWindow(j)
           left == SubSeq(samples, first, n)
<1>1. /\ samples \in Seq(Ages) /\ n = Len(ages) + 1 /\ Len(ages) \in Nat /\ n \in Nat
      /\ DOMAIN ages = 1..Len(ages)
      /\ \A i \in 1..Len(ages) : samples[i] = ages[i] /\ ages[i] \in Ages
      /\ samples[n] = 0 /\ WINDOW \in Nat
  <2>1. 0 \in Ages /\ WINDOW \in Nat
    BY CycleType DEF Ages
  <2>2. /\ samples \in Seq(Ages) /\ n = Len(ages) + 1
        /\ \A i \in 1..Len(ages) : samples[i] = ages[i]
        /\ samples[n] = 0
    BY <2>1, AppendProperties
  <2>3. Len(ages) \in Nat /\ DOMAIN ages = 1..Len(ages) /\ \A i \in 1..Len(ages) : ages[i] \in Ages
    BY LenProperties, ElementOfSeq
  <2> QED BY <2>1, <2>2, <2>3
<1>2. \A i, j \in 1..n : i <= j => samples[j] <= samples[i]
  <2> SUFFICES ASSUME NEW i \in 1..n, NEW j \in 1..n, i <= j PROVE samples[j] <= samples[i]
    OBVIOUS
  <2> HIDE DEF samples, n
  <2>1. CASE j = n
    <3>1. i = n \/ (i \in 1..Len(ages) /\ samples[i] \in Ages)
      BY <1>1
    <3> QED BY <1>1, <2>1, <3>1 DEF Ages
  <2>2. CASE j # n
    <3>1. i \in DOMAIN ages /\ j \in DOMAIN ages
      BY <1>1, <2>2
    <3> QED BY <1>1, <3>1 DEF Falling
  <2> QED BY <2>1, <2>2
<1>3. Sampled(ages) = left
  BY DEF Sampled
<1>4. first \in 1..n /\ InWindow(first) /\ \A j \in 1..(first - 1) : ~InWindow(j)
  <2> HIDE DEF samples, n, left, first
  <2>1. samples[n] <= WINDOW /\ n \in Nat \ {0}
    BY <1>1
  <2>2. \E i \in 1..n : InWindow(i) /\ \A j \in 1..(i - 1) : ~InWindow(j)
    BY <2>1, FirstInWindow
  <2> QED BY <2>2, Zenon DEF first
<1> HIDE DEF first, samples, n
<1>5. \A i \in first..n : samples[i] \in Ages
  <2>1. \A i \in 1..n : samples[i] \in Ages
    BY <1>1, CycleType, SMTT(20) DEF Ages
  <2> QED BY <1>1, <1>4, <2>1
<1>6. /\ left \in Seq(Ages) /\ Len(left) = (n - first) + 1
      /\ \A i \in 1..((n - first) + 1) : left[i] = samples[(first + i) - 1]
  BY <1>1, <1>4, <1>5, SubSeqProperties
<1> HIDE DEF left
<1>7. DOMAIN left = 1..Len(left) /\ Len(left) \in Nat \ {0} /\ left # <<>>
  <2>1. DOMAIN left = 1..Len(left)
    BY <1>6, LenProperties
  <2>2. Len(left) \in Nat \ {0}
    BY <1>1, <1>4, <1>6
  <2>3. Len(<<>>) = 0
    BY EmptySeq
  <2> QED BY <2>1, <2>2, <2>3
<1>8. Falling(left)
  <2> SUFFICES ASSUME NEW i \in DOMAIN left, NEW j \in DOMAIN left, i <= j
               PROVE  left[j] <= left[i]
    BY DEF Falling
  <2>1. i \in 1..((n - first) + 1) /\ j \in 1..((n - first) + 1)
    BY <1>6, <1>7
  <2>2. left[i] = samples[(first + i) - 1] /\ left[j] = samples[(first + j) - 1]
    BY <1>6, <2>1
  <2>3. /\ (first + i) - 1 \in 1..n /\ (first + j) - 1 \in 1..n
        /\ (first + i) - 1 <= (first + j) - 1
    BY <1>1, <1>4, <2>1
  <2> QED BY <1>2, <2>2, <2>3
<1>9. Newest(left) = 0
  <2>1. left[Len(left)] = samples[(first + Len(left)) - 1] /\ (first + Len(left)) - 1 = n
    BY <1>1, <1>4, <1>6, <1>7
  <2> QED BY <1>1, <2>1 DEF Newest
<1>10. ASSUME ages # <<>>, Newest(ages) \in 1..WINDOW
       PROVE  Len(left) >= 2 /\ left[1] >= 1
  <2>1. Len(ages) # 0
    BY <1>10, EmptySeq
  <2> DEFINE l == Len(ages)
  <2>2. l \in 1..n /\ l = n - 1 /\ samples[l] \in 1..WINDOW
    BY <1>1, <1>10, <2>1 DEF Newest
  <2>3. first <= l
    BY <1>1, <1>4, <2>2
  <2>4. Len(left) >= 2 /\ left[1] = samples[first]
    <3>1. 1 \in 1..((n - first) + 1) /\ (first + 1) - 1 = first /\ (n - first) + 1 >= 2
      BY <1>1, <1>4, <2>2, <2>3
    <3> QED BY <1>6, <3>1
  <2>5. samples[l] <= samples[first]
    BY <1>2, <1>4, <2>2, <2>3
  <2>6. samples[first] \in Int
    BY <1>1, <1>4, <1>5 DEF Ages
  <2> QED BY <2>2, <2>4, <2>5, <2>6
<1> QED BY <1>3, <1>6, <1>7, <1>8, <1>9, <1>10

\* The average of a history is a fraction, and one is known when the oldest sample is
\* older than the newest (ProportionalFairPolicy::calculate_average_rate).
LEMMA AverageType ==
  ASSUME NEW ages \in Seq(Ages), ages # <<>>, Falling(ages)
  PROVE  /\ Average(ages) \in Averages
         /\ Len(ages) >= 2 /\ ages[1] >= 1 /\ Newest(ages) = 0 => Average(ages) # <<0, 1>>
<1>1. Len(ages) \in Nat \ {0} /\ DOMAIN ages = 1..Len(ages) /\ \A i \in 1..Len(ages) : ages[i] \in Ages
  BY LenProperties, ElementOfSeq, EmptySeq
<1> DEFINE n == Len(ages)
<1>2. ages[1] \in Nat /\ ages[n] \in Nat /\ ages[n] <= ages[1] /\ n \in Nat \ {0}
  <2>1. 1 \in 1..n /\ n \in 1..n /\ 1 <= n
    BY <1>1
  <2> QED BY <1>1, <2>1, CycleType DEF Falling, Ages
<1>3. CASE n < 2 \/ ages[1] = ages[n]
  <2>1. Average(ages) = <<0, 1>>
    BY <1>3 DEF Average
  <2>2. ~(Len(ages) >= 2 /\ ages[1] >= 1 /\ Newest(ages) = 0)
    BY <1>2, <1>3 DEF Newest
  <2> QED BY <2>1, <2>2 DEF Averages
<1>4. CASE ~(n < 2 \/ ages[1] = ages[n])
  <2>1. Average(ages) = <<n, ages[1] - ages[n]>>
    BY <1>4 DEF Average
  <2> DEFINE span == ages[1] - ages[n]
  <2>2. n \in Nat \ {0} /\ span \in Nat \ {0}
    BY <1>2, <1>4
  <2> HIDE DEF n, span
  <2>3. <<n, span>> \in Averages /\ <<n, span>> # <<0, 1>>
    BY <2>2 DEF Averages
  <2> QED BY <2>1, <2>3 DEF span
<1> QED BY <1>3, <1>4

-----------------------------------------------------------------------------
(* Types.                                                                   *)

\* A step of a slot is a direction.
LEMMA DirectionType ==
  /\ Len(Directions) \in {1, 2} /\ DOMAIN Directions = 1..Len(Directions)
  /\ \A s \in 1..Len(Directions) : Directions[s] \in DirectionNames
BY PoliciesAssumption DEF DirectionNames

LEMMA HistoryType ==
  ASSUME NEW history, NEW at, HistoryGood(history, at)
  PROVE  /\ history.ages \in Seq(0..(WINDOW + 1))
         /\ history.cached_avg_rate \in Nat \X (Nat \ {0})
<1>1. history.ages \in Seq(Ages) /\ history.cached_avg_rate \in Averages
  BY DEF HistoryGood
<1>2. Averages \subseteq Nat \X (Nat \ {0})
  BY DEF Averages
<1> QED BY <1>1, <1>2 DEF Ages

LEMMA InitPolicy == Init => PolicyInv
<1> SUFFICES ASSUME Init PROVE PolicyInv
  OBVIOUS
<1>1. DOMAIN last_scheduled = {} /\ DOMAIN rate_history = {}
  BY DEF Init
<1>2. /\ strategy \in Strategies
      /\ 0 \in 0..(CycleLength - 1) /\ 0 \in 0..Len(Directions) /\ 0 \in 0..MaxWait
      /\ 0 \in 0..MaxUpdates /\ StartTiming \in FrameTimings(SlotsPerFrame)
  <2>1. strategy \in Strategies /\ StartTiming \in FrameTimings(SlotsPerFrame)
    BY PoliciesAssumption DEF Init
  <2>2. Len(Directions) \in Nat /\ MaxWait \in Nat /\ MaxUpdates \in Nat /\ CycleLength \in Nat \ {0}
    BY CycleType, DirectionType, PoliciesAssumption
  <2> QED BY <2>1, <2>2
<1>3. TypeOK
  BY <1>1, <1>2 DEF Init, TypeOK, CycleLength
<1> QED BY <1>1, <1>3 DEF PolicyInv

LEMMA ReportPolicy ==
  ASSUME PolicyInv, NEW d \in DirectionNames, NEW r \in Rntis, NEW what \in {"none", "data", "sr"},
         Report(d, r, what)
  PROVE  PolicyInv'
<1>1. 0 \in 0..MaxWait
  BY PoliciesAssumption
<1>2. /\ demand' \in [DirectionNames -> [Rntis -> {"none", "data", "sr"}]]
      /\ waited' \in [DirectionNames -> [Rntis -> 0..MaxWait]]
  BY <1>1 DEF PolicyInv, TypeOK, Report
<1> QED BY <1>2 DEF PolicyInv, TypeOK, Report

LEMMA ConfigPolicy ==
  ASSUME PolicyInv, NEW new \in Strategies, update_config(new)
  PROVE  PolicyInv'
<1>1. 0 \in 0..MaxWait /\ 0 \in 0..(Cycle(SlotsPerFrame) - 1)
  BY PoliciesAssumption, CycleType DEF CycleLength
<1>2. waited' \in [DirectionNames -> [Rntis -> 0..MaxWait]]
  BY <1>1 DEF update_config
<1>3. updates' \in 0..MaxUpdates
  BY PoliciesAssumption DEF PolicyInv, TypeOK, update_config
<1>4. DOMAIN last_scheduled' = {} /\ DOMAIN rate_history' = {}
  BY DEF update_config
<1>5. TypeOK'
  BY <1>1, <1>2, <1>3, <1>4 DEF PolicyInv, TypeOK, update_config
<1> QED BY <1>4, <1>5 DEF PolicyInv

\* The histories when a slot has begun.
LEMMA OlderHistory ==
  ASSUME NEW history, HistoryGood(history, 0)
  PROVE  HistoryGood([history EXCEPT !.ages = [i \in DOMAIN @ |-> Lesser(@[i] + 1, WINDOW + 1)]], 1)
<1> DEFINE old == history.ages
           new == [i \in DOMAIN old |-> Lesser(old[i] + 1, WINDOW + 1)]
           next == [history EXCEPT !.ages = new]
<1>1. /\ history \in [ages : Seq(Ages), cached_avg_rate : Averages]
      /\ old \in Seq(Ages) /\ old # <<>> /\ Falling(old) /\ WINDOW \in Nat
  BY CycleType DEF HistoryGood
<1>2. /\ Len(old) \in Nat \ {0} /\ DOMAIN old = 1..Len(old)
      /\ \A i \in 1..Len(old) : old[i] \in Ages
  BY <1>1, LenProperties, ElementOfSeq, EmptySeq
<1> HIDE DEF old
<1>3. \A i \in 1..Len(old) : /\ new[i] = Lesser(old[i] + 1, WINDOW + 1)
                             /\ new[i] \in Ages /\ new[i] >= 1
  BY <1>1, <1>2 DEF Lesser, Ages
<1>4. new \in [1..Len(old) -> Ages]
  BY <1>2, <1>3
<1>5. new \in Seq(Ages) /\ DOMAIN new = 1..Len(old)
  BY <1>2, <1>4, SeqDef
<1>6. new # <<>>
  <2>1. 1 \in DOMAIN new
    BY <1>2, <1>5
  <2> QED BY <2>1
<1>7. Falling(new)
  <2> SUFFICES ASSUME NEW i \in 1..Len(old), NEW j \in 1..Len(old), i <= j
               PROVE  new[j] <= new[i]
    BY <1>5 DEF Falling
  <2>1. old[j] <= old[i]
    BY <1>1, <1>2 DEF Falling
  <2>2. old[i] \in Nat /\ old[j] \in Nat
    <3>1. old[i] \in Ages /\ old[j] \in Ages
      BY <1>2
    <3> QED BY <1>1, <3>1 DEF Ages
  <2> HIDE DEF new
  <2>3. new[i] = Lesser(old[i] + 1, WINDOW + 1) /\ new[j] = Lesser(old[j] + 1, WINDOW + 1)
    BY <1>3
  <2> QED BY <1>1, <2>1, <2>2, <2>3 DEF Lesser
<1> HIDE DEF new
<1>8. next \in [ages : Seq(Ages), cached_avg_rate : Averages] /\ next.ages = new
  BY <1>1, <1>5
<1>9. HistoryGood(next, 1)
  BY <1>3, <1>5, <1>6, <1>7, <1>8 DEF HistoryGood
<1> QED BY <1>9 DEF new, old

LEMMA SlotStartPolicy ==
  ASSUME PolicyInv, on_slot_start
  PROVE  PolicyInv'
<1>1. /\ step = 0 /\ step' = 1 /\ timing' = advanced(timing, 1)
      /\ timing \in FrameTimings(SlotsPerFrame) /\ DOMAIN rate_history' = DOMAIN rate_history
      /\ UNCHANGED <<strategy, demand, last_scheduled, served, waited, updates>>
  BY DEF on_slot_start, PolicyInv, TypeOK
<1>2. timing' \in FrameTimings(SlotsPerFrame)
  BY <1>1, NextTiming
<1>3. current_slot' \in 0..(Cycle(SlotsPerFrame) - 1)
  <2>1. absolute_slot(timing) \in 0..(Cycle(SlotsPerFrame) - 1)
    BY <1>1, NextTiming DEF Stamps, CycleLength
  <2>2. 0 \in 0..(Cycle(SlotsPerFrame) - 1)
    BY CycleType DEF CycleLength
  <2> QED BY <2>1, <2>2 DEF on_slot_start
<1>4. ASSUME NEW r \in DOMAIN rate_history PROVE HistoryGood(rate_history'[r], 1)
  <2>1. HistoryGood(rate_history[r], 0)
    BY <1>1 DEF PolicyInv
  <2>2. rate_history'[r] = [rate_history[r] EXCEPT
          !.ages = [i \in DOMAIN @ |-> Lesser(@[i] + 1, WINDOW + 1)]]
    BY DEF on_slot_start
  <2> QED BY <2>1, <2>2, OlderHistory
<1>5. \A r \in DOMAIN rate_history' :
        /\ rate_history'[r].ages \in Seq(0..(WINDOW + 1))
        /\ rate_history'[r].cached_avg_rate \in Nat \X (Nat \ {0})
  BY <1>1, <1>4, HistoryType
<1>6. 1 \in 0..Len(Directions)
  BY DirectionType
<1>7. TypeOK'
  BY <1>1, <1>2, <1>3, <1>5, <1>6 DEF PolicyInv, TypeOK
<1> QED BY <1>1, <1>4, <1>7 DEF PolicyInv

\* What Schedule does: those served are UEs, and each wait grows by one at most.
LEMMA ServedType ==
  ASSUME NEW S \in SUBSET Rntis, PolicyInv, Schedule(S)
  PROVE  /\ step \in 1..Len(Directions) /\ Directions[step] \in DirectionNames
         /\ step' \in 0..Len(Directions) /\ step' # 1
         /\ Len(Directions) = 1 => step = 1 /\ step' = 0
<1> DEFINE l == Len(Directions)
<1>1. l \in {1, 2} /\ \A s \in 1..l : Directions[s] \in DirectionNames
  BY DirectionType
<1>2. step \in 0..l /\ step > 0
  BY DEF Schedule, PolicyInv, TypeOK
<1>3. step' = (IF step = l THEN 0 ELSE step + 1)
  BY DEF Schedule
<1> HIDE DEF l
<1>4. step \in 1..l /\ step' \in 0..l /\ step' # 1 /\ (l = 1 => step = 1 /\ step' = 0)
  BY <1>1, <1>2, <1>3
<1> QED BY <1>1, <1>4 DEF l

\* The history of a UE that is served.
LEMMA ServedHistory ==
  ASSUME NEW S, strategy # "RoundRobin", update_history(S), NEW r \in S,
         r \in DOMAIN rate_history => HistoryGood(rate_history[r], step)
  PROVE  /\ History(r) \in Seq(Ages) /\ Falling(History(r))
         /\ rate_history'[r] = [ages |-> Sampled(History(r)),
                                cached_avg_rate |-> Average(Sampled(History(r)))]
         /\ HistoryGood(rate_history'[r], 0)
<1>1. rate_history'[r] = [ages |-> Sampled(History(r)),
                          cached_avg_rate |-> Average(Sampled(History(r)))]
  BY DEF update_history
<1>2. History(r) \in Seq(Ages) /\ Falling(History(r))
  <2>1. CASE r \in DOMAIN rate_history
    BY <2>1 DEF History, HistoryGood
  <2>2. CASE r \notin DOMAIN rate_history
    <3>1. History(r) = <<>> /\ <<>> \in Seq(Ages) /\ DOMAIN <<>> = {}
      BY <2>2, EmptySeq DEF History
    <3> QED BY <3>1 DEF Falling
  <2> QED BY <2>1, <2>2
<1> DEFINE ages == Sampled(History(r))
<1>3. ages \in Seq(Ages) /\ ages # <<>> /\ Falling(ages)
  BY <1>2, SampledType
<1> HIDE DEF ages
<1>4. Average(ages) \in Averages
  BY <1>3, AverageType
<1>5. HistoryGood([ages |-> ages, cached_avg_rate |-> Average(ages)], 0)
  BY <1>3, <1>4 DEF HistoryGood
<1> QED BY <1>1, <1>2, <1>5 DEF ages

LEMMA SchedulePolicy ==
  ASSUME NEW S \in SUBSET Rntis, PolicyInv, Schedule(S)
  PROVE  PolicyInv'
<1> DEFINE d == Directions[step]
<1>1. /\ TypeOK /\ update_history(S) /\ served' = [served EXCEPT ![d] = S]
      /\ waited' = [waited EXCEPT ![d] = [r \in Rntis |->
           IF r \notin S /\ demand[d][r] = "data" THEN Lesser(@[r] + 1, MaxWait) ELSE 0]]
      /\ UNCHANGED <<strategy, demand, current_slot, timing, updates>>
  BY DEF Schedule, PolicyInv
<1>2. d \in DirectionNames /\ step' \in 0..Len(Directions)
  BY ServedType
<1> HIDE DEF d
<1>3. served' \in [DirectionNames -> SUBSET Rntis]
  BY <1>1, <1>2 DEF TypeOK
<1>4. waited' \in [DirectionNames -> [Rntis -> 0..MaxWait]]
  <2> DEFINE old == waited[d]
             new == [r \in Rntis |->
                       IF r \notin S /\ demand[d][r] = "data" THEN Lesser(old[r] + 1, MaxWait) ELSE 0]
  <2>1. old \in [Rntis -> 0..MaxWait] /\ MaxWait \in Nat
    BY <1>1, <1>2, PoliciesAssumption DEF TypeOK
  <2> HIDE DEF old
  <2>2. ASSUME NEW r \in Rntis PROVE new[r] \in 0..MaxWait
    <3>1. old[r] \in 0..MaxWait
      BY <2>1
    <3>2. Lesser(old[r] + 1, MaxWait) \in 0..MaxWait /\ 0 \in 0..MaxWait
      BY <2>1, <3>1 DEF Lesser
    <3> QED BY <3>2
  <2>3. new \in [Rntis -> 0..MaxWait]
    BY <2>2
  <2>4. waited' = [waited EXCEPT ![d] = new]
    BY <1>1 DEF old
  <2> HIDE DEF new
  <2> QED BY <1>1, <2>3, <2>4 DEF TypeOK
<1>5. /\ DOMAIN last_scheduled' \subseteq Rntis
      /\ \A r \in DOMAIN last_scheduled' : last_scheduled'[r] \in 0..(Cycle(SlotsPerFrame) - 1)
  BY <1>1 DEF TypeOK, update_history
<1>6. /\ DOMAIN rate_history' \subseteq Rntis
      /\ \A r \in DOMAIN rate_history' : HistoryGood(rate_history'[r], step')
  <2>1. CASE strategy = "RoundRobin"
    <3>1. rate_history' = rate_history
      BY <1>1, <2>1 DEF update_history
    <3>2. \A r \in DOMAIN rate_history : HistoryGood(rate_history[r], step')
      <4>1. step' # 1
        BY ServedType
      <4> QED BY <4>1 DEF PolicyInv, HistoryGood
    <3> QED BY <1>1, <3>1, <3>2 DEF TypeOK
  <2>2. CASE strategy # "RoundRobin"
    <3>1. /\ DOMAIN rate_history' = DOMAIN rate_history \cup S
          /\ \A r \in DOMAIN rate_history \ S : rate_history'[r] = rate_history[r]
      BY <1>1, <2>2 DEF update_history
    <3>2. step' # 1
      BY ServedType
    <3>3. ASSUME NEW r \in DOMAIN rate_history' PROVE HistoryGood(rate_history'[r], step')
      <4>1. CASE r \in S
        <5>1. HistoryGood(rate_history'[r], 0)
          BY <1>1, <2>2, <4>1, ServedHistory DEF PolicyInv
        <5> QED BY <3>2, <5>1 DEF HistoryGood
      <4>2. CASE r \notin S
        <5>1. r \in DOMAIN rate_history /\ rate_history'[r] = rate_history[r]
              /\ HistoryGood(rate_history[r], step)
          BY <3>1, <4>2 DEF PolicyInv
        <5> QED BY <3>2, <5>1 DEF HistoryGood
      <4> QED BY <4>1, <4>2
    <3> QED BY <1>1, <3>1, <3>3 DEF TypeOK
  <2> QED BY <2>1, <2>2
<1>7. \A r \in DOMAIN rate_history' :
        /\ rate_history'[r].ages \in Seq(0..(WINDOW + 1))
        /\ rate_history'[r].cached_avg_rate \in Nat \X (Nat \ {0})
  BY <1>6, HistoryType
<1>8. TypeOK'
  BY <1>1, <1>2, <1>3, <1>4, <1>5, <1>6, <1>7 DEF TypeOK
<1> QED BY <1>6, <1>8 DEF PolicyInv

LEMMA NextPolicy == PolicyInv /\ [Next]_vars => PolicyInv'
<1> SUFFICES ASSUME PolicyInv, [Next]_vars PROVE PolicyInv'
  OBVIOUS
<1>1. CASE UNCHANGED vars
  BY <1>1 DEF vars, PolicyInv, TypeOK
<1> QED BY <1>1, ReportPolicy, ConfigPolicy, SlotStartPolicy, SchedulePolicy DEF Next, ProcessSlot

\* For any UEs, frames, limits and windows, the policies keep their types: slot numbers
\* stay in the SFN cycle, and a history has samples within the window (on_slot_start and
\* update_history of the policies).
THEOREM TypeCorrect == Spec => []TypeOK
<1>1. PolicyInv => TypeOK
  BY DEF PolicyInv
<1> QED BY <1>1, InitPolicy, NextPolicy, PTL DEF Spec

-----------------------------------------------------------------------------
(* Counting UEs.                                                            *)

LEMMA CountType == N \in Nat /\ (Rntis # {} => N >= 1)
BY PoliciesAssumption, FS_CardinalityType, FS_EmptySet DEF N

\* The UEs other than r are fewer than all.
LEMMA CountOthers ==
  ASSUME NEW A \in SUBSET Rntis, NEW r \in Rntis, r \notin A
  PROVE  Cardinality(A) \in Nat /\ Cardinality(A) <= N - 1
<1>1. IsFiniteSet(A) /\ IsFiniteSet(Rntis) /\ Cardinality(A) \in Nat
  BY PoliciesAssumption, FS_Subset, FS_CardinalityType
<1>2. A \cup {r} \in SUBSET Rntis /\ Cardinality(A \cup {r}) = Cardinality(A) + 1
  BY <1>1, FS_AddElement
<1>3. Cardinality(A \cup {r}) <= N
  BY <1>1, <1>2, FS_Subset DEF N
<1> QED BY <1>1, <1>2, <1>3, CountType

LEMMA CountMore ==
  ASSUME NEW B \in SUBSET Rntis, NEW A \in SUBSET B
  PROVE  /\ Cardinality(A) \in Nat /\ Cardinality(B) \in Nat /\ Cardinality(A) <= Cardinality(B)
         /\ \A o \in B \ A : Cardinality(A) + 1 <= Cardinality(B)
<1>1. IsFiniteSet(A) /\ IsFiniteSet(B) /\ Cardinality(A) \in Nat /\ Cardinality(B) \in Nat
  BY PoliciesAssumption, FS_Subset, FS_CardinalityType
<1>2. Cardinality(A) <= Cardinality(B)
  BY <1>1, FS_Subset
<1>3. ASSUME NEW o \in B \ A PROVE Cardinality(A) + 1 <= Cardinality(B)
  <2>1. A \cup {o} \in SUBSET B /\ Cardinality(A \cup {o}) = Cardinality(A) + 1
    BY <1>1, FS_AddElement
  <2> QED BY <1>1, <2>1, FS_Subset
<1> QED BY <1>1, <1>2, <1>3

-----------------------------------------------------------------------------
(* Turns under RoundRobin.                                                  *)

StampsGood(stamps) == DOMAIN stamps \subseteq Rntis /\ \A o \in DOMAIN stamps : stamps[o] \in Stamps

\* last_scheduled_ after the UEs of S have been served.
Stamped(stamps, S, cur) == [o \in DOMAIN stamps \cup S |-> IF o \in S THEN cur ELSE stamps[o]]

\* o, which won, does not stand behind r, which lost.
Beaten(o, r, stamps, cur) ==
  o \in DOMAIN stamps =>
    IF r \in DOMAIN stamps
      THEN Age(cur, stamps[r]) <= Age(cur, stamps[o])
      ELSE stamps[o] <= cur => cur - stamps[o] >= NEVER

\* Ages grow by one with each slot and start again after a cycle.
LEMMA AgeGrows ==
  ASSUME NEW cur \in Stamps, NEW last \in Stamps
  PROVE  /\ Age(cur, last) \in 0..(CycleLength - 1)
         /\ Age(NextSlot(cur), last) = IF Age(cur, last) = CycleLength - 1 THEN 0 ELSE Age(cur, last) + 1
         /\ NextSlot(cur) \in Stamps
<1>1. /\ CycleLength \in Nat \ {0} /\ cur \in Nat /\ cur < CycleLength
      /\ last \in Nat /\ last < CycleLength
  BY CycleType DEF Stamps
<1>2. Age(cur, last) = IF last <= cur THEN cur - last ELSE (cur - last) + CycleLength
  BY DEF Age
<1>3. CASE cur + 1 = CycleLength
  <2>1. NextSlot(cur) = 0 /\ Age(0, last) = IF last <= 0 THEN 0 - last ELSE (0 - last) + CycleLength
    BY <1>3 DEF NextSlot, Age
  <2> QED BY <1>1, <1>2, <1>3, <2>1 DEF Stamps
<1>4. CASE cur + 1 # CycleLength
  <2>1. NextSlot(cur) = cur + 1
        /\ Age(cur + 1, last) = IF last <= cur + 1 THEN (cur + 1) - last ELSE ((cur + 1) - last) + CycleLength
    BY <1>4 DEF NextSlot, Age
  <2> QED BY <1>1, <1>2, <1>4, <2>1 DEF Stamps
<1> QED BY <1>3, <1>4

LEMMA LaterType ==
  ASSUME NEW stamps, StampsGood(stamps), NEW r \in Rntis, NEW cur, NEW w, NEW at
  PROVE  /\ Later(r, stamps, cur) \in SUBSET Rntis /\ r \notin Later(r, stamps, cur)
         /\ Cardinality(Later(r, stamps, cur)) \in 0..(N - 1)
         /\ Recently(r, w, stamps, cur, at) \in SUBSET Rntis
         /\ r \notin Recently(r, w, stamps, cur, at)
         /\ Cardinality(Recently(r, w, stamps, cur, at)) \in 0..(N - 1)
<1> DEFINE later == Later(r, stamps, cur)
           recent == Recently(r, w, stamps, cur, at)
<1>1. /\ later \in SUBSET Rntis /\ r \notin later
      /\ recent \in SUBSET Rntis /\ r \notin recent
  BY DEF StampsGood, Later, Recently
<1> HIDE DEF later, recent
<1>2. /\ Cardinality(later) \in Nat /\ Cardinality(later) <= N - 1
      /\ Cardinality(recent) \in Nat /\ Cardinality(recent) <= N - 1 /\ N \in Nat
  BY <1>1, CountOthers, CountType
<1>3. Cardinality(later) \in 0..(N - 1) /\ Cardinality(recent) \in 0..(N - 1)
  BY <1>2
<1> QED BY <1>1, <1>3 DEF later, recent

\* Whoever has its turn has waited less than two turns of all.
LEMMA TurnBound ==
  ASSUME NEW stamps, StampsGood(stamps), NEW r \in Rntis, NEW cur, NEW w \in Nat, NEW at,
         Turn(r, w, stamps, cur, at)
  PROVE  w < 2 * N
<1>1. N \in Nat /\ N >= 1
  BY CountType
<1>2. CASE r \in DOMAIN stamps
  <2> DEFINE behind == Cardinality(Later(r, stamps, cur))
             extra == IF Age(cur, stamps[r]) = 0 /\ at = 1 THEN 1 ELSE 0
  <2>1. behind \in 0..(N - 1)
    BY LaterType
  <2>2. w <= behind \/ w + extra <= N + behind
    BY <1>2 DEF Turn, Known
  <2>3. extra \in {0, 1}
    OBVIOUS
  <2> HIDE DEF behind, extra
  <2> QED BY <1>1, <2>1, <2>2, <2>3
<1>3. CASE r \notin DOMAIN stamps
  <2> DEFINE recent == Cardinality(Recently(r, w, stamps, cur, at))
  <2>1. recent \in 0..(N - 1)
    BY LaterType
  <2>2. w <= recent \/ w <= (N - 1) + recent
    BY <1>3 DEF Turn, Unknown
  <2> HIDE DEF recent
  <2> QED BY <1>1, <2>1, <2>2
<1> QED BY <1>2, <1>3

\* Who has not waited has its turn.
LEMMA TurnZero ==
  ASSUME NEW stamps, StampsGood(stamps), NEW r \in Rntis, NEW cur, NEW at
  PROVE  Turn(r, 0, stamps, cur, at)
<1>1. /\ 0 <= Cardinality(Later(r, stamps, cur))
      /\ 0 <= Cardinality(Recently(r, 0, stamps, cur, at))
  <2>1. /\ Cardinality(Later(r, stamps, cur)) \in 0..(N - 1)
        /\ Cardinality(Recently(r, 0, stamps, cur, at)) \in 0..(N - 1)
    BY LaterType
  <2> QED BY <2>1, CountType
<1> QED BY <1>1 DEF Turn, Known, Unknown

\* A slot begins (RoundRobinPolicy::on_slot_start).  The ages of the UEs grow alike; if
\* the one of r starts again, r has waited for fewer slots than there are other UEs.
LEMMA TickKnown ==
  ASSUME FewUes, NEW stamps, StampsGood(stamps), NEW r \in Rntis, r \in DOMAIN stamps,
         NEW cur \in Stamps, NEW w \in Nat, Turn(r, w, stamps, cur, 0)
  PROVE  Turn(r, w, stamps, NextSlot(cur), 1)
<1> DEFINE next == NextSlot(cur)
           age == Age(cur, stamps[r])
           newage == Age(next, stamps[r])
           before == Later(r, stamps, cur)
           after == Later(r, stamps, next)
           b == Cardinality(before)
           a == Cardinality(after)
<1>1. w < 2 * N /\ N \in Nat /\ N >= 1 /\ 2 * N <= CycleLength /\ CycleLength \in Nat \ {0}
  BY TurnBound, CountType, CycleType DEF FewUes
<1>2. /\ age \in 0..(CycleLength - 1)
      /\ newage = IF age = CycleLength - 1 THEN 0 ELSE age + 1
  BY AgeGrows DEF StampsGood
<1>3. b \in 0..(N - 1) /\ a \in 0..(N - 1)
  BY LaterType
<1>4. w <= b \/ (age < w + 0 /\ w + 0 <= N + b)
  <2>1. Known(r, w, stamps, cur, 0)
    BY DEF Turn
  <2> QED BY <2>1 DEF Known
<1> DEFINE extra == IF newage = 0 THEN 1 ELSE 0
<1>5. SUFFICES w <= a \/ (newage < w + 1 /\ w + extra <= N + a)
  BY DEF Turn, Known
<1>6. CASE age = CycleLength - 1
  <2> HIDE DEF a, b, age, newage
  <2>1. newage = 0 /\ w <= b /\ extra = 1
    BY <1>1, <1>2, <1>4, <1>6
  <2> QED BY <1>1, <1>3, <2>1
<1>7. CASE age # CycleLength - 1
  <2>1. before \subseteq after
    <3> SUFFICES ASSUME NEW o \in before PROVE o \in after
      OBVIOUS
    <3>1. o \in DOMAIN stamps \ {r} /\ Age(cur, stamps[o]) < age /\ stamps[o] \in Stamps
      BY DEF Later, StampsGood
    <3>2. /\ Age(cur, stamps[o]) \in 0..(CycleLength - 1)
          /\ Age(next, stamps[o]) = IF Age(cur, stamps[o]) = CycleLength - 1
                                      THEN 0 ELSE Age(cur, stamps[o]) + 1
      BY <3>1, AgeGrows
    <3> HIDE DEF age, newage, next
    <3>3. Age(next, stamps[o]) < newage
      BY <1>1, <1>2, <1>7, <3>1, <3>2
    <3> QED BY <3>1, <3>3 DEF Later, newage
  <2>2. b <= a
    <3>1. after \in SUBSET Rntis
      BY LaterType
    <3> HIDE DEF before, after
    <3> QED BY <2>1, <3>1, CountMore
  <2> HIDE DEF a, b, age, newage
  <2>3. newage = age + 1 /\ extra = 0
    BY <1>2, <1>7
  <2> QED BY <1>1, <1>2, <1>3, <1>4, <2>2, <2>3
<1> QED BY <1>6, <1>7

\* The same of a UE never served: the slot numbers may start again, once.
LEMMA TickUnknown ==
  ASSUME FewUes, NEW stamps, StampsGood(stamps), NEW r \in Rntis, r \notin DOMAIN stamps,
         NEW cur \in Stamps, NEW w \in Nat, Turn(r, w, stamps, cur, 0)
  PROVE  Turn(r, w, stamps, NextSlot(cur), 1)
<1> DEFINE next == NextSlot(cur)
           before == Recently(r, w, stamps, cur, 0)
           after == Recently(r, w, stamps, next, 1)
           b == Cardinality(before)
           a == Cardinality(after)
<1>1. w < 2 * N /\ N \in Nat /\ N >= 1 /\ 2 * N <= CycleLength /\ CycleLength \in Nat \ {0}
  BY TurnBound, CountType, CycleType DEF FewUes
<1>2. b \in 0..(N - 1) /\ a \in 0..(N - 1)
  BY LaterType
<1>3. cur \in Nat /\ cur < CycleLength /\ next = IF cur + 1 = CycleLength THEN 0 ELSE cur + 1
  BY <1>1 DEF NextSlot, Stamps
<1>4. w <= b \/ (cur < w + 0 /\ w <= (N - 1) + b)
  <2>1. Unknown(r, w, stamps, cur, 0)
    BY DEF Turn
  <2> QED BY <2>1 DEF Unknown
<1>5. SUFFICES w <= a \/ (next < w + 1 /\ w <= (N - 1) + a)
  BY DEF Turn, Unknown
<1>6. CASE cur + 1 = CycleLength
  <2> HIDE DEF a, b, next
  <2>1. next = 0 /\ w <= b
    BY <1>1, <1>3, <1>4, <1>6
  <2> QED BY <1>1, <1>2, <2>1
<1>7. CASE cur + 1 # CycleLength
  <2>1. before \subseteq after
    <3> SUFFICES ASSUME NEW o \in before PROVE o \in after
      OBVIOUS
    <3>1. o \in DOMAIN stamps \ {r} /\ stamps[o] \in Nat
          /\ stamps[o] <= cur /\ cur - stamps[o] < w + 0
      BY DEF Recently, StampsGood, Stamps
    <3> HIDE DEF next
    <3>2. stamps[o] <= next /\ next - stamps[o] < w + 1
      BY <1>3, <1>7, <3>1
    <3> QED BY <3>1, <3>2 DEF Recently
  <2>2. b <= a
    <3>1. after \in SUBSET Rntis
      BY LaterType
    <3> HIDE DEF before, after
    <3> QED BY <2>1, <3>1, CountMore
  <2> HIDE DEF a, b, next
  <2> QED BY <1>1, <1>2, <1>3, <1>4, <1>7, <2>2
<1> QED BY <1>6, <1>7

\* UEs of which none stood behind r are served (RoundRobinPolicy::update_history): now
\* they do.
LEMMA ServeKnown ==
  ASSUME NEW stamps, StampsGood(stamps), NEW S \in SUBSET Rntis, S # {},
         NEW r \in Rntis \ S, r \in DOMAIN stamps, NEW cur \in Stamps, NEW w \in Nat,
         \A o \in S : Beaten(o, r, stamps, cur), Turn(r, w, stamps, cur, 1)
  PROVE  Turn(r, w + 1, Stamped(stamps, S, cur), cur, 0)
<1> DEFINE new == Stamped(stamps, S, cur)
           age == Age(cur, stamps[r])
           before == Later(r, stamps, cur)
           after == Later(r, new, cur)
           b == Cardinality(before)
           a == Cardinality(after)
           extra == IF age = 0 THEN 1 ELSE 0
<1>1. /\ DOMAIN new = DOMAIN stamps \cup S /\ new[r] = stamps[r] /\ StampsGood(new)
      /\ \A o \in S : new[o] = cur
      /\ \A o \in DOMAIN stamps \ S : new[o] = stamps[o]
  BY DEF Stamped, StampsGood
<1>2. age \in 0..(CycleLength - 1) /\ Age(cur, cur) = 0
  <2>1. age \in 0..(CycleLength - 1)
    BY AgeGrows DEF StampsGood
  <2>2. Age(cur, cur) = 0
    BY CycleType DEF Age, Stamps
  <2> QED BY <2>1, <2>2
<1> HIDE DEF new
<1>3. b \in 0..(N - 1) /\ a \in 0..(N - 1) /\ N \in Nat /\ N >= 1
  BY <1>1, LaterType, CountType
<1>4. w <= b \/ (age < w + 1 /\ w + extra <= N + b)
  <2>1. Known(r, w, stamps, cur, 1)
    BY DEF Turn
  <2> QED BY <2>1 DEF Known
<1>5. SUFFICES w + 1 <= a \/ (age < (w + 1) + 0 /\ (w + 1) + 0 <= N + a)
  BY <1>1 DEF Turn, Known, new
<1>6. CASE age = 0
  <2>1. before = {}
    <3>1. ASSUME NEW o \in before PROVE FALSE
      <4>1. o \in DOMAIN stamps /\ Age(cur, stamps[o]) < age /\ stamps[o] \in Stamps
        BY DEF Later, StampsGood
      <4>2. Age(cur, stamps[o]) \in 0..(CycleLength - 1)
        BY <4>1, AgeGrows
      <4> QED BY <1>6, <4>1, <4>2, CycleType
    <3> QED BY <3>1
  <2>2. b = 0
    BY <2>1, FS_EmptySet
  <2> HIDE DEF a, b, age
  <2> QED BY <1>3, <1>4, <1>6, <2>2
<1>7. CASE age # 0
  <2>1. /\ \A o \in S : o \in after
        /\ \A o \in S : o \notin before
    <3> SUFFICES ASSUME NEW o \in S PROVE o \in after /\ o \notin before
      OBVIOUS
    <3>1. o \in DOMAIN new \ {r} /\ Age(cur, new[o]) = 0
      BY <1>1, <1>2
    <3>2. o \in after
      <4>1. 0 < age
        <5> HIDE DEF age
        <5> QED BY <1>2, <1>7
      <4> QED BY <1>1, <3>1, <4>1 DEF Later
    <3>3. o \notin before
      <4> SUFFICES ASSUME o \in before PROVE FALSE
        OBVIOUS
      <4>1. o \in DOMAIN stamps /\ Age(cur, stamps[o]) < age /\ stamps[o] \in Stamps
        BY DEF Later, StampsGood
      <4>2. Age(cur, stamps[o]) \in 0..(CycleLength - 1)
        BY <4>1, AgeGrows
      <4>3. age <= Age(cur, stamps[o])
        BY <4>1 DEF Beaten
      <4> HIDE DEF age
      <4> QED BY <1>2, <4>1, <4>2, <4>3, CycleType
    <3> QED BY <3>2, <3>3
  <2>2. before \subseteq after
    <3> SUFFICES ASSUME NEW o \in before, o \notin S PROVE o \in after
      BY <2>1
    <3>1. o \in DOMAIN stamps \ {r} /\ Age(cur, stamps[o]) < age
      BY DEF Later
    <3> QED BY <1>1, <3>1 DEF Later
  <2>3. PICK o \in S : TRUE
    OBVIOUS
  <2>4. b + 1 <= a
    <3>1. after \in SUBSET Rntis
      BY <1>1, LaterType
    <3>2. before \in SUBSET after /\ o \in after \ before
      BY <2>1, <2>2
    <3> HIDE DEF before, after
    <3> QED BY <3>1, <3>2, CountMore
  <2> HIDE DEF a, b, age
  <2> QED BY <1>2, <1>3, <1>4, <1>7, <2>4, CycleType
<1> QED BY <1>6, <1>7

\* The same when r was never served.
LEMMA ServeUnknown ==
  ASSUME FewUes, NEW stamps, StampsGood(stamps), NEW S \in SUBSET Rntis, S # {},
         NEW r \in Rntis \ S, r \notin DOMAIN stamps, NEW cur \in Stamps, NEW w \in Nat,
         \A o \in S : Beaten(o, r, stamps, cur), Turn(r, w, stamps, cur, 1)
  PROVE  Turn(r, w + 1, Stamped(stamps, S, cur), cur, 0)
<1> DEFINE new == Stamped(stamps, S, cur)
           before == Recently(r, w, stamps, cur, 1)
           after == Recently(r, w + 1, new, cur, 0)
           b == Cardinality(before)
           a == Cardinality(after)
<1>1. /\ DOMAIN new = DOMAIN stamps \cup S /\ r \notin DOMAIN new /\ StampsGood(new)
      /\ \A o \in S : new[o] = cur
      /\ \A o \in DOMAIN stamps \ S : new[o] = stamps[o]
  BY DEF Stamped, StampsGood
<1>2. /\ w < 2 * N /\ N \in Nat /\ N >= 1 /\ 2 * N <= NEVER /\ NEVER \in Nat
      /\ cur \in Nat
  BY TurnBound, CountType, CycleType DEF FewUes, Stamps
<1> HIDE DEF new
<1>3. b \in 0..(N - 1) /\ a \in 0..(N - 1)
  BY <1>1, LaterType
<1>4. w <= b \/ (cur < w + 1 /\ w <= (N - 1) + b)
  <2>1. Unknown(r, w, stamps, cur, 1)
    BY DEF Turn
  <2> QED BY <2>1 DEF Unknown
<1>5. SUFFICES w + 1 <= a \/ (cur < (w + 1) + 0 /\ w + 1 <= (N - 1) + a)
  BY <1>1 DEF Turn, Unknown, new
<1>6. ASSUME NEW o \in S PROVE o \in after /\ o \notin before
  <2>1. o \in DOMAIN new \ {r} /\ new[o] = cur
    BY <1>1
  <2>2. cur <= cur /\ cur - cur < (w + 1) + 0
    BY <1>2
  <2>3. o \in after
    BY <2>1, <2>2 DEF Recently
  <2>4. ASSUME o \in before PROVE FALSE
    <3>1. o \in DOMAIN stamps /\ stamps[o] <= cur /\ cur - stamps[o] < w + 1 /\ stamps[o] \in Nat
      BY <2>4 DEF Recently, StampsGood, Stamps
    <3>2. cur - stamps[o] >= NEVER
      BY <3>1 DEF Beaten
    <3> QED BY <1>2, <3>1, <3>2
  <2> QED BY <2>3, <2>4
<1>7. before \subseteq after
  <2> SUFFICES ASSUME NEW o \in before, o \notin S PROVE o \in after
    BY <1>6
  <2>1. o \in DOMAIN stamps \ {r} /\ stamps[o] <= cur /\ cur - stamps[o] < w + 1 /\ stamps[o] \in Nat
    BY DEF Recently, StampsGood, Stamps
  <2>2. cur - stamps[o] < (w + 1) + 0
    BY <1>2, <2>1
  <2> QED BY <1>1, <2>1, <2>2 DEF Recently
<1>8. b + 1 <= a
  <2>1. PICK o \in S : TRUE
    OBVIOUS
  <2>2. after \in SUBSET Rntis
    BY <1>1, LaterType
  <2>3. before \in SUBSET after /\ o \in after \ before
    BY <1>6, <1>7
  <2> HIDE DEF before, after
  <2> QED BY <2>2, <2>3, CountMore
<1> HIDE DEF a, b
<1> QED BY <1>2, <1>3, <1>4, <1>8

\* The difference of the slot numbers as words orders UEs like their ages
\* (RoundRobinPolicy::calculate_priority).
LEMMA SinceOrder ==
  ASSUME NEW cur \in Stamps, NEW a \in Stamps, NEW b \in Stamps
  PROVE  /\ (cur - a) % WORD \in Nat
         /\ a <= cur => (cur - a) % WORD = cur - a
         /\ (cur - a) % WORD <= (cur - b) % WORD => Age(cur, a) <= Age(cur, b)
         /\ (cur - a) % WORD <= 0 => Age(cur, a) = 0
<1> DEFINE since(x) == (cur - x) % WORD
<1>1. /\ WORD \in Nat \ {0} /\ CycleLength \in Nat /\ CycleLength < WORD
      /\ cur \in Nat /\ a \in Nat /\ b \in Nat
      /\ cur < CycleLength /\ a < CycleLength /\ b < CycleLength
  BY CycleType DEF Stamps
<1>2. cur \in 0..(WORD - 1) /\ a \in 0..(WORD - 1) /\ b \in 0..(WORD - 1)
  BY <1>1
<1>3. (a <= cur => since(a) = cur - a) /\ (a > cur => since(a) = (cur - a) + WORD)
  BY <1>1, <1>2, ModDifference
<1>4. (b <= cur => since(b) = cur - b) /\ (b > cur => since(b) = (cur - b) + WORD)
  BY <1>1, <1>2, ModDifference
<1> HIDE DEF since
<1>5. since(a) \in Nat /\ (a <= cur => since(a) = cur - a)
      /\ (since(a) <= since(b) => Age(cur, a) <= Age(cur, b))
      /\ (since(a) <= 0 => Age(cur, a) = 0)
  BY <1>1, <1>3, <1>4 DEF Age
<1> QED BY <1>5 DEF since

\* None of those the loop serves stands behind a UE with data that it leaves out.
LEMMA RoundRobinWinners ==
  ASSUME FewUes, TypeOK, strategy = "RoundRobin", NEW d \in DirectionNames, NEW S \in Winners(d),
         NEW r \in Rntis \ S, demand[d][r] = "data", NEW o \in S
  PROVE  Beaten(o, r, last_scheduled, current_slot)
<1>1. r \in Eligible(d) \ S /\ ~Above(calculate_priority(r, d), calculate_priority(o, d))
  BY DEF Winners, Eligible
<1>2. calculate_priority(r, d) = RoundRobin(r)
  BY DEF calculate_priority
<1>3. calculate_priority(o, d) = <<0, 1>> \/ calculate_priority(o, d) = RoundRobin(o)
  BY DEF calculate_priority
<1>4. /\ current_slot \in Stamps
      /\ \A x \in DOMAIN last_scheduled : last_scheduled[x] \in Stamps
  BY DEF TypeOK, Stamps, CycleLength
<1>5. NEVER \in Nat /\ NEVER >= 1 /\ \A x \in DOMAIN last_scheduled : SlotsSince(last_scheduled[x]) \in Nat
  <2>1. NEVER \in Nat /\ NEVER >= 1
    BY CountType, CycleType DEF FewUes
  <2>2. \A x \in DOMAIN last_scheduled : SlotsSince(last_scheduled[x]) \in Nat
    BY <1>4, SinceOrder DEF SlotsSince
  <2> QED BY <2>1, <2>2
<1> DEFINE p(x) == IF x \in DOMAIN last_scheduled THEN SlotsSince(last_scheduled[x]) ELSE NEVER
<1>6. /\ RoundRobin(r) = <<p(r), 1>> /\ RoundRobin(o) = <<p(o), 1>>
      /\ p(r) \in Nat /\ p(o) \in Nat
  BY <1>5 DEF RoundRobin
<1> HIDE DEF p
<1>7. p(r) <= p(o) \/ p(r) <= 0
  <2>1. CASE calculate_priority(o, d) = <<0, 1>>
    <3>1. ~(p(r) * 1 > 0 * 1)
      BY <1>1, <1>2, <1>6, <2>1 DEF Above
    <3> QED BY <1>6, <3>1
  <2>2. CASE calculate_priority(o, d) = RoundRobin(o)
    <3>1. ~(p(r) * 1 > p(o) * 1)
      BY <1>1, <1>2, <1>6, <2>2 DEF Above
    <3> QED BY <1>6, <3>1
  <2> QED BY <1>3, <2>1, <2>2
<1>8. SUFFICES ASSUME o \in DOMAIN last_scheduled
               PROVE  IF r \in DOMAIN last_scheduled
                        THEN Age(current_slot, last_scheduled[r]) <= Age(current_slot, last_scheduled[o])
                        ELSE last_scheduled[o] <= current_slot
                               => current_slot - last_scheduled[o] >= NEVER
  BY DEF Beaten
<1>9. p(o) = SlotsSince(last_scheduled[o])
  BY <1>8 DEF p
<1>10. CASE r \in DOMAIN last_scheduled
  <2>1. p(r) = SlotsSince(last_scheduled[r])
    BY <1>10 DEF p
  <2> DEFINE mine == Age(current_slot, last_scheduled[r])
             other == Age(current_slot, last_scheduled[o])
  <2>2. mine <= other \/ mine = 0
    BY <1>4, <1>7, <1>8, <1>9, <1>10, <2>1, SinceOrder DEF SlotsSince
  <2>3. other \in 0..(CycleLength - 1)
    BY <1>4, <1>8, AgeGrows
  <2> HIDE DEF mine, other
  <2>4. mine <= other
    BY <2>2, <2>3, CycleType
  <2> QED BY <1>10, <2>4 DEF mine, other
<1>11. CASE r \notin DOMAIN last_scheduled
  <2>1. p(r) = NEVER
    BY <1>11 DEF p
  <2>2. p(o) >= NEVER
    BY <1>5, <1>6, <1>7, <2>1
  <2>3. last_scheduled[o] <= current_slot => p(o) = current_slot - last_scheduled[o]
    BY <1>4, <1>8, <1>9, SinceOrder DEF SlotsSince
  <2> QED BY <1>11, <2>2, <2>3
<1> QED BY <1>10, <1>11

-----------------------------------------------------------------------------
(* Turns under ProportionalFair.                                            *)

HistoriesGood(histories, at) ==
  DOMAIN histories \subseteq Rntis /\ \A o \in DOMAIN histories : HistoryGood(histories[o], at)

LEMMA SamplingType ==
  ASSUME NEW histories, DOMAIN histories \subseteq Rntis, NEW r \in Rntis, NEW w, NEW at
  PROVE  /\ Sampling(r, w, histories, at) \in SUBSET Rntis
         /\ Averaged(r, w, histories, at) \in SUBSET Sampling(r, w, histories, at)
         /\ Cardinality(Sampling(r, w, histories, at)) \in 0..(N - 1)
         /\ Cardinality(Averaged(r, w, histories, at)) \in 0..(N - 1)
<1> DEFINE recent == Sampling(r, w, histories, at)
           averaged == Averaged(r, w, histories, at)
<1>1. recent \in SUBSET Rntis /\ r \notin recent /\ averaged \in SUBSET recent
  BY DEF Sampling, Averaged
<1> HIDE DEF recent, averaged
<1>2. averaged \in SUBSET Rntis /\ r \notin averaged
  BY <1>1
<1>3. /\ Cardinality(recent) \in Nat /\ Cardinality(recent) <= N - 1
      /\ Cardinality(averaged) \in Nat /\ Cardinality(averaged) <= N - 1 /\ N \in Nat
  BY <1>1, <1>2, CountOthers, CountType
<1>4. Cardinality(recent) \in 0..(N - 1) /\ Cardinality(averaged) \in 0..(N - 1)
  BY <1>3
<1> QED BY <1>1, <1>4 DEF recent, averaged

LEMMA NewTurnBound ==
  ASSUME NEW histories, DOMAIN histories \subseteq Rntis, NEW r \in Rntis, NEW w \in Nat, NEW at
  PROVE  /\ NewTurn(r, w, histories, at) => w < 2 * N
         /\ NewTurn(r, 0, histories, at)
<1>1. N \in Nat /\ N >= 1
  BY CountType
<1>2. ASSUME NewTurn(r, w, histories, at) PROVE w < 2 * N
  <2> DEFINE a == Cardinality(Sampling(r, w, histories, at))
             b == Cardinality(Averaged(r, w, histories, at))
  <2>1. a \in 0..(N - 1) /\ b \in 0..(N - 1)
    BY SamplingType
  <2>2. w <= a + b
    BY <1>2 DEF NewTurn
  <2> HIDE DEF a, b
  <2> QED BY <1>1, <2>1, <2>2
<1>3. NewTurn(r, 0, histories, at)
  <2> DEFINE a == Cardinality(Sampling(r, 0, histories, at))
             b == Cardinality(Averaged(r, 0, histories, at))
  <2>1. a \in 0..(N - 1) /\ b \in 0..(N - 1)
    BY SamplingType
  <2> HIDE DEF a, b
  <2>2. 0 <= a + b
    BY <1>1, <2>1
  <2> QED BY <2>2 DEF NewTurn, a, b
<1> QED BY <1>2, <1>3

\* More samples and averages leave a UE its turn.
LEMMA NewTurnKept ==
  ASSUME NEW h, DOMAIN h \subseteq Rntis, NEW g, DOMAIN g \subseteq Rntis, NEW r \in Rntis,
         NEW w \in Nat, NEW v \in Nat, NEW at \in Nat, NEW to \in Nat,
         Sampling(r, w, h, at) \subseteq Sampling(r, v, g, to),
         Averaged(r, w, h, at) \subseteq Averaged(r, v, g, to),
         NewTurn(r, w, h, at),
         v <= w \/ (v <= w + 1 /\ (\/ \E o \in Sampling(r, v, g, to) : o \notin Sampling(r, w, h, at)
                                   \/ \E o \in Averaged(r, v, g, to) : o \notin Averaged(r, w, h, at)))
  PROVE  NewTurn(r, v, g, to)
<1> DEFINE A == Sampling(r, w, h, at)
           B == Averaged(r, w, h, at)
           C == Sampling(r, v, g, to)
           D == Averaged(r, v, g, to)
<1>1. C \in SUBSET Rntis /\ D \in SUBSET C
  BY SamplingType
<1>2. A \in SUBSET C /\ B \in SUBSET D /\ D \in SUBSET Rntis
  BY <1>1
<1>3. w <= Cardinality(A) + Cardinality(B)
  BY DEF NewTurn
<1>4. v <= w \/ (v <= w + 1 /\ ((\E o \in C : o \notin A) \/ (\E o \in D : o \notin B)))
  OBVIOUS
<1> HIDE DEF A, B, C, D
<1>5. /\ Cardinality(A) \in Nat /\ Cardinality(C) \in Nat /\ Cardinality(A) <= Cardinality(C)
      /\ (\E o \in C : o \notin A) => Cardinality(A) + 1 <= Cardinality(C)
  BY <1>1, <1>2, CountMore
<1>6. /\ Cardinality(B) \in Nat /\ Cardinality(D) \in Nat /\ Cardinality(B) <= Cardinality(D)
      /\ (\E o \in D : o \notin B) => Cardinality(B) + 1 <= Cardinality(D)
  BY <1>1, <1>2, CountMore
<1>7. v <= Cardinality(C) + Cardinality(D)
  BY <1>3, <1>4, <1>5, <1>6
<1> QED BY <1>7 DEF NewTurn, C, D

\* The newest sample is an age.
LEMMA NewestType ==
  ASSUME NEW history, NEW at, HistoryGood(history, at)
  PROVE  /\ Len(history.ages) \in DOMAIN history.ages
         /\ Newest(history.ages) \in Nat
         /\ at = 1 => Newest(history.ages) >= 1
<1>1. history.ages \in Seq(Ages) /\ history.ages # <<>> /\ WINDOW \in Nat
  BY CycleType DEF HistoryGood
<1> DEFINE ages == history.ages
           n == Len(ages)
<1>2. n \in Nat \ {0} /\ DOMAIN ages = 1..n /\ \A i \in 1..n : ages[i] \in Ages
  BY <1>1, LenProperties, ElementOfSeq, EmptySeq
<1>3. n \in DOMAIN ages /\ ages[n] \in Nat
  <2> HIDE DEF n
  <2>1. n \in 1..n
    BY <1>2
  <2> QED BY <1>2, <2>1 DEF Ages
<1>4. at = 1 => ages[n] >= 1
  BY <1>3 DEF HistoryGood
<1> QED BY <1>3, <1>4 DEF Newest

\* A slot passes: every sample is one slot older at most.
LEMMA TickNew ==
  ASSUME PolicyInv, on_slot_start, NEW r \in Rntis, NEW w \in Nat, NewTurn(r, w, rate_history, 0)
  PROVE  NewTurn(r, w, rate_history', 1)
<1>1. /\ step = 0 /\ DOMAIN rate_history' = DOMAIN rate_history /\ DOMAIN rate_history \subseteq Rntis
  BY DEF on_slot_start, PolicyInv, TypeOK
<1>2. ASSUME NEW o \in DOMAIN rate_history
      PROVE  /\ rate_history'[o].cached_avg_rate = rate_history[o].cached_avg_rate
             /\ Newest(rate_history[o].ages) \in Nat /\ Newest(rate_history'[o].ages) \in Nat
             /\ Newest(rate_history'[o].ages) <= Newest(rate_history[o].ages) + 1
  <2> DEFINE old == rate_history[o].ages
             new == [i \in DOMAIN old |-> Lesser(old[i] + 1, WINDOW + 1)]
  <2>1. HistoryGood(rate_history[o], 0)
    BY <1>1 DEF PolicyInv
  <2>2. rate_history'[o] = [rate_history[o] EXCEPT !.ages = new]
    BY DEF on_slot_start
  <2>3. /\ rate_history[o] \in [ages : Seq(Ages), cached_avg_rate : Averages]
        /\ old \in Seq(Ages) /\ old # <<>>
    BY <2>1 DEF HistoryGood
  <2>4. Len(old) \in DOMAIN old /\ Newest(old) \in Nat /\ WINDOW \in Nat
    BY <2>1, NewestType, CycleType
  <2>5. DOMAIN old = 1..Len(old) /\ Len(old) \in Nat
    BY <2>3, LenProperties
  <2> HIDE DEF old
  <2>6. DOMAIN new = 1..Len(old) /\ new[Len(old)] = Lesser(Newest(old) + 1, WINDOW + 1)
    BY <2>4, <2>5 DEF Newest
  <2>7. new \in [1..Len(old) -> Int]
    <3>1. \A i \in 1..Len(old) : old[i] \in Ages
      BY <2>3, ElementOfSeq
    <3> QED BY <2>4, <2>5, <3>1 DEF Lesser, Ages
  <2>8. Len(new) = Len(old)
    <3>1. new \in Seq(Int)
      BY <2>5, <2>7, SeqDef
    <3> HIDE DEF new
    <3> QED BY <2>5, <2>6, <3>1, LenProperties
  <2> HIDE DEF new
  <2>9. Newest(new) = Lesser(Newest(old) + 1, WINDOW + 1)
    BY <2>6, <2>8 DEF Newest
  <2>10. Newest(new) \in Nat /\ Newest(new) <= Newest(old) + 1
    BY <2>4, <2>9 DEF Lesser
  <2>11. rate_history'[o].ages = new
         /\ rate_history'[o].cached_avg_rate = rate_history[o].cached_avg_rate
    BY <2>2, <2>3
  <2> QED BY <2>4, <2>10, <2>11 DEF old
<1>3. /\ Sampling(r, w, rate_history, 0) \subseteq Sampling(r, w, rate_history', 1)
      /\ Averaged(r, w, rate_history, 0) \subseteq Averaged(r, w, rate_history', 1)
  <2>1. ASSUME NEW o \in Sampling(r, w, rate_history, 0)
        PROVE  o \in Sampling(r, w, rate_history', 1)
    <3>1. o \in DOMAIN rate_history \ {r} /\ Newest(rate_history[o].ages) < w + 0
      BY DEF Sampling
    <3>2. Newest(rate_history'[o].ages) < w + 1
      BY <1>2, <3>1
    <3> QED BY <1>1, <3>1, <3>2 DEF Sampling
  <2>2. ASSUME NEW o \in Averaged(r, w, rate_history, 0)
        PROVE  o \in Averaged(r, w, rate_history', 1)
    <3>1. /\ o \in Sampling(r, w, rate_history, 0) /\ o \in DOMAIN rate_history
          /\ rate_history[o].cached_avg_rate # <<0, 1>>
      BY DEF Averaged, Sampling
    <3> QED BY <1>2, <2>1, <3>1 DEF Averaged
  <2> QED BY <2>1, <2>2
<1> DEFINE h == rate_history
           g == rate_history'
<1>4. /\ DOMAIN h \subseteq Rntis /\ DOMAIN g \subseteq Rntis /\ 0 \in Nat /\ 1 \in Nat /\ w <= w
      /\ Sampling(r, w, h, 0) \subseteq Sampling(r, w, g, 1)
      /\ Averaged(r, w, h, 0) \subseteq Averaged(r, w, g, 1)
      /\ NewTurn(r, w, h, 0)
  BY <1>1, <1>3
<1> HIDE DEF h, g
<1>5. NewTurn(r, w, g, 1)
  BY <1>4, NewTurnKept
<1> QED BY <1>5 DEF g

\* While a UE without an average is left out, only such UEs are served.
LEMMA ProportionalFairWinners ==
  ASSUME PolicyInv, strategy # "RoundRobin", NEW d \in DirectionNames, NEW S \in Winners(d),
         NEW r \in Rntis \ S, demand[d][r] = "data", Unaveraged(r, rate_history), NEW o \in S
  PROVE  Unaveraged(o, rate_history)
<1>1. r \in Eligible(d) \ S /\ ~Above(calculate_priority(r, d), calculate_priority(o, d))
  BY DEF Winners, Eligible
<1>2. calculate_priority(r, d) = <<1, 0>>
  BY DEF calculate_priority, ProportionalFair, Unaveraged
<1>3. SUFFICES ASSUME o \in DOMAIN rate_history, rate_history[o].cached_avg_rate # <<0, 1>>
               PROVE  FALSE
  BY DEF Unaveraged
<1> DEFINE average == rate_history[o].cached_avg_rate
<1>4. average \in (Nat \ {0}) \X (Nat \ {0})
  <2>1. HistoryGood(rate_history[o], step)
    BY <1>3 DEF PolicyInv
  <2>2. average \in Averages
    BY <2>1 DEF HistoryGood
  <2> QED BY <1>3, <2>2 DEF Averages
<1>5. calculate_priority(o, d) = <<0, 1>> \/ calculate_priority(o, d) = <<average[2], average[1]>>
  BY <1>3 DEF calculate_priority, ProportionalFair
<1> HIDE DEF average
<1>6. average[1] \in Nat \ {0} /\ average[2] \in Nat
  BY <1>4
<1>7. CASE calculate_priority(o, d) = <<0, 1>>
  <2>1. ~(1 * 1 > 0 * 0)
    BY <1>1, <1>2, <1>7 DEF Above
  <2> QED BY <2>1
<1>8. CASE calculate_priority(o, d) = <<average[2], average[1]>>
  <2>1. ~(1 * average[1] > average[2] * 0)
    BY <1>1, <1>2, <1>8 DEF Above
  <2> QED BY <1>6, <2>1
<1> QED BY <1>5, <1>7, <1>8

\* UEs without an average are served (ProportionalFairPolicy::update_history): one that
\* had no sample of the last slots has one, and one that had gets an average.
LEMMA ServeNew ==
  ASSUME FewUes, PolicyInv, strategy # "RoundRobin", step = 1, NEW S \in SUBSET Rntis, S # {},
         update_history(S), NEW r \in Rntis \ S, NEW w \in Nat,
         \A o \in S : Unaveraged(o, rate_history), NewTurn(r, w, rate_history, 1)
  PROVE  NewTurn(r, w + 1, rate_history', 0)
<1>1. /\ DOMAIN rate_history' = DOMAIN rate_history \cup S
      /\ DOMAIN rate_history \subseteq Rntis /\ DOMAIN rate_history' \subseteq Rntis
      /\ \A o \in DOMAIN rate_history \ S : rate_history'[o] = rate_history[o]
      /\ \A o \in DOMAIN rate_history : HistoryGood(rate_history[o], 1)
  BY DEF update_history, PolicyInv, TypeOK
<1>2. w < 2 * N /\ 2 * N <= WINDOW /\ N \in Nat /\ WINDOW \in Nat
  BY <1>1, NewTurnBound, CountType, CycleType DEF FewUes
<1>3. ASSUME NEW o \in S
      PROVE  /\ o \in Sampling(r, w + 1, rate_history', 0)
             /\ o \in Sampling(r, w, rate_history, 1) => o \in Averaged(r, w + 1, rate_history', 0)
             /\ o \notin Averaged(r, w, rate_history, 1)
  <2> DEFINE old == History(o)
             new == Sampled(old)
  <2>1. /\ old \in Seq(Ages) /\ Falling(old)
        /\ rate_history'[o] = [ages |-> new, cached_avg_rate |-> Average(new)]
    BY <1>1, ServedHistory
  <2>2. /\ new \in Seq(Ages) /\ new # <<>> /\ Falling(new) /\ Newest(new) = 0
        /\ old # <<>> /\ Newest(old) \in 1..WINDOW => Len(new) >= 2 /\ new[1] >= 1
    BY <2>1, SampledType
  <2>3. Len(new) >= 2 /\ new[1] >= 1 => Average(new) # <<0, 1>>
    BY <2>2, AverageType
  <2>4. o \in Sampling(r, w + 1, rate_history', 0)
    <3>1. 0 < (w + 1) + 0
      OBVIOUS
    <3>2. Newest(rate_history'[o].ages) = 0
      BY <2>1, <2>2
    <3> HIDE DEF new
    <3> QED BY <1>1, <3>1, <3>2 DEF Sampling
  <2>5. ASSUME o \in Sampling(r, w, rate_history, 1)
        PROVE  o \in Averaged(r, w + 1, rate_history', 0)
    <3>1. o \in DOMAIN rate_history /\ Newest(rate_history[o].ages) < w + 1
      BY <2>5 DEF Sampling
    <3>2. HistoryGood(rate_history[o], 1) /\ old = rate_history[o].ages
      BY <1>1, <3>1 DEF History
    <3>3. old # <<>> /\ Newest(old) \in Nat /\ Newest(old) >= 1
      BY <3>2, NewestType DEF HistoryGood
    <3>4. Newest(old) \in 1..WINDOW
      BY <1>2, <3>1, <3>2, <3>3
    <3>5. rate_history'[o].cached_avg_rate # <<0, 1>>
      BY <2>1, <2>2, <2>3, <3>3, <3>4
    <3> QED BY <2>4, <3>5 DEF Averaged
  <2>6. o \notin Averaged(r, w, rate_history, 1)
    BY DEF Averaged, Sampling, Unaveraged
  <2> QED BY <2>4, <2>5, <2>6
<1>4. /\ Sampling(r, w, rate_history, 1) \subseteq Sampling(r, w + 1, rate_history', 0)
      /\ Averaged(r, w, rate_history, 1) \subseteq Averaged(r, w + 1, rate_history', 0)
  <2>1. ASSUME NEW o \in Sampling(r, w, rate_history, 1), o \notin S
        PROVE  o \in Sampling(r, w + 1, rate_history', 0)
    <3>1. o \in DOMAIN rate_history \ {r} /\ Newest(rate_history[o].ages) < w + 1
      BY DEF Sampling
    <3>2. rate_history'[o] = rate_history[o] /\ (w + 1) + 0 = w + 1
      BY <1>1, <2>1, <3>1
    <3> QED BY <1>1, <3>1, <3>2 DEF Sampling
  <2>2. ASSUME NEW o \in Averaged(r, w, rate_history, 1)
        PROVE  o \in Averaged(r, w + 1, rate_history', 0)
    <3>1. o \notin S
      BY <1>3
    <3>2. /\ o \in Sampling(r, w, rate_history, 1) /\ o \in DOMAIN rate_history
          /\ rate_history[o].cached_avg_rate # <<0, 1>>
      BY DEF Averaged, Sampling
    <3>3. rate_history'[o] = rate_history[o] /\ o \in Sampling(r, w + 1, rate_history', 0)
      BY <1>1, <2>1, <3>1, <3>2
    <3> QED BY <3>2, <3>3 DEF Averaged
  <2> QED BY <1>3, <2>1, <2>2
<1>5. \/ \E o \in Sampling(r, w + 1, rate_history', 0) : o \notin Sampling(r, w, rate_history, 1)
      \/ \E o \in Averaged(r, w + 1, rate_history', 0) : o \notin Averaged(r, w, rate_history, 1)
  <2>1. PICK o \in S : TRUE
    OBVIOUS
  <2> QED BY <1>3
<1>6. w + 1 \in Nat /\ w + 1 <= w + 1 /\ 0 \in Nat /\ 1 \in Nat
  OBVIOUS
<1> DEFINE v == w + 1
<1>7. v \in Nat /\ v <= w + 1
  BY <1>6
<1> HIDE DEF v
<1>8. /\ Sampling(r, w, rate_history, 1) \subseteq Sampling(r, v, rate_history', 0)
      /\ Averaged(r, w, rate_history, 1) \subseteq Averaged(r, v, rate_history', 0)
      /\ \/ \E o \in Sampling(r, v, rate_history', 0) : o \notin Sampling(r, w, rate_history, 1)
         \/ \E o \in Averaged(r, v, rate_history', 0) : o \notin Averaged(r, w, rate_history, 1)
  BY <1>4, <1>5 DEF v
<1>9. NewTurn(r, v, rate_history', 0)
  BY <1>1, <1>6, <1>7, <1>8, NewTurnKept
<1> QED BY <1>9 DEF v

-----------------------------------------------------------------------------
(* The waits.                                                               *)

\* Under TypeOK the stamps, histories and waits have their types.
LEMMA WaitTypes ==
  ASSUME PolicyInv
  PROVE  /\ StampsGood(last_scheduled) /\ current_slot \in Stamps
         /\ HistoriesGood(rate_history, step) /\ MaxWait \in Nat
         /\ \A d \in DirectionNames, r \in Rntis : waited[d][r] \in 0..MaxWait
BY PoliciesAssumption
   DEF PolicyInv, TypeOK, StampsGood, Stamps, CycleLength, HistoriesGood

\* What Turns says of r in direction d.
Fair(d, r) ==
  IF strategy = "RoundRobin"
    THEN Turn(r, waited[d][r], last_scheduled, current_slot, step)
    ELSE Unaveraged(r, rate_history) => NewTurn(r, waited[d][r], rate_history, step)

LEMMA TurnsAreFair == Turns <=> \A d \in DirectionNames, r \in Rntis : Fair(d, r)
BY DEF Turns, Fair

LEMMA InitWaits == Init => WaitInv
<1> SUFFICES ASSUME Init PROVE WaitInv
  OBVIOUS
<1>1. PolicyInv
  BY InitPolicy
<1>2. Clock
  BY DEF Init, Clock, Waiting
<1>3. ASSUME NEW d \in DirectionNames, NEW r \in Rntis PROVE Fair(d, r)
  <2>1. waited[d][r] = 0
    BY DEF Init
  <2>2. Turn(r, 0, last_scheduled, current_slot, step)
    BY <1>1, WaitTypes, TurnZero
  <2>3. NewTurn(r, 0, rate_history, step)
    BY <1>1, WaitTypes, NewTurnBound DEF HistoriesGood
  <2> QED BY <2>1, <2>2, <2>3 DEF Fair
<1> QED BY <1>1, <1>2, <1>3, TurnsAreFair DEF WaitInv

LEMMA ReportWaits ==
  ASSUME WaitInv, PolicyInv', NEW d \in DirectionNames, NEW r \in Rntis,
         NEW what \in {"none", "data", "sr"}, Report(d, r, what)
  PROVE  WaitInv'
<1>1. UNCHANGED <<strategy, current_slot, last_scheduled, rate_history, timing, step>>
      /\ waited' = [waited EXCEPT ![d][r] = 0]
      /\ waited \in [DirectionNames -> [Rntis -> 0..MaxWait]]
  BY DEF Report, WaitInv, PolicyInv, TypeOK
<1>2. \A e \in DirectionNames, o \in Rntis : waited'[e][o] = 0 \/ waited'[e][o] = waited[e][o]
  BY <1>1
<1>3. ~Waiting => ~Waiting'
  BY <1>2 DEF Waiting
<1>4. Clock => Clock'
  BY <1>1, <1>3 DEF Clock
<1>5. ASSUME NEW e \in DirectionNames, NEW o \in Rntis, Fair(e, o) PROVE Fair(e, o)'
  <2>1. CASE waited'[e][o] = 0
    <3>1. Turn(o, 0, last_scheduled, current_slot, step)
      BY WaitTypes, TurnZero DEF WaitInv
    <3>2. NewTurn(o, 0, rate_history, step)
      BY WaitTypes, NewTurnBound DEF WaitInv, HistoriesGood
    <3> QED BY <1>1, <2>1, <3>1, <3>2 DEF Fair
  <2>2. CASE waited'[e][o] = waited[e][o]
    BY <1>1, <1>5, <2>2 DEF Fair
  <2> QED BY <1>2, <2>1, <2>2
<1>6. Turns => Turns'
  BY <1>5 DEF Turns, Fair
<1> QED BY <1>1, <1>4, <1>6 DEF WaitInv

LEMMA ConfigWaits ==
  ASSUME PolicyInv', NEW new \in Strategies, update_config(new)
  PROVE  WaitInv'
<1>1. /\ waited' = [d \in DirectionNames |-> [r \in Rntis |-> 0]]
      /\ last_scheduled' = <<>> /\ step' = 0
  BY DEF update_config
<1>2. Clock'
  BY <1>1 DEF Clock, Waiting
<1>3. ASSUME NEW r \in Rntis
      PROVE  Turn(r, 0, last_scheduled', current_slot', step') /\ NewTurn(r, 0, rate_history', step')
  <2>1. StampsGood(last_scheduled') /\ DOMAIN rate_history' \subseteq Rntis
    BY DEF PolicyInv, TypeOK, StampsGood, Stamps, CycleLength
  <2> QED BY <2>1, TurnZero, NewTurnBound
<1>4. Turns'
  BY <1>1, <1>3 DEF Turns
<1> QED BY <1>2, <1>4 DEF WaitInv

LEMMA SlotStartWaits ==
  ASSUME FewUes, WaitInv, PolicyInv', on_slot_start
  PROVE  WaitInv'
<1>1. /\ PolicyInv /\ step = 0 /\ step' = 1 /\ timing' = advanced(timing, 1)
      /\ UNCHANGED <<strategy, last_scheduled, waited>>
      /\ strategy = "RoundRobin" => current_slot' = absolute_slot(timing)
      /\ timing \in FrameTimings(SlotsPerFrame)
  BY DEF WaitInv, on_slot_start, PolicyInv, TypeOK
<1>2. strategy = "RoundRobin" => Clock'
  <2>1. absolute_slot(advanced(timing, 1)) = NextSlot(absolute_slot(timing))
    BY <1>1, NextTiming
  <2> QED BY <1>1, <2>1 DEF Clock
<1>3. ASSUME 2 * N <= MaxWait, strategy = "RoundRobin", NEW d \in DirectionNames, NEW r \in Rntis
      PROVE  Turn(r, waited[d][r], last_scheduled, current_slot', 1)
  <2> DEFINE w == waited[d][r]
  <2>1. /\ StampsGood(last_scheduled) /\ current_slot \in Stamps /\ w \in Nat
        /\ Turn(r, w, last_scheduled, current_slot, 0)
    BY <1>1, <1>3, WaitTypes DEF WaitInv, Turns
  <2> HIDE DEF w
  <2>2. CASE absolute_slot(timing) = NextSlot(current_slot)
    <3>1. current_slot' = NextSlot(current_slot)
      BY <1>1, <1>3, <2>2
    <3>2. Turn(r, w, last_scheduled, NextSlot(current_slot), 1)
      BY <2>1, TickKnown, TickUnknown
    <3> QED BY <3>1, <3>2 DEF w
  <2>3. CASE ~Waiting
    <3>1. w = 0
      BY <2>3 DEF Waiting, w
    <3>2. Turn(r, 0, last_scheduled, current_slot', 1)
      BY <2>1, TurnZero
    <3> QED BY <3>1, <3>2 DEF w
  <2> QED BY <1>3, <2>2, <2>3 DEF WaitInv, Clock
<1>4. ASSUME 2 * N <= MaxWait, strategy # "RoundRobin", NEW d \in DirectionNames, NEW r \in Rntis,
             Unaveraged(r, rate_history')
      PROVE  NewTurn(r, waited[d][r], rate_history', 1)
  <2> DEFINE w == waited[d][r]
  <2>1. Unaveraged(r, rate_history)
    <3> SUFFICES ASSUME r \in DOMAIN rate_history PROVE rate_history[r].cached_avg_rate = <<0, 1>>
      BY DEF Unaveraged
    <3>1. /\ r \in DOMAIN rate_history'
          /\ rate_history'[r] = [rate_history[r] EXCEPT
               !.ages = [i \in DOMAIN @ |-> Lesser(@[i] + 1, WINDOW + 1)]]
      BY DEF on_slot_start
    <3>2. rate_history[r] \in [ages : Seq(Ages), cached_avg_rate : Averages]
      BY <1>1 DEF PolicyInv, HistoryGood
    <3>3. rate_history'[r].cached_avg_rate = rate_history[r].cached_avg_rate
      BY <3>1, <3>2
    <3> QED BY <1>4, <3>1, <3>3 DEF Unaveraged
  <2>2. w \in Nat /\ NewTurn(r, w, rate_history, 0)
    BY <1>1, <1>4, <2>1, WaitTypes DEF WaitInv, Turns
  <2> HIDE DEF w
  <2>3. NewTurn(r, w, rate_history', 1)
    BY <1>1, <2>2, TickNew
  <2> QED BY <2>3 DEF w
<1>5. 2 * N <= MaxWait => Turns'
  BY <1>1, <1>3, <1>4 DEF Turns
<1> QED BY <1>1, <1>2, <1>5 DEF WaitInv

LEMMA ScheduleWaits ==
  ASSUME FewUes, WaitInv, PolicyInv', NEW S \in SUBSET Rntis, Schedule(S)
  PROVE  WaitInv'
<1> DEFINE d == Directions[1]
<1>1. /\ PolicyInv /\ step = 1 /\ step' = 0 /\ update_history(S)
      /\ UNCHANGED <<strategy, demand, current_slot, timing>>
      /\ IF Eligible(d) = {} THEN S = {} ELSE S \in Winners(d)
      /\ waited' = [waited EXCEPT ![d] = [r \in Rntis |->
           IF r \notin S /\ demand[d][r] = "data" THEN Lesser(@[r] + 1, MaxWait) ELSE 0]]
  <2>1. PolicyInv
    BY DEF WaitInv
  <2>2. step = 1 /\ step' = 0
    BY <2>1, ServedType DEF FewUes
  <2> QED BY <2>1, <2>2 DEF Schedule
<1>2. DirectionNames = {d}
  BY DirectionType DEF FewUes, DirectionNames
<1> HIDE DEF d
<1>3. strategy = "RoundRobin" => Clock'
  BY <1>1 DEF WaitInv, Clock
<1>4. /\ StampsGood(last_scheduled) /\ current_slot \in Stamps /\ MaxWait \in Nat
      /\ StampsGood(last_scheduled') /\ DOMAIN rate_history \subseteq Rntis
      /\ DOMAIN rate_history' \subseteq Rntis
      /\ \A r \in Rntis : waited[d][r] \in 0..MaxWait
  <2>1. /\ StampsGood(last_scheduled') /\ DOMAIN rate_history' \subseteq Rntis
    BY PoliciesAssumption DEF PolicyInv, TypeOK, StampsGood, Stamps, CycleLength
  <2> QED BY <1>1, <1>2, <2>1, WaitTypes DEF HistoriesGood
<1>5. \A r \in Rntis :
        waited'[d][r] = IF r \notin S /\ demand[d][r] = "data" THEN Lesser(waited[d][r] + 1, MaxWait) ELSE 0
  BY <1>1, <1>2 DEF PolicyInv, TypeOK
<1>6. ASSUME NEW r \in Rntis \ S, demand[d][r] = "data"
      PROVE  S \in Winners(d) /\ S # {}
  <2>1. S \in Winners(d)
    BY <1>1, <1>6 DEF Eligible
  <2>2. Cardinality(S) # 0
    BY <2>1 DEF Winners
  <2> QED BY <2>1, <2>2, FS_EmptySet
<1>7. ASSUME 2 * N <= MaxWait, NEW r \in Rntis PROVE Fair(d, r)'
  <2>1. CASE ~(r \notin S /\ demand[d][r] = "data")
    <3>1. waited'[d][r] = 0
      BY <1>5, <2>1
    <3>2. Turn(r, 0, last_scheduled', current_slot', step')
      BY <1>4, TurnZero
    <3>3. NewTurn(r, 0, rate_history', step')
      BY <1>4, NewTurnBound
    <3> QED BY <3>1, <3>2, <3>3 DEF Fair
  <2>2. CASE r \notin S /\ demand[d][r] = "data"
    <3> DEFINE w == waited[d][r]
    <3>1. w \in Nat
      BY <1>4
    <3>2. w < 2 * N => waited'[d][r] = w + 1
      <4>1. waited'[d][r] = Lesser(w + 1, MaxWait)
        BY <1>5, <2>2
      <4>2. N \in Nat /\ MaxWait \in Nat /\ 2 * N <= MaxWait
        BY <1>4, <1>7, CountType
      <4> HIDE DEF w
      <4>3. ASSUME w < 2 * N PROVE Lesser(w + 1, MaxWait) = w + 1
        <5>1. w + 1 <= MaxWait
          BY <3>1, <4>2, <4>3
        <5> QED BY <3>1, <4>2, <5>1 DEF Lesser
      <4> QED BY <4>1, <4>3
    <3>3. S \in Winners(d) /\ S # {}
      BY <1>6, <2>2
    <3>4. CASE strategy = "RoundRobin"
      <4>1. Turn(r, w, last_scheduled, current_slot, 1)
        BY <1>1, <1>2, <1>7, <3>4 DEF WaitInv, Turns
      <4> HIDE DEF w
      <4>2. \A o \in S : Beaten(o, r, last_scheduled, current_slot)
        BY <1>1, <1>2, <2>2, <3>3, <3>4, RoundRobinWinners DEF PolicyInv
      <4>3. last_scheduled' = Stamped(last_scheduled, S, current_slot)
        BY <1>1, <3>4 DEF update_history, Stamped
      <4>4. Turn(r, w + 1, last_scheduled', current_slot, 0)
        BY <1>4, <2>2, <3>1, <3>3, <4>1, <4>2, <4>3, ServeKnown, ServeUnknown
      <4>5. w < 2 * N
        BY <1>4, <3>1, <4>1, TurnBound
      <4>6. waited'[d][r] = w + 1
        BY <3>2, <4>5
      <4> QED BY <1>1, <3>4, <4>4, <4>6 DEF Fair
    <3>5. CASE strategy # "RoundRobin"
      <4> SUFFICES ASSUME Unaveraged(r, rate_history') PROVE NewTurn(r, waited'[d][r], rate_history', 0)
        BY <1>1, <3>5 DEF Fair
      <4>1. Unaveraged(r, rate_history)
        BY <1>1, <2>2, <3>5 DEF Unaveraged, update_history
      <4>2. NewTurn(r, w, rate_history, 1)
        BY <1>1, <1>2, <1>7, <3>5, <4>1 DEF WaitInv, Turns
      <4> HIDE DEF w
      <4>3. \A o \in S : Unaveraged(o, rate_history)
        BY <1>1, <1>2, <2>2, <3>3, <3>5, <4>1, ProportionalFairWinners
      <4>4. NewTurn(r, w + 1, rate_history', 0)
        BY <1>1, <2>2, <3>1, <3>3, <3>5, <4>2, <4>3, ServeNew
      <4>5. w < 2 * N
        BY <1>4, <3>1, <4>2, NewTurnBound
      <4> QED BY <3>2, <4>4, <4>5
    <3> QED BY <3>4, <3>5
  <2> QED BY <2>1, <2>2
<1>8. 2 * N <= MaxWait => Turns'
  BY <1>2, <1>7 DEF Turns, Fair
<1> QED BY <1>1, <1>3, <1>8 DEF WaitInv

LEMMA NextWaits == ASSUME FewUes PROVE WaitInv /\ [Next]_vars => WaitInv'
<1> SUFFICES ASSUME WaitInv, [Next]_vars PROVE WaitInv'
  OBVIOUS
<1>1. PolicyInv /\ PolicyInv'
  BY NextPolicy DEF WaitInv
<1>2. CASE UNCHANGED vars
  BY <1>2 DEF vars, WaitInv, PolicyInv, TypeOK, Clock, Turns, Waiting
<1> QED BY <1>1, <1>2, ReportWaits, ConfigWaits, SlotStartWaits, ScheduleWaits DEF Next, ProcessSlot

\* For any UEs that are few against the SFN cycle, the window and the priority of a UE
\* never scheduled (up to 500 in the code), and any number served in a slot of the one
\* direction: a UE that keeps having data is passed over less often than twice for each
\* UE under RoundRobin, across the SFN wrap, pauses and new policies, and under
\* ProportionalFair while it has no average.
THEOREM WaitsAreBounded == ASSUME FewUes PROVE Spec => []WaitBounded
<1>1. ASSUME WaitInv PROVE WaitBounded
  <2> SUFFICES ASSUME NEW d \in DirectionNames, NEW r \in Rntis,
                      strategy = "RoundRobin" \/ r \in Newcomers
               PROVE  waited[d][r] < 2 * N
    BY DEF WaitBounded, N
  <2>1. PolicyInv /\ N \in Nat /\ MaxWait \in Nat
    BY <1>1, CountType, WaitTypes DEF WaitInv
  <2>2. /\ StampsGood(last_scheduled) /\ DOMAIN rate_history \subseteq Rntis
        /\ waited[d][r] \in 0..MaxWait
    BY <2>1, WaitTypes DEF HistoriesGood
  <2>3. CASE ~(2 * N <= MaxWait)
    BY <2>1, <2>2, <2>3
  <2>4. CASE 2 * N <= MaxWait /\ strategy = "RoundRobin"
    <3>1. Turn(r, waited[d][r], last_scheduled, current_slot, step)
      BY <1>1, <2>4 DEF WaitInv, Turns
    <3> QED BY <2>1, <2>2, <3>1, TurnBound
  <2>5. CASE 2 * N <= MaxWait /\ strategy # "RoundRobin"
    <3>1. Unaveraged(r, rate_history)
      <4> SUFFICES ASSUME r \in DOMAIN rate_history PROVE rate_history[r].cached_avg_rate = <<0, 1>>
        BY DEF Unaveraged
      <4> DEFINE average == rate_history[r].cached_avg_rate
      <4>1. average \in Nat \X (Nat \ {0})
        BY <2>1 DEF PolicyInv, TypeOK
      <4>2. <<average[2], average[1]>> = <<1, 0>>
        BY <2>5 DEF Newcomers, ProportionalFair
      <4> HIDE DEF average
      <4>3. average = <<0, 1>>
        BY <4>1, <4>2
      <4> QED BY <4>3 DEF average
    <3>2. NewTurn(r, waited[d][r], rate_history, step)
      BY <1>1, <2>5, <3>1 DEF WaitInv, Turns
    <3> QED BY <2>1, <2>2, <3>2, NewTurnBound
  <2> QED BY <2>3, <2>4, <2>5
<1>2. FewUes
  OBVIOUS
<1> QED BY <1>1, <1>2, InitWaits, NextWaits, PTL DEF Spec
=============================================================================
