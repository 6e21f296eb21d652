------------------------- MODULE QosMonitorsProofs -------------------------
(***************************************************************************)
(* What the QoS engine observes of its flows, for any flows, rates, budgets,  *)
(* window and packets: a pending packet is one that waits in the caller's     *)
(* queue, so that the delay alarms and the violations counted are real.      *)
(***************************************************************************)
EXTENDS QosMonitors, NumberLemmas, SequenceTheorems

\* The packets of a queue wait in the order they arrived.
QueuesOrdered ==
  \A f \in FlowKeys, d \in Directions : \A i \in DOMAIN queue[f][d] :
    /\ queue[f][d][i] <= now
    /\ \A j \in DOMAIN queue[f][d] : i <= j => queue[f][d][i] <= queue[f][d][j]

\* The packet a delay tracker waits for is in the queue, or one before it is.
PendingWaits ==
  \A f \in DOMAIN flows, d \in Directions :
    flows[f].delay[d].has_pending_data =>
      /\ queue[f][d] # <<>>
      /\ queue[f][d][1] <= flows[f].delay[d].oldest_packet_arrival

\* The samples were taken in this order, and none after t.
Ordered(history, t) ==
  \A i \in DOMAIN history :
    /\ history[i].at <= t
    /\ \A j \in DOMAIN history : i <= j => history[i].at <= history[j].at

\* The samples of a tracker are in the order of their times.
HistoriesOrdered ==
  \A f \in DOMAIN flows, d \in Directions : Ordered(flows[f].history[d], now)

\* What waits has been counted.
WaitingCounted == \A f \in FlowKeys, d \in Directions : queue[f][d] # <<>> => arrived > 0

MonitorsInv ==
  /\ TypeOK /\ QueuesOrdered /\ PendingWaits /\ WaitingCounted
  /\ HistoriesOrdered /\ ViolationsAreReal

-----------------------------------------------------------------------------
(* The samples of a window.                                                 *)

Samples == [at : 0..MaxTime, bytes : Nat]

\* Adding a sample leaves a history that ends now and starts within the window.
LEMMA SampleAdded ==
  ASSUME now \in 0..MaxTime, NEW history \in Seq(Samples), NEW bytes \in Nat,
         Ordered(history, now)
  PROVE  /\ Ordered(add_sample(history, bytes), now)
         /\ add_sample(history, bytes) \in Seq(Samples)
         /\ add_sample(history, bytes) # <<>>
         /\ Last(add_sample(history, bytes)).at = now
         /\ Head(add_sample(history, bytes)).at >= now - WINDOW
<1> DEFINE sample == [at |-> now, bytes |-> bytes]
           samples == Append(history, sample)
           n == Len(samples)
           InWindow(i) == samples[i].at >= now - WINDOW
           T == {i \in 1..n : InWindow(i)}
           first == CHOOSE i \in 1..n : InWindow(i) /\ \A j \in 1..(i - 1) : ~InWindow(j)
<1>1. sample \in Samples /\ now \in Int /\ WINDOW \in Nat
  BY MonitorsAssumption DEF Samples
<1>2. /\ samples \in Seq(Samples) /\ n \in Nat \ {0}
      /\ samples[n] = sample /\ \A i \in 1..n : samples[i] \in Samples
  <2>1. /\ samples \in Seq(Samples) /\ n = Len(history) + 1 /\ Len(history) \in Nat
        /\ samples[Len(history) + 1] = sample
    BY <1>1, AppendProperties, LenProperties
  <2> QED BY <2>1, ElementOfSeq
<1>3. n \in T
  BY <1>1, <1>2
<1>4. PICK m \in T : \A k \in T : m <= k
  <2>1. T \subseteq Nat /\ T # {}
    BY <1>2, <1>3
  <2> QED BY <2>1, SmallestNat
<1>5. /\ m \in 1..n /\ InWindow(m) /\ \A j \in 1..(m - 1) : ~InWindow(j)
  BY <1>2, <1>4
<1>6. first \in 1..n /\ InWindow(first)
  BY <1>5
<1>7. add_sample(history, bytes) = SubSeq(samples, first, n)
  BY DEF add_sample
<1>12. Ordered(samples, now)
  <2> DEFINE m0 == Len(history)
  <2>1. /\ m0 \in Nat /\ n = m0 + 1 /\ DOMAIN samples = 1..n /\ DOMAIN history = 1..m0
        /\ \A i \in 1..m0 : samples[i] = history[i]
        /\ samples[n].at = now
    BY <1>1, <1>2, AppendProperties, LenProperties
  <2>2. \A i \in 1..m0 : /\ history[i].at <= now
                         /\ \A j \in 1..m0 : i <= j => history[i].at <= history[j].at
    BY <2>1 DEF Ordered
  <2> HIDE DEF samples, n, m0
  <2>3. ASSUME NEW i \in 1..n
        PROVE  /\ samples[i].at <= now
               /\ \A j \in 1..n : i <= j => samples[i].at <= samples[j].at
    <3>1. samples[i].at <= now
      <4>1. CASE i = n
        BY <1>1, <2>1, <4>1
      <4>2. CASE i # n
        <5>1. i \in 1..m0
          BY <2>1, <4>2
        <5> QED BY <2>1, <2>2, <5>1
      <4> QED BY <4>1, <4>2
    <3>2. ASSUME NEW j \in 1..n, i <= j PROVE samples[i].at <= samples[j].at
      <4>1. CASE j = n
        BY <2>1, <3>1, <4>1
      <4>2. CASE j # n
        <5>1. i \in 1..m0 /\ j \in 1..m0
          BY <2>1, <3>2, <4>2
        <5> QED BY <2>1, <2>2, <3>2, <5>1
      <4> QED BY <4>1, <4>2
    <3> QED BY <3>1, <3>2
  <2> QED BY <2>1, <2>3 DEF Ordered
<1> HIDE DEF first, T, samples, n
<1> DEFINE kept == SubSeq(samples, first, n)
<1>8. /\ kept \in Seq(Samples) /\ Len(kept) = n - first + 1
      /\ \A i \in 1..(n - first + 1) : kept[i] = samples[first + (i - 1)]
  BY <1>2, <1>6, SubSeqProperties DEF n
<1>9. /\ Len(kept) \in Nat \ {0} /\ kept[1] = samples[first] /\ kept[Len(kept)] = samples[n]
  <2>1. n - first + 1 \in Nat \ {0} /\ n \in Nat /\ first \in Nat
    BY <1>2, <1>6
  <2>2. kept[1] = samples[first + (1 - 1)] /\ first + (1 - 1) = first
    BY <1>8, <2>1
  <2>3. /\ kept[n - first + 1] = samples[first + ((n - first + 1) - 1)]
        /\ first + ((n - first + 1) - 1) = n
    BY <1>8, <2>1
  <2> QED BY <1>8, <2>1, <2>2, <2>3
<1>10. kept # <<>>
  BY <1>8, <1>9, EmptySeq
<1>11. Last(kept) = sample /\ Head(kept) = samples[first]
  BY <1>2, <1>8, <1>9, <1>10, HeadTailProperties DEF Last
<1>13. Ordered(kept, now)
  <2> DEFINE k == n - first + 1
  <2>1. k \in Nat /\ n \in Nat /\ first \in 1..n /\ k = n - first + 1
    BY <1>2, <1>6
  <2>2. DOMAIN kept = 1..k /\ \A i \in 1..k : kept[i] = samples[first + (i - 1)]
    BY <1>8, LenProperties
  <2>3. DOMAIN samples = 1..n
    BY <1>2, LenProperties DEF n
  <2> HIDE DEF k, kept
  <2>4. \A i \in 1..k : first + (i - 1) \in 1..n
    BY <2>1
  <2>5. \A i, j \in 1..k : i <= j => first + (i - 1) <= first + (j - 1)
    BY <2>1
  <2>6. \A i \in 1..n : /\ samples[i].at <= now
                        /\ \A j \in 1..n : i <= j => samples[i].at <= samples[j].at
    BY <1>12, <2>3 DEF Ordered
  <2>7. \A i \in 1..k : kept[i].at <= now
    BY <2>2, <2>4, <2>6
  <2>8. \A i, j \in 1..k : i <= j => kept[i].at <= kept[j].at
    BY <2>2, <2>4, <2>5, <2>6
  <2> QED BY <2>2, <2>7, <2>8 DEF Ordered
<1> QED BY <1>6, <1>7, <1>8, <1>10, <1>11, <1>13

\* The fields of a flow, as TypeOK says.
LEMMA FlowType ==
  ASSUME TypeOK, NEW f \in DOMAIN flows, NEW d \in Directions
  PROVE  /\ f \in FlowKeys /\ flows[f].pdb_ms \in Nat \ {0}
         /\ flows[f].history[d] \in Seq(Samples)
         /\ flows[f].delay[d].has_pending_data \in BOOLEAN
         /\ flows[f].delay[d].oldest_packet_arrival \in 0..MaxTime
<1>1. f \in FlowKeys /\ flows[f] \in FlowStates
  BY DEF TypeOK
<1> QED BY <1>1, MonitorsAssumption DEF FlowStates, Samples

\* A queue holds the times at which packets arrived.
LEMMA QueueType ==
  ASSUME TypeOK, NEW f \in FlowKeys, NEW d \in Directions
  PROVE  /\ queue[f][d] \in Seq(0..MaxTime) /\ Len(queue[f][d]) \in Nat
         /\ DOMAIN queue[f][d] = 1..Len(queue[f][d])
         /\ \A i \in DOMAIN queue[f][d] : queue[f][d][i] \in Nat
<1>1. queue[f][d] \in Seq(0..MaxTime)
  BY DEF TypeOK
<1>2. Len(queue[f][d]) \in Nat /\ DOMAIN queue[f][d] = 1..Len(queue[f][d])
  BY <1>1, LenProperties
<1>3. \A i \in DOMAIN queue[f][d] : queue[f][d][i] \in 0..MaxTime
  BY <1>1, <1>2, ElementOfSeq
<1> QED BY <1>1, <1>2, <1>3, MonitorsAssumption

-----------------------------------------------------------------------------
(* The calls.                                                               *)

\* A flow that is registered starts with trackers that wait for nothing.
LEMMA RegisterStep ==
  ASSUME MonitorsInv, NEW f \in FlowKeys, NEW is_gbr \in BOOLEAN,
         NEW gbr_bps \in GuaranteedRates, NEW pdb_ms \in Budgets,
         register_flow(f, is_gbr, gbr_bps, pdb_ms)
  PROVE  MonitorsInv'
<1> DEFINE new == [is_gbr |-> is_gbr, gbr_bps |-> gbr_bps, pdb_ms |-> pdb_ms,
                   history |-> [d \in Directions |-> <<>>],
                   delay |-> [d \in Directions |-> NothingPending]]
<1>1. TypeOK /\ now \in 0..MaxTime
  BY DEF MonitorsInv, TypeOK
<1>2. /\ DOMAIN flows' = DOMAIN flows \cup {f} /\ flows'[f] = new
      /\ \A g \in DOMAIN flows : g # f => flows'[g] = flows[g]
      /\ flows' = [g \in DOMAIN flows' |-> flows'[g]]
  BY DEF register_flow
<1>3. /\ UNCHANGED <<pdb_violations, now, queue, late, arrived>>
      /\ calls' \in 0..MaxCalls
  BY <1>1, MonitorsAssumption DEF register_flow, Call, TypeOK
<1>4. new \in FlowStates
  <2>1. <<>> \in Seq([at : 0..MaxTime, bytes : Nat])
    BY EmptySeq
  <2>2. NothingPending \in [has_pending_data : BOOLEAN, oldest_packet_arrival : 0..MaxTime]
    BY MonitorsAssumption DEF NothingPending
  <2> QED BY <2>1, <2>2 DEF FlowStates
<1>5. \A d \in Directions : new.history[d] = <<>> /\ ~new.delay[d].has_pending_data
  BY DEF NothingPending
<1> HIDE DEF new
<1>6. TypeOK'
  <2>1. flows' \in [DOMAIN flows' -> FlowStates]
    <3>1. \A g \in DOMAIN flows' : flows'[g] \in FlowStates
      BY <1>1, <1>2, <1>4 DEF TypeOK
    <3> QED BY <1>2, <3>1
  <2>2. \A g \in DOMAIN flows', d \in Directions :
          flows'[g].history[d] # <<>> =>
            Last(flows'[g].history[d]).at - Head(flows'[g].history[d]).at <= WINDOW
    BY <1>1, <1>2, <1>5 DEF TypeOK
  <2> QED BY <1>1, <1>2, <1>3, <2>1, <2>2 DEF TypeOK
<1>7. PendingWaits'
  BY <1>2, <1>3, <1>5 DEF MonitorsInv, PendingWaits
<1>8. HistoriesOrdered'
  <2>1. Ordered(<<>>, now)
    BY DEF Ordered
  <2>2. \A g \in DOMAIN flows', d \in Directions : Ordered(flows'[g].history[d], now')
    BY <1>2, <1>3, <1>5, <2>1 DEF MonitorsInv, HistoriesOrdered
  <2> QED BY <2>2 DEF HistoriesOrdered
<1> QED BY <1>3, <1>6, <1>7, <1>8
        DEF MonitorsInv, QueuesOrdered, WaitingCounted, ViolationsAreReal

\* Flows that are removed leave the others as they are.
LEMMA ForgetStep ==
  ASSUME MonitorsInv, NEW gone, Forget(gone)
  PROVE  MonitorsInv'
<1>1. /\ DOMAIN flows' \subseteq DOMAIN flows
      /\ \A g \in DOMAIN flows' : flows'[g] = flows[g]
      /\ flows' = [g \in DOMAIN flows' |-> flows'[g]]
  BY DEF Forget, Restrict
<1>2. /\ UNCHANGED <<pdb_violations, now, queue, late, arrived>>
      /\ calls' \in 0..MaxCalls
  BY MonitorsAssumption DEF Forget, Call, MonitorsInv, TypeOK
<1>3. TypeOK'
  <2>1. flows' \in [DOMAIN flows' -> FlowStates]
    <3>1. \A g \in DOMAIN flows' : flows'[g] \in FlowStates
      BY <1>1 DEF MonitorsInv, TypeOK
    <3> QED BY <1>1, <3>1
  <2> QED BY <1>1, <1>2, <2>1 DEF MonitorsInv, TypeOK
<1>4. PendingWaits'
  BY <1>1, <1>2 DEF MonitorsInv, PendingWaits
<1>5. HistoriesOrdered'
  BY <1>1, <1>2 DEF MonitorsInv, HistoriesOrdered
<1> QED BY <1>2, <1>3, <1>4, <1>5
        DEF MonitorsInv, QueuesOrdered, WaitingCounted, ViolationsAreReal

\* A packet joins the end of its queue.
LEMMA QueueAppended ==
  ASSUME MonitorsInv, NEW f \in FlowKeys, NEW d \in Directions,
         now' = now, arrived' = arrived + 1, arrived < MaxPackets,
         queue' = [queue EXCEPT ![f][d] = Append(@, now)]
  PROVE  /\ queue' \in [FlowKeys -> [Directions -> Seq(0..MaxTime)]]
         /\ QueuesOrdered' /\ WaitingCounted' /\ arrived' \in 0..MaxPackets
         /\ queue'[f][d] # <<>>
         /\ queue'[f][d][1] = IF queue[f][d] = <<>> THEN now ELSE queue[f][d][1]
         /\ \A g \in FlowKeys, e \in Directions :
              <<g, e>> # <<f, d>> => queue'[g][e] = queue[g][e]
<1> DEFINE q == queue[f][d]
           longer == Append(q, now)
           n == Len(q)
<1>1. TypeOK /\ now \in 0..MaxTime /\ arrived \in Nat /\ MaxPackets \in Nat
  BY MonitorsAssumption DEF MonitorsInv, TypeOK
<1>2. /\ q \in Seq(0..MaxTime) /\ n \in Nat /\ DOMAIN q = 1..n
      /\ \A i \in 1..n : q[i] \in Nat
  BY <1>1, QueueType
<1>3. /\ longer \in Seq(0..MaxTime) /\ DOMAIN longer = 1..(n + 1) /\ Len(longer) = n + 1
      /\ \A i \in 1..n : longer[i] = q[i]
      /\ longer[n + 1] = now
  <2> HIDE DEF q
  <2>1. /\ longer \in Seq(0..MaxTime) /\ Len(longer) = n + 1
        /\ \A i \in 1..n : longer[i] = q[i]
        /\ longer[n + 1] = now
    BY <1>1, <1>2, AppendProperties
  <2> QED BY <2>1, LenProperties
<1>4. /\ queue'[f][d] = longer
      /\ \A g \in FlowKeys, e \in Directions :
           <<g, e>> # <<f, d>> => queue'[g][e] = queue[g][e]
      /\ \A g \in FlowKeys : DOMAIN queue'[g] = Directions
  BY <1>1 DEF TypeOK
<1>5. queue' \in [FlowKeys -> [Directions -> Seq(0..MaxTime)]]
  BY <1>1, <1>3 DEF TypeOK
<1>6. QueuesOrdered'
  <2>1. \A i \in 1..n : q[i] <= now /\ \A j \in 1..n : i <= j => q[i] <= q[j]
    BY <1>2 DEF MonitorsInv, QueuesOrdered
  <2> HIDE DEF longer, n, q
  <2>2. \A i \in 1..(n + 1) : longer[i] <= now
    BY <1>1, <1>2, <1>3, <2>1
  <2>3. \A i, j \in 1..(n + 1) : i <= j => longer[i] <= longer[j]
    <3> SUFFICES ASSUME NEW i \in 1..(n + 1), NEW j \in 1..(n + 1), i <= j
                 PROVE  longer[i] <= longer[j]
      OBVIOUS
    <3>1. CASE j = n + 1
      BY <1>3, <2>2, <3>1
    <3>2. CASE j # n + 1
      BY <1>2, <1>3, <2>1, <3>2
    <3> QED BY <3>1, <3>2
  <2>4. \A i \in DOMAIN longer :
          longer[i] <= now /\ \A j \in DOMAIN longer : i <= j => longer[i] <= longer[j]
    BY <1>3, <2>2, <2>3
  <2>5. ASSUME NEW g \in FlowKeys, NEW e \in Directions, NEW i \in DOMAIN queue'[g][e]
        PROVE  /\ queue'[g][e][i] <= now'
               /\ \A j \in DOMAIN queue'[g][e] : i <= j => queue'[g][e][i] <= queue'[g][e][j]
    <3>1. CASE <<g, e>> = <<f, d>>
      BY <1>4, <2>4, <2>5, <3>1
    <3>2. CASE <<g, e>> # <<f, d>>
      BY <1>4, <2>5, <3>2 DEF MonitorsInv, QueuesOrdered
    <3> QED BY <3>1, <3>2
  <2> QED BY <2>5 DEF QueuesOrdered
<1>7. longer # <<>> /\ longer[1] = IF q = <<>> THEN now ELSE q[1]
  <2>1. longer # <<>>
    <3> HIDE DEF longer
    <3> QED BY <1>2, <1>3, EmptySeq
  <2>2. CASE q = <<>>
    <3>1. n = 0
      BY <2>2
    <3> HIDE DEF longer
    <3> QED BY <1>3, <2>1, <2>2, <3>1
  <2>3. CASE q # <<>>
    <3>1. n # 0
      <4> HIDE DEF q
      <4> QED BY <1>2, <2>3, EmptySeq
    <3> HIDE DEF longer, n
    <3> QED BY <1>2, <1>3, <2>1, <2>3, <3>1
  <2> QED BY <2>2, <2>3
<1>8. WaitingCounted'
  BY <1>1 DEF WaitingCounted
<1> HIDE DEF longer
<1> QED BY <1>1, <1>4, <1>5, <1>6, <1>7, <1>8

\* A packet that arrives is waited for when nothing else is.
LEMMA ArrivalStep ==
  ASSUME MonitorsInv, NEW f \in FlowKeys, NEW d \in Directions, notify_data_arrival(f, d)
  PROVE  MonitorsInv'
<1> DEFINE delay(g, e) == flows[g].delay[e]
           delay1(g, e) == flows'[g].delay[e]
<1>1. /\ UNCHANGED <<pdb_violations, now, late, calls>> /\ arrived < MaxPackets
      /\ arrived' = arrived + 1 /\ queue' = [queue EXCEPT ![f][d] = Append(@, now)]
      /\ TypeOK /\ now \in 0..MaxTime
  BY DEF notify_data_arrival, MonitorsInv, TypeOK
<1>2. /\ queue' \in [FlowKeys -> [Directions -> Seq(0..MaxTime)]]
      /\ QueuesOrdered' /\ WaitingCounted' /\ arrived' \in 0..MaxPackets
      /\ queue'[f][d] # <<>>
      /\ queue'[f][d][1] = IF queue[f][d] = <<>> THEN now ELSE queue[f][d][1]
      /\ \A g \in FlowKeys, e \in Directions :
           <<g, e>> # <<f, d>> => queue'[g][e] = queue[g][e]
  BY <1>1, QueueAppended, ZenonT(20)
<1>3. flows \in [DOMAIN flows -> FlowStates] /\ DOMAIN flows \subseteq FlowKeys
  BY <1>1 DEF TypeOK
<1>4. /\ flows' \in [DOMAIN flows -> FlowStates]
      /\ \A g \in DOMAIN flows, e \in Directions :
           /\ flows'[g].history[e] = flows[g].history[e]
           /\ <<g, e>> # <<f, d>> => delay1(g, e) = delay(g, e)
      /\ f \in DOMAIN flows => delay1(f, d) = packet_arrived(delay(f, d))
  <2>1. CASE f \in DOMAIN flows
    <3>1. packet_arrived(delay(f, d)) \in
            [has_pending_data : BOOLEAN, oldest_packet_arrival : 0..MaxTime]
      BY <1>1, <1>3, <2>1 DEF packet_arrived, FlowStates
    <3>2. flows' = [flows EXCEPT ![f].delay[d] = packet_arrived(@)]
      BY <2>1 DEF notify_data_arrival
    <3> QED BY <1>3, <2>1, <3>1, <3>2 DEF FlowStates
  <2>2. CASE f \notin DOMAIN flows
    BY <1>3, <2>2 DEF notify_data_arrival
  <2> QED BY <2>1, <2>2
<1>5. DOMAIN flows' = DOMAIN flows
  BY <1>4
<1>6. TypeOK'
  <2>1. \A g \in DOMAIN flows', e \in Directions :
          flows'[g].history[e] # <<>> =>
            Last(flows'[g].history[e]).at - Head(flows'[g].history[e]).at <= WINDOW
    <3>1. \A g \in DOMAIN flows, e \in Directions :
            flows[g].history[e] # <<>> =>
              Last(flows[g].history[e]).at - Head(flows[g].history[e]).at <= WINDOW
      BY <1>1 DEF TypeOK
    <3>2. \A g \in DOMAIN flows, e \in Directions : flows'[g].history[e] = flows[g].history[e]
      BY <1>4
    <3> QED BY <1>5, <3>1, <3>2
  <2>2. flows' \in [DOMAIN flows' -> FlowStates] /\ DOMAIN flows' \subseteq FlowKeys
    BY <1>3, <1>4, <1>5
  <2>3. pdb_violations' \in Nat /\ late' \in Nat /\ now' \in 0..MaxTime /\ calls' \in 0..MaxCalls
    BY <1>1 DEF TypeOK
  <2> QED BY <1>2, <2>1, <2>2, <2>3 DEF TypeOK
<1>7. ASSUME NEW g \in DOMAIN flows', NEW e \in Directions, delay1(g, e).has_pending_data
      PROVE  queue'[g][e] # <<>> /\ queue'[g][e][1] <= delay1(g, e).oldest_packet_arrival
  <2>1. CASE <<g, e>> # <<f, d>>
    <3>1. g \in DOMAIN flows /\ g \in FlowKeys
      BY <1>3, <1>5
    <3>2. delay1(g, e) = delay(g, e) /\ queue'[g][e] = queue[g][e]
      BY <1>2, <1>4, <2>1, <3>1
    <3>3. queue[g][e] # <<>> /\ queue[g][e][1] <= delay(g, e).oldest_packet_arrival
      BY <1>7, <3>1, <3>2 DEF MonitorsInv, PendingWaits
    <3> QED BY <3>2, <3>3
  <2>2. CASE <<g, e>> = <<f, d>>
    <3>1. f \in DOMAIN flows /\ g = f /\ e = d /\ delay1(f, d) = packet_arrived(delay(f, d))
      BY <1>4, <1>5, <1>7, <2>2
    <3>2. CASE delay(f, d).has_pending_data
      <4>1. queue[f][d] # <<>> /\ queue[f][d][1] <= delay(f, d).oldest_packet_arrival
        BY <3>1, <3>2 DEF MonitorsInv, PendingWaits
      <4>2. delay1(f, d) = delay(f, d)
        BY <3>1, <3>2 DEF packet_arrived
      <4> QED BY <1>2, <3>1, <4>1, <4>2
    <3>3. CASE ~delay(f, d).has_pending_data
      <4>1. delay1(f, d).oldest_packet_arrival = now
        BY <3>1, <3>3 DEF packet_arrived
      <4>2. queue[f][d] # <<>> => queue[f][d][1] <= now
        <5>1. queue[f][d] # <<>> => 1 \in DOMAIN queue[f][d]
          BY <1>1, QueueType, EmptySeq
        <5> QED BY <5>1 DEF MonitorsInv, QueuesOrdered
      <4> QED BY <1>1, <1>2, <3>1, <4>1, <4>2
    <3> QED BY <3>2, <3>3
  <2> QED BY <2>1, <2>2
<1>8. PendingWaits'
  BY <1>7 DEF PendingWaits
<1>9. HistoriesOrdered'
  <2>1. \A g \in DOMAIN flows', e \in Directions : Ordered(flows'[g].history[e], now')
    <3>1. \A g \in DOMAIN flows, e \in Directions : flows'[g].history[e] = flows[g].history[e]
      BY <1>4
    <3>2. \A g \in DOMAIN flows, e \in Directions : Ordered(flows[g].history[e], now)
      BY DEF MonitorsInv, HistoriesOrdered
    <3> QED BY <1>1, <1>5, <3>1, <3>2
  <2> QED BY <2>1 DEF HistoriesOrdered
<1> QED BY <1>1, <1>2, <1>6, <1>8, <1>9 DEF MonitorsInv, ViolationsAreReal

\* What is left of a queue is in order still.
LEMMA QueueShortened ==
  ASSUME MonitorsInv, NEW f \in FlowKeys, NEW d \in Directions, now' = now, arrived' = arrived,
         NEW packets \in 1..Len(queue[f][d]),
         queue' = [queue EXCEPT ![f][d] = SubSeq(@, packets + 1, Len(@))]
  PROVE  /\ queue' \in [FlowKeys -> [Directions -> Seq(0..MaxTime)]]
         /\ QueuesOrdered' /\ WaitingCounted'
         /\ \A g \in FlowKeys, e \in Directions :
              <<g, e>> # <<f, d>> => queue'[g][e] = queue[g][e]
<1> DEFINE q == queue[f][d]
           n == Len(q)
           rest == SubSeq(q, packets + 1, n)
<1>1. TypeOK
  BY DEF MonitorsInv
<1>2. /\ q \in Seq(0..MaxTime) /\ n \in Nat /\ DOMAIN q = 1..n
      /\ packets \in 1..n
  BY <1>1, QueueType
<1>3. /\ rest \in Seq(0..MaxTime) /\ Len(rest) = n - packets
      /\ DOMAIN rest = 1..(n - packets)
      /\ \A i \in 1..(n - packets) : rest[i] = q[packets + i]
  <2>1. /\ packets + 1 \in Int /\ n \in Int /\ packets \in Nat /\ packets <= n
    BY <1>2
  <2>2. \A i \in 1..n : q[i] \in 0..MaxTime
    BY <1>2, ElementOfSeq
  <2> HIDE DEF q, n
  <2>3. \A i \in (packets + 1)..n : q[i] \in 0..MaxTime
    BY <2>1, <2>2
  <2>4. /\ rest \in Seq(0..MaxTime)
        /\ Len(rest) = IF packets + 1 <= n THEN n - (packets + 1) + 1 ELSE 0
        /\ \A i \in 1..(n - (packets + 1) + 1) : rest[i] = q[(packets + 1) + i - 1]
    BY <2>1, <2>3, SubSeqProperties
  <2> HIDE DEF rest
  <2>5. Len(rest) = n - packets
    BY <2>1, <2>4
  <2>6. \A i \in 1..(n - packets) : /\ i \in 1..(n - (packets + 1) + 1)
                                    /\ (packets + 1) + i - 1 = packets + i
    BY <2>1
  <2>7. \A i \in 1..(n - packets) : rest[i] = q[packets + i]
    BY <2>4, <2>6
  <2> QED BY <2>4, <2>5, <2>7, LenProperties
<1>4. /\ queue'[f][d] = rest
      /\ \A g \in FlowKeys, e \in Directions :
           <<g, e>> # <<f, d>> => queue'[g][e] = queue[g][e]
      /\ \A g \in FlowKeys : DOMAIN queue'[g] = Directions
  BY <1>1 DEF TypeOK
<1>5. queue' \in [FlowKeys -> [Directions -> Seq(0..MaxTime)]]
  BY <1>1, <1>3 DEF TypeOK
<1>6. QueuesOrdered'
  <2>1. \A i \in 1..n : q[i] <= now /\ \A j \in 1..n : i <= j => q[i] <= q[j]
    BY <1>2 DEF MonitorsInv, QueuesOrdered
  <2>2. \A i \in DOMAIN rest : /\ rest[i] <= now
                               /\ \A j \in DOMAIN rest : i <= j => rest[i] <= rest[j]
    <3> HIDE DEF rest, n, q
    <3> SUFFICES ASSUME NEW i \in DOMAIN rest
                 PROVE  /\ rest[i] <= now
                        /\ \A j \in DOMAIN rest : i <= j => rest[i] <= rest[j]
      OBVIOUS
    <3>1. \A j \in DOMAIN rest : packets + j \in 1..n /\ rest[j] = q[packets + j]
      BY <1>2, <1>3
    <3>2. \A j \in DOMAIN rest : i <= j => packets + i <= packets + j
      BY <1>2, <1>3
    <3> QED BY <2>1, <3>1, <3>2
  <2>3. ASSUME NEW g \in FlowKeys, NEW e \in Directions, NEW i \in DOMAIN queue'[g][e]
        PROVE  /\ queue'[g][e][i] <= now'
               /\ \A j \in DOMAIN queue'[g][e] : i <= j => queue'[g][e][i] <= queue'[g][e][j]
    <3>1. CASE <<g, e>> = <<f, d>>
      BY <1>4, <2>2, <2>3, <3>1
    <3>2. CASE <<g, e>> # <<f, d>>
      BY <1>4, <2>3, <3>2 DEF MonitorsInv, QueuesOrdered
    <3> QED BY <3>1, <3>2
  <2> QED BY <2>3 DEF QueuesOrdered
<1>7. WaitingCounted'
  <2>1. q # <<>>
    <3>1. q = <<>> => n = 0
      OBVIOUS
    <3> QED BY <1>2, <3>1
  <2>2. arrived > 0
    BY <2>1 DEF MonitorsInv, WaitingCounted
  <2> QED BY <2>2 DEF WaitingCounted
<1> QED BY <1>4, <1>5, <1>6, <1>7

\* A tracker that is beyond its budget has a packet that is, the first of the queue.
LEMMA OldestIsLate ==
  ASSUME MonitorsInv, NEW f \in DOMAIN flows, NEW d \in Directions
  PROVE  /\ Elapsed(flows[f].delay[d]) \in Int
         /\ \/ Elapsed(flows[f].delay[d]) = 0
            \/ /\ flows[f].delay[d].has_pending_data
               /\ 1 \in DOMAIN queue[f][d] /\ queue[f][d][1] \in Nat
               /\ Elapsed(flows[f].delay[d]) <= now - queue[f][d][1]
<1> DEFINE delay == flows[f].delay[d]
<1>1. /\ TypeOK /\ now \in Int /\ f \in FlowKeys
      /\ delay.oldest_packet_arrival \in Int
  BY FlowType DEF MonitorsInv, TypeOK
<1>2. CASE delay.has_pending_data
  <2>1. queue[f][d] # <<>> /\ queue[f][d][1] <= delay.oldest_packet_arrival
    BY <1>2 DEF MonitorsInv, PendingWaits
  <2>2. 1 \in DOMAIN queue[f][d] /\ queue[f][d][1] \in Nat
    BY <1>1, <2>1, QueueType, EmptySeq
  <2>3. Elapsed(delay) = now - delay.oldest_packet_arrival
    BY <1>2 DEF Elapsed
  <2> HIDE DEF delay
  <2>4. Elapsed(delay) \in Int /\ Elapsed(delay) <= now - queue[f][d][1]
    BY <1>1, <2>1, <2>2, <2>3
  <2> QED BY <1>2, <2>2, <2>4 DEF delay
<1>3. CASE ~delay.has_pending_data
  <2>1. Elapsed(delay) = 0
    BY <1>3 DEF Elapsed
  <2> QED BY <2>1
<1> QED BY <1>2, <1>3

\* A violation is counted for a block whose first packet is late.
LEMMA ViolationCounted ==
  ASSUME MonitorsInv, NEW f \in FlowKeys, NEW d \in Directions, NEW packets,
         Transmit(f, d, packets)
  PROVE  pdb_violations' \in Nat /\ late' \in Nat /\ ViolationsAreReal'
<1> DEFINE elapsed == Elapsed(flows[f].delay[d])
           pdb == flows[f].pdb_ms
           L == {i \in 1..packets : now - queue[f][d][i] > pdb}
<1>1. /\ f \in DOMAIN flows /\ packets \in 1..Len(queue[f][d])
      /\ pdb_violations' = pdb_violations + (IF elapsed > pdb THEN 1 ELSE 0)
      /\ late' = late + Cardinality(L)
  BY DEF Transmit
<1>2. /\ TypeOK /\ pdb \in Nat /\ pdb_violations \in Nat /\ late \in Nat /\ now \in Int
      /\ Len(queue[f][d]) \in Nat /\ pdb_violations <= late
  BY <1>1, FlowType, QueueType DEF MonitorsInv, TypeOK, ViolationsAreReal
<1>3. IsFiniteSet(L) /\ Cardinality(L) \in Nat
  <2>1. 1 \in Int /\ packets \in Int
    BY <1>1, <1>2
  <2>2. IsFiniteSet(1..packets)
    BY <2>1, FS_Interval
  <2> QED BY <2>2, FS_Subset, FS_CardinalityType
<1>4. elapsed > pdb => Cardinality(L) >= 1
  <2> SUFFICES ASSUME elapsed > pdb PROVE Cardinality(L) >= 1
    OBVIOUS
  <2>1. elapsed \in Int /\ queue[f][d][1] \in Nat /\ elapsed <= now - queue[f][d][1]
    BY <1>1, <1>2, OldestIsLate
  <2> HIDE DEF elapsed, pdb
  <2>2. now - queue[f][d][1] > pdb
    BY <1>2, <2>1
  <2>3. 1 \in L
    BY <1>1, <1>2, <2>2
  <2> HIDE DEF L
  <2>4. Cardinality(L) # 0
    BY <1>3, <2>3, FS_EmptySet
  <2> QED BY <1>3, <2>4
<1> HIDE DEF elapsed, pdb, L
<1> QED BY <1>1, <1>2, <1>3, <1>4 DEF ViolationsAreReal

\* A block that is sent takes its packets from the queue and ends the wait.
LEMMA TransmitStep ==
  ASSUME MonitorsInv, NEW f \in FlowKeys, NEW d \in Directions, NEW packets,
         Transmit(f, d, packets)
  PROVE  MonitorsInv'
<1> DEFINE history == add_sample(flows[f].history[d], packets * PacketBytes)
           delay == packet_transmitted(flows[f].delay[d])
<1>1. /\ f \in DOMAIN flows /\ packets \in 1..Len(queue[f][d])
      /\ queue' = [queue EXCEPT ![f][d] = SubSeq(@, packets + 1, Len(@))]
      /\ flows' = [flows EXCEPT ![f].history[d] = history, ![f].delay[d] = delay]
      /\ UNCHANGED <<now, arrived, calls>>
  BY DEF Transmit
<1>2. TypeOK /\ now \in 0..MaxTime /\ Len(queue[f][d]) \in Nat
  BY QueueType DEF MonitorsInv, TypeOK
<1>3. /\ queue' \in [FlowKeys -> [Directions -> Seq(0..MaxTime)]]
      /\ QueuesOrdered' /\ WaitingCounted'
      /\ \A g \in FlowKeys, e \in Directions :
           <<g, e>> # <<f, d>> => queue'[g][e] = queue[g][e]
  BY <1>1, QueueShortened
<1>4. pdb_violations' \in Nat /\ late' \in Nat /\ ViolationsAreReal'
  BY ViolationCounted
<1>5. /\ history \in Seq(Samples) /\ history # <<>>
      /\ Last(history).at - Head(history).at <= WINDOW
      /\ Ordered(history, now)
  <2>1. packets * PacketBytes \in Nat
    <3>1. packets \in Nat /\ PacketBytes \in Nat
      BY <1>1, <1>2, MonitorsAssumption
    <3> QED BY <3>1
  <2>2. flows[f].history[d] \in Seq(Samples)
    BY <1>1, <1>2, FlowType
  <2>3. /\ history \in Seq(Samples) /\ history # <<>> /\ Last(history).at = now
        /\ Head(history).at >= now - WINDOW /\ Ordered(history, now)
    <3>1. Ordered(flows[f].history[d], now)
      BY <1>1 DEF MonitorsInv, HistoriesOrdered
    <3> QED BY <1>2, <2>1, <2>2, <3>1, SampleAdded
  <2> HIDE DEF history
  <2>4. Head(history) \in Samples
    BY <2>3, HeadTailProperties
  <2>5. Head(history).at \in Int /\ WINDOW \in Int /\ now \in Int
    BY <1>2, <2>4, MonitorsAssumption DEF Samples
  <2> QED BY <2>3, <2>5
<1>6. /\ delay \in [has_pending_data : BOOLEAN, oldest_packet_arrival : 0..MaxTime]
      /\ ~delay.has_pending_data
  <2>1. flows[f].delay[d] \in [has_pending_data : BOOLEAN, oldest_packet_arrival : 0..MaxTime]
    BY <1>1, <1>2 DEF TypeOK, FlowStates
  <2> QED BY <2>1 DEF packet_transmitted
<1> HIDE DEF history, delay
<1>7. /\ flows' \in [DOMAIN flows -> FlowStates] /\ DOMAIN flows' = DOMAIN flows
      /\ flows'[f].history[d] = history /\ flows'[f].delay[d] = delay
      /\ \A g \in DOMAIN flows, e \in Directions : <<g, e>> # <<f, d>> =>
           /\ flows'[g].history[e] = flows[g].history[e]
           /\ flows'[g].delay[e] = flows[g].delay[e]
  <2> DEFINE histories == [flows[f].history EXCEPT ![d] = history]
             delays == [flows[f].delay EXCEPT ![d] = delay]
             flow == [flows[f] EXCEPT !.history = histories, !.delay = delays]
  <2>1. flows \in [DOMAIN flows -> FlowStates] /\ flows[f] \in FlowStates
    BY <1>1, <1>2 DEF TypeOK
  <2>2. /\ flows[f].history \in [Directions -> Seq(Samples)]
        /\ flows[f].delay \in
             [Directions -> [has_pending_data : BOOLEAN, oldest_packet_arrival : 0..MaxTime]]
    BY <2>1 DEF FlowStates, Samples
  <2>3. /\ histories \in [Directions -> Seq(Samples)]
        /\ histories[d] = history
        /\ \A e \in Directions : e # d => histories[e] = flows[f].history[e]
    BY <1>5, <2>2, Zenon
  <2>4. /\ delays \in
             [Directions -> [has_pending_data : BOOLEAN, oldest_packet_arrival : 0..MaxTime]]
        /\ delays[d] = delay
        /\ \A e \in Directions : e # d => delays[e] = flows[f].delay[e]
    BY <1>6, <2>2, Zenon
  <2>5. flows' = [flows EXCEPT ![f] = flow]
    BY <1>1 DEF history, delay
  <2> HIDE DEF histories, delays
  <2>6. flow \in FlowStates /\ flow.history = histories /\ flow.delay = delays
    BY <2>1, <2>3, <2>4 DEF FlowStates, Samples
  <2> HIDE DEF flow
  <2>7. /\ flows' \in [DOMAIN flows -> FlowStates] /\ DOMAIN flows' = DOMAIN flows
        /\ flows'[f] = flow /\ \A g \in DOMAIN flows : g # f => flows'[g] = flows[g]
    BY <1>1, <2>1, <2>5, <2>6, Zenon
  <2> QED BY <2>3, <2>4, <2>6, <2>7, Zenon
<1>8. TypeOK'
  <2>1. ASSUME NEW g \in DOMAIN flows', NEW e \in Directions
        PROVE  flows'[g].history[e] # <<>> =>
                 Last(flows'[g].history[e]).at - Head(flows'[g].history[e]).at <= WINDOW
    <3>1. CASE <<g, e>> = <<f, d>>
      BY <1>5, <1>7, <3>1
    <3>2. CASE <<g, e>> # <<f, d>>
      <4>1. flows'[g].history[e] = flows[g].history[e] /\ g \in DOMAIN flows
        BY <1>7, <3>2
      <4>2. flows[g].history[e] # <<>> =>
              Last(flows[g].history[e]).at - Head(flows[g].history[e]).at <= WINDOW
        BY <1>2, <4>1 DEF TypeOK
      <4> QED BY <4>1, <4>2
    <3> QED BY <3>1, <3>2
  <2>2. /\ now' \in 0..MaxTime /\ arrived' \in 0..MaxPackets /\ calls' \in 0..MaxCalls
        /\ flows' \in [DOMAIN flows' -> FlowStates] /\ DOMAIN flows' \subseteq FlowKeys
    BY <1>1, <1>2, <1>7 DEF TypeOK
  <2> QED BY <1>3, <1>4, <2>1, <2>2 DEF TypeOK
<1>9. PendingWaits'
  <2>1. ASSUME NEW g \in DOMAIN flows', NEW e \in Directions,
               flows'[g].delay[e].has_pending_data
        PROVE  /\ queue'[g][e] # <<>>
               /\ queue'[g][e][1] <= flows'[g].delay[e].oldest_packet_arrival
    <3>1. <<g, e>> # <<f, d>> /\ g \in DOMAIN flows /\ g \in FlowKeys
      BY <1>2, <1>6, <1>7, <2>1, FlowType
    <3>2. queue'[g][e] = queue[g][e] /\ flows'[g].delay[e] = flows[g].delay[e]
      BY <1>3, <1>7, <3>1
    <3>3. queue[g][e] # <<>> /\ queue[g][e][1] <= flows[g].delay[e].oldest_packet_arrival
      BY <2>1, <3>1, <3>2 DEF MonitorsInv, PendingWaits
    <3> QED BY <3>2, <3>3
  <2> QED BY <2>1 DEF PendingWaits
<1>10. HistoriesOrdered'
  <2>1. ASSUME NEW g \in DOMAIN flows', NEW e \in Directions
        PROVE  Ordered(flows'[g].history[e], now')
    <3>1. CASE <<g, e>> = <<f, d>>
      BY <1>1, <1>5, <1>7, <3>1
    <3>2. CASE <<g, e>> # <<f, d>>
      <4>1. flows'[g].history[e] = flows[g].history[e] /\ g \in DOMAIN flows
        BY <1>7, <3>2
      <4> QED BY <1>1, <4>1 DEF MonitorsInv, HistoriesOrdered
    <3> QED BY <3>1, <3>2
  <2> QED BY <2>1 DEF HistoriesOrdered
<1> QED BY <1>3, <1>4, <1>8, <1>9, <1>10 DEF MonitorsInv

-----------------------------------------------------------------------------
(* The rate of a flow that has sent steadily.                               *)

\* The bytes of some samples are a number.
LEMMA BytesType ==
  ASSUME NEW history \in Seq(Samples), NEW places \in SUBSET DOMAIN history
  PROVE  BytesAt(history, places) \in Nat
<1> DEFINE bytes == [i \in DOMAIN history |-> history[i].bytes]
<1>1. \A i \in DOMAIN history : bytes[i] \in Nat
  <2>1. \A i \in DOMAIN history : history[i] \in Samples
    BY LenProperties, ElementOfSeq
  <2> QED BY <2>1 DEF Samples
<1>2. IsFiniteSet(DOMAIN history)
  <2>1. DOMAIN history = 1..Len(history) /\ 1 \in Int /\ Len(history) \in Int
    BY LenProperties
  <2> QED BY <2>1, FS_Interval
<1>3. IsFiniteSet(places) /\ \A i \in places : bytes[i] \in Nat
  BY <1>1, <1>2, FS_Subset
<1> HIDE DEF bytes
<1>4. SumFunctionOnSet(bytes, places) \in Nat
  BY <1>3, SumNat
<1> QED BY <1>4 DEF BytesAt, bytes

\* The rate of a tracker is a number.
LEMMA RateType ==
  ASSUME TypeOK, NEW f \in DOMAIN flows, NEW d \in Directions, HistoriesOrdered
  PROVE  current_rate_bps(flows[f].history[d]) \in Nat
<1> DEFINE history == flows[f].history[d]
           duration == Last(history).at - Head(history).at
           n == Len(history)
<1>1. history \in Seq(Samples) /\ Ordered(history, now)
  BY FlowType DEF HistoriesOrdered
<1> HIDE DEF history
<1>2. Total(history) \in Nat
  BY <1>1, BytesType DEF Total
<1>3. n \in Nat /\ DOMAIN history = 1..n /\ \A i \in 1..n : history[i] \in Samples
  BY <1>1, LenProperties, ElementOfSeq
<1>4. ASSUME n >= 2 PROVE duration \in Nat
  <2>1. history # <<>> /\ 1 \in 1..n /\ n \in 1..n /\ 1 <= n
    BY <1>3, <1>4
  <2>2. Last(history) = history[n] /\ Head(history) = history[1]
    BY <1>1, <2>1, HeadTailProperties DEF Last
  <2>3. history[1].at <= history[n].at
    BY <1>1, <1>3, <2>1 DEF Ordered
  <2>4. history[1].at \in Nat /\ history[n].at \in Nat
    <3>1. history[1] \in Samples /\ history[n] \in Samples
      BY <1>3, <2>1
    <3> QED BY <3>1, MonitorsAssumption DEF Samples
  <2> QED BY <2>2, <2>3, <2>4
<1>5. ASSUME n < 2 PROVE current_rate_bps(history) \in Nat
  <2>1. current_rate_bps(history) = 0
    BY <1>5 DEF current_rate_bps
  <2> QED BY <2>1
<1>6. ASSUME n >= 2 PROVE current_rate_bps(history) \in Nat
  <2>1. current_rate_bps(history) =
          IF duration = 0 THEN 0 ELSE (Total(history) * 8000) \div duration
    BY <1>3, <1>6 DEF current_rate_bps
  <2>2. duration \in Nat
    BY <1>4, <1>6
  <2> HIDE DEF duration
  <2>3. (Total(history) * 8000) \in Nat
    BY <1>2
  <2> DEFINE sent == Total(history) * 8000
  <2> HIDE DEF sent
  <2>4. duration # 0 => sent \div duration \in Nat
    BY <2>2, <2>3 DEF sent
  <2>5. current_rate_bps(history) = IF duration = 0 THEN 0 ELSE sent \div duration
    BY <2>1 DEF duration, sent
  <2>6. duration = 0 \/ duration # 0
    OBVIOUS
  <2> QED BY <2>4, <2>5, <2>6
<1>7. current_rate_bps(history) \in Nat
  <2>1. n < 2 \/ n >= 2
    <3> HIDE DEF n
    <3> QED BY <1>3
  <2> QED BY <1>5, <1>6, <2>1
<1> QED BY <1>7 DEF history

\* A tracker that holds the guaranteed bytes of every millisecond of the window measures
\* at least the guaranteed rate.
LEMMA SteadyRate ==
  ASSUME now \in 0..MaxTime, NEW history \in Seq(Samples), Ordered(history, now),
         history # <<>> => Last(history).at - Head(history).at <= WINDOW,
         NEW gbr \in Nat \ {0},
         \A t \in (now - WINDOW + 1)..now : SentAt(history, t) * 8000 >= gbr
  PROVE  current_rate_bps(history) >= gbr
<1> DEFINE n == Len(history)
           bytes == [i \in DOMAIN history |-> history[i].bytes]
           sum(A) == SumFunctionOnSet(bytes, A)
           Since(k) == {i \in DOMAIN history : history[i].at \in (now - k + 1)..now}
           At(t) == {i \in DOMAIN history : history[i].at = t}
           K == {k \in Nat : k <= WINDOW => sum(Since(k)) * 8000 >= k * gbr}
<1>1. /\ now \in Nat /\ WINDOW \in Nat \ {0, 1} /\ gbr \in Nat \ {0}
  BY MonitorsAssumption
<1>2. /\ n \in Nat /\ DOMAIN history = 1..n
      /\ \A i \in DOMAIN history : history[i] \in Samples
  BY LenProperties, ElementOfSeq
<1>3. /\ \A i \in DOMAIN history : history[i].at \in Nat /\ bytes[i] \in Nat
      /\ \A i \in DOMAIN history : bytes[i] \in Int
      /\ IsFiniteSet(DOMAIN history)
  <2>1. \A i \in DOMAIN history : history[i].at \in Nat /\ history[i].bytes \in Nat
    BY <1>2, MonitorsAssumption DEF Samples
  <2>2. IsFiniteSet(1..n)
    <3>1. 1 \in Int /\ n \in Int
      BY <1>2
    <3> QED BY <3>1, FS_Interval
  <2> QED BY <1>2, <2>1, <2>2
<1>4. ASSUME NEW A \in SUBSET DOMAIN history PROVE IsFiniteSet(A) /\ sum(A) \in Nat
  <2>1. IsFiniteSet(A) /\ \A i \in A : bytes[i] \in Nat
    BY <1>3, FS_Subset
  <2> HIDE DEF bytes
  <2> QED BY <2>1, SumNat
<1>5. \A t \in (now - WINDOW + 1)..now : sum(At(t)) * 8000 >= gbr
  BY DEF SentAt, BytesAt
<1>6. sum({}) = 0
  BY SumEmpty
<1>7. current_rate_bps(history) =
        IF n < 2 THEN 0
        ELSE IF Last(history).at - Head(history).at = 0 THEN 0
        ELSE (sum(DOMAIN history) * 8000) \div (Last(history).at - Head(history).at)
  BY DEF current_rate_bps, Total, BytesAt
<1> HIDE DEF bytes, sum
<1>8. 0 \in K
  <2>1. sum(Since(0)) \in Nat
    BY <1>4
  <2> HIDE DEF Since
  <2> QED BY <1>1, <2>1
<1>9. ASSUME NEW k \in Nat, k \in K PROVE k + 1 \in K
  <2> SUFFICES ASSUME k + 1 <= WINDOW PROVE sum(Since(k + 1)) * 8000 >= (k + 1) * gbr
    <3> HIDE DEF Since
    <3> QED OBVIOUS
  <2>1. /\ Since(k) \in SUBSET DOMAIN history /\ At(now - k) \in SUBSET DOMAIN history
    OBVIOUS
  <2>2. Since(k + 1) = Since(k) \cup At(now - k) /\ Since(k) \cap At(now - k) = {}
    BY <1>1, <1>3
  <2>3. sum(Since(k) \cup At(now - k)) = sum(Since(k)) + sum(At(now - k))
    <3>1. IsFiniteSet(Since(k)) /\ IsFiniteSet(At(now - k))
      BY <1>4, <2>1
    <3>2. \A i \in Since(k) \cup At(now - k) : bytes[i] \in Int
      BY <1>3, <2>1
    <3> QED BY <2>2, <3>1, <3>2, SumUnion DEF sum
  <2>4. sum(Since(k)) * 8000 >= k * gbr /\ sum(At(now - k)) * 8000 >= gbr
    <3>1. k <= WINDOW /\ now - k \in (now - WINDOW + 1)..now
      BY <1>1
    <3> QED BY <1>5, <1>9, <3>1
  <2>5. sum(Since(k)) \in Nat /\ sum(At(now - k)) \in Nat
    BY <1>4, <2>1
  <2>6. sum(Since(k + 1)) = sum(Since(k)) + sum(At(now - k))
    <3> DEFINE A == Since(k)
               B == At(now - k)
               C == Since(k + 1)
    <3>1. C = A \cup B
      BY <2>2
    <3>2. sum(A \cup B) = sum(A) + sum(B)
      BY <2>3
    <3> HIDE DEF A, B, C
    <3>3. sum(C) = sum(A) + sum(B)
      BY <3>1, <3>2
    <3> QED BY <3>3 DEF A, B, C
  <2>7. (k + 1) * gbr = k * gbr + gbr /\ k * gbr \in Nat
    BY <1>1
  <2> HIDE DEF Since, At
  <2> QED BY <1>1, <2>4, <2>5, <2>6, <2>7
<1>10. sum(Since(WINDOW)) * 8000 >= WINDOW * gbr
  <2> HIDE DEF K
  <2>1. WINDOW \in K
    BY <1>1, <1>8, <1>9, NatSetInduction
  <2> QED BY <1>1, <2>1 DEF K
<1> HIDE DEF K
<1>11. sum(Since(WINDOW)) <= sum(DOMAIN history) /\ sum(DOMAIN history) \in Nat
       /\ sum(Since(WINDOW)) \in Nat
  <2>1. Since(WINDOW) \in SUBSET DOMAIN history
    OBVIOUS
  <2> HIDE DEF Since
  <2> QED BY <1>3, <1>4, <2>1, SumOfPart DEF sum
<1>12. \A t \in {now, now - 1} : \E i \in 1..n : history[i].at = t
  <2> SUFFICES ASSUME NEW t \in {now, now - 1} PROVE At(t) # {}
    BY <1>2
  <2>1. t \in (now - WINDOW + 1)..now
    BY <1>1
  <2>2. sum(At(t)) * 8000 >= gbr
    BY <1>5, <2>1
  <2> HIDE DEF At
  <2>3. ASSUME At(t) = {} PROVE sum(At(t)) = 0
    <3>1. sum(At(t)) = sum({})
      BY <2>3
    <3> QED BY <1>6, <3>1
  <2> DEFINE z == sum(At(t))
  <2> HIDE DEF z
  <2>4. z # 0
    BY <1>1, <2>2 DEF z
  <2> QED BY <2>3, <2>4 DEF z
<1>13. PICK i \in 1..n, j \in 1..n : history[i].at = now /\ history[j].at = now - 1
  BY <1>12
<1> DEFINE duration == Last(history).at - Head(history).at
<1>14. n >= 2 /\ duration \in 1..WINDOW
  <2>1. i # j /\ n >= 2
    <3>1. i # j
      BY <1>1, <1>13
    <3> QED BY <1>2, <3>1
  <2>2. history # <<>>
    BY <2>1
  <2>3. Last(history) = history[n] /\ Head(history) = history[1]
    BY <2>2, HeadTailProperties DEF Last
  <2>4. 1 \in DOMAIN history /\ n \in DOMAIN history /\ 1 <= j /\ i <= n
        /\ i \in DOMAIN history /\ j \in DOMAIN history
    BY <1>2, <2>1
  <2>5. history[1].at <= now - 1 /\ now <= history[n].at
    BY <1>13, <2>4 DEF Ordered
  <2>6. history[1].at \in Nat /\ history[n].at \in Nat
    BY <1>3, <2>4
  <2>7. history[n].at - history[1].at <= WINDOW
    BY <2>2, <2>3
  <2> QED BY <1>1, <2>1, <2>3, <2>5, <2>6, <2>7, SMTT(20)
<1> DEFINE sent == sum(DOMAIN history) * 8000
<1>15. sent \in Nat /\ sent >= WINDOW * gbr
  <2> HIDE DEF Since
  <2>1. WINDOW * gbr \in Nat
    BY <1>1
  <2> QED BY <1>10, <1>11, <2>1
<1>16. current_rate_bps(history) = sent \div duration
  BY <1>2, <1>7, <1>14
<1> HIDE DEF sent, duration
<1>17. sent \div duration >= gbr
  <2> DEFINE q == sent \div duration
             r == sent % duration
  <2>1. q \in Int /\ r \in 0..(duration - 1) /\ sent = duration * q + r
    BY <1>1, <1>14, <1>15
  <2> HIDE DEF q, r
  <2>2. duration * gbr <= WINDOW * gbr
    BY <1>1, <1>14
  <2>3. duration * (q + 1) = duration * q + duration
    BY <1>1, <1>14, <2>1
  <2>4. duration * (q + 1) > duration * gbr
    <3>1. duration * gbr \in Nat /\ WINDOW * gbr \in Nat /\ duration * q \in Int
      BY <1>1, <1>14, <2>1
    <3> QED BY <1>14, <1>15, <2>1, <2>2, <2>3, <3>1
  <2>5. q + 1 > gbr
    <3> SUFFICES ASSUME q + 1 <= gbr PROVE FALSE
      BY <1>1, <2>1
    <3>1. duration * (q + 1) <= duration * gbr
      BY <1>1, <1>14, <2>1
    <3> QED BY <1>1, <1>14, <2>1, <2>4, <3>1
  <2> QED BY <1>1, <2>1, <2>5 DEF q
<1> QED BY <1>16, <1>17

-----------------------------------------------------------------------------
(* The theorems.                                                            *)

\* Nothing waits when the engine is created.
LEMMA InitMonitors == Init => MonitorsInv
<1> SUFFICES ASSUME Init PROVE MonitorsInv
  OBVIOUS
<1>1. DOMAIN <<>> = {} /\ <<>> \in Seq(0..MaxTime)
  BY EmptySeq
<1>2. TypeOK
  BY <1>1, MonitorsAssumption DEF Init, TypeOK
<1>3. \A f \in FlowKeys, d \in Directions : queue[f][d] = <<>>
  BY DEF Init
<1> QED BY <1>1, <1>2, <1>3
        DEF Init, MonitorsInv, QueuesOrdered, PendingWaits, WaitingCounted,
            HistoriesOrdered, ViolationsAreReal

\* Every call, and the clock, keep the trackers in step with the queues.
LEMMA NextMonitors == MonitorsInv /\ [Next]_vars => MonitorsInv'
<1> SUFFICES ASSUME MonitorsInv, [Next]_vars PROVE MonitorsInv'
  OBVIOUS
<1>1. ASSUME NEW f \in FlowKeys, NEW is_gbr \in BOOLEAN, NEW gbr_bps \in GuaranteedRates,
             NEW pdb_ms \in Budgets, register_flow(f, is_gbr, gbr_bps, pdb_ms)
      PROVE  MonitorsInv'
  BY <1>1, RegisterStep
<1>2. ASSUME NEW f \in FlowKeys, remove_flow(f) PROVE MonitorsInv'
  BY <1>2, ForgetStep DEF remove_flow
<1>3. ASSUME NEW f \in FlowKeys, NEW d \in Directions, notify_data_arrival(f, d)
      PROVE  MonitorsInv'
  BY <1>3, ArrivalStep
<1>4. ASSUME NEW f \in FlowKeys, NEW d \in Directions, NEW packets, Transmit(f, d, packets)
      PROVE  MonitorsInv'
  BY <1>4, TransmitStep
<1>5. ASSUME NEW rnti, remove_ue_flows(rnti) PROVE MonitorsInv'
  BY <1>5, ForgetStep DEF remove_ue_flows
<1>6. CASE reset_statistics
  <2>1. TypeOK'
    BY <1>6, MonitorsAssumption DEF reset_statistics, Call, MonitorsInv, TypeOK
  <2> QED BY <1>6, <2>1 DEF reset_statistics, MonitorsInv, QueuesOrdered, PendingWaits,
             WaitingCounted, HistoriesOrdered, ViolationsAreReal
<1>7. CASE Tick
  <2>1. TypeOK' /\ now \in Nat /\ now' = now + 1
    BY <1>7, MonitorsAssumption DEF Tick, MonitorsInv, TypeOK
  <2>2. QueuesOrdered'
    <3>1. ASSUME NEW f \in FlowKeys, NEW d \in Directions, NEW i \in DOMAIN queue[f][d]
          PROVE  queue[f][d][i] <= now'
      <4>1. queue[f][d][i] \in Nat /\ queue[f][d][i] <= now
        BY <3>1, QueueType DEF MonitorsInv, QueuesOrdered
      <4> QED BY <2>1, <4>1
    <3>2. queue' = queue
      BY <1>7 DEF Tick
    <3> QED BY <3>1, <3>2 DEF MonitorsInv, QueuesOrdered
  <2>3. HistoriesOrdered'
    <3>1. ASSUME NEW f \in DOMAIN flows, NEW d \in Directions
          PROVE  Ordered(flows[f].history[d], now')
      <4> DEFINE history == flows[f].history[d]
      <4>1. history \in Seq(Samples) /\ Ordered(history, now)
        BY FlowType DEF MonitorsInv, HistoriesOrdered
      <4>2. \A i \in DOMAIN history : history[i] \in Samples
        BY <4>1, LenProperties, ElementOfSeq
      <4> HIDE DEF history
      <4>3. \A i \in DOMAIN history : history[i].at \in Int
        BY <4>2, MonitorsAssumption DEF Samples
      <4>4. \A i \in DOMAIN history : history[i].at <= now'
        BY <2>1, <4>1, <4>3 DEF Ordered
      <4>5. Ordered(history, now')
        BY <4>1, <4>4 DEF Ordered
      <4> QED BY <4>5 DEF history
    <3>2. flows' = flows
      BY <1>7 DEF Tick
    <3> QED BY <3>1, <3>2 DEF HistoriesOrdered
  <2> QED BY <1>7, <2>1, <2>2, <2>3
          DEF Tick, MonitorsInv, PendingWaits, WaitingCounted, ViolationsAreReal
<1>8. CASE UNCHANGED vars
  BY <1>8 DEF vars, MonitorsInv, TypeOK, QueuesOrdered, PendingWaits, WaitingCounted,
              HistoriesOrdered, ViolationsAreReal
<1> QED BY <1>1, <1>2, <1>3, <1>4, <1>5, <1>6, <1>7, <1>8 DEF Next

\* For any flows and packets, the trackers keep their types, and no history is longer
\* than its window (register_flow, add_sample, packet_arrived).
THEOREM TypeCorrect == Spec => []TypeOK
<1>1. MonitorsInv => TypeOK
  BY DEF MonitorsInv
<1> QED BY <1>1, InitMonitors, NextMonitors, PTL DEF Spec

\* For any flows and packets, what get_delay_critical_flows returns has a packet that has
\* waited for the margin of its budget.
THEOREM DelayAlarmsAreReal == Spec => []CriticalFlowsHaveOldPackets
<1>1. ASSUME MonitorsInv PROVE CriticalFlowsHaveOldPackets
  <2> SUFFICES ASSUME NEW f \in DOMAIN flows, NEW d \in Directions,
                      10 * Elapsed(flows[f].delay[d]) > MARGIN * flows[f].pdb_ms
               PROVE  \E e \in Directions, i \in 1..MaxPackets :
                        /\ i \in DOMAIN queue[f][e]
                        /\ 10 * (now - queue[f][e][i]) > MARGIN * flows[f].pdb_ms
    BY DEF CriticalFlowsHaveOldPackets, get_delay_critical_flows
  <2>1. /\ f \in FlowKeys /\ flows[f].pdb_ms \in Nat /\ MARGIN \in Nat /\ now \in Int
        /\ arrived \in 0..MaxPackets /\ MaxPackets \in Nat
    <3>1. TypeOK /\ now \in 0..MaxTime /\ arrived \in 0..MaxPackets
      BY <1>1 DEF MonitorsInv, TypeOK
    <3>2. f \in FlowKeys /\ flows[f].pdb_ms \in Nat \ {0}
      BY <3>1, FlowType
    <3>3. now \in Int /\ MARGIN \in Nat /\ MaxPackets \in Nat
      BY <3>1, MonitorsAssumption
    <3> QED BY <3>1, <3>2, <3>3
  <2>2. MARGIN * flows[f].pdb_ms \in Nat
    <3> DEFINE pdb == flows[f].pdb_ms
    <3>1. pdb \in Nat
      BY <2>1
    <3> HIDE DEF pdb
    <3>2. MARGIN * pdb \in Nat
      BY <2>1, <3>1
    <3> QED BY <3>2 DEF pdb
  <2> DEFINE elapsed == Elapsed(flows[f].delay[d])
             share == MARGIN * flows[f].pdb_ms
             first == queue[f][d][1]
  <2>3. 10 * elapsed > share /\ share \in Nat
    BY <2>2
  <2>4. /\ elapsed \in Int
        /\ elapsed = 0 \/ (1 \in DOMAIN queue[f][d] /\ first \in Nat /\ elapsed <= now - first)
    BY <1>1, OldestIsLate
  <2>5. 1 \in DOMAIN queue[f][d] /\ 10 * (now - first) > share
    <3> HIDE DEF elapsed, share, first
    <3> QED BY <2>1, <2>3, <2>4
  <2>6. 1 \in 1..MaxPackets
    <3>1. queue[f][d] # <<>>
      BY <2>5
    <3>2. arrived > 0
      BY <1>1, <2>1, <3>1 DEF MonitorsInv, WaitingCounted
    <3> QED BY <2>1, <3>2
  <2> QED BY <2>5, <2>6
<1> QED BY <1>1, InitMonitors, NextMonitors, PTL DEF Spec

\* For any flows and packets, every violation that notify_data_transmitted counts is a
\* packet sent after its budget.
THEOREM ViolationsCountedAreReal == Spec => []ViolationsAreReal
<1>1. MonitorsInv => ViolationsAreReal
  BY DEF MonitorsInv
<1> QED BY <1>1, InitMonitors, NextMonitors, PTL DEF Spec

\* For any flows, rates and window, get_gbr_deficit_flows never lists a flow that has
\* sent its guaranteed bytes in each millisecond of the window.
THEOREM DeficitsAreReal == Spec => []SteadyFlowsNotInDeficit
<1>1. ASSUME MonitorsInv PROVE SteadyFlowsNotInDeficit
  <2> SUFFICES ASSUME NEW f \in DOMAIN flows, NEW d \in Directions,
                      BelowGuarantee(flows[f], d),
                      \A t \in (now - WINDOW + 1)..now :
                        ~(SentAt(flows[f].history[d], t) * 8000 < flows[f].gbr_bps)
               PROVE  FALSE
    BY DEF SteadyFlowsNotInDeficit, get_gbr_deficit_flows
  <2> DEFINE history == flows[f].history[d]
             gbr == flows[f].gbr_bps
             rate == current_rate_bps(history)
  <2>1. /\ TypeOK /\ now \in 0..MaxTime /\ history \in Seq(Samples)
        /\ Ordered(history, now)
        /\ history # <<>> => Last(history).at - Head(history).at <= WINDOW
    BY <1>1, FlowType DEF MonitorsInv, TypeOK, HistoriesOrdered
  <2>2. gbr \in Nat
    <3>1. flows[f] \in FlowStates
      BY <2>1 DEF TypeOK
    <3>2. gbr \in GuaranteedRates
      BY <3>1 DEF FlowStates
    <3> HIDE DEF gbr
    <3> QED BY <3>2, MonitorsAssumption
  <2>3. rate * 100 < gbr * STRICTNESS /\ STRICTNESS \in 0..100
    BY MonitorsAssumption DEF BelowGuarantee
  <2>4. \A t \in (now - WINDOW + 1)..now : SentAt(history, t) * 8000 >= gbr
    <3> SUFFICES ASSUME NEW t \in (now - WINDOW + 1)..now
                 PROVE  SentAt(history, t) * 8000 >= gbr
      OBVIOUS
    <3>1. SentAt(history, t) \in Nat /\ ~(SentAt(history, t) * 8000 < gbr)
      BY <2>1, BytesType DEF SentAt
    <3> HIDE DEF history, gbr
    <3> QED BY <2>2, <3>1
  <2>5. rate \in Nat
    BY <1>1, RateType DEF MonitorsInv
  <2> HIDE DEF history, gbr, rate
  <2>6. gbr # 0
    BY <2>3, <2>5
  <2>7. rate >= gbr
    BY <2>1, <2>2, <2>4, <2>6, SteadyRate DEF rate
  <2>8. gbr * STRICTNESS <= gbr * 100
    BY <2>2, <2>3
  <2>9. gbr * STRICTNESS \in Int
    BY <2>2, <2>3
  <2> QED BY <2>2, <2>3, <2>5, <2>7, <2>8, <2>9
<1> QED BY <1>1, InitMonitors, NextMonitors, PTL DEF Spec
=============================================================================
