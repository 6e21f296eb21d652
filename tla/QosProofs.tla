----------------------------- MODULE QosProofs -----------------------------
(***************************************************************************)
(* Token buckets and counts of the QoS engine, for any rates, depth, block    *)
(* sizes and word width: a flow that keeps to what is allowed is never more    *)
(* than one padding in debt and sends in no interval more than its rate lets   *)
(* in, and no count of flows is too small.                                   *)
(*                                                                          *)
(* The rate is kept because LogGood is: since any block that was sent, the     *)
(* bytes sent and the tokens left are at most a bucket and what the rate has   *)
(* let in up to the last update, whatever each update has rounded off.        *)
(***************************************************************************)
EXTENDS QosEngine, NumberLemmas, SequenceTheorems

\* A bucket that neither overflows nor is deeper in debt than a padding.
GoodBucket(bucket) ==
  /\ bucket \in Buckets
  /\ bucket.tokens <= BucketSize(bucket.fill_rate_bps)
  /\ bucket.last_update <= now
  /\ bucket.tokens >= -Padding

FlowsGood ==
  /\ now \in 0..MaxTime
  /\ DOMAIN flows \subseteq FlowKeys
  /\ flows \in [DOMAIN flows -> FlowStates]
  /\ \A f \in DOMAIN flows, d \in Directions : GoodBucket(flows[f].buckets[d])

GuaranteedFlows == {f \in DOMAIN flows : flows[f].resource_type # "NonGBR"}

CountsGood ==
  /\ IsFiniteSet(DOMAIN flows)
  /\ total_flows \in Int /\ gbr_flows \in Int
  /\ CountsCoverFlows

-----------------------------------------------------------------------------
(* struct TokenBucket.                                                      *)

LEMMA NaturalQuotient ==
  ASSUME NEW a \in Nat, NEW b \in Nat \ {0}
  PROVE  a \div b \in Nat
OBVIOUS

LEMMA BucketSizeType ==
  ASSUME NEW rate \in Nat
  PROVE  BucketSize(rate) \in Nat
<1>1. rate * DEPTH \in Nat /\ 8 * SECOND \in Nat \ {0}
  BY QosAssumption
<1> QED BY <1>1, NaturalQuotient DEF BucketSize

LEMMA FullBucketGood ==
  ASSUME NEW rate \in Rates \cup {NON_GBR_RATE}, now \in 0..MaxTime
  PROVE  GoodBucket(FullBucket(rate))
<1>1. rate \in Nat /\ Padding \in Nat
  BY QosAssumption
<1>2. BucketSize(rate) \in Nat
  BY <1>1, BucketSizeType
<1> QED BY <1>1, <1>2, QosAssumption DEF GoodBucket, FullBucket, Buckets

\* An update adds tokens up to the size of the bucket.
LEMMA UpdateGood ==
  ASSUME NEW bucket, GoodBucket(bucket), now \in 0..MaxTime
  PROVE  GoodBucket(update(bucket))
<1> DEFINE rate == bucket.fill_rate_bps
           size == BucketSize(rate)
           new  == (rate * (now - bucket.last_update)) \div SECOND
<1>1. /\ rate \in Nat /\ rate \in Rates \cup {NON_GBR_RATE} /\ bucket.tokens \in Int
      /\ bucket.last_update \in Nat /\ bucket.last_update <= now /\ now \in Nat
      /\ bucket.tokens <= size /\ bucket.tokens >= -Padding
      /\ Padding \in Nat /\ SECOND \in Nat \ {0}
  <2>1. /\ rate \in Rates \cup {NON_GBR_RATE} /\ bucket.tokens \in Int
        /\ bucket.last_update \in 0..MaxTime
    BY DEF GoodBucket, Buckets
  <2>2. /\ bucket.last_update <= now /\ bucket.tokens <= size
        /\ bucket.tokens >= -Padding
    BY DEF GoodBucket
  <2> HIDE DEF rate, size
  <2>3. now \in Nat /\ bucket.last_update \in Nat /\ rate \in Nat
    BY <2>1, QosAssumption
  <2> QED BY <2>1, <2>2, <2>3, QosAssumption
<1>2. size \in Nat
  BY <1>1, BucketSizeType
<1>3. new \in Nat
  <2>1. now - bucket.last_update \in Nat
    BY <1>1
  <2>2. rate * (now - bucket.last_update) \in Nat
    BY <1>1, <2>1
  <2> QED BY <1>1, <2>2, NaturalQuotient
<1> DEFINE tokens == Lesser(bucket.tokens + new, size)
<1>4. update(bucket) = [bucket EXCEPT !.tokens = tokens, !.last_update = now]
  BY DEF update
<1> HIDE DEF new, size, rate
<1>5. tokens \in Int /\ tokens <= size /\ tokens >= -Padding
  BY <1>1, <1>2, <1>3 DEF Lesser
<1> HIDE DEF tokens
<1>6. /\ update(bucket) \in Buckets /\ update(bucket).tokens = tokens
      /\ update(bucket).last_update = now /\ update(bucket).fill_rate_bps = rate
  BY <1>4, <1>5 DEF GoodBucket, Buckets, rate
<1> QED BY <1>1, <1>5, <1>6 DEF GoodBucket, size

\* What is allowed is at most the tokens there are, whatever the width of the cast.
LEMMA AllowedBytesBound ==
  ASSUME NEW bucket \in Buckets, allowed_bytes(bucket) > 0
  PROVE  allowed_bytes(bucket) \in Nat /\ allowed_bytes(bucket) <= bucket.tokens
<1> DEFINE n == bucket.tokens
<1>1. n \in Int /\ WORD \in Nat \ {0}
  BY QosAssumption DEF Buckets
<1>2. n > 0 /\ allowed_bytes(bucket) = n % WORD
  BY DEF allowed_bytes
<1> HIDE DEF n
<1>3. n \in Nat /\ n % WORD \in 0..(WORD - 1)
  BY <1>1, <1>2
<1>4. CASE n < WORD
  <2>1. n % WORD = n
    BY <1>1, <1>3, <1>4
  <2> QED BY <1>2, <1>3, <2>1 DEF n
<1>5. CASE n >= WORD
  <2>1. n % WORD \in Nat /\ n % WORD <= n
    BY <1>1, <1>3, <1>5
  <2> QED BY <1>2, <2>1 DEF n
<1> QED BY <1>1, <1>3, <1>4, <1>5

-----------------------------------------------------------------------------
(* The flows.                                                               *)

\* One bucket is replaced.
LEMMA BucketReplaced ==
  ASSUME FlowsGood, NEW f \in DOMAIN flows, NEW d \in Directions,
         NEW bucket, GoodBucket(bucket), now' = now,
         flows' = [flows EXCEPT ![f].buckets[d] = bucket]
  PROVE  /\ FlowsGood' /\ DOMAIN flows' = DOMAIN flows
         /\ \A g \in DOMAIN flows : flows'[g].resource_type = flows[g].resource_type
<1>1. /\ DOMAIN flows' = DOMAIN flows
      /\ \A g \in DOMAIN flows : g # f => flows'[g] = flows[g]
      /\ flows'[f] = [flows[f] EXCEPT !.buckets[d] = bucket]
  BY DEF FlowsGood
<1>2. flows[f] \in FlowStates /\ bucket \in Buckets
  BY DEF FlowsGood, GoodBucket
<1>3. /\ flows'[f] \in FlowStates /\ flows'[f].resource_type = flows[f].resource_type
      /\ \A e \in Directions : flows'[f].buckets[e] = IF e = d THEN bucket
                                                      ELSE flows[f].buckets[e]
  BY <1>1, <1>2 DEF FlowStates
<1>4. flows' \in [DOMAIN flows' -> FlowStates]
  <2>1. \A g \in DOMAIN flows : flows'[g] \in FlowStates
    BY <1>1, <1>3 DEF FlowsGood
  <2> QED BY <1>1, <2>1
<1>5. \A g \in DOMAIN flows', e \in Directions : GoodBucket(flows'[g].buckets[e])
  BY <1>1, <1>3 DEF FlowsGood
<1>6. (\A g \in DOMAIN flows, e \in Directions : GoodBucket(flows[g].buckets[e]))'
  BY <1>5 DEF GoodBucket
<1> QED BY <1>1, <1>3, <1>4, <1>6 DEF FlowsGood

\* Every bucket is updated.
LEMMA TickStep ==
  ASSUME FlowsGood, on_slot_tick
  PROVE  /\ FlowsGood' /\ DOMAIN flows' = DOMAIN flows
         /\ \A g \in DOMAIN flows : flows'[g].resource_type = flows[g].resource_type
<1>1. /\ DOMAIN flows' = DOMAIN flows /\ now' = now
      /\ \A g \in DOMAIN flows :
           flows'[g] = [flows[g] EXCEPT !.buckets = [d \in Directions |-> Updated(g, d)]]
      /\ flows' = [g \in DOMAIN flows |-> flows'[g]]
  BY DEF on_slot_tick
<1>2. \A g \in DOMAIN flows, d \in Directions : GoodBucket(Updated(g, d))
  BY UpdateGood DEF FlowsGood, Updated
<1>3. ASSUME NEW g \in DOMAIN flows
      PROVE  /\ flows'[g] \in FlowStates
             /\ flows'[g].resource_type = flows[g].resource_type
             /\ \A d \in Directions : flows'[g].buckets[d] = Updated(g, d)
  <2>1. flows[g] \in FlowStates /\ \A d \in Directions : Updated(g, d) \in Buckets
    BY <1>2 DEF FlowsGood, GoodBucket
  <2> QED BY <1>1, <2>1 DEF FlowStates
<1>4. flows' \in [DOMAIN flows' -> FlowStates]
  BY <1>1, <1>3
<1>5. (\A g \in DOMAIN flows, d \in Directions : GoodBucket(flows[g].buckets[d]))'
  <2>1. \A g \in DOMAIN flows', d \in Directions : GoodBucket(flows'[g].buckets[d])
    BY <1>1, <1>2, <1>3
  <2> QED BY <1>1, <2>1 DEF GoodBucket
<1> QED BY <1>1, <1>3, <1>4, <1>5 DEF FlowsGood

LEMMA RegisterStep ==
  ASSUME FlowsGood, NEW f \in FlowKeys, NEW type \in ResourceTypes, NEW mbr \in Rates,
         register_flow(f, type, mbr)
  PROVE  FlowsGood'
<1> DEFINE rate == IF type = "NonGBR" THEN NON_GBR_RATE ELSE mbr
           new  == [resource_type |-> type, mbr_bps |-> mbr,
                    buckets |-> [d \in Directions |-> FullBucket(rate)]]
<1>1. /\ flows' = [g \in DOMAIN flows \cup {f} |-> IF g = f THEN new ELSE flows[g]]
      /\ now' = now
  BY DEF register_flow, With
<1>2. GoodBucket(FullBucket(rate)) /\ FullBucket(rate) \in Buckets
  BY FullBucketGood DEF FlowsGood, GoodBucket
<1> HIDE DEF rate
<1>3. new \in FlowStates /\ \A d \in Directions : new.buckets[d] = FullBucket(rate)
  BY <1>2 DEF FlowStates
<1> HIDE DEF new
<1>4. flows' \in [DOMAIN flows' -> FlowStates] /\ DOMAIN flows' \subseteq FlowKeys
  BY <1>1, <1>3 DEF FlowsGood
<1>5. \A g \in DOMAIN flows', d \in Directions : GoodBucket(flows'[g].buckets[d])
  BY <1>1, <1>2, <1>3 DEF FlowsGood
<1>6. (\A g \in DOMAIN flows, d \in Directions : GoodBucket(flows[g].buckets[d]))'
  BY <1>1, <1>5 DEF GoodBucket
<1> QED BY <1>1, <1>4, <1>6 DEF FlowsGood

LEMMA ForgetStep ==
  ASSUME FlowsGood, NEW gone, Forget(gone), now' = now
  PROVE  FlowsGood'
<1>1. flows' = [g \in DOMAIN flows \ gone |-> flows[g]]
  BY DEF Forget, Restrict
<1>2. flows' \in [DOMAIN flows' -> FlowStates] /\ DOMAIN flows' \subseteq FlowKeys
  BY <1>1 DEF FlowsGood
<1>3. \A g \in DOMAIN flows', d \in Directions : GoodBucket(flows'[g].buckets[d])
  BY <1>1 DEF FlowsGood
<1>4. (\A g \in DOMAIN flows, d \in Directions : GoodBucket(flows[g].buckets[d]))'
  BY <1>3 DEF GoodBucket
<1> QED BY <1>2, <1>4 DEF FlowsGood

\* The block sent was allowed, up to the padding.
LEMMA SendStep ==
  ASSUME FlowsGood, NEW f, NEW d \in Directions, NEW bytes \in Amounts, Send(f, d, bytes)
  PROVE  /\ FlowsGood' /\ DOMAIN flows' = DOMAIN flows
         /\ \A g \in DOMAIN flows : flows'[g].resource_type = flows[g].resource_type
<1> DEFINE bucket == Updated(f, d)
           left   == [bucket EXCEPT !.tokens = @ - bytes]
<1>1. /\ f \in DOMAIN flows /\ now' = now
      /\ allowed_bytes(bucket) > 0 /\ bytes <= allowed_bytes(bucket) + Padding
      /\ flows' = [flows EXCEPT ![f].buckets[d] = left]
  BY DEF Send, report_transmission
<1>2. GoodBucket(bucket)
  BY <1>1, UpdateGood DEF FlowsGood, Updated
<1> HIDE DEF bucket
<1>3. GoodBucket(left)
  <2>1. bucket \in Buckets /\ bytes \in Nat /\ Padding \in Nat
    BY <1>2, QosAssumption DEF GoodBucket
  <2>2. allowed_bytes(bucket) \in Nat /\ allowed_bytes(bucket) <= bucket.tokens
    BY <1>1, <2>1, AllowedBytesBound
  <2>3. /\ bucket.tokens - bytes \in Int /\ bucket.tokens - bytes >= -Padding
        /\ bucket.tokens - bytes <= bucket.tokens /\ bucket.tokens \in Int
    BY <1>1, <2>1, <2>2 DEF Buckets
  <2>4. /\ left \in Buckets /\ left.tokens = bucket.tokens - bytes
        /\ left.last_update = bucket.last_update
        /\ left.fill_rate_bps = bucket.fill_rate_bps
    BY <2>1, <2>3 DEF Buckets
  <2>5. BucketSize(bucket.fill_rate_bps) \in Nat
    BY <2>1, QosAssumption, BucketSizeType DEF Buckets
  <2> HIDE DEF left
  <2> QED BY <1>2, <2>3, <2>4, <2>5 DEF GoodBucket
<1> HIDE DEF left
<1> QED BY <1>1, <1>3, BucketReplaced

-----------------------------------------------------------------------------
(* The counts.                                                              *)

\* The flows, their types and the counts are kept.
LEMMA CountsKept ==
  ASSUME CountsGood, DOMAIN flows' = DOMAIN flows,
         \A g \in DOMAIN flows : flows'[g].resource_type = flows[g].resource_type,
         UNCHANGED <<total_flows, gbr_flows, was_reset>>
  PROVE  CountsGood'
<1>1. GuaranteedFlows' = GuaranteedFlows
  BY DEF GuaranteedFlows
<1> QED BY <1>1 DEF CountsGood, CountsCoverFlows, GuaranteedFlows

LEMMA GuaranteedFinite ==
  ASSUME CountsGood
  PROVE  IsFiniteSet(GuaranteedFlows) /\ Cardinality(GuaranteedFlows) \in Nat
<1>1. GuaranteedFlows \subseteq DOMAIN flows
  BY DEF GuaranteedFlows
<1> QED BY <1>1, FS_Subset, FS_CardinalityType DEF CountsGood

LEMMA RegisterCounts ==
  ASSUME CountsGood, NEW f, NEW type, NEW mbr, register_flow(f, type, mbr)
  PROVE  CountsGood'
<1> DEFINE more == IF type = "NonGBR" THEN 0 ELSE 1
<1>1. /\ DOMAIN flows' = DOMAIN flows \cup {f}
      /\ flows'[f].resource_type = type
      /\ \A g \in DOMAIN flows : g # f => flows'[g] = flows[g]
      /\ total_flows' = total_flows + 1 /\ gbr_flows' = gbr_flows + more
      /\ was_reset' = was_reset
  BY DEF register_flow, With
<1>2. /\ IsFiniteSet(DOMAIN flows') /\ Cardinality(DOMAIN flows') \in Nat
      /\ Cardinality(DOMAIN flows) \in Nat
      /\ Cardinality(DOMAIN flows') <= Cardinality(DOMAIN flows) + 1
  <2>1. IsFiniteSet(DOMAIN flows) /\ Cardinality(DOMAIN flows) \in Nat
    BY FS_CardinalityType DEF CountsGood
  <2> DEFINE S == DOMAIN flows
  <2>2. IsFiniteSet(S \cup {f}) /\ Cardinality(S \cup {f}) <= Cardinality(S) + 1
    <3> HIDE DEF S
    <3>1. IsFiniteSet(S) /\ Cardinality(S) \in Nat
      BY <2>1 DEF S
    <3> QED BY <3>1, FS_AddElement
  <2>3. Cardinality(S \cup {f}) \in Nat
    BY <2>2, FS_CardinalityType
  <2> QED BY <1>1, <2>1, <2>2, <2>3
<1>3. Cardinality(GuaranteedFlows') \in Nat
      /\ Cardinality(GuaranteedFlows') <= Cardinality(GuaranteedFlows) + more
  <2>0. IsFiniteSet(GuaranteedFlows) /\ Cardinality(GuaranteedFlows) \in Nat
    BY GuaranteedFinite
  <2>1. CASE type = "NonGBR"
    <3>1. GuaranteedFlows' \subseteq GuaranteedFlows
      BY <1>1, <2>1 DEF GuaranteedFlows
    <3>2. IsFiniteSet(GuaranteedFlows')
          /\ Cardinality(GuaranteedFlows') <= Cardinality(GuaranteedFlows)
      BY <2>0, <3>1, FS_Subset
    <3>3. Cardinality(GuaranteedFlows') \in Nat
      BY <3>2, FS_CardinalityType
    <3> QED BY <2>0, <2>1, <3>2, <3>3
  <2>2. CASE type # "NonGBR"
    <3> DEFINE S == GuaranteedFlows \cup {f}
    <3>1. GuaranteedFlows' \subseteq S
      BY <1>1, <2>2 DEF GuaranteedFlows
    <3>2. /\ IsFiniteSet(S) /\ Cardinality(S) \in Nat
          /\ Cardinality(S) <= Cardinality(GuaranteedFlows) + 1
      BY <2>0, FS_AddElement, FS_CardinalityType
    <3> HIDE DEF S
    <3>3. IsFiniteSet(GuaranteedFlows') /\ Cardinality(GuaranteedFlows') <= Cardinality(S)
      BY <3>1, <3>2, FS_Subset
    <3>4. Cardinality(GuaranteedFlows') \in Nat
      BY <3>3, FS_CardinalityType
    <3> QED BY <2>0, <2>2, <3>2, <3>3, <3>4
  <2> QED BY <2>1, <2>2
<1>4. Cardinality(GuaranteedFlows) \in Nat
  BY GuaranteedFinite
<1>5. total_flows \in Int /\ gbr_flows \in Int /\ more \in {0, 1}
      /\ (was_reset \/ /\ total_flows >= Cardinality(DOMAIN flows)
                       /\ gbr_flows >= Cardinality(GuaranteedFlows))
  BY DEF CountsGood, CountsCoverFlows, GuaranteedFlows
<1> HIDE DEF more
<1>6. was_reset \/ /\ total_flows' >= Cardinality(DOMAIN flows')
                   /\ gbr_flows' >= Cardinality(GuaranteedFlows')
  BY <1>1, <1>2, <1>3, <1>4, <1>5
<1>7. CountsCoverFlows'
  BY <1>1, <1>6 DEF CountsCoverFlows, GuaranteedFlows
<1> QED BY <1>1, <1>2, <1>5, <1>7 DEF CountsGood

\* Flows that go are counted out at most as they were counted in.
LEMMA ForgetCounts ==
  ASSUME CountsGood, NEW gone \in SUBSET DOMAIN flows, Forget(gone), was_reset' = was_reset
  PROVE  CountsGood'
<1> DEFINE out  == {f \in gone : flows[f].resource_type = "GBR"}
           kept == gone \cap GuaranteedFlows
<1>1. /\ DOMAIN flows' = DOMAIN flows \ gone
      /\ \A g \in DOMAIN flows' : flows'[g] = flows[g]
      /\ total_flows' = total_flows - Cardinality(gone)
      /\ gbr_flows' = gbr_flows - Cardinality(out)
  BY DEF Forget, Restrict
<1>2. /\ IsFiniteSet(DOMAIN flows) /\ IsFiniteSet(gone)
      /\ Cardinality(DOMAIN flows) \in Nat /\ Cardinality(gone) \in Nat
  BY FS_Subset, FS_CardinalityType DEF CountsGood
<1>3. /\ IsFiniteSet(DOMAIN flows \ gone)
      /\ Cardinality(DOMAIN flows \ gone) = Cardinality(DOMAIN flows) - Cardinality(gone)
  <2>1. DOMAIN flows \cap gone = gone
    OBVIOUS
  <2> QED BY <1>2, <2>1, FS_Difference
<1>4. GuaranteedFlows' = GuaranteedFlows \ gone
  BY <1>1 DEF GuaranteedFlows
<1>5. IsFiniteSet(GuaranteedFlows) /\ Cardinality(GuaranteedFlows) \in Nat
  BY GuaranteedFinite
<1>6. Cardinality(GuaranteedFlows \ gone) = Cardinality(GuaranteedFlows) - Cardinality(kept)
  <2>1. GuaranteedFlows \cap gone = kept
    OBVIOUS
  <2> QED BY <1>5, <2>1, FS_Difference, ZenonT(20)
<1>7. /\ Cardinality(out) <= Cardinality(kept)
      /\ Cardinality(out) \in Nat /\ Cardinality(kept) \in Nat
  <2>1. out \subseteq kept /\ kept \subseteq gone
    BY DEF GuaranteedFlows
  <2> HIDE DEF out, kept
  <2>2. IsFiniteSet(kept)
    BY <1>2, <2>1, FS_Subset
  <2>3. IsFiniteSet(out) /\ Cardinality(out) <= Cardinality(kept)
    BY <2>1, <2>2, FS_Subset
  <2> QED BY <2>2, <2>3, FS_CardinalityType
<1> HIDE DEF out, kept
<1>8. total_flows \in Int /\ gbr_flows \in Int
      /\ (was_reset \/ /\ total_flows >= Cardinality(DOMAIN flows)
                       /\ gbr_flows >= Cardinality(GuaranteedFlows))
  BY DEF CountsGood, CountsCoverFlows, GuaranteedFlows
<1>9. was_reset \/ /\ total_flows' >= Cardinality(DOMAIN flows')
                   /\ gbr_flows' >= Cardinality(GuaranteedFlows')
  BY <1>1, <1>2, <1>3, <1>4, <1>5, <1>6, <1>7, <1>8
<1>10. CountsCoverFlows'
  BY <1>9 DEF CountsCoverFlows, GuaranteedFlows
<1> QED BY <1>1, <1>2, <1>3, <1>7, <1>8, <1>10 DEF CountsGood

-----------------------------------------------------------------------------
(* The steps.                                                               *)

QosInv == FlowsGood /\ CountsGood

SentBlocks == [Directions -> Seq([at : 0..MaxTime, bytes : Amounts])]

\* The types of the logs and of the rest.
RestGood ==
  /\ sent \in [DOMAIN flows -> SentBlocks]
  /\ was_reset \in BOOLEAN
  /\ calls \in 0..MaxCalls

LEMMA InitQosInv == Init => QosInv
<1> SUFFICES ASSUME Init PROVE QosInv
  OBVIOUS
<1>1. /\ flows = <<>> /\ total_flows = 0 /\ gbr_flows = 0 /\ now = 0 /\ was_reset = FALSE
  BY DEF Init
<1>2. DOMAIN <<>> = {} /\ <<>> \in [DOMAIN <<>> -> FlowStates]
  OBVIOUS
<1>3. FlowsGood
  BY <1>1, <1>2, QosAssumption DEF FlowsGood
<1>4. GuaranteedFlows = {} /\ DOMAIN flows = {}
  BY <1>1, <1>2 DEF GuaranteedFlows
<1>5. CountsGood
  BY <1>1, <1>4, FS_EmptySet DEF CountsGood, CountsCoverFlows, GuaranteedFlows
<1> QED BY <1>3, <1>5 DEF QosInv

LEMMA NextQosInv == QosInv /\ [Next]_vars => QosInv'
<1> SUFFICES ASSUME QosInv, [Next]_vars PROVE FlowsGood' /\ CountsGood'
  BY DEF QosInv
<1>0. FlowsGood /\ CountsGood
  BY DEF QosInv
<1>1. ASSUME NEW f \in FlowKeys, NEW type \in ResourceTypes, NEW mbr \in Rates,
             register_flow(f, type, mbr)
      PROVE  FlowsGood' /\ CountsGood'
  BY <1>0, <1>1, RegisterStep, RegisterCounts
<1>2. ASSUME NEW f \in FlowKeys, remove_flow(f) PROVE FlowsGood' /\ CountsGood'
  <2>1. Forget({f}) /\ {f} \in SUBSET DOMAIN flows /\ now' = now /\ was_reset' = was_reset
    BY <1>2 DEF remove_flow
  <2> QED BY <1>0, <2>1, ForgetStep, ForgetCounts
<1>3. ASSUME NEW rnti \in Rntis, remove_ue_flows(rnti) PROVE FlowsGood' /\ CountsGood'
  <2> DEFINE gone == {f \in DOMAIN flows : f[1] = rnti}
  <2>1. Forget(gone) /\ gone \in SUBSET DOMAIN flows /\ now' = now /\ was_reset' = was_reset
    BY <1>3 DEF remove_ue_flows
  <2> HIDE DEF gone
  <2> QED BY <1>0, <2>1, ForgetStep, ForgetCounts
<1>4. ASSUME NEW f, NEW d \in Directions, get_allowed_bytes(f, d)
      PROVE  FlowsGood' /\ CountsGood'
  <2>1. /\ f \in DOMAIN flows /\ now' = now
        /\ flows' = [flows EXCEPT ![f].buckets[d] = Updated(f, d)]
        /\ UNCHANGED <<total_flows, gbr_flows, was_reset>>
    BY <1>4 DEF get_allowed_bytes
  <2>2. GoodBucket(Updated(f, d))
    BY <1>0, <2>1, UpdateGood DEF FlowsGood, Updated
  <2> QED BY <1>0, <2>1, <2>2, BucketReplaced, CountsKept
<1>5. ASSUME NEW f, NEW d \in Directions, NEW bytes \in Amounts, Send(f, d, bytes)
      PROVE  FlowsGood' /\ CountsGood'
  <2>1. UNCHANGED <<total_flows, gbr_flows, was_reset>>
    BY <1>5 DEF Send
  <2> QED BY <1>0, <1>5, <2>1, SendStep, CountsKept
<1>6. CASE on_slot_tick
  <2>1. UNCHANGED <<total_flows, gbr_flows, was_reset>>
    BY <1>6 DEF on_slot_tick
  <2> QED BY <1>0, <1>6, <2>1, TickStep, CountsKept
<1>7. CASE reset_statistics
  <2>1. /\ flows' = flows /\ now' = now /\ was_reset' = TRUE
        /\ total_flows' = 0 /\ gbr_flows' = 0
    BY <1>7 DEF reset_statistics
  <2>2. FlowsGood'
    BY <1>0, <2>1 DEF FlowsGood, GoodBucket
  <2>3. CountsGood'
    BY <1>0, <2>1 DEF CountsGood, CountsCoverFlows
  <2> QED BY <2>2, <2>3
<1>8. CASE Tick
  <2>1. /\ flows' = flows /\ now' = now + 1 /\ now' \in 0..MaxTime
        /\ UNCHANGED <<total_flows, gbr_flows, was_reset>>
    BY <1>0, <1>8, QosAssumption DEF Tick, FlowsGood
  <2>2. ASSUME NEW f \in DOMAIN flows, NEW d \in Directions
        PROVE  flows[f].buckets[d].last_update <= now'
    <3>1. flows[f].buckets[d] \in Buckets /\ flows[f].buckets[d].last_update <= now
      BY <1>0 DEF FlowsGood, GoodBucket
    <3> QED BY <1>0, <2>1, <3>1 DEF Buckets, FlowsGood
  <2>3. FlowsGood'
    BY <1>0, <2>1, <2>2 DEF FlowsGood, GoodBucket
  <2> QED BY <1>0, <2>1, <2>3, CountsKept
<1>9. CASE UNCHANGED vars
  <2>1. FlowsGood'
    BY <1>0, <1>9 DEF vars, FlowsGood, GoodBucket
  <2>2. CountsGood'
    BY <1>0, <1>9, CountsKept DEF vars
  <2> QED BY <2>1, <2>2
<1> QED BY <1>1, <1>2, <1>3, <1>4, <1>5, <1>6, <1>7, <1>8, <1>9 DEF Next

LEMMA InitRestGood == Init => RestGood
<1> SUFFICES ASSUME Init PROVE RestGood
  OBVIOUS
<1>1. flows = <<>> /\ sent = <<>> /\ was_reset = FALSE /\ calls = 0
  BY DEF Init
<1>2. DOMAIN <<>> = {} /\ <<>> \in [DOMAIN <<>> -> SentBlocks]
  OBVIOUS
<1>3. sent \in [DOMAIN flows -> SentBlocks]
  BY <1>1, <1>2
<1>4. calls \in 0..MaxCalls
  BY <1>1, QosAssumption
<1> QED BY <1>1, <1>3, <1>4 DEF RestGood

LEMMA NextRestGood == QosInv /\ RestGood /\ [Next]_vars => RestGood'
<1> SUFFICES ASSUME QosInv, RestGood, [Next]_vars PROVE RestGood'
  OBVIOUS
<1>1. ASSUME Call PROVE calls' \in 0..MaxCalls
  BY <1>1, QosAssumption DEF Call, RestGood
<1>2. ASSUME NEW f, NEW type, NEW mbr, register_flow(f, type, mbr) PROVE RestGood'
  <2> DEFINE none == [d \in Directions |-> <<>>]
  <2>1. none \in SentBlocks
    BY EmptySeq DEF SentBlocks
  <2>2. /\ DOMAIN flows' = DOMAIN flows \cup {f}
        /\ sent' = [g \in DOMAIN sent \cup {f} |-> IF g = f THEN none ELSE sent[g]]
        /\ was_reset' = was_reset /\ Call
    BY <1>2 DEF register_flow, With
  <2> HIDE DEF none
  <2>3. sent' \in [DOMAIN flows' -> SentBlocks]
    BY <2>1, <2>2 DEF RestGood
  <2> QED BY <1>1, <2>2, <2>3 DEF RestGood
<1>3. ASSUME NEW gone, Forget(gone), Call, was_reset' = was_reset PROVE RestGood'
  <2>1. /\ DOMAIN flows' = DOMAIN flows \ gone
        /\ sent' = [g \in DOMAIN sent \ gone |-> sent[g]]
    BY <1>3 DEF Forget, Restrict
  <2> QED BY <1>1, <1>3, <2>1 DEF RestGood
<1>4. ASSUME NEW f, remove_flow(f) PROVE RestGood'
  BY <1>3, <1>4 DEF remove_flow
<1>5. ASSUME NEW rnti, remove_ue_flows(rnti) PROVE RestGood'
  BY <1>3, <1>5 DEF remove_ue_flows
<1>6. ASSUME NEW f, NEW d \in Directions, NEW bytes \in Amounts, Send(f, d, bytes)
      PROVE  RestGood'
  <2> DEFINE block == [at |-> now, bytes |-> bytes]
             more  == Append(sent[f][d], block)
  <2>1. /\ f \in DOMAIN flows /\ DOMAIN flows' = DOMAIN flows
        /\ UNCHANGED <<was_reset, calls>>
        /\ sent' = [sent EXCEPT ![f][d] = more]
    BY <1>6, SendStep DEF Send, QosInv
  <2>2. block \in [at : 0..MaxTime, bytes : Amounts]
    BY DEF QosInv, FlowsGood
  <2>3. sent[f] \in SentBlocks /\ sent[f][d] \in Seq([at : 0..MaxTime, bytes : Amounts])
    BY <2>1 DEF RestGood, SentBlocks
  <2>4. more \in Seq([at : 0..MaxTime, bytes : Amounts])
    <3> HIDE DEF block
    <3> QED BY <2>2, <2>3, AppendProperties
  <2> HIDE DEF more
  <2>5. [sent[f] EXCEPT ![d] = more] \in SentBlocks
    BY <2>3, <2>4 DEF SentBlocks
  <2>6. sent' \in [DOMAIN flows' -> SentBlocks]
    BY <2>1, <2>5 DEF RestGood
  <2> QED BY <2>1, <2>6 DEF RestGood
<1>7. ASSUME NEW f, NEW d, get_allowed_bytes(f, d) PROVE RestGood'
  BY <1>7 DEF get_allowed_bytes, RestGood
<1>8. CASE on_slot_tick
  BY <1>8 DEF on_slot_tick, RestGood
<1>9. CASE reset_statistics
  BY <1>1, <1>9 DEF reset_statistics, RestGood
<1>10. CASE Tick \/ UNCHANGED vars
  BY <1>10 DEF Tick, vars, RestGood
<1> QED BY <1>2, <1>4, <1>5, <1>6, <1>7, <1>8, <1>9, <1>10 DEF Next

\* The types of all variables; no bucket overflows or is updated in the future, for
\* any rates, flows and order of calls.
THEOREM TypeCorrect == Spec => []TypeOK
<1>1. QosInv /\ RestGood => TypeOK
  BY DEF QosInv, FlowsGood, CountsGood, RestGood, SentBlocks, GoodBucket, TypeOK
<1> QED BY <1>1, InitQosInv, InitRestGood, NextQosInv, NextRestGood, PTL DEF Spec

\* No flow is deeper in debt than the padding of one block, for any rates, sizes
\* and order of queries, blocks and slot ticks (update, report_transmission).
THEOREM DebtStaysBounded == Spec => []DebtBounded
<1>1. QosInv => DebtBounded
  BY DEF QosInv, FlowsGood, GoodBucket, DebtBounded
<1> QED BY <1>1, InitQosInv, NextQosInv, PTL DEF Spec

\* The counts cover the flows until they are reset, so no removal wraps them
\* (register_flow, remove_flow, remove_ue_flows).
THEOREM CountsStayCovering == Spec => []CountsCoverFlows
<1>1. QosInv => CountsCoverFlows
  BY DEF QosInv, CountsGood
<1> QED BY <1>1, InitQosInv, NextQosInv, PTL DEF Spec

-----------------------------------------------------------------------------
(* The rate.                                                                *)

SentBlock == [at : 0..MaxTime, bytes : Amounts]

\* The bytes sent since a block, what is left of the tokens and what the rate lets in.
LogGood(bucket, blocks) ==
  \A i \in DOMAIN blocks :
    /\ blocks[i].at <= bucket.last_update
    /\ SECOND * (Bytes(blocks, i, Len(blocks)) + bucket.tokens - BucketSize(bucket.fill_rate_bps))
         <= bucket.fill_rate_bps * (bucket.last_update - blocks[i].at)
    /\ \A j \in DOMAIN blocks :
         i <= j =>
           /\ blocks[i].at <= blocks[j].at
           /\ Bytes(blocks, i, j) <=
                BucketSize(bucket.fill_rate_bps)
                  + (bucket.fill_rate_bps * (blocks[j].at - blocks[i].at)) \div SECOND + Padding

LogsGood == \A f \in DOMAIN flows, d \in Directions : LogGood(flows[f].buckets[d], sent[f][d])

\* A multiple of b that is at most a.
LEMMA QuotientBound ==
  ASSUME NEW a \in Int, NEW b \in Nat \ {0}, NEW x \in Int, b * x <= a
  PROVE  x <= a \div b
<1> DEFINE q == a \div b
<1>1. q \in Int /\ a < b * (q + 1)
  <2>1. q \in Int /\ a = b * q + (a % b) /\ a % b \in 0..(b - 1)
    OBVIOUS
  <2>2. b * (q + 1) = b * q + b
    BY <2>1
  <2> QED BY <2>1, <2>2
<1> HIDE DEF q
<1>2. CASE x > q
  <2>1. x - (q + 1) \in Nat
    BY <1>1, <1>2
  <2>2. b * (x - (q + 1)) \in Nat /\ b * x = b * (q + 1) + b * (x - (q + 1))
    BY <1>1, <2>1
  <2>3. b * (q + 1) \in Int /\ b * x \in Int
    BY <1>1
  <2> QED BY <1>1, <2>2, <2>3
<1> QED BY <1>1, <1>2 DEF q

\* A quotient times its divisor.
LEMMA QuotientTimes ==
  ASSUME NEW a \in Int, NEW b \in Nat \ {0}
  PROVE  a \div b \in Int /\ b * (a \div b) <= a
OBVIOUS

\* The fields of a bucket and of a block are numbers.
LEMMA BucketFields ==
  ASSUME NEW bucket, GoodBucket(bucket), now \in 0..MaxTime
  PROVE  /\ bucket.fill_rate_bps \in Nat /\ bucket.tokens \in Int
         /\ bucket.last_update \in Nat /\ now \in Nat /\ bucket.last_update <= now
         /\ bucket.tokens <= BucketSize(bucket.fill_rate_bps)
         /\ SECOND \in Nat \ {0} /\ Padding \in Nat
<1>1. /\ bucket.fill_rate_bps \in Rates \cup {NON_GBR_RATE} /\ bucket.tokens \in Int
      /\ bucket.last_update \in 0..MaxTime
  BY DEF GoodBucket, Buckets
<1>2. bucket.last_update <= now /\ bucket.tokens <= BucketSize(bucket.fill_rate_bps)
  BY DEF GoodBucket
<1>3. /\ \A x \in Rates \cup {NON_GBR_RATE} : x \in Nat
      /\ \A x \in 0..MaxTime : x \in Nat
      /\ SECOND \in Nat \ {0} /\ Padding \in Nat
  BY QosAssumption
<1> QED BY <1>1, <1>2, <1>3

LEMMA BlockFields ==
  ASSUME NEW block \in SentBlock
  PROVE  block.at \in Nat /\ block.bytes \in Nat
<1>1. block.at \in 0..MaxTime /\ block.bytes \in Amounts
  BY DEF SentBlock
<1>2. (\A x \in 0..MaxTime : x \in Nat) /\ (\A x \in Amounts : x \in Nat)
  BY QosAssumption
<1> QED BY <1>1, <1>2

LEMMA BlocksOfLog ==
  ASSUME NEW blocks \in Seq(SentBlock)
  PROVE  /\ DOMAIN blocks = 1..Len(blocks) /\ Len(blocks) \in Nat
         /\ \A k \in DOMAIN blocks :
              /\ blocks[k] \in SentBlock /\ blocks[k].at \in Nat /\ blocks[k].bytes \in Nat
              /\ Len(blocks) \in DOMAIN blocks /\ k \in Nat /\ k <= Len(blocks)
<1>1. DOMAIN blocks = 1..Len(blocks) /\ Len(blocks) \in Nat
  BY LenProperties
<1>2. \A k \in DOMAIN blocks : blocks[k] \in SentBlock
  BY <1>1, ElementOfSeq
<1>3. \A k \in DOMAIN blocks : blocks[k].at \in Nat /\ blocks[k].bytes \in Nat
  BY <1>2, BlockFields
<1>4. \A k \in DOMAIN blocks : Len(blocks) \in DOMAIN blocks /\ k \in Nat /\ k <= Len(blocks)
  BY <1>1
<1> QED BY <1>1, <1>2, <1>3, <1>4

\* The bytes of a list of blocks, and of one that is longer by a block.
LEMMA BytesType ==
  ASSUME NEW blocks \in Seq(SentBlock), NEW i \in DOMAIN blocks, NEW j \in DOMAIN blocks
  PROVE  Bytes(blocks, i, j) \in Nat
<1> DEFINE value == [k \in DOMAIN blocks |-> blocks[k].bytes]
<1>1. DOMAIN blocks = 1..Len(blocks) /\ Len(blocks) \in Nat
  BY BlocksOfLog
<1>3. \A k \in DOMAIN blocks : value[k] \in Nat
  BY BlocksOfLog
<1>4. i..j \subseteq DOMAIN blocks /\ i \in Int /\ j \in Int
  BY <1>1
<1>5. IsFiniteSet(i..j)
  BY <1>4, FS_Interval
<1> HIDE DEF value
<1>6. \A k \in i..j : value[k] \in Nat
  BY <1>3, <1>4
<1>7. SumFunctionOnSet(value, i..j) \in Nat
  BY <1>5, <1>6, SumNat
<1> QED BY <1>7 DEF value, Bytes

LEMMA BytesAppended ==
  ASSUME NEW blocks \in Seq(SentBlock), NEW block \in SentBlock
  PROVE  LET n == Len(blocks)
             more == Append(blocks, block)
         IN  /\ \A i \in DOMAIN blocks :
                  /\ \A j \in DOMAIN blocks : Bytes(more, i, j) = Bytes(blocks, i, j)
                  /\ Bytes(more, i, n + 1) = Bytes(blocks, i, n) + block.bytes
             /\ Bytes(more, n + 1, n + 1) = block.bytes
<1> DEFINE n == Len(blocks)
           more == Append(blocks, block)
           old == [k \in DOMAIN blocks |-> blocks[k].bytes]
           new == [k \in DOMAIN more |-> more[k].bytes]
<1>1. DOMAIN blocks = 1..n /\ n \in Nat
  BY LenProperties
<1>2. /\ more \in Seq(SentBlock) /\ Len(more) = n + 1 /\ DOMAIN more = 1..(n + 1)
      /\ more[n + 1] = block /\ \A k \in 1..n : more[k] = blocks[k]
  <2>1. /\ more \in Seq(SentBlock) /\ Len(more) = n + 1 /\ more[n + 1] = block
        /\ \A k \in 1..n : more[k] = blocks[k]
    BY <1>1, AppendProperties
  <2> QED BY <2>1, LenProperties
<1>3. \A k \in 1..n : blocks[k] \in SentBlock
  BY <1>1, ElementOfSeq
<1>4. \A k \in 1..n : old[k] = new[k] /\ old[k] \in Int
  <2>1. \A k \in 1..n : k \in 1..(n + 1) /\ blocks[k].bytes \in Int
    BY <1>1, BlocksOfLog
  <2> HIDE DEF more
  <2> QED BY <1>1, <1>2, <2>1
<1>5. new[n + 1] = block.bytes /\ block.bytes \in Int
  <2>1. block.bytes \in Int
    BY BlockFields
  <2>2. n + 1 \in 1..(n + 1)
    BY <1>1
  <2> HIDE DEF more
  <2> QED BY <1>2, <2>1, <2>2
<1>6. /\ \A i, j : Bytes(blocks, i, j) = SumFunctionOnSet(old, i..j)
      /\ \A i, j : Bytes(more, i, j) = SumFunctionOnSet(new, i..j)
  BY DEF Bytes
<1> HIDE DEF n, more, old, new
<1>7. ASSUME NEW i \in 1..n, NEW j \in 1..n
      PROVE  SumFunctionOnSet(new, i..j) = SumFunctionOnSet(old, i..j) /\ IsFiniteSet(i..j)
  <2>1. i..j \subseteq 1..n /\ i \in Int /\ j \in Int
    BY <1>1
  <2>2. IsFiniteSet(i..j)
    BY <2>1, FS_Interval
  <2>3. \A k \in i..j : old[k] = new[k] /\ old[k] \in Int
    BY <1>4, <2>1
  <2> QED BY <2>2, <2>3, SumSame
<1>8. ASSUME NEW i \in 1..n
      PROVE  SumFunctionOnSet(new, i..(n + 1)) = SumFunctionOnSet(old, i..n) + block.bytes
  <2>1. i..(n + 1) = (i..n) \cup {n + 1} /\ n + 1 \notin i..n /\ n \in 1..n /\ i..n \subseteq 1..n
    BY <1>1
  <2>2. SumFunctionOnSet(new, i..n) = SumFunctionOnSet(old, i..n) /\ IsFiniteSet(i..n)
    BY <1>7, <2>1
  <2>3. \A k \in i..n : new[k] \in Int
    BY <1>4, <2>1
  <2>4. SumFunctionOnSet(new, (i..n) \cup {n + 1})
          = SumFunctionOnSet(new, i..n) + new[n + 1]
    BY <1>5, <2>1, <2>2, <2>3, SumAdd, Zenon
  <2> QED BY <1>5, <2>1, <2>2, <2>4
<1>9. SumFunctionOnSet(new, (n + 1)..(n + 1)) = block.bytes
  <2>1. (n + 1)..(n + 1) = {} \cup {n + 1}
    BY <1>1
  <2>2. IsFiniteSet({}) /\ SumFunctionOnSet(new, {}) = 0
    BY FS_EmptySet, SumEquation
  <2>3. SumFunctionOnSet(new, {} \cup {n + 1}) = SumFunctionOnSet(new, {}) + new[n + 1]
    BY <1>5, <2>2, SumAdd, ZenonT(30)
  <2> QED BY <1>5, <2>1, <2>2, <2>3
<1>10. /\ \A i \in DOMAIN blocks :
            /\ \A j \in DOMAIN blocks : Bytes(more, i, j) = Bytes(blocks, i, j)
            /\ Bytes(more, i, n + 1) = Bytes(blocks, i, n) + block.bytes
       /\ Bytes(more, n + 1, n + 1) = block.bytes
  <2>1. \A i \in DOMAIN blocks : \A j \in DOMAIN blocks : Bytes(more, i, j) = Bytes(blocks, i, j)
    BY <1>1, <1>6, <1>7
  <2>2. \A i \in DOMAIN blocks : Bytes(more, i, n + 1) = Bytes(blocks, i, n) + block.bytes
    <3>1. \A i : Bytes(more, i, n + 1) = SumFunctionOnSet(new, i..(n + 1))
      BY <1>6
    <3>2. \A i : Bytes(blocks, i, n) = SumFunctionOnSet(old, i..n)
      BY <1>6
    <3> QED BY <1>1, <1>8, <3>1, <3>2
  <2>3. Bytes(more, n + 1, n + 1) = SumFunctionOnSet(new, (n + 1)..(n + 1))
    BY <1>6
  <2> QED BY <1>9, <2>1, <2>2, <2>3
<1> QED BY <1>10 DEF n, more

\* The fields of an updated bucket: it holds at most what it held and what came in.
LEMMA UpdateAdds ==
  ASSUME NEW bucket, GoodBucket(bucket), now \in 0..MaxTime
  PROVE  /\ update(bucket).last_update = now
         /\ update(bucket).fill_rate_bps = bucket.fill_rate_bps
         /\ update(bucket).tokens \in Int
         /\ SECOND * (update(bucket).tokens - bucket.tokens)
              <= bucket.fill_rate_bps * (now - bucket.last_update)
<1> DEFINE rate == bucket.fill_rate_bps
           size == BucketSize(rate)
           in   == rate * (now - bucket.last_update)
           new  == in \div SECOND
           tokens == Lesser(bucket.tokens + new, size)
<1>1. /\ rate \in Nat /\ bucket.tokens \in Int /\ SECOND \in Nat \ {0}
      /\ bucket.last_update \in Int /\ now \in Int
  BY BucketFields
<1>2. size \in Nat
  BY <1>1, BucketSizeType
<1>3. in \in Int
  BY <1>1
<1>4. update(bucket) = [bucket EXCEPT !.tokens = tokens, !.last_update = now]
  BY DEF update
<1> HIDE DEF in, size
<1>5. new \in Int /\ SECOND * new <= in
  BY <1>1, <1>3, QuotientTimes
<1> HIDE DEF new, rate
<1>6. tokens \in Int /\ tokens - bucket.tokens <= new
  BY <1>1, <1>2, <1>5 DEF Lesser
<1> HIDE DEF tokens
<1>7. SECOND * (tokens - bucket.tokens) <= in
  <2>1. new - (tokens - bucket.tokens) \in Nat
    BY <1>1, <1>5, <1>6
  <2>2. SECOND * (new - (tokens - bucket.tokens)) \in Nat
    BY <1>1, <2>1
  <2>3. SECOND * new = SECOND * (tokens - bucket.tokens)
                         + SECOND * (new - (tokens - bucket.tokens))
    BY <1>1, <1>5, <1>6
  <2>4. SECOND * (tokens - bucket.tokens) \in Int
    BY <1>1, <1>6
  <2> QED BY <1>3, <1>5, <2>2, <2>3, <2>4
<1>8. /\ update(bucket).tokens = tokens /\ update(bucket).last_update = now
      /\ update(bucket).fill_rate_bps = rate
  BY <1>4 DEF GoodBucket, Buckets, rate
<1> QED BY <1>6, <1>7, <1>8 DEF in, rate

\* An update keeps the log good.
LEMMA UpdateLog ==
  ASSUME NEW bucket, GoodBucket(bucket), now \in 0..MaxTime,
         NEW blocks \in Seq(SentBlock), LogGood(bucket, blocks)
  PROVE  LogGood(update(bucket), blocks)
<1> DEFINE rate == bucket.fill_rate_bps
           size == BucketSize(rate)
           b == update(bucket)
<1>1. /\ rate \in Nat /\ bucket.tokens \in Int /\ SECOND \in Nat \ {0}
      /\ bucket.last_update \in Nat /\ now \in Nat /\ bucket.last_update <= now
  BY BucketFields
<1>2. size \in Nat
  BY <1>1, BucketSizeType
<1>3. /\ b.last_update = now /\ b.fill_rate_bps = rate /\ b.tokens \in Int
      /\ SECOND * (b.tokens - bucket.tokens) <= rate * (now - bucket.last_update)
  BY UpdateAdds
<1> HIDE DEF b
<1>4. ASSUME NEW i \in DOMAIN blocks
      PROVE  /\ blocks[i].at <= b.last_update
             /\ SECOND * (Bytes(blocks, i, Len(blocks)) + b.tokens - size)
                  <= rate * (b.last_update - blocks[i].at)
  <2> DEFINE sum == Bytes(blocks, i, Len(blocks))
             at == blocks[i].at
  <2>1. at <= bucket.last_update
        /\ SECOND * (sum + bucket.tokens - size) <= rate * (bucket.last_update - at)
    BY DEF LogGood
  <2>2. at \in Int /\ sum \in Int
    <3>1. Len(blocks) \in DOMAIN blocks /\ blocks[i].at \in Nat
      BY BlocksOfLog
    <3> QED BY <3>1, BytesType
  <2> HIDE DEF sum, at, rate, size
  <2> DEFINE u == sum + bucket.tokens - size
             v == b.tokens - bucket.tokens
             x == bucket.last_update - at
             y == now - bucket.last_update
  <2> DEFINE tokens == b.tokens
             held == bucket.tokens
             last == bucket.last_update
  <2>8. /\ tokens \in Int /\ held \in Int /\ last \in Int /\ now \in Int
        /\ sum \in Int /\ at \in Int /\ size \in Int
    BY <1>1, <1>2, <1>3, <2>2
  <2> HIDE DEF tokens, held, last
  <2>9. u = sum + held - size /\ v = tokens - held /\ x = last - at /\ y = now - last
    BY DEF tokens, held, last
  <2> HIDE DEF u, v, x, y
  <2>3. u \in Int /\ v \in Int /\ x \in Int /\ y \in Int
    BY <2>8, <2>9
  <2>10. sum + tokens - size = u + v /\ now - at = x + y
    BY <2>8, <2>9
  <2>4. sum + b.tokens - size = u + v /\ now - at = x + y
    BY <2>10 DEF tokens
  <2>5. SECOND * u <= rate * x /\ SECOND * v <= rate * y
    BY <1>3, <2>1 DEF u, v, x, y
  <2>6. SECOND * (u + v) <= rate * (x + y)
    <3>1. /\ SECOND * u \in Int /\ SECOND * v \in Int /\ rate * x \in Int /\ rate * y \in Int
          /\ SECOND * (u + v) = SECOND * u + SECOND * v /\ rate * (x + y) = rate * x + rate * y
      BY <1>1, <2>3
    <3> QED BY <2>5, <3>1
  <2>7. at <= now
    BY <1>1, <2>1, <2>2
  <2> QED BY <1>3, <2>4, <2>6, <2>7 DEF sum, at
<1>5. ASSUME NEW i \in DOMAIN blocks, NEW j \in DOMAIN blocks, i <= j
      PROVE  /\ blocks[i].at <= blocks[j].at
             /\ Bytes(blocks, i, j) <= size + (rate * (blocks[j].at - blocks[i].at)) \div SECOND
                                         + Padding
  BY <1>5 DEF LogGood
<1>6. BucketSize(b.fill_rate_bps) = size
  BY <1>3
<1> HIDE DEF size, rate
<1>7. \A i \in DOMAIN blocks :
        /\ blocks[i].at <= b.last_update
        /\ SECOND * (Bytes(blocks, i, Len(blocks)) + b.tokens - BucketSize(b.fill_rate_bps))
             <= b.fill_rate_bps * (b.last_update - blocks[i].at)
        /\ \A j \in DOMAIN blocks :
             i <= j =>
               /\ blocks[i].at <= blocks[j].at
               /\ Bytes(blocks, i, j) <=
                    BucketSize(b.fill_rate_bps)
                      + (b.fill_rate_bps * (blocks[j].at - blocks[i].at)) \div SECOND + Padding
  BY <1>3, <1>4, <1>5, <1>6
<1> QED BY <1>7 DEF LogGood, b

\* Tokens that sum and held make up beyond a size are used up, but for a padding.
LEMMA TokensUsed ==
  ASSUME NEW sum \in Nat, NEW held \in Int, NEW size \in Nat, NEW bytes \in Nat,
         NEW padding \in Nat, NEW after \in Int, NEW q \in Int,
         after = held - bytes, after >= -padding, sum + held - size <= q
  PROVE  /\ (sum + bytes) + after - size = sum + held - size
         /\ sum + bytes <= size + q + padding
OBVIOUS

LEMMA ProductIsInt ==
  ASSUME NEW rate \in Nat, NEW last \in Nat, NEW at \in Nat
  PROVE  rate * (last - at) \in Int
OBVIOUS

\* A block that leaves no debt beyond the padding keeps the log good.
LEMMA SendLog ==
  ASSUME NEW bucket, GoodBucket(bucket), now \in 0..MaxTime, NEW blocks \in Seq(SentBlock), LogGood(bucket, blocks),
         NEW block \in SentBlock, block.at = bucket.last_update,
         NEW left, left = [bucket EXCEPT !.tokens = @ - block.bytes], left.tokens >= -Padding
  PROVE  LogGood(left, Append(blocks, block))
<1> DEFINE rate == bucket.fill_rate_bps
           size == BucketSize(rate)
           last == bucket.last_update
           n == Len(blocks)
           more == Append(blocks, block)
           bytes == block.bytes
<1>1. /\ rate \in Nat /\ bucket.tokens \in Int /\ SECOND \in Nat \ {0} /\ Padding \in Nat
      /\ last \in Nat /\ bytes \in Nat /\ bucket.tokens <= size
  BY BucketFields, BlockFields
<1>2. size \in Nat
  BY <1>1, BucketSizeType
<1>3. /\ left.fill_rate_bps = rate /\ left.last_update = last
      /\ left.tokens = bucket.tokens - bytes
  BY DEF GoodBucket, Buckets
<1>4. DOMAIN blocks = 1..n /\ n \in Nat
  BY LenProperties
<1>5. /\ Len(more) = n + 1 /\ DOMAIN more = 1..(n + 1)
      /\ more[n + 1] = block /\ \A k \in 1..n : more[k] = blocks[k]
  <2>1. /\ more \in Seq(SentBlock) /\ Len(more) = n + 1 /\ more[n + 1] = block
        /\ \A k \in 1..n : more[k] = blocks[k]
    BY <1>4, AppendProperties
  <2> QED BY <2>1, LenProperties
<1>6. /\ \A i \in DOMAIN blocks :
           /\ \A j \in DOMAIN blocks : Bytes(more, i, j) = Bytes(blocks, i, j)
           /\ Bytes(more, i, n + 1) = Bytes(blocks, i, n) + bytes
      /\ Bytes(more, n + 1, n + 1) = bytes
  BY BytesAppended
<1>7. \A i \in 1..n : blocks[i].at \in Nat /\ Bytes(blocks, i, n) \in Nat
  <2> SUFFICES ASSUME NEW i \in 1..n PROVE blocks[i].at \in Nat /\ Bytes(blocks, i, n) \in Nat
    OBVIOUS
  <2>1. n \in DOMAIN blocks /\ i \in DOMAIN blocks /\ blocks[i] \in SentBlock
    BY <1>4, BlocksOfLog
  <2> QED BY <2>1, BytesType, BlockFields
<1>8. ASSUME NEW i \in 1..n
      PROVE  /\ blocks[i].at <= last
             /\ SECOND * (Bytes(blocks, i, n) + bucket.tokens - size)
                  <= rate * (last - blocks[i].at)
             /\ \A j \in 1..n :
                  i <= j =>
                    /\ blocks[i].at <= blocks[j].at
                    /\ Bytes(blocks, i, j)
                         <= size + (rate * (blocks[j].at - blocks[i].at)) \div SECOND + Padding
  BY <1>4 DEF LogGood
<1>9. block.at = last /\ left.tokens >= -Padding
  OBVIOUS
<1> HIDE DEF more, size, rate, last, n, bytes
\* The first block of the interval is an old one.
<1>10. ASSUME NEW i \in 1..n
       PROVE  /\ more[i].at <= last
              /\ SECOND * (Bytes(more, i, n + 1) + left.tokens - size)
                   <= rate * (last - more[i].at)
              /\ Bytes(more, i, n + 1)
                   <= size + (rate * (last - more[i].at)) \div SECOND + Padding
  <2> DEFINE sum == Bytes(blocks, i, n)
             in == rate * (last - blocks[i].at)
             held == bucket.tokens
             over == sum + held - size
             at == blocks[i].at
             after == left.tokens
  <2>1. more[i] = blocks[i] /\ Bytes(more, i, n + 1) = sum + bytes
    BY <1>4, <1>5, <1>6
  <2>2. sum \in Nat /\ blocks[i].at \in Nat
    BY <1>7
  <2>3. blocks[i].at <= last /\ SECOND * over <= in
    BY <1>8
  <2>4. /\ held \in Int /\ at \in Nat /\ rate \in Nat /\ last \in Nat /\ size \in Nat
        /\ bytes \in Nat /\ Padding \in Nat /\ after = held - bytes /\ after >= -Padding
        /\ after \in Int
    BY <1>1, <1>2, <1>3, <1>9, <2>2
  <2>5. in \in Int
    BY <2>4, ProductIsInt
  <2> HIDE DEF sum, held, at, after, in
  <2>6. over \in Int
    BY <2>2, <2>4
  <2> HIDE DEF over
  <2>7. over <= in \div SECOND /\ in \div SECOND \in Int
    BY <1>1, <2>3, <2>5, <2>6, QuotientBound, QuotientTimes
  <2> DEFINE q == in \div SECOND
  <2> HIDE DEF q
  <2>8. q \in Int /\ sum + held - size <= q
    BY <2>7 DEF q, over
  <2>9. (sum + bytes) + after - size = sum + held - size /\ sum + bytes <= size + q + Padding
    <3>1. after = held - bytes /\ after >= -Padding /\ sum + held - size <= q
      BY <2>4, <2>8
    <3>2. sum \in Nat
      BY <2>2
    <3>3. held \in Int
      BY <2>4
    <3>4. size \in Nat
      BY <2>4
    <3>5. bytes \in Nat
      BY <2>4
    <3>6. Padding \in Nat /\ after \in Int
      BY <2>4
    <3>7. q \in Int
      BY <2>8
    <3>8. (sum + bytes) + after - size = sum + held - size
      BY <3>1, <3>2, <3>3, <3>4, <3>5
    <3>9. sum + bytes <= size + q + Padding
      BY <3>1, <3>2, <3>3, <3>4, <3>5, <3>6, <3>7, SMTT(20)
    <3> QED BY <3>8, <3>9
  <2> QED BY <2>1, <2>3, <2>9 DEF in, q, after, over
\* The interval is the new block alone.
<1>11. /\ more[n + 1].at = last
       /\ SECOND * (Bytes(more, n + 1, n + 1) + left.tokens - size)
            <= rate * (last - more[n + 1].at)
       /\ Bytes(more, n + 1, n + 1)
            <= size + (rate * (last - more[n + 1].at)) \div SECOND + Padding
  <2>1. more[n + 1].at = last /\ Bytes(more, n + 1, n + 1) = bytes
    BY <1>5, <1>6, <1>9
  <2>2. rate * (last - last) = 0 /\ 0 \div SECOND = 0
    <3>1. last - last = 0 /\ rate * 0 = 0
      BY <1>1
    <3>2. 0 \div SECOND = 0
      BY <1>1
    <3> QED BY <3>1, <3>2
  <2>3. bytes + left.tokens - size \in Int /\ bytes + left.tokens - size <= 0
    BY <1>1, <1>2, <1>3
  <2>4. SECOND * (bytes + left.tokens - size) <= 0
    <3> DEFINE x == bytes + left.tokens - size
    <3>1. x \in Int /\ x <= 0
      BY <2>3
    <3> HIDE DEF x
    <3>2. SECOND * x <= 0
      BY <1>1, <3>1
    <3> QED BY <3>2 DEF x
  <2>5. bytes <= size + 0 + Padding
    BY <1>1, <1>2, <1>3, <1>9
  <2> QED BY <2>1, <2>2, <2>4, <2>5
<1>12. \A i \in 1..n : more[i].at = blocks[i].at
  BY <1>5
<1>13. \A i, j \in 1..n :
         i <= j =>
           /\ more[i].at <= more[j].at
           /\ Bytes(more, i, j)
                <= size + (rate * (more[j].at - more[i].at)) \div SECOND + Padding
  BY <1>4, <1>6, <1>8, <1>12
<1>14. ASSUME NEW i \in 1..(n + 1)
       PROVE  /\ more[i].at <= last
              /\ SECOND * (Bytes(more, i, n + 1) + left.tokens - size)
                   <= rate * (last - more[i].at)
              /\ \A j \in 1..(n + 1) :
                   i <= j =>
                     /\ more[i].at <= more[j].at
                     /\ Bytes(more, i, j)
                          <= size + (rate * (more[j].at - more[i].at)) \div SECOND + Padding
  <2>1. CASE i = n + 1
    <3>1. \A j \in 1..(n + 1) : i <= j => j = n + 1
      BY <1>4, <2>1
    <3>2. last <= last
      BY <1>1
    <3> QED BY <1>11, <2>1, <3>1, <3>2
  <2>2. CASE i \in 1..n
    <3>1. \A j \in 1..(n + 1) : j = n + 1 \/ j \in 1..n
      BY <1>4
    <3> QED BY <1>10, <1>11, <1>13, <2>2, <3>1
  <2> QED BY <1>4, <2>1, <2>2
<1>15. \A i \in DOMAIN more :
         /\ more[i].at <= left.last_update
         /\ SECOND * (Bytes(more, i, Len(more)) + left.tokens - BucketSize(left.fill_rate_bps))
              <= left.fill_rate_bps * (left.last_update - more[i].at)
         /\ \A j \in DOMAIN more :
              i <= j =>
                /\ more[i].at <= more[j].at
                /\ Bytes(more, i, j) <=
                     BucketSize(left.fill_rate_bps)
                       + (left.fill_rate_bps * (more[j].at - more[i].at)) \div SECOND + Padding
  <2>1. BucketSize(left.fill_rate_bps) = size
    BY <1>3 DEF size
  <2> QED BY <1>3, <1>5, <1>14, <2>1
<1> QED BY <1>15 DEF LogGood, more

\* The logs of all flows.
RateInv == QosInv /\ RestGood /\ LogsGood

\* What the invariant says of one flow and direction.
LEMMA LogOfFlow ==
  ASSUME RateInv, NEW f \in DOMAIN flows, NEW d \in Directions
  PROVE  /\ now \in 0..MaxTime
         /\ GoodBucket(flows[f].buckets[d])
         /\ sent[f][d] \in Seq(SentBlock)
         /\ LogGood(flows[f].buckets[d], sent[f][d])
BY DEF RateInv, QosInv, FlowsGood, RestGood, SentBlocks, LogsGood, SentBlock

\* An update of a bucket keeps its log good.
LEMMA LogUpdated ==
  ASSUME RateInv, NEW f \in DOMAIN flows, NEW d \in Directions
  PROVE  LogGood(Updated(f, d), sent[f][d])
<1>1. LogGood(update(flows[f].buckets[d]), sent[f][d])
  BY LogOfFlow, UpdateLog
<1> QED BY <1>1 DEF Updated

\* A new flow has sent nothing.
LEMMA RegisterLogs ==
  ASSUME RateInv, NEW f, NEW type, NEW mbr, register_flow(f, type, mbr)
  PROVE  LogsGood'
<1> DEFINE rate == IF type = "NonGBR" THEN NON_GBR_RATE ELSE mbr
           new  == [resource_type |-> type, mbr_bps |-> mbr,
                    buckets |-> [d \in Directions |-> FullBucket(rate)]]
           none == [d \in Directions |-> <<>>]
<1>1. /\ flows' = [g \in DOMAIN flows \cup {f} |-> IF g = f THEN new ELSE flows[g]]
      /\ sent' = [g \in DOMAIN sent \cup {f} |-> IF g = f THEN none ELSE sent[g]]
  BY DEF register_flow, With
<1>2. DOMAIN sent = DOMAIN flows
  BY DEF RateInv, RestGood
<1>3. \A d \in Directions : none[d] = <<>>
  OBVIOUS
<1>4. \A bucket : LogGood(bucket, <<>>)
  BY DEF LogGood
<1> HIDE DEF new, none
<1>5. ASSUME NEW g \in DOMAIN flows', NEW d \in Directions
      PROVE  LogGood(flows'[g].buckets[d], sent'[g][d])
  <2>1. CASE g = f
    <3>1. sent'[g] = none
      BY <1>1, <2>1
    <3> QED BY <1>3, <1>4, <3>1
  <2>2. CASE g # f
    <3>1. g \in DOMAIN flows /\ flows'[g] = flows[g] /\ sent'[g] = sent[g]
      BY <1>1, <1>2, <2>2
    <3> QED BY <3>1, LogOfFlow
  <2> QED BY <2>1, <2>2
<1> QED BY <1>5 DEF LogsGood, LogGood, Bytes, BucketSize

\* The flows that stay keep their logs.
LEMMA ForgetLogs ==
  ASSUME RateInv, NEW gone, Forget(gone)
  PROVE  LogsGood'
<1>1. /\ flows' = [g \in DOMAIN flows \ gone |-> flows[g]]
      /\ sent' = [g \in DOMAIN sent \ gone |-> sent[g]]
  BY DEF Forget, Restrict
<1>2. DOMAIN sent = DOMAIN flows
  BY DEF RateInv, RestGood
<1>3. ASSUME NEW g \in DOMAIN flows', NEW d \in Directions
      PROVE  LogGood(flows'[g].buckets[d], sent'[g][d])
  <2>1. g \in DOMAIN flows /\ flows'[g] = flows[g] /\ sent'[g] = sent[g]
    BY <1>1, <1>2
  <2> QED BY <2>1, LogOfFlow
<1> QED BY <1>3 DEF LogsGood, LogGood, Bytes, BucketSize

\* One bucket and its log are replaced by good ones.
LEMMA LogReplaced ==
  ASSUME RateInv, NEW f \in DOMAIN flows, NEW d \in Directions, NEW bucket, NEW blocks,
         LogGood(bucket, blocks),
         flows' = [flows EXCEPT ![f].buckets[d] = bucket],
         sent' = [sent EXCEPT ![f][d] = blocks]
  PROVE  LogsGood'
<1>1. /\ DOMAIN flows' = DOMAIN flows
      /\ \A g \in DOMAIN flows : g # f => flows'[g] = flows[g]
      /\ flows'[f] = [flows[f] EXCEPT !.buckets[d] = bucket]
  BY DEF RateInv, QosInv, FlowsGood
<1>2. /\ \A g \in DOMAIN flows : g # f => sent'[g] = sent[g]
      /\ sent'[f] = [sent[f] EXCEPT ![d] = blocks]
  BY DEF RateInv, RestGood
<1>3. flows[f] \in FlowStates /\ sent[f] \in [Directions -> Seq(SentBlock)]
  BY DEF RateInv, QosInv, FlowsGood, RestGood, SentBlocks, SentBlock
<1>4. \A e \in Directions : flows'[f].buckets[e] = IF e = d THEN bucket ELSE flows[f].buckets[e]
  BY <1>1, <1>3 DEF FlowStates
<1>5. \A e \in Directions : sent'[f][e] = IF e = d THEN blocks ELSE sent[f][e]
  BY <1>2, <1>3
<1>6. ASSUME NEW g \in DOMAIN flows', NEW e \in Directions
      PROVE  LogGood(flows'[g].buckets[e], sent'[g][e])
  <2>1. CASE g = f /\ e = d
    BY <1>4, <1>5, <2>1
  <2>2. CASE g = f /\ e # d
    <3>1. flows'[g].buckets[e] = flows[g].buckets[e] /\ sent'[g][e] = sent[g][e]
      BY <1>4, <1>5, <2>2
    <3>2. LogGood(flows[g].buckets[e], sent[g][e])
      BY <1>1, LogOfFlow
    <3> QED BY <3>1, <3>2
  <2>3. CASE g # f
    <3>1. flows'[g] = flows[g] /\ sent'[g] = sent[g]
      BY <1>1, <1>2, <2>3
    <3>2. LogGood(flows[g].buckets[e], sent[g][e])
      BY <1>1, LogOfFlow
    <3> QED BY <3>1, <3>2
  <2> QED BY <2>1, <2>2, <2>3
<1> QED BY <1>6 DEF LogsGood, LogGood, Bytes, BucketSize

\* A query updates one bucket.
LEMMA QueryLogs ==
  ASSUME RateInv, NEW f, NEW d \in Directions, get_allowed_bytes(f, d)
  PROVE  LogsGood'
<1>1. /\ f \in DOMAIN flows /\ flows' = [flows EXCEPT ![f].buckets[d] = Updated(f, d)]
      /\ sent' = sent
  BY DEF get_allowed_bytes
<1>2. sent' = [sent EXCEPT ![f][d] = sent[f][d]]
  <2>1. sent \in [DOMAIN flows -> SentBlocks]
    BY DEF RateInv, RestGood
  <2>2. sent[f] = [sent[f] EXCEPT ![d] = sent[f][d]]
    BY <1>1, <2>1 DEF SentBlocks
  <2>3. sent = [sent EXCEPT ![f] = sent[f]]
    BY <1>1, <2>1
  <2> QED BY <1>1, <2>2, <2>3
<1> QED BY <1>1, <1>2, LogUpdated, LogReplaced

\* A block was allowed, so that no debt beyond the padding is left.
LEMMA SendLogs ==
  ASSUME RateInv, NEW f, NEW d \in Directions, NEW bytes \in Amounts, Send(f, d, bytes)
  PROVE  LogsGood'
<1> DEFINE bucket == Updated(f, d)
           left   == [bucket EXCEPT !.tokens = @ - bytes]
           block  == [at |-> now, bytes |-> bytes]
<1>1. /\ f \in DOMAIN flows
      /\ allowed_bytes(bucket) > 0 /\ bytes <= allowed_bytes(bucket) + Padding
      /\ flows' = [flows EXCEPT ![f].buckets[d] = left]
      /\ sent' = [sent EXCEPT ![f][d] = Append(sent[f][d], block)]
  BY DEF Send, report_transmission
<1>2. GoodBucket(bucket) /\ bucket.last_update = now /\ now \in 0..MaxTime
  BY <1>1, LogOfFlow, UpdateGood, UpdateAdds DEF Updated
<1>3. LogGood(bucket, sent[f][d]) /\ sent[f][d] \in Seq(SentBlock)
  BY <1>1, LogUpdated, LogOfFlow
<1>4. block \in SentBlock /\ block.bytes = bytes /\ block.at = now
  BY <1>2 DEF SentBlock
<1> HIDE DEF bucket, block
<1>5. left.tokens >= -Padding
  <2>1. bucket \in Buckets
    BY <1>2 DEF GoodBucket
  <2>2. bytes \in Nat /\ Padding \in Nat /\ bucket.tokens \in Int
    BY <2>1, QosAssumption DEF Buckets
  <2>3. allowed_bytes(bucket) \in Nat /\ allowed_bytes(bucket) <= bucket.tokens
    BY <1>1, <2>1, AllowedBytesBound
  <2>4. left.tokens = bucket.tokens - bytes
    BY <2>1 DEF Buckets
  <2> HIDE DEF left
  <2> QED BY <1>1, <2>2, <2>3, <2>4
<1>6. left = [bucket EXCEPT !.tokens = @ - block.bytes]
  BY <1>4
<1>7. block.at = bucket.last_update
  BY <1>2, <1>4
<1> HIDE DEF left
<1>8. LogGood(left, Append(sent[f][d], block))
  BY <1>2, <1>3, <1>4, <1>5, <1>6, <1>7, SendLog
<1> QED BY <1>1, <1>8, LogReplaced

\* Every bucket is updated.
LEMMA TickLogs ==
  ASSUME RateInv, on_slot_tick
  PROVE  LogsGood'
<1>1. /\ DOMAIN flows' = DOMAIN flows /\ sent' = sent
      /\ \A g \in DOMAIN flows :
           flows'[g] = [flows[g] EXCEPT !.buckets = [d \in Directions |-> Updated(g, d)]]
  BY DEF on_slot_tick
<1>2. ASSUME NEW g \in DOMAIN flows', NEW d \in Directions
      PROVE  LogGood(flows'[g].buckets[d], sent'[g][d])
  <2>1. flows[g] \in FlowStates /\ g \in DOMAIN flows
    BY <1>1 DEF RateInv, QosInv, FlowsGood
  <2>2. flows'[g].buckets[d] = Updated(g, d)
    BY <1>1, <2>1 DEF FlowStates
  <2>3. LogGood(Updated(g, d), sent[g][d])
    BY <2>1, LogUpdated
  <2> QED BY <1>1, <2>2, <2>3
<1> QED BY <1>2 DEF LogsGood, LogGood, Bytes, BucketSize

\* Every step keeps the logs good.
LEMMA NextRateInv == RateInv /\ [Next]_vars => RateInv'
<1> SUFFICES ASSUME RateInv, [Next]_vars PROVE RateInv'
  OBVIOUS
<1>1. QosInv' /\ RestGood'
  BY NextQosInv, NextRestGood DEF RateInv
<1>2. ASSUME UNCHANGED <<flows, sent>> PROVE LogsGood'
  BY <1>2 DEF RateInv, LogsGood
<1>3. LogsGood'
  <2>1. ASSUME NEW f \in FlowKeys, NEW type \in ResourceTypes, NEW mbr \in Rates,
               register_flow(f, type, mbr)
        PROVE  LogsGood'
    BY <2>1, RegisterLogs
  <2>2. ASSUME NEW f \in FlowKeys, remove_flow(f) PROVE LogsGood'
    BY <2>2, ForgetLogs DEF remove_flow
  <2>3. ASSUME NEW rnti \in Rntis, remove_ue_flows(rnti) PROVE LogsGood'
    BY <2>3, ForgetLogs DEF remove_ue_flows
  <2>4. ASSUME NEW f \in FlowKeys, NEW d \in Directions, get_allowed_bytes(f, d) PROVE LogsGood'
    BY <2>4, QueryLogs
  <2>5. ASSUME NEW f \in FlowKeys, NEW d \in Directions, NEW bytes \in Amounts, Send(f, d, bytes)
        PROVE  LogsGood'
    BY <2>5, SendLogs
  <2>6. CASE on_slot_tick
    BY <2>6, TickLogs
  <2>7. CASE reset_statistics \/ Tick \/ UNCHANGED vars
    BY <1>2, <2>7 DEF reset_statistics, Tick, vars
  <2> QED BY <2>1, <2>2, <2>3, <2>4, <2>5, <2>6, <2>7 DEF Next
<1> QED BY <1>1, <1>3 DEF RateInv

LEMMA InitRateInv == Init => RateInv
<1> SUFFICES ASSUME Init PROVE RateInv
  OBVIOUS
<1>1. QosInv /\ RestGood
  BY InitQosInv, InitRestGood
<1>2. DOMAIN flows = {}
  BY DEF Init
<1> QED BY <1>1, <1>2 DEF RateInv, LogsGood

\* No flow sends more in any interval than a bucket, what its rate lets in and one
\* padding, for any rates, depth and order of queries, blocks and slot ticks
\* (update, get_allowed_bytes, report_transmission).
THEOREM TokenRateIsKept == Spec => []SentWithinTokenRate
<1>1. RateInv => SentWithinTokenRate
  <2> SUFFICES ASSUME RateInv, NEW f \in DOMAIN flows, NEW d \in Directions,
                      NEW i \in DOMAIN sent[f][d], NEW j \in DOMAIN sent[f][d], i <= j
               PROVE  Bytes(sent[f][d], i, j) <=
                        BucketSize(flows[f].buckets[d].fill_rate_bps)
                          + (flows[f].buckets[d].fill_rate_bps
                               * (sent[f][d][j].at - sent[f][d][i].at)) \div (1 * SECOND)
                          + Padding
    BY DEF SentWithinTokenRate, SentWithin
  <2>1. 1 * SECOND = SECOND
    BY QosAssumption
  <2>2. LogGood(flows[f].buckets[d], sent[f][d])
    BY LogOfFlow
  <2> QED BY <2>1, <2>2 DEF LogGood
<1> QED BY <1>1, InitRateInv, NextRateInv, PTL DEF Spec
=============================================================================
