----------------------------- MODULE QosEngine -----------------------------
(***************************************************************************)
(* class QosEngine of src/qos_engine.cpp: QoS flows, the token buckets that *)
(* shape them to their maximum bit rate, and the counts of flows.           *)
(*                                                                          *)
(* Every method holds Impl::mutex throughout and is one action.  Time is    *)
(* std::chrono::steady_clock, read once by each method, in ticks of 1/SECOND *)
(* of a second (a microsecond in the code).  Downlink and uplink have a     *)
(* bucket each, with the same rate here, and do not interact.  The caller   *)
(* asks how much it may send and sends a transport block of up to that size, *)
(* with up to Padding bytes more.                                           *)
(***************************************************************************)
EXTENDS Integers, Sequences, FiniteSets, Functions

CONSTANTS
  Rntis, Qfis,
  Directions,     \* "dl" and "ul", or one of them
  Rates,          \* mbr_dl_bps and mbr_ul_bps a flow may have
  NON_GBR_RATE,   \* 10^9 in the code
  SECOND,         \* ticks of a second
  DEPTH,          \* token_bucket_depth_ms, in ticks
  WORD,           \* 2^32, the range of uint32_t
  Amounts,        \* bytes of a transport block, or waiting in a buffer
  Padding,        \* bytes a transport block may have beyond those allowed
  MaxTime,        \* bound: the last tick
  MaxBlocks,      \* bound: blocks sent in a direction for the flows there are
  MaxCalls        \* bound: flows registered and removed, statistics reset

ResourceTypes == {"GBR", "NonGBR", "DelayC"}

ASSUME QosAssumption ==
  /\ Rates \subseteq Nat /\ NON_GBR_RATE \in Nat
  /\ SECOND \in Nat \ {0} /\ DEPTH \in Nat /\ WORD \in Nat \ {0}
  /\ Directions \subseteq {"dl", "ul"}
  /\ Amounts \subseteq Nat /\ Padding \in Nat
  /\ MaxTime \in Nat /\ MaxBlocks \in Nat /\ MaxCalls \in Nat

VARIABLES
  flows,        \* Impl::flows: of each RNTI and QFI with a flow, its state
  total_flows,  \* Stats::total_flows
  gbr_flows,    \* Stats::gbr_flows
  now,          \* external: the clock
  sent,         \* external: the blocks sent for each flow that is registered
  was_reset,    \* external: reset_statistics was called
  calls         \* the calls counted against MaxCalls

vars == <<flows, total_flows, gbr_flows, now, sent, was_reset, calls>>

FlowKeys == Rntis \X Qfis

Lesser(a, b) == IF a < b THEN a ELSE b

-----------------------------------------------------------------------------
(* struct TokenBucket.                                                      *)

\* The rate is in bits per second and the bucket in bytes.
BucketSize(rate) == (rate * DEPTH) \div (8 * SECOND)

FullBucket(rate) ==
  [tokens |-> BucketSize(rate), fill_rate_bps |-> rate, last_update |-> now]

\* Mutant: the time of the update is not recorded.
update_without_time(bucket) ==
  LET new_tokens == (bucket.fill_rate_bps * (now - bucket.last_update)) \div SECOND
  IN  [bucket EXCEPT
         !.tokens = Lesser(@ + new_tokens, BucketSize(bucket.fill_rate_bps))]

\* Mutant: the bucket fills without end.
update_uncapped(bucket) ==
  LET new_tokens == (bucket.fill_rate_bps * (now - bucket.last_update)) \div SECOND
  IN  [bucket EXCEPT !.tokens = @ + new_tokens, !.last_update = now]

\* One byte is added for each bit of the rate; what is less than a byte is lost.
update(bucket) ==
  LET new_tokens == (bucket.fill_rate_bps * (now - bucket.last_update)) \div SECOND
  IN  [bucket EXCEPT
         !.tokens = Lesser(@ + new_tokens, BucketSize(bucket.fill_rate_bps)),
         !.last_update = now]

-----------------------------------------------------------------------------

Init ==
  /\ flows = <<>>
  /\ total_flows = 0 /\ gbr_flows = 0
  /\ now = 0
  /\ sent = <<>>
  /\ was_reset = FALSE
  /\ calls = 0

Call == calls < MaxCalls /\ calls' = calls + 1

With(f, x, value) == [y \in DOMAIN f \cup {x} |-> IF y = x THEN value ELSE f[y]]

\* A flow that is registered again replaces the old one and is counted again.
register_flow(f, type, mbr) ==
  /\ Call
  /\ LET rate == IF type = "NonGBR" THEN NON_GBR_RATE ELSE mbr
     IN  flows' = With(flows, f, [resource_type |-> type, mbr_bps |-> mbr,
                                  buckets |-> [d \in Directions |-> FullBucket(rate)]])
  /\ sent' = With(sent, f, [d \in Directions |-> <<>>])
  /\ total_flows' = total_flows + 1
  /\ gbr_flows' = gbr_flows + (IF type = "NonGBR" THEN 0 ELSE 1)
  /\ UNCHANGED <<now, was_reset>>

\* Mutant: a non-GBR flow is counted as one fewer GBR flow.
Forget_any(gone) ==
  /\ flows' = Restrict(flows, DOMAIN flows \ gone)
  /\ sent' = Restrict(sent, DOMAIN sent \ gone)
  /\ total_flows' = total_flows - Cardinality(gone)
  /\ gbr_flows' = gbr_flows - Cardinality(gone)

\* The flows removed are counted one by one; delay-critical flows, counted with
\* the GBR flows when they came, are not when they go.
Forget(gone) ==
  /\ flows' = Restrict(flows, DOMAIN flows \ gone)
  /\ sent' = Restrict(sent, DOMAIN sent \ gone)
  /\ total_flows' = total_flows - Cardinality(gone)
  /\ gbr_flows' = gbr_flows - Cardinality({f \in gone : flows[f].resource_type = "GBR"})

remove_flow(f) ==
  /\ Call
  /\ f \in DOMAIN flows
  /\ Forget({f})
  /\ UNCHANGED <<now, was_reset>>

remove_ue_flows(rnti) ==
  /\ Call
  /\ Forget({f \in DOMAIN flows : f[1] = rnti})
  /\ UNCHANGED <<now, was_reset>>

reset_statistics ==
  /\ Call
  /\ total_flows' = 0 /\ gbr_flows' = 0
  /\ was_reset' = TRUE
  /\ UNCHANGED <<flows, now, sent>>

-----------------------------------------------------------------------------
(* Rate shaping.                                                            *)

Updated(f, d) == update(flows[f].buckets[d])

\* Mutant: a negative number of tokens is cast to uint32_t.
allowed_bytes_cast(bucket) == bucket.tokens % WORD

allowed_bytes(bucket) == IF bucket.tokens > 0 THEN bucket.tokens % WORD ELSE 0

\* The query updates the bucket.  So does calculate_priority, by the same call; its
\* answer, which takes a negative number of tokens for nearly 2^32, is not modelled.
get_allowed_bytes(f, d) ==
  /\ f \in DOMAIN flows
  /\ flows' = [flows EXCEPT ![f].buckets[d] = Updated(f, d)]
  /\ UNCHANGED <<total_flows, gbr_flows, now, sent, was_reset, calls>>

report_transmission(f, d, bytes) ==
  /\ f \in DOMAIN flows
  /\ LET bucket == Updated(f, d)
     IN  flows' = [flows EXCEPT ![f].buckets[d] = [bucket EXCEPT !.tokens = @ - bytes]]

\* A block the scheduler sends: allowed by get_allowed_bytes, up to padding.
Send(f, d, bytes) ==
  /\ f \in DOMAIN flows
  /\ SumFunction([g \in DOMAIN sent |-> Len(sent[g][d])]) < MaxBlocks
  /\ allowed_bytes(Updated(f, d)) > 0
  /\ bytes <= allowed_bytes(Updated(f, d)) + Padding
  /\ report_transmission(f, d, bytes)
  /\ sent' = [sent EXCEPT ![f][d] = Append(@, [at |-> now, bytes |-> bytes])]
  /\ UNCHANGED <<total_flows, gbr_flows, now, was_reset, calls>>

\* The engine calls it in every slot.
on_slot_tick ==
  /\ flows' = [f \in DOMAIN flows |->
                 [flows[f] EXCEPT !.buckets = [d \in Directions |-> Updated(f, d)]]]
  /\ UNCHANGED <<total_flows, gbr_flows, now, sent, was_reset, calls>>

Tick ==
  /\ now < MaxTime
  /\ now' = now + 1
  /\ UNCHANGED <<flows, total_flows, gbr_flows, sent, was_reset, calls>>

Next ==
  \/ \E f \in FlowKeys :
       \/ \E type \in ResourceTypes, mbr \in Rates : register_flow(f, type, mbr)
       \/ remove_flow(f)
       \/ \E d \in Directions :
            \/ get_allowed_bytes(f, d)
            \/ \E bytes \in Amounts : Send(f, d, bytes)
  \/ \E rnti \in Rntis : remove_ue_flows(rnti)
  \/ reset_statistics
  \/ on_slot_tick
  \/ Tick

Spec == Init /\ [][Next]_vars

-----------------------------------------------------------------------------
(* Properties.                                                              *)

Buckets ==
  [tokens : Int, fill_rate_bps : Rates \cup {NON_GBR_RATE}, last_update : 0..MaxTime]

FlowStates ==
  [resource_type : ResourceTypes, mbr_bps : Rates, buckets : [Directions -> Buckets]]

\* The values the variables take; no bucket overflows or is updated in the future.
TypeOK ==
  /\ DOMAIN flows \subseteq FlowKeys
  /\ flows \in [DOMAIN flows -> FlowStates]
  /\ \A f \in DOMAIN flows, d \in Directions :
       LET bucket == flows[f].buckets[d]
       IN  bucket.tokens <= BucketSize(bucket.fill_rate_bps) /\ bucket.last_update <= now
  /\ total_flows \in Int /\ gbr_flows \in Int
  /\ now \in 0..MaxTime
  /\ sent \in [DOMAIN flows -> [Directions -> Seq([at : 0..MaxTime, bytes : Amounts])]]
  /\ was_reset \in BOOLEAN
  /\ calls \in 0..MaxCalls

Bytes(blocks, i, j) ==
  SumFunctionOnSet([k \in DOMAIN blocks |-> blocks[k].bytes], i..j)

\* Between any two blocks of a flow, the bytes sent are at most a bucket and what
\* rate lets in between them, in bytes per second times unit, and one padding.
SentWithin(f, d, rate, unit) ==
  \A i, j \in DOMAIN sent[f][d] :
    i <= j =>
      Bytes(sent[f][d], i, j) <=
        BucketSize(flows[f].buckets[d].fill_rate_bps)
          + (rate * (sent[f][d][j].at - sent[f][d][i].at)) \div (unit * SECOND) + Padding

\* However the updates by queries, reports and slot ticks fall, no flow sends more
\* in any interval than a bucket and fill_rate_bps tokens per second (update,
\* get_allowed_bytes, report_transmission).
SentWithinTokenRate ==
  \A f \in DOMAIN flows, d \in Directions :
    SentWithin(f, d, flows[f].buckets[d].fill_rate_bps, 1)

\* A caller that keeps to get_allowed_bytes never puts a flow in debt by more
\* than the padding of one block, however often it sends.
DebtBounded ==
  \A f \in DOMAIN flows, d \in Directions : flows[f].buckets[d].tokens >= -Padding

\* Until the statistics are reset the counts are never below the number of flows,
\* so no removal wraps them (register_flow, remove_flow, remove_ue_flows).  They
\* may be above: see register_flow and Forget.
CountsCoverFlows ==
  was_reset \/ /\ total_flows >= Cardinality(DOMAIN flows)
               /\ gbr_flows >= Cardinality({f \in DOMAIN flows :
                                              flows[f].resource_type # "NonGBR"})

\* "Maximum DL rate" in bits per second: no flow with a maximum bit rate sends more
\* in any interval than a bucket and that rate.
SentWithinMbr ==
  \A f \in DOMAIN flows, d \in Directions :
    flows[f].resource_type # "NonGBR" => SentWithin(f, d, flows[f].mbr_bps, 8)
=============================================================================
