----------------------------- MODULE QosMonitors -----------------------------
(***************************************************************************)
(* What class QosEngine of src/qos_engine.cpp observes of its flows: the    *)
(* GBR trackers, which measure the rate of each, and the delay trackers,    *)
(* which watch the packet delay budget, with the lists of flows in deficit  *)
(* and of delay-critical flows computed from them.                          *)
(*                                                                          *)
(* Time is std::chrono::steady_clock in milliseconds.  Every method holds   *)
(* Impl::mutex and is one action.  The caller keeps a queue of packets for   *)
(* each flow and direction, sends them in the order they arrived and reports *)
(* every arrival and, after the bytes, every transmission.                  *)
(***************************************************************************)
EXTENDS Integers, FiniteSets, Functions, SequencesExt

CONSTANTS
  Rntis, Qfis,
  Directions,     \* "dl" and "ul", or one of them
  GuaranteedRates,\* gbr_dl_bps and gbr_ul_bps a GBR flow may have
  Budgets,        \* packet_delay_budget_ms a flow may have
  WINDOW,         \* gbr_measurement_window_ms
  STRICTNESS,     \* gbr_enforcement_strictness, in hundredths
  MARGIN,         \* the share of the budget after which a flow is critical, in tenths
  PacketBytes,    \* bytes of a packet
  MaxTime,        \* bound: the last millisecond
  MaxPackets,     \* bound: packets that arrive
  MaxCalls        \* bound: flows registered and removed, statistics reset

ASSUME MonitorsAssumption ==
  /\ Directions \subseteq {"dl", "ul"}
  /\ GuaranteedRates \subseteq Nat /\ Budgets \subseteq Nat \ {0}
  /\ WINDOW \in Nat \ {0, 1}
  /\ STRICTNESS \in 0..100 /\ MARGIN \in 0..10
  /\ PacketBytes \in Nat
  /\ MaxTime \in Nat /\ MaxPackets \in Nat /\ MaxCalls \in Nat

VARIABLES
  flows,          \* of each RNTI and QFI with a flow, its rate, budget and trackers
  pdb_violations, \* Stats::pdb_violations
  now,            \* external: the clock
  queue,          \* external: of each RNTI, QFI and direction, the times at which
                  \* the packets that wait arrived
  late,           \* external: the packets sent after their budget since the
                  \* statistics were reset
  arrived,        \* the packets counted against MaxPackets
  calls           \* the calls counted against MaxCalls

vars == <<flows, pdb_violations, now, queue, late, arrived, calls>>

FlowKeys == Rntis \X Qfis

-----------------------------------------------------------------------------
(* struct GbrTracker.                                                       *)

\* The bytes of the samples at those places.
BytesAt(history, places) ==
  SumFunctionOnSet([i \in DOMAIN history |-> history[i].bytes], places)

Total(history) == BytesAt(history, DOMAIN history)

\* Mutant: old samples stay.
add_sample_without_pruning(history, bytes) == Append(history, [at |-> now, bytes |-> bytes])

\* The samples in front of the first one in the window are dropped, when another one
\* is added.
add_sample(history, bytes) ==
  LET samples == Append(history, [at |-> now, bytes |-> bytes])
      InWindow(i) == samples[i].at >= now - WINDOW
      first == CHOOSE i \in 1..Len(samples) : InWindow(i) /\ \A j \in 1..(i - 1) : ~InWindow(j)
  IN  SubSeq(samples, first, Len(samples))

\* No rate is known from one sample, nor from samples of one millisecond.
current_rate_bps(history) ==
  IF Len(history) < 2 THEN 0
  ELSE LET duration == Last(history).at - Head(history).at
       IN  IF duration = 0 THEN 0 ELSE (Total(history) * 8000) \div duration

BelowGuarantee(flow, d) == current_rate_bps(flow.history[d]) * 100 < flow.gbr_bps * STRICTNESS

-----------------------------------------------------------------------------
(* struct DelayTracker.                                                     *)

NothingPending == [has_pending_data |-> FALSE, oldest_packet_arrival |-> 0]

packet_arrived(delay) ==
  IF delay.has_pending_data THEN delay
  ELSE [has_pending_data |-> TRUE, oldest_packet_arrival |-> now]

\* Mutant: what is pending stays pending.
packet_transmitted_keeping(delay) == delay

\* Whatever is still waiting.
packet_transmitted(delay) == [delay EXCEPT !.has_pending_data = FALSE]

\* Mutant: the time of the last packet is used when nothing is pending.
Elapsed_stale(delay) == now - delay.oldest_packet_arrival

\* The elapsed time when something is pending; urgency() is its ratio to the budget.
Elapsed(delay) == IF delay.has_pending_data THEN now - delay.oldest_packet_arrival ELSE 0

-----------------------------------------------------------------------------
(* The lists the queries return.                                            *)

get_delay_critical_flows ==
  {f \in DOMAIN flows : \E d \in Directions :
     10 * Elapsed(flows[f].delay[d]) > MARGIN * flows[f].pdb_ms}

get_gbr_deficit_flows ==
  {f \in DOMAIN flows : flows[f].is_gbr /\ \E d \in Directions : BelowGuarantee(flows[f], d)}

-----------------------------------------------------------------------------

Init ==
  /\ flows = <<>>
  /\ pdb_violations = 0
  /\ now = 0
  /\ queue = [f \in FlowKeys |-> [d \in Directions |-> <<>>]]
  /\ late = 0
  /\ arrived = 0 /\ calls = 0

Call == calls < MaxCalls /\ calls' = calls + 1

\* The trackers start afresh, also those of a flow that is registered again with
\* packets waiting.
register_flow(f, is_gbr, gbr_bps, pdb_ms) ==
  /\ Call
  /\ flows' = [g \in DOMAIN flows \cup {f} |->
       IF g # f THEN flows[g]
       ELSE [is_gbr |-> is_gbr, gbr_bps |-> gbr_bps, pdb_ms |-> pdb_ms,
             history |-> [d \in Directions |-> <<>>],
             delay |-> [d \in Directions |-> NothingPending]]]
  /\ UNCHANGED <<pdb_violations, now, queue, late, arrived>>

Forget(gone) ==
  /\ Call
  /\ flows' = Restrict(flows, DOMAIN flows \ gone)
  /\ UNCHANGED <<pdb_violations, now, queue, late, arrived>>

remove_flow(f) == f \in DOMAIN flows /\ Forget({f})

remove_ue_flows(rnti) == Forget({f \in DOMAIN flows : f[1] = rnti})

reset_statistics ==
  /\ Call
  /\ pdb_violations' = 0
  /\ late' = 0
  /\ UNCHANGED <<flows, now, queue, arrived>>

\* A packet arrives, whether its flow is registered or not.
notify_data_arrival(f, d) ==
  /\ arrived < MaxPackets
  /\ arrived' = arrived + 1
  /\ queue' = [queue EXCEPT ![f][d] = Append(@, now)]
  /\ flows' = IF f \in DOMAIN flows
                THEN [flows EXCEPT ![f].delay[d] = packet_arrived(@)] ELSE flows
  /\ UNCHANGED <<pdb_violations, now, late, calls>>

\* A block with the first packets of the queue: report_transmission, then
\* notify_data_transmitted, which counts a violation when the pending packet was
\* waiting beyond the budget.
Transmit(f, d, packets) ==
  /\ f \in DOMAIN flows
  /\ packets \in 1..Len(queue[f][d])
  /\ queue' = [queue EXCEPT ![f][d] = SubSeq(@, packets + 1, Len(@))]
  /\ flows' = [flows EXCEPT ![f].history[d] = add_sample(@, packets * PacketBytes),
                            ![f].delay[d] = packet_transmitted(@)]
  /\ pdb_violations' =
       pdb_violations + (IF Elapsed(flows[f].delay[d]) > flows[f].pdb_ms THEN 1 ELSE 0)
  /\ late' = late + Cardinality({i \in 1..packets : now - queue[f][d][i] > flows[f].pdb_ms})
  /\ UNCHANGED <<now, arrived, calls>>

Tick ==
  /\ now < MaxTime
  /\ now' = now + 1
  /\ UNCHANGED <<flows, pdb_violations, queue, late, arrived, calls>>

Next ==
  \/ \E f \in FlowKeys :
       \/ \E is_gbr \in BOOLEAN, gbr_bps \in GuaranteedRates, pdb_ms \in Budgets :
            register_flow(f, is_gbr, gbr_bps, pdb_ms)
       \/ remove_flow(f)
       \/ \E d \in Directions :
            \/ notify_data_arrival(f, d)
            \/ \E packets \in 1..MaxPackets : Transmit(f, d, packets)
  \/ \E rnti \in Rntis : remove_ue_flows(rnti)
  \/ reset_statistics
  \/ Tick

Spec == Init /\ [][Next]_vars

-----------------------------------------------------------------------------
(* Properties.                                                              *)

FlowStates ==
  [is_gbr : BOOLEAN, gbr_bps : GuaranteedRates, pdb_ms : Budgets,
   history : [Directions -> Seq([at : 0..MaxTime, bytes : Nat])],
   delay : [Directions -> [has_pending_data : BOOLEAN, oldest_packet_arrival : 0..MaxTime]]]

\* The values the variables take; no history is longer than its window.
TypeOK ==
  /\ DOMAIN flows \subseteq FlowKeys
  /\ flows \in [DOMAIN flows -> FlowStates]
  /\ \A f \in DOMAIN flows, d \in Directions :
       LET history == flows[f].history[d]
       IN  history # <<>> => Last(history).at - Head(history).at <= WINDOW
  /\ pdb_violations \in Nat /\ late \in Nat
  /\ now \in 0..MaxTime
  /\ queue \in [FlowKeys -> [Directions -> Seq(0..MaxTime)]]
  /\ arrived \in 0..MaxPackets /\ calls \in 0..MaxCalls

\* No false alarm: a flow listed as delay-critical has a packet that has waited for
\* that share of its budget, whatever was sent, registered again or removed since the
\* packet arrived (packet_arrived, packet_transmitted, get_delay_critical_flows).
CriticalFlowsHaveOldPackets ==
  \A f \in get_delay_critical_flows : \E d \in Directions, i \in 1..MaxPackets :
    /\ i \in DOMAIN queue[f][d]
    /\ 10 * (now - queue[f][d][i]) > MARGIN * flows[f].pdb_ms

\* Every violation counted is a packet that was sent after its budget; the late
\* packets behind another one of the flow are not all counted (notify_data_transmitted).
ViolationsAreReal == pdb_violations <= late

\* The bytes sent in the millisecond t, as the tracker knows them.
SentAt(history, t) == BytesAt(history, {i \in DOMAIN history : history[i].at = t})

\* A flow that has sent its guaranteed bytes in each millisecond of the last window
\* is not in deficit, however it sent before (add_sample, current_rate_bps).
SteadyFlowsNotInDeficit ==
  \A f \in get_gbr_deficit_flows : \E d \in Directions, t \in (now - WINDOW + 1)..now :
    SentAt(flows[f].history[d], t) * 8000 < flows[f].gbr_bps
=============================================================================
