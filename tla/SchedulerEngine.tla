-------------------------- MODULE SchedulerEngine --------------------------
(***************************************************************************)
(* class SchedulerEngine of src/scheduler_engine.cpp with the cells and UEs *)
(* it owns, the PHY that clocks it and the UEs that answer it.              *)
(*                                                                          *)
(* Every handler holds Impl::mutex from its first to its last statement, so *)
(* the handlers that do a single update are one action.  Slot processing,    *)
(* which calls the allocator, the tracker, the PHY and the result callbacks *)
(* while it holds the mutex, is a sequence of steps; `pc' says which comes   *)
(* next and is "idle" when the mutex is free.                               *)
(*                                                                          *)
(* The cell identifiers index the configurations a cell may be added with.  *)
(* The scheduling policy is any order of the decisions: the four strategies *)
(* compute real-valued metrics that std::sort orders with ties broken        *)
(* arbitrarily, and set_policy_manager accepts any other.  Slicing and QoS  *)
(* do not restrict what is scheduled: the engine's own SliceOrchestrator     *)
(* and QosEngine have no slice, budget or flow, as nothing reaches them from *)
(* outside the engine.                                                      *)
(***************************************************************************)
EXTENDS Integers, Sequences, FiniteSets,
        FrameTiming, HarqEntity, HarqTracker, ResourceGrid

CONSTANTS
  Cells,            \* cell identifiers
  Rntis,            \* radio identifiers of UEs, unique within a cell only
  SlotsPerFrame,    \* of each cell, from its numerology
  StartTiming,      \* of each cell, the first slot the PHY indicates
  NumRbs,           \* of each cell, the width of its resource grid
  Duplex,           \* of each cell, "FDD" or "TDD"
  TddPattern,       \* of each cell, the capabilities [dl, ul] of the slots of a
                    \* period; <<>> when tdd_pattern is not set
  StartSymbol, NumSymbols,   \* of every allocation: 2 and 12 in the code
  Bytes,            \* buffer sizes a UE may report
  MinGrant,         \* size granted on a scheduling request: 100 in the code
  Mcs,              \* modulation and coding schemes a CQI report may select
  MinRbs,           \* min_rbs_for_tbs, of a cell, for an MCS and a size
  Configs,          \* configurations the engine may be given
  K1,               \* slots from PDSCH to its HARQ-ACK: 4 in the code
  UlCrcDelay,       \* slots from PUSCH to its CRC: 2 in the code
  UninitialisedFlags, \* values a new cell's can_schedule flags may hold
  DrxSettings,      \* values of drx_config.enabled
  RelockOutcomes,   \* what locking a mutex the thread owns may do
  MaxLate,          \* slots an answer may arrive after the one it was due in
  ReportDelay,      \* slots until an answer that arrived is reported
  MaxSlots,         \* bound: slots the PHY indicates for a cell
  MaxUeId,          \* bound: UE contexts created in a cell
  MaxCalls          \* bound: calls that change the configuration or a UE

EngineConfigs ==
  [max_pdsch_per_tti : Nat, max_pusch_per_tti : Nat,
   harq_retx_priority : BOOLEAN, scheduling_offset_slots : Nat]

\* The timings of any cell.
Timings == UNION {FrameTimings(SlotsPerFrame[c]) : c \in Cells}

SlotCapabilities == [dl : BOOLEAN, ul : BOOLEAN]

ASSUME EngineAssumption ==
  /\ SlotsPerFrame \in [Cells -> Nat \ {0}]
  /\ StartTiming \in [Cells -> Timings]
  /\ \A c \in Cells : StartTiming[c] \in FrameTimings(SlotsPerFrame[c])
  /\ NumRbs \in [Cells -> Nat \ {0}]
  /\ Duplex \in [Cells -> {"FDD", "TDD"}]
  /\ \A c \in Cells : TddPattern[c] \in Seq(SlotCapabilities)
  /\ StartSymbol \in Nat /\ NumSymbols \in Nat \ {0}
  /\ Bytes \subseteq Nat /\ 0 \in Bytes
  /\ MinGrant \in Bytes \ {0}
  /\ Mcs \subseteq Nat /\ 0 \in Mcs
  /\ \A c \in Cells, m \in Mcs, b \in Bytes : MinRbs[c][m][b] \in 1..NumRbs[c]
  /\ Configs # {} /\ Configs \subseteq EngineConfigs
  /\ K1 \in Nat /\ UlCrcDelay \in Nat
  /\ UninitialisedFlags # {} /\ UninitialisedFlags \subseteq SlotCapabilities
  /\ DrxSettings \subseteq BOOLEAN
  /\ RelockOutcomes \subseteq {"proceed", "throw", "hang"}
  /\ MaxLate \in Nat /\ ReportDelay \in Nat
  /\ MaxSlots \in Nat /\ MaxUeId \in Nat /\ MaxCalls \in Nat

VARIABLES
  config,       \* Impl::config
  cells,        \* the keys of Impl::cells
  capability,   \* of each cell, can_schedule_dl and can_schedule_ul of its slot
  ue_by_rnti,   \* of each cell, the keys of its UeRepository::ue_by_rnti_
  ue,           \* of each cell and RNTI, the UE context the repository holds
  next_ue_id,   \* of each cell, UeRepository::next_ue_id_
  pending,      \* HarqTimingTracker::pending_
  stats,        \* Impl::stats
  pc,           \* the next step of the slot being processed
  slot,         \* the slot being processed
  clock,        \* external: of each cell, the slot the PHY indicates next
  elapsed,      \* external: of each cell, the slots the PHY has indicated
  air,          \* external: the transmissions whose answer has not come back
  calls         \* the calls counted against MaxCalls

engineVars == <<config, cells, capability, ue_by_rnti, ue, next_ue_id>>
slotVars   == <<pc, slot>>
phyVars    == <<clock, elapsed, air>>
vars == <<config, cells, capability, ue_by_rnti, ue, next_ue_id, pending, stats,
          pc, slot, clock, elapsed, air, calls>>

-----------------------------------------------------------------------------
(* Data.                                                                    *)

\* A UE context as make_shared leaves it: all of it zero.
NewUe(id) ==
  [ue_id |-> id, dl_bytes |-> 0, ul_bytes |-> 0, sr_pending |-> FALSE,
   drx_enabled |-> FALSE, mcs |-> 0,
   dl_harq |-> NewHarqEntity, ul_harq |-> NewHarqEntity]

UeContexts ==
  [ue_id : Nat, dl_bytes : Bytes, ul_bytes : Bytes, sr_pending : BOOLEAN,
   drx_enabled : BOOLEAN, mcs : Mcs, dl_harq : HarqEntities, ul_harq : HarqEntities]

Harq(context, is_downlink) ==
  IF is_downlink THEN context.dl_harq ELSE context.ul_harq

AbsoluteSlots == UNION {0..(Cycle(SlotsPerFrame[c]) - 1) : c \in Cells}

PendingFeedbacks ==
  [cell_id : Cells, rnti : Rntis, harq_id : HarqIds, is_downlink : BOOLEAN,
   tx_slot : AbsoluteSlots]

Resources ==
  [start_rb : Nat, num_rbs : Nat, start_symbol : {StartSymbol}, num_symbols : {NumSymbols}]

Decisions ==
  [rnti : Rntis, type : {"NewTx", "Retx"}, harq_id : HarqIds, buffer_bytes : Bytes]

\* What the PHY and a UE know of a transmission: the UE context it is for, the
\* PDU, and, in slots elapsed, when it is on the air and when its answer is due.
Transmissions ==
  [cell_id : Cells, rnti : Rntis, ue_id : Nat, harq_id : HarqIds,
   is_downlink : BOOLEAN, resources : Resources, scheduled_at : Nat, on_air_at : Nat,
   due_at : Nat]

EmptySlot(c, t) ==
  [cell_id |-> c, timing |-> t, is_downlink |-> TRUE, dl_grid |-> {}, ul_grid |-> {},
   decisions |-> {}, successful |-> <<>>, pdus |-> <<>>]

Grid == IF slot.is_downlink THEN slot.dl_grid ELSE slot.ul_grid

\* Slot number n of cell c, counted from the first the PHY indicated.
SlotNumber(c, n) == absolute_slot(advanced(StartTiming[c], n))

-----------------------------------------------------------------------------
(* Cells and configuration.                                                 *)

Init ==
  /\ config \in Configs
  /\ cells = {}
  /\ capability = [c \in Cells |-> [dl |-> FALSE, ul |-> FALSE]]
  /\ ue_by_rnti = [c \in Cells |-> {}]
  /\ ue = [c \in Cells |-> [r \in Rntis |-> NewUe(0)]]
  /\ next_ue_id = [c \in Cells |-> 1]
  /\ pending = [s \in AbsoluteSlots |-> <<>>]
  /\ stats = [slots_processed |-> 0, slots_skipped |-> 0,
              dl_retransmissions |-> 0, ul_retransmissions |-> 0,
              allocation_failures |-> 0, harq_timeouts |-> 0]
  /\ pc = "idle"
  /\ \E c \in Cells : slot = EmptySlot(c, StartTiming[c])
  /\ clock = StartTiming
  /\ elapsed = [c \in Cells |-> 0]
  /\ air = {}
  /\ calls = 0

\* A call from the MAC or from the operator takes the mutex.
Call ==
  /\ pc = "idle"
  /\ calls < MaxCalls
  /\ calls' = calls + 1

\* The two flags of the new cell's SlotContext are left uninitialised.
add_cell(c, uninitialised) ==
  /\ Call
  /\ c \notin cells
  /\ cells' = cells \cup {c}
  /\ capability' = [capability EXCEPT ![c] = uninitialised]
  /\ ue_by_rnti' = [ue_by_rnti EXCEPT ![c] = {}]
  /\ next_ue_id' = [next_ue_id EXCEPT ![c] = 1]
  /\ UNCHANGED <<config, ue, pending, stats, slotVars, phyVars>>

\* The tracker keeps the entries of the cell.
remove_cell(c) ==
  /\ Call
  /\ c \in cells
  /\ cells' = cells \ {c}
  /\ ue_by_rnti' = [ue_by_rnti EXCEPT ![c] = {}]
  /\ ue' = [ue EXCEPT ![c] = [r \in Rntis |-> NewUe(0)]]
  /\ UNCHANGED <<config, capability, next_ue_id, pending, stats, slotVars, phyVars>>

update_config(new) ==
  /\ Call
  /\ config' = new
  /\ UNCHANGED <<cells, capability, ue_by_rnti, ue, next_ue_id, pending, stats,
                 slotVars, phyVars>>

-----------------------------------------------------------------------------
(* Events from the MAC.  An event for an unknown cell or RNTI returns early. *)

\* create_ue replaces the context of an RNTI already there.
on_ue_config(c, r, drx_enabled) ==
  /\ Call
  /\ c \in cells
  /\ next_ue_id[c] <= MaxUeId
  /\ ue_by_rnti' = [ue_by_rnti EXCEPT ![c] = @ \cup {r}]
  /\ ue' = [ue EXCEPT ![c][r] =
              [NewUe(next_ue_id[c]) EXCEPT !.drx_enabled = drx_enabled]]
  /\ next_ue_id' = [next_ue_id EXCEPT ![c] = @ + 1]
  /\ UNCHANGED <<config, cells, capability, pending, stats, slotVars, phyVars>>

on_ue_release(c, r) ==
  /\ Call
  /\ c \in cells /\ r \in ue_by_rnti[c]
  /\ ue_by_rnti' = [ue_by_rnti EXCEPT ![c] = @ \ {r}]
  /\ ue' = [ue EXCEPT ![c][r] = NewUe(0)]
  /\ UNCHANGED <<config, cells, capability, next_ue_id, pending, stats, slotVars, phyVars>>

\* The handlers that store a report in the UE's context.
StoreReport(c, r, context) ==
  /\ Call
  /\ c \in cells /\ r \in ue_by_rnti[c]
  /\ ue' = [ue EXCEPT ![c][r] = context]
  /\ UNCHANGED <<config, cells, capability, ue_by_rnti, next_ue_id, pending, stats,
                 slotVars, phyVars>>

on_dl_data(c, r, bytes) == StoreReport(c, r, [ue[c][r] EXCEPT !.dl_bytes = bytes])

on_bsr(c, r, bytes) == StoreReport(c, r, [ue[c][r] EXCEPT !.ul_bytes = bytes])

on_sr(c, r) == StoreReport(c, r, [ue[c][r] EXCEPT !.sr_pending = TRUE])

on_csi_update(c, r, mcs) == StoreReport(c, r, [ue[c][r] EXCEPT !.mcs = mcs])

-----------------------------------------------------------------------------
(* Selection of the UEs to schedule.                                        *)

\* drx_state.active_time is never assigned, so it stays FALSE.
is_in_active_time(context) == ~context.drx_enabled

has_traffic(context, is_downlink) ==
  IF is_downlink THEN context.dl_bytes > 0
                 ELSE context.ul_bytes > 0 \/ context.sr_pending

get_eligible_ues(c, is_downlink) ==
  {r \in ue_by_rnti[c] :
     /\ is_in_active_time(ue[c][r])
     /\ \/ has_traffic(ue[c][r], is_downlink)
        \/ get_retx_process(Harq(ue[c][r], is_downlink)) # {}}

\* The decision for a UE, or none.
DecisionsFor(c, r, is_downlink) ==
  LET entity == Harq(ue[c][r], is_downlink)
      retx   == {h \in get_retx_process(entity) : config.harq_retx_priority}
      buffer == IF is_downlink THEN ue[c][r].dl_bytes
                ELSE IF ue[c][r].ul_bytes > MinGrant THEN ue[c][r].ul_bytes
                ELSE MinGrant
  IN  IF retx # {}
        THEN {[rnti |-> r, type |-> "Retx", harq_id |-> h,
               buffer_bytes |-> entity[h].tb_size] : h \in retx}
        ELSE {[rnti |-> r, type |-> "NewTx", harq_id |-> h, buffer_bytes |-> buffer] :
                h \in {g \in get_free_process(entity) : has_traffic(ue[c][r], is_downlink)}}

\* The decisions of schedule_dl and schedule_ul before they are ordered.
DecisionsOf(c, is_downlink) ==
  UNION {DecisionsFor(c, r, is_downlink) : r \in get_eligible_ues(c, is_downlink)}

-----------------------------------------------------------------------------
(* Slot processing.                                                         *)

\* Mutant: the pattern is read one slot ahead.
SlotCapability_shifted(c, t) ==
  IF Duplex[c] = "FDD"        THEN [dl |-> TRUE, ul |-> TRUE]
  ELSE IF TddPattern[c] = <<>> THEN capability[c]
  ELSE TddPattern[c][((t.slot + 1) % Len(TddPattern[c])) + 1]

\* SlotContext::initialize: a TDD cell without a pattern keeps its flags.
SlotCapability(c, t) ==
  IF Duplex[c] = "FDD"        THEN [dl |-> TRUE, ul |-> TRUE]
  ELSE IF TddPattern[c] = <<>> THEN capability[c]
  ELSE TddPattern[c][(t.slot % Len(TddPattern[c])) + 1]

\* The cells are synchronised: the PHY indicates a slot once no other cell has
\* an earlier one left.
IsNext(c) ==
  \A d \in Cells : elapsed[c] * SlotsPerFrame[d] <= elapsed[d] * SlotsPerFrame[c]

\* The slots in which a transmission may be answered, if it ever is.
MayBeAnswered(tx, now) == now <= tx.due_at + MaxLate + ReportDelay

on_slot_indication(c) ==
  /\ pc = "idle"
  /\ elapsed[c] < MaxSlots /\ IsNext(c)
  /\ elapsed' = [elapsed EXCEPT ![c] = @ + 1]
  /\ clock' = [clock EXCEPT ![c] = advanced(@, 1)]
  /\ air' = {tx \in air : tx.cell_id = c => MayBeAnswered(tx, elapsed[c] + 1)}
  /\ IF c \notin cells
       THEN /\ stats' = [stats EXCEPT !.slots_skipped = @ + 1]
            /\ UNCHANGED <<capability, slotVars>>
       ELSE LET can == SlotCapability(c, clock[c])
            IN  /\ capability' = [capability EXCEPT ![c] = can]
                /\ slot' = [EmptySlot(c, clock[c]) EXCEPT
                              !.decisions = IF can.dl THEN DecisionsOf(c, TRUE) ELSE {}]
                /\ pc' = "allocate"
                /\ UNCHANGED stats
  /\ UNCHANGED <<config, cells, ue_by_rnti, ue, next_ue_id, pending, calls>>

\* Mutant: the limit counts one allocation too few.
MaxPerTti_off_by_one ==
  (IF slot.is_downlink THEN config.max_pdsch_per_tti ELSE config.max_pusch_per_tti) - 1

MaxPerTti ==
  IF slot.is_downlink THEN config.max_pdsch_per_tti ELSE config.max_pusch_per_tti

Runs(num_rbs) ==
  find_contiguous(Grid, NumRbs[slot.cell_id], num_rbs, StartSymbol, NumSymbols)

\* Mutant: the blocks the buffer needs are not capped.
Allocations_uncapped(d) ==
  LET required == MinRbs[slot.cell_id][ue[slot.cell_id][d.rnti].mcs][d.buffer_bytes]
  IN  {res \in [start_rb : 0..NumRbs[slot.cell_id], num_rbs : {required},
               start_symbol : {StartSymbol}, num_symbols : {NumSymbols}] :
         res.start_rb \in Runs(res.num_rbs)}

\* max_allocatable_rbs_internal, the longest run of free blocks, caps the blocks
\* the buffer needs, so that the search for a run of that length succeeds.
Allocations(d) ==
  LET required == MinRbs[slot.cell_id][ue[slot.cell_id][d.rnti].mcs][d.buffer_bytes]
  IN  {res \in [start_rb : 0..NumRbs[slot.cell_id], num_rbs : 1..required,
               start_symbol : {StartSymbol}, num_symbols : {NumSymbols}] :
         /\ res.start_rb \in Runs(res.num_rbs)
         /\ res.num_rbs < required => Runs(res.num_rbs + 1) = {}}

\* DefaultResourceAllocator::allocate for the decision of the highest priority
\* left: any of them, as the policy is arbitrary.
AllocateNext(d) ==
  /\ pc = "allocate"
  /\ d \in slot.decisions
  /\ Len(slot.successful) < MaxPerTti
  /\ \/ /\ Allocations(d) = {}
        /\ stats' = [stats EXCEPT !.allocation_failures = @ + 1]
        /\ slot' = [slot EXCEPT !.decisions = @ \ {d}]
     \/ \E res \in Allocations(d) :
        /\ slot' = [slot EXCEPT
             !.decisions  = @ \ {d},
             !.successful = Append(@, [decision |-> d, resources |-> res]),
             !.dl_grid    = IF slot.is_downlink THEN allocate(@, res) ELSE @,
             !.ul_grid    = IF slot.is_downlink THEN @ ELSE allocate(@, res)]
        /\ UNCHANGED stats
  /\ UNCHANGED <<engineVars, pending, pc, phyVars, calls>>

\* From schedule_dl to schedule_ul, and from there to the end of the slot.
\* Nothing reads the grids and lists of a direction that is done.
NextDirection ==
  IF slot.is_downlink
    THEN /\ pc' = "allocate"
         /\ slot' = [EmptySlot(slot.cell_id, slot.timing) EXCEPT
              !.is_downlink = FALSE,
              !.decisions   = IF capability[slot.cell_id].ul
                                THEN DecisionsOf(slot.cell_id, FALSE) ELSE {}]
    ELSE /\ pc' = "slot_end"
         /\ slot' = EmptySlot(slot.cell_id, slot.timing)

\* No decision is left or the limit is reached: with an allocation the TTI
\* request is built, without one it is not.
FinishAllocation ==
  /\ pc = "allocate"
  /\ slot.decisions = {} \/ Len(slot.successful) >= MaxPerTti
  /\ IF slot.successful = <<>>
       THEN NextDirection
       ELSE /\ pc' = "build"
            /\ slot' = [slot EXCEPT !.decisions = {}]
  /\ UNCHANGED <<engineVars, pending, stats, phyVars, calls>>

\* The timing of a TTI request and the slot its HARQ feedback is expected in.
RequestTiming ==
  IF slot.is_downlink THEN slot.timing
                      ELSE advanced(slot.timing, config.scheduling_offset_slots)

FeedbackTiming == advanced(RequestTiming, IF slot.is_downlink THEN K1 ELSE UlCrcDelay)

\* One turn of the loop of build_dl_tti_request or build_ul_tti_request.
BuildPdu ==
  /\ pc = "build"
  /\ slot.successful # <<>>
  /\ LET d   == Head(slot.successful).decision
         res == Head(slot.successful).resources
         c   == slot.cell_id
         n   == elapsed[c] - 1
         at  == IF slot.is_downlink THEN n ELSE n + config.scheduling_offset_slots
     IN  /\ slot' = [slot EXCEPT
              !.successful = Tail(@),
              !.pdus = Append(@,
                 [cell_id |-> c, rnti |-> d.rnti, ue_id |-> ue[c][d.rnti].ue_id,
                  harq_id |-> d.harq_id, is_downlink |-> slot.is_downlink,
                  resources |-> res, scheduled_at |-> n, on_air_at |-> at,
                  due_at |-> at + (IF slot.is_downlink THEN K1 ELSE UlCrcDelay)])]
         /\ pending' = register_pending(pending, absolute_slot(FeedbackTiming),
              [cell_id |-> c, rnti |-> d.rnti, harq_id |-> d.harq_id,
               is_downlink |-> slot.is_downlink,
               tx_slot |-> absolute_slot(RequestTiming)])
         /\ stats' = [stats EXCEPT
              !.dl_retransmissions =
                 @ + (IF slot.is_downlink  /\ d.type = "Retx" THEN 1 ELSE 0),
              !.ul_retransmissions =
                 @ + (IF ~slot.is_downlink /\ d.type = "Retx" THEN 1 ELSE 0)]
  /\ UNCHANGED <<engineVars, pc, phyVars, calls>>

\* The request goes to the PHY and to the result callback.
SendTtiRequest ==
  /\ pc = "build"
  /\ slot.successful = <<>>
  /\ air' = air \cup {slot.pdus[i] : i \in DOMAIN slot.pdus}
  /\ NextDirection
  /\ UNCHANGED <<engineVars, pending, stats, clock, elapsed, calls>>

\* SliceOrchestrator::on_slot_end locks its mutex and calls check_sla_compliance,
\* which locks it again.  A std::mutex relocked by its owner has undefined
\* behaviour: the thread blocks and keeps Impl::mutex, or lock() throws and the
\* exception leaves on_slot_indication, or the lock is granted.
EndSlot(outcome) ==
  /\ pc = "slot_end"
  /\ outcome \in RelockOutcomes
  /\ pc' = IF outcome = "hang" THEN "hung" ELSE "idle"
  /\ stats' = [stats EXCEPT !.slots_processed = @ + (IF outcome = "proceed" THEN 1 ELSE 0)]
  /\ UNCHANGED <<engineVars, pending, slot, phyVars, calls>>

-----------------------------------------------------------------------------
(* HARQ feedback.                                                           *)

\* The entries on_harq_feedback may take for the feedback of a process: the
\* first in the slot's list for the cell and process whose UE is still there.
MatchingEntries(c, harq_id, feedback_slot) ==
  LET list == get_all_for_slot(pending, feedback_slot)
  IN  FirstOf({i \in DOMAIN list : /\ list[i].cell_id = c /\ list[i].harq_id = harq_id
                                   /\ c \in cells /\ list[i].rnti \in ue_by_rnti[c]})

AfterFeedback(context, is_downlink, harq_id, ack) ==
  IF is_downlink
    THEN [context EXCEPT !.dl_harq = process_feedback(@, harq_id, ack)]
    ELSE [context EXCEPT !.ul_harq = process_feedback(@, harq_id, ack)]

on_harq_feedback(c, harq_id, ack, feedback_slot) ==
  /\ pc = "idle"
  /\ LET matching == MatchingEntries(c, harq_id, feedback_slot)
     IN  \/ /\ matching = {}
            /\ stats' = [stats EXCEPT !.harq_timeouts = @ + 1]
            /\ UNCHANGED <<ue, pending>>
         \/ \E i \in matching :
            LET entry == pending[feedback_slot][i]
            IN  /\ ue' = [ue EXCEPT ![c][entry.rnti] =
                            AfterFeedback(@, entry.is_downlink, harq_id, ack)]
                /\ pending' = find_and_remove(pending, feedback_slot, entry.rnti, harq_id)
                /\ stats' = [stats EXCEPT
                     !.dl_retransmissions =
                        @ + (IF entry.is_downlink /\ ~ack THEN 1 ELSE 0),
                     !.ul_retransmissions =
                        @ + (IF ~entry.is_downlink /\ ~ack THEN 1 ELSE 0)]
  /\ UNCHANGED <<config, cells, capability, ue_by_rnti, next_ue_id, slotVars,
                 clock, elapsed, calls>>

\* A transmission is answered once, in the slot its answer is due in or up to
\* MaxLate slots later, and the answer is reported with the slot it arrived in,
\* up to ReportDelay slots afterwards.  An answer may also never come.
Answer(tx, ack, late) ==
  /\ tx \in air
  /\ elapsed[tx.cell_id] \in (tx.due_at + late)..(tx.due_at + late + ReportDelay)
  /\ air' = air \ {tx}
  /\ on_harq_feedback(tx.cell_id, tx.harq_id, ack, SlotNumber(tx.cell_id, tx.due_at + late))

-----------------------------------------------------------------------------

MacEvent ==
  \E c \in Cells :
    \/ \E flags \in UninitialisedFlags : add_cell(c, flags)
    \/ remove_cell(c)
    \/ \E r \in Rntis :
         \/ \E drx_enabled \in DrxSettings : on_ue_config(c, r, drx_enabled)
         \/ on_ue_release(c, r)
         \/ \E bytes \in Bytes : on_dl_data(c, r, bytes) \/ on_bsr(c, r, bytes)
         \/ on_sr(c, r)
         \/ \E mcs \in Mcs : on_csi_update(c, r, mcs)

Next ==
  \/ MacEvent
  \/ \E new \in Configs : update_config(new)
  \/ \E c \in Cells : on_slot_indication(c)
  \/ \E d \in slot.decisions : AllocateNext(d)
  \/ FinishAllocation
  \/ BuildPdu
  \/ SendTtiRequest
  \/ \E outcome \in RelockOutcomes : EndSlot(outcome)
  \/ \E tx \in air, ack \in BOOLEAN, late \in 0..MaxLate : Answer(tx, ack, late)

Spec == Init /\ [][Next]_vars

-----------------------------------------------------------------------------
(* Properties.                                                              *)

Stats == [slots_processed : Nat, slots_skipped : Nat, dl_retransmissions : Nat,
          ul_retransmissions : Nat, allocation_failures : Nat, harq_timeouts : Nat]

Slots ==
  [cell_id : Cells, timing : Timings,
   is_downlink : BOOLEAN, dl_grid : SUBSET (Nat \X Nat), ul_grid : SUBSET (Nat \X Nat),
   decisions : SUBSET Decisions,
   successful : Seq([decision : Decisions, resources : Resources]),
   pdus : Seq(Transmissions)]

\* The values the variables take.  Timings stay within the frame of their cell,
\* the slot numbers of the tracker within the SFN cycle.
TypeOK ==
  /\ config \in Configs
  /\ cells \subseteq Cells
  /\ capability \in [Cells -> SlotCapabilities]
  /\ ue_by_rnti \in [Cells -> SUBSET Rntis]
  /\ ue \in [Cells -> [Rntis -> UeContexts]]
  /\ next_ue_id \in [Cells -> Nat \ {0}]
  /\ pending \in [AbsoluteSlots -> Seq(PendingFeedbacks)]
  /\ stats \in Stats
  /\ pc \in {"idle", "allocate", "build", "slot_end", "hung"}
  /\ slot \in Slots
  /\ slot.timing \in FrameTimings(SlotsPerFrame[slot.cell_id])
  /\ clock \in [Cells -> Timings]
  /\ \A c \in Cells : clock[c] \in FrameTimings(SlotsPerFrame[c])
  /\ elapsed \in [Cells -> Nat]
  /\ air \subseteq Transmissions
  /\ calls \in 0..MaxCalls

\* The allocations of a slot leave no gap: the blocks in use are the lowest ones
\* of the grid, whatever the order and the sizes of the decisions
\* (DefaultResourceAllocator::allocate, ResourceGrid::find_contiguous).
GridPacked ==
  \E k \in 0..NumRbs[slot.cell_id] :
    Grid = (StartSymbol..(StartSymbol + NumSymbols - 1)) \X (0..(k - 1))

Disjoint(res1, res2) == ResourceElements(res1) \cap ResourceElements(res2) = {}

\* What a slot's request occupies: the PDUs built, then the decisions allocated.
ResourcesOf(list) == [i \in DOMAIN list |-> list[i].resources]

RequestResources == ResourcesOf(slot.pdus) \o ResourcesOf(slot.successful)

\* The PDUs of one TTI request occupy disjoint blocks of the cell's grid, and the
\* bits of the grid are exactly the blocks they occupy, through allocation and
\* the construction of the request.
RequestDisjoint ==
  LET taken == RequestResources
  IN  /\ \A i, j \in DOMAIN taken : i # j => Disjoint(taken[i], taken[j])
      /\ \A i \in DOMAIN taken :
           taken[i].start_rb + taken[i].num_rbs <= NumRbs[slot.cell_id]
      /\ Grid = UNION {ResourceElements(taken[i]) : i \in DOMAIN taken}

\* The blocks a slot's request holds, as grants: they are made one at a time, of
\* blocks nobody holds, and end together when the direction is done (schedule_dl,
\* schedule_ul, build_dl_tti_request, build_ul_tti_request).
Grants == INSTANCE ExclusiveGrants WITH
  grants <- {ResourceElements(RequestResources[i]) : i \in DOMAIN RequestResources}

BlocksGrantedOnce == Grants!Spec

\* On the air, in one slot and direction of a cell, no two transmissions overlap
\* and none is for a UE that has another, although a PUSCH is granted
\* scheduling_offset_slots before the slot it is sent in (build_ul_tti_request).
\* Configurations that agree on the offset are assumed.
AirDisjoint ==
  \A x, y \in air :
    /\ x # y /\ x.cell_id = y.cell_id
    /\ x.is_downlink = y.is_downlink /\ x.on_air_at = y.on_air_at
    => x.rnti # y.rnti /\ Disjoint(x.resources, y.resources)

\* For every transmission whose answer may still come, the tracker has an entry
\* of its own: as many entries of its slot, cell and process as there are such
\* transmissions.  Cleanup, the SFN wrap and the removals by other UEs' feedback
\* do not take it away (HarqTimingTracker, on_harq_feedback).  The cells share no
\* RNTI, K1 = scheduling_offset_slots + UlCrcDelay, answers come in the slot they
\* are due in, and are reported before CLEANUP_AGE slots have passed.
EveryTransmissionTracked ==
  \A tx \in air :
    LET s     == SlotNumber(tx.cell_id, tx.due_at)
        alike == {other \in air : /\ other.cell_id = tx.cell_id
                                  /\ other.due_at = tx.due_at
                                  /\ other.harq_id = tx.harq_id}
    IN  Cardinality(alike) <=
          Cardinality({i \in DOMAIN pending[s] :
             pending[s][i].cell_id = tx.cell_id /\ pending[s][i].harq_id = tx.harq_id})

\* The TDD pattern, where there is one, lets slot t of cell c carry a direction.
PatternAllows(c, t, is_downlink) ==
  Duplex[c] = "FDD" \/ TddPattern[c] = <<>> \/
    LET can == TddPattern[c][(t.slot % Len(TddPattern[c])) + 1]
    IN  IF is_downlink THEN can.dl ELSE can.ul

\* A slot that has eligible UEs serves at least one of them, unless the cell has a
\* TDD pattern that excludes the direction: at the end of the slot something it
\* scheduled in that direction is on the air (process_slot, schedule_dl,
\* schedule_ul).
SlotServesTraffic ==
  pc = "slot_end" =>
    \A dl \in BOOLEAN :
      /\ get_eligible_ues(slot.cell_id, dl) # {}
      /\ PatternAllows(slot.cell_id, slot.timing, dl)
      => \E tx \in air : /\ tx.cell_id = slot.cell_id /\ tx.is_downlink = dl
                      /\ tx.scheduled_at = elapsed[slot.cell_id] - 1

\* An allocation fails only when every block of the grid is in use
\* (max_allocatable_rbs_internal, DefaultResourceAllocator::allocate).
AllocationFailsOnlyWhenFull ==
  [][stats'.allocation_failures > stats.allocation_failures =>
       \A rb \in 0..(NumRbs[slot.cell_id] - 1) : <<StartSymbol, rb>> \in Grid]_vars

\* The answer of a transmission that comes in time is counted as a timeout only
\* when a UE waiting in that slot was released (the comment before the increment
\* of harq_timeouts in on_harq_feedback).
TimeoutMeansReleased ==
  [][\A tx \in air : \A ack \in BOOLEAN :
       LET s == SlotNumber(tx.cell_id, tx.due_at)
       IN  /\ Answer(tx, ack, 0)
           /\ stats'.harq_timeouts > stats.harq_timeouts
           => \/ tx.cell_id \notin cells
              \/ \E i \in DOMAIN pending[s] : pending[s][i].rnti \notin ue_by_rnti[tx.cell_id]
    ]_vars


-----------------------------------------------------------------------------
(* What the repository's documents, comments and tests say of the engine and   *)
(* its code does not do; each is refuted by a run of its own.                 *)

\* The entry build_dl_tti_request or build_ul_tti_request registered.
EntryOf(tx) ==
  [cell_id |-> tx.cell_id, rnti |-> tx.rnti, harq_id |-> tx.harq_id,
   is_downlink |-> tx.is_downlink, tx_slot |-> SlotNumber(tx.cell_id, tx.on_air_at)]

\* The tracker is there "so we can route UCI indications back to the correct UE
\* and HARQ process": an answer consumes the entry of its own transmission.
FeedbackConsumesItsOwnEntry ==
  [][\A tx \in air : \A ack \in BOOLEAN :
       LET s == SlotNumber(tx.cell_id, tx.due_at)
       IN  Answer(tx, ack, 0) /\ pending' # pending =>
             \E i \in DOMAIN pending[s] : /\ pending[s][i] = EntryOf(tx)
                                          /\ pending'[s] = Without(pending[s], i)
    ]_vars

\* A process is in NackReceived when a "NACK received, needs retx" (HarqState), and
\* adaptive retransmission is documented of the scheduler: the NACK of a
\* transmission whose UE context is still there leaves the process it was sent on
\* waiting to be retransmitted (on_harq_feedback, HarqEntity::process_feedback).
NackAwaitsRetransmission ==
  [][\A tx \in air :
       /\ Answer(tx, FALSE, 0)
       /\ tx.cell_id \in cells /\ tx.rnti \in ue_by_rnti[tx.cell_id]
       /\ ue[tx.cell_id][tx.rnti].ue_id = tx.ue_id
       => Harq(ue'[tx.cell_id][tx.rnti], tx.is_downlink)[tx.harq_id].state = "NackReceived"
    ]_vars

\* The tests process a slot and find slots_processed raised by it: a slot that was
\* begun comes to its end and is counted (on_slot_indication, process_slot).
SlotIsCompleted ==
  \A n \in 0..(MaxSlots - 1) :
    pc # "idle" /\ stats.slots_processed = n ~> stats.slots_processed > n

\* Weak fairness of the thread that processes the slot.
SlotProcessing ==
  \/ \E d \in slot.decisions : AllocateNext(d)
  \/ FinishAllocation \/ BuildPdu \/ SendTtiRequest
  \/ \E outcome \in RelockOutcomes : EndSlot(outcome)

FairSpec == Spec /\ WF_vars(SlotProcessing)

=============================================================================
