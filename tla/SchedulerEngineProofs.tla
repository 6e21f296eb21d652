---------------------- MODULE SchedulerEngineProofs ------------------------
(***************************************************************************)
(* Proofs about SchedulerEngine, for every number of cells, UEs, slots,     *)
(* resource blocks and configurations that satisfies its assumptions.  First*)
(* what the operators of FrameTiming, HarqEntity, HarqTracker and           *)
(* ResourceGrid return, for every value of their parameters.                *)
(*                                                                          *)
(* The allocations of a slot are disjoint, packed from the lowest block, and *)
(* fail only when no block is left: the three facts depend on each other     *)
(* through GridInv.  With the slots and directions kept apart (AirInv)       *)
(* nothing on the air overlaps, and a slot serves the directions that UEs    *)
(* wait for (ServiceInv).                                                   *)
(*                                                                          *)
(* The list of the HARQ timing tracker for a slot is at least as long as the *)
(* answers due in it are many (TrackInv), so that an answer that comes in    *)
(* time always finds an entry; which of the entries it takes away is another *)
(* matter, see the run feedback_routing.                                    *)
(***************************************************************************)
EXTENDS SchedulerEngine, NumberLemmas, SequenceTheorems, TLAPS

-----------------------------------------------------------------------------
(* FrameTiming.                                                             *)

\* Advancing a timing keeps its slot within the frame and its SFN within the
\* cycle (FrameTiming::advance).
LEMMA AdvancedType ==
  ASSUME NEW n \in Nat \ {0}, NEW t \in FrameTimings(n), NEW k \in Nat
  PROVE  advanced(t, k) \in FrameTimings(n)
<1>1. /\ t \in [sfn : 0..(MAX_SFN - 1), slot : 0..(n - 1), slots_per_frame : {n}]
      /\ t.sfn \in 0..(MAX_SFN - 1) /\ t.slot \in 0..(n - 1) /\ t.slots_per_frame = n
  BY DEF FrameTimings
<1>2. /\ (t.slot + k) % n \in 0..(n - 1)
      /\ (t.sfn + (t.slot + k) \div n) % MAX_SFN \in 0..(MAX_SFN - 1)
  <2>1. AddsDigits(MAX_SFN, n, t.sfn, t.slot, k)
    BY <1>1, MaxSfnAssumption, TwoDigits
  <2> QED BY <2>1, Zenon DEF AddsDigits
<1>3. advanced(t, k) = [t EXCEPT !.slot = (t.slot + k) % n,
                                !.sfn  = (t.sfn + (t.slot + k) \div n) % MAX_SFN]
  BY <1>1 DEF advanced
<1> QED BY <1>1, <1>2, <1>3 DEF FrameTimings

\* The number of a slot lies within the SFN cycle (FrameTiming::absolute_slot).
LEMMA AbsoluteSlotRange ==
  ASSUME NEW n \in Nat \ {0}, NEW t \in FrameTimings(n)
  PROVE  absolute_slot(t) \in 0..(Cycle(n) - 1)
<1>1. t.sfn \in 0..(MAX_SFN - 1) /\ t.slot \in 0..(n - 1) /\ t.slots_per_frame = n
  BY DEF FrameTimings
<1>2. t.sfn * n + t.slot \in 0..(MAX_SFN * n - 1)
  BY <1>1, MaxSfnAssumption, TwoDigits
<1> QED BY <1>1, <1>2 DEF Cycle, absolute_slot

-----------------------------------------------------------------------------
(* HarqEntity.                                                              *)

LEMMA NewHarqEntityType == NewHarqEntity \in HarqEntities
BY DEF NewHarqEntity, HarqEntities, HarqProcesses, HarqStates

\* An entity that was never used offers process 0 only (get_free_process), offers
\* nothing to retransmit (get_retx_process), and ignores every feedback, as no
\* process is Pending (process_feedback).
LEMMA NewHarqEntityIsInert ==
  /\ get_free_process(NewHarqEntity) = {0}
  /\ get_retx_process(NewHarqEntity) = {}
  /\ \A h, ack : process_feedback(NewHarqEntity, h, ack) = NewHarqEntity
<1>1. \A h \in HarqIds : NewHarqEntity[h].state = "Idle"
  BY DEF NewHarqEntity
<1>2. get_free_process(NewHarqEntity) = {0}
  <2>1. get_free_process(NewHarqEntity) = {h \in HarqIds : \A g \in HarqIds : h <= g}
    BY <1>1 DEF get_free_process
  <2>2. \A h \in HarqIds : h \in Nat /\ 0 <= h
    BY HarqIdsAssumption
  <2>3. \A h \in HarqIds : (\A g \in HarqIds : h <= g) <=> h = 0
    BY <2>2, HarqIdsAssumption
  <2> QED BY <2>1, <2>3, HarqIdsAssumption
<1>3. get_retx_process(NewHarqEntity) = {}
  BY <1>1 DEF get_retx_process, can_retransmit
<1>4. \A h, ack : process_feedback(NewHarqEntity, h, ack) = NewHarqEntity
  BY <1>1 DEF process_feedback
<1> QED BY <1>2, <1>3, <1>4

-----------------------------------------------------------------------------
(* HarqTracker.                                                             *)

LEMMA RegisterType ==
  ASSUME NEW D, NEW S, NEW by_slot \in [D -> Seq(S)], NEW e \in D, NEW info \in S
  PROVE  register_pending(by_slot, e, info) \in [D -> Seq(S)]
BY AppendProperties, EmptySeq DEF register_pending

LEMMA WithoutProperties ==
  ASSUME NEW S, NEW s \in Seq(S), NEW i \in DOMAIN s
  PROVE  /\ Without(s, i) \in Seq(S)
         /\ Len(Without(s, i)) = Len(s) - 1
         /\ \A j \in 1..(Len(s) - 1) : Without(s, i)[j] = IF j < i THEN s[j] ELSE s[j + 1]
<1>1. Len(s) \in Nat /\ i \in 1..Len(s) /\ \A j \in 1..Len(s) : s[j] \in S
  BY LenProperties, ElementOfSeq
<1> DEFINE left  == SubSeq(s, 1, i - 1)
           right == SubSeq(s, i + 1, Len(s))
<1>2. /\ left \in Seq(S) /\ Len(left) = i - 1
      /\ \A j \in 1..(i - 1) : left[j] = s[j]
  <2>1. \A j \in 1..(i - 1) : s[j] \in S
    BY <1>1
  <2>2. 1 \in Int /\ i - 1 \in Int
    BY <1>1
  <2>3. /\ left \in Seq(S)
        /\ Len(left) = IF 1 <= i - 1 THEN (i - 1) - 1 + 1 ELSE 0
        /\ \A j \in 1..((i - 1) - 1 + 1) : left[j] = s[1 + j - 1]
    BY <2>1, <2>2, SubSeqProperties
  <2> HIDE DEF left
  <2> QED BY <1>1, <2>3
<1>3. /\ right \in Seq(S) /\ Len(right) = Len(s) - i
      /\ \A j \in 1..(Len(s) - i) : right[j] = s[i + j]
  <2>1. \A j \in (i + 1)..Len(s) : s[j] \in S
    BY <1>1
  <2>2. i + 1 \in Int /\ Len(s) \in Int
    BY <1>1
  <2>3. /\ right \in Seq(S)
        /\ Len(right) = IF i + 1 <= Len(s) THEN Len(s) - (i + 1) + 1 ELSE 0
        /\ \A j \in 1..(Len(s) - (i + 1) + 1) : right[j] = s[i + 1 + j - 1]
    BY <2>1, <2>2, SubSeqProperties
  <2> HIDE DEF right
  <2> QED BY <1>1, <2>3
<1>4. Without(s, i) = left \o right
  BY DEF Without
<1> HIDE DEF left, right
<1>5. /\ left \o right \in Seq(S)
      /\ Len(left \o right) = Len(left) + Len(right)
      /\ \A j \in 1..(Len(left) + Len(right)) :
           (left \o right)[j] = IF j <= Len(left) THEN left[j] ELSE right[j - Len(left)]
  BY <1>2, <1>3, ConcatProperties
<1>6. Len(Without(s, i)) = Len(s) - 1
  BY <1>1, <1>2, <1>3, <1>4, <1>5
<1>7. ASSUME NEW j \in 1..(Len(s) - 1)
      PROVE  Without(s, i)[j] = IF j < i THEN s[j] ELSE s[j + 1]
  <2>1. j \in 1..(Len(left) + Len(right))
    BY <1>1, <1>2, <1>3
  <2>2. CASE j < i
    BY <1>1, <1>2, <1>4, <1>5, <2>1, <2>2
  <2>3. CASE ~ j < i
    <3>1. j - Len(left) \in 1..(Len(s) - i) /\ i + (j - Len(left)) = j + 1 /\ ~ j <= Len(left)
      BY <1>1, <1>2, <2>3
    <3>2. right[j - Len(left)] = s[i + (j - Len(left))]
      BY <1>3, <3>1
    <3> QED BY <1>4, <1>5, <2>1, <2>3, <3>1, <3>2
  <2> QED BY <2>2, <2>3
<1> QED BY <1>4, <1>5, <1>6, <1>7

LEMMA FindAndRemoveType ==
  ASSUME NEW D, NEW S, NEW by_slot \in [D -> Seq(S)], NEW e \in D, NEW rnti, NEW h
  PROVE  find_and_remove(by_slot, e, rnti, h) \in [D -> Seq(S)]
<1> DEFINE entries == by_slot[e]
           found == FirstOf({i \in DOMAIN entries :
                               entries[i].rnti = rnti /\ entries[i].harq_id = h})
           left == IF found = {} THEN entries
                   ELSE Without(entries, CHOOSE i \in found : TRUE)
<1>1. find_and_remove(by_slot, e, rnti, h) = [by_slot EXCEPT ![e] = left]
  BY DEF find_and_remove
<1>2. found \subseteq DOMAIN entries
  BY DEF FirstOf
<1>3. left \in Seq(S)
  BY <1>2, WithoutProperties
<1> HIDE DEF left
<1> QED BY <1>1, <1>3

-----------------------------------------------------------------------------
(* ResourceGrid.                                                            *)

\* find_contiguous reports free blocks within the grid.
LEMMA FindContiguousFree ==
  ASSUME NEW grid, NEW grid_rbs \in Nat, NEW num_rbs \in Nat,
         NEW start_symbol, NEW num_symbols,
         NEW start \in find_contiguous(grid, grid_rbs, num_rbs, start_symbol, num_symbols)
  PROVE  /\ start \in 0..(grid_rbs - num_rbs)
         /\ is_available(grid, [start_rb |-> start, num_rbs |-> num_rbs,
                                start_symbol |-> start_symbol, num_symbols |-> num_symbols])
BY DEF find_contiguous, FreeRuns

LEMMA ResourceElementsType ==
  ASSUME NEW res, res.start_rb \in Nat, res.num_rbs \in Nat,
         res.start_symbol \in Nat, res.num_symbols \in Nat
  PROVE  ResourceElements(res) \subseteq Nat \X Nat
BY DEF ResourceElements

\* In a grid whose first k blocks are in use find_contiguous reports block k when
\* the blocks left are enough, and nothing otherwise.
LEMMA FindInPackedGrid ==
  ASSUME NEW grid_rbs \in Nat, NEW k \in 0..grid_rbs, NEW num_rbs \in Nat \ {0},
         NEW start_symbol \in Nat, NEW num_symbols \in Nat \ {0}, NEW grid,
         grid = (start_symbol..(start_symbol + num_symbols - 1)) \X (0..(k - 1))
  PROVE  find_contiguous(grid, grid_rbs, num_rbs, start_symbol, num_symbols)
           = IF k + num_rbs <= grid_rbs THEN {k} ELSE {}
<1> DEFINE res(start) == [start_rb |-> start, num_rbs |-> num_rbs,
                          start_symbol |-> start_symbol, num_symbols |-> num_symbols]
           runs == FreeRuns(grid, grid_rbs, num_rbs, start_symbol, num_symbols)
<1>1. \A start \in 0..(grid_rbs - num_rbs) :
        ResourceElements(res(start))
          = (start_symbol..(start_symbol + num_symbols - 1)) \X (start..(start + num_rbs - 1))
  BY DEF ResourceElements
<1>2. ASSUME NEW start \in 0..(grid_rbs - num_rbs), start < k
      PROVE  ~is_available(grid, res(start))
  <2>1. <<start_symbol, start>> \in ResourceElements(res(start))
    <3>1. start_symbol \in start_symbol..(start_symbol + num_symbols - 1)
      OBVIOUS
    <3>2. start \in start..(start + num_rbs - 1)
      OBVIOUS
    <3> QED BY <1>1, <3>1, <3>2
  <2>2. <<start_symbol, start>> \in grid
    <3>1. start_symbol \in start_symbol..(start_symbol + num_symbols - 1)
      OBVIOUS
    <3>2. start \in 0..(k - 1)
      BY <1>2
    <3> QED BY <3>1, <3>2
  <2> QED BY <2>1, <2>2 DEF is_available
<1>3. ASSUME NEW start \in 0..(grid_rbs - num_rbs), ~ start < k
      PROVE  is_available(grid, res(start))
  <2>1. (0..(k - 1)) \cap (start..(start + num_rbs - 1)) = {}
    BY <1>3
  <2> QED BY <1>1, <2>1 DEF is_available
<1>4. runs = {start \in 0..(grid_rbs - num_rbs) : ~ start < k}
  BY <1>2, <1>3 DEF FreeRuns
<1> HIDE DEF runs
<1>5. find_contiguous(grid, grid_rbs, num_rbs, start_symbol, num_symbols)
        = {start \in runs : \A other \in runs : start <= other}
  BY DEF find_contiguous, runs
<1>6. CASE k + num_rbs <= grid_rbs
  <2>1. k \in runs /\ \A other \in runs : k <= other /\ other \in Nat
    BY <1>4, <1>6
  <2>2. \A start \in runs : (\A other \in runs : start <= other) <=> start = k
    BY <2>1
  <2> QED BY <1>5, <1>6, <2>1, <2>2
<1>7. CASE ~ k + num_rbs <= grid_rbs
  <2>1. runs = {}
    BY <1>4, <1>7
  <2> QED BY <1>5, <1>7, <2>1
<1> QED BY <1>6, <1>7

\* Advancing a timing adds to its slot number, modulo the SFN cycle.
LEMMA AdvancedSlot ==
  ASSUME NEW n \in Nat \ {0}, NEW t \in FrameTimings(n), NEW k \in Nat
  PROVE  absolute_slot(advanced(t, k)) = (absolute_slot(t) + k) % Cycle(n)
<1>1. /\ t \in [sfn : 0..(MAX_SFN - 1), slot : 0..(n - 1), slots_per_frame : {n}]
      /\ t.sfn \in 0..(MAX_SFN - 1) /\ t.slot \in 0..(n - 1) /\ t.slots_per_frame = n
  BY DEF FrameTimings
<1> DEFINE r == (t.slot + k) % n
           g == (t.sfn + (t.slot + k) \div n) % MAX_SFN
<1>2. g * n + r = ((t.sfn * n + t.slot) + k) % (MAX_SFN * n)
  <2>1. AddsDigits(MAX_SFN, n, t.sfn, t.slot, k)
    BY <1>1, MaxSfnAssumption, TwoDigits
  <2> QED BY <2>1, Zenon DEF AddsDigits
<1>3. advanced(t, k) = [t EXCEPT !.slot = r, !.sfn = g]
  BY <1>1 DEF advanced
<1> HIDE DEF r, g
<1>4. absolute_slot(advanced(t, k)) = g * n + r
  BY <1>1, <1>3 DEF absolute_slot
<1> QED BY <1>1, <1>2, <1>4 DEF absolute_slot, Cycle

-----------------------------------------------------------------------------
(* The inductive invariant of type correctness.  The buffer of a decision    *)
(* that retransmits would be the size of the process's transport block, so  *)
(* typing needs to know that no process ever holds one: no step of the code  *)
(* takes a process out of Idle, where it ought to (the violated property     *)
(* NackAwaitsRetransmission), and every block is sent on process 0.          *)

\* The slot being processed has its type, and what it schedules is a first
\* transmission on process 0.
SlotOK(s) ==
  /\ s \in Slots
  /\ s.timing \in FrameTimings(SlotsPerFrame[s.cell_id])
  /\ \A d \in s.decisions : d.type = "NewTx" /\ d.harq_id = 0
  /\ \A i \in DOMAIN s.successful :
       s.successful[i].decision.type = "NewTx" /\ s.successful[i].decision.harq_id = 0
  /\ \A i \in DOMAIN s.pdus : s.pdus[i].harq_id = 0

UesIdle == \A c \in Cells, r \in Rntis, dl \in BOOLEAN :
             Harq(ue[c][r], dl) = NewHarqEntity

\* A slot is processed only after the PHY has indicated it.
SlotIndicated == pc \in {"allocate", "build"} => elapsed[slot.cell_id] > 0

IInv ==
  /\ TypeOK
  /\ UesIdle
  /\ SlotOK(slot)
  /\ \A tx \in air : tx.harq_id = 0
  /\ SlotIndicated

-----------------------------------------------------------------------------
(* What the parts of the steps preserve.                                    *)

LEMMA NewUeType ==
  ASSUME NEW id \in Nat
  PROVE  /\ NewUe(id) \in UeContexts
         /\ \A dl \in BOOLEAN : Harq(NewUe(id), dl) = NewHarqEntity
BY EngineAssumption, NewHarqEntityType DEF NewUe, UeContexts, Harq

LEMMA AbsoluteSlotType ==
  ASSUME NEW c \in Cells, NEW t \in FrameTimings(SlotsPerFrame[c])
  PROVE  absolute_slot(t) \in AbsoluteSlots
<1>1. SlotsPerFrame[c] \in Nat \ {0}
  BY EngineAssumption
<1> QED BY <1>1, AbsoluteSlotRange DEF AbsoluteSlots

LEMMA AdvancedCellType ==
  ASSUME NEW c \in Cells, NEW t \in FrameTimings(SlotsPerFrame[c]), NEW k \in Nat
  PROVE  advanced(t, k) \in FrameTimings(SlotsPerFrame[c])
<1>1. SlotsPerFrame[c] \in Nat \ {0}
  BY EngineAssumption
<1> QED BY <1>1, AdvancedType

\* SlotContext::initialize selects a slot of the pattern.
LEMMA SlotCapabilityType ==
  ASSUME TypeOK, NEW c \in Cells, NEW t \in FrameTimings(SlotsPerFrame[c])
  PROVE  SlotCapability(c, t) \in SlotCapabilities
<1>1. CASE Duplex[c] = "FDD"
  BY <1>1 DEF SlotCapability, SlotCapabilities
<1>2. CASE Duplex[c] # "FDD" /\ TddPattern[c] = <<>>
  BY <1>2 DEF SlotCapability, TypeOK
<1>3. CASE Duplex[c] # "FDD" /\ TddPattern[c] # <<>>
  <2>1. TddPattern[c] \in Seq(SlotCapabilities)
    BY EngineAssumption
  <2>2. Len(TddPattern[c]) \in Nat \ {0}
    BY <2>1, <1>3, EmptySeq
  <2>3. t.slot \in Nat
    BY EngineAssumption DEF FrameTimings
  <2>4. (t.slot % Len(TddPattern[c])) + 1 \in 1..Len(TddPattern[c])
    BY <2>2, <2>3
  <2>5. TddPattern[c][(t.slot % Len(TddPattern[c])) + 1] \in SlotCapabilities
    BY <2>1, <2>4, ElementOfSeq
  <2> QED BY <1>3, <2>5 DEF SlotCapability
<1> QED BY <1>1, <1>2, <1>3

\* Every decision is for a first transmission, on process 0.
LEMMA DecisionsAreNew ==
  ASSUME TypeOK, UesIdle, NEW c \in Cells, NEW dl \in BOOLEAN
  PROVE  /\ DecisionsOf(c, dl) \subseteq Decisions
         /\ \A d \in DecisionsOf(c, dl) : d.type = "NewTx" /\ d.harq_id = 0
<1> SUFFICES ASSUME NEW r \in get_eligible_ues(c, dl), NEW d \in DecisionsFor(c, r, dl)
             PROVE  d \in Decisions /\ d.type = "NewTx" /\ d.harq_id = 0
  BY DEF DecisionsOf
<1>1. r \in Rntis
  BY DEF get_eligible_ues, TypeOK
<1>2. Harq(ue[c][r], dl) = NewHarqEntity
  BY <1>1 DEF UesIdle
<1> DEFINE buffer == IF dl THEN ue[c][r].dl_bytes
                     ELSE IF ue[c][r].ul_bytes > MinGrant THEN ue[c][r].ul_bytes
                     ELSE MinGrant
<1>3. buffer \in Bytes
  <2>1. ue[c][r] \in UeContexts
    BY <1>1 DEF TypeOK
  <2>2. ue[c][r].dl_bytes \in Bytes /\ ue[c][r].ul_bytes \in Bytes
    BY <2>1 DEF UeContexts
  <2>3. MinGrant \in Bytes
    BY EngineAssumption
  <2> QED BY <2>2, <2>3
<1>4. d \in {[rnti |-> r, type |-> "NewTx", harq_id |-> h, buffer_bytes |-> buffer] :
               h \in {g \in get_free_process(NewHarqEntity) : has_traffic(ue[c][r], dl)}}
  <2>1. {h \in get_retx_process(NewHarqEntity) : config.harq_retx_priority} = {}
    BY NewHarqEntityIsInert
  <2> QED BY <1>2, <2>1 DEF DecisionsFor
<1> HIDE DEF buffer
<1>5. d = [rnti |-> r, type |-> "NewTx", harq_id |-> 0, buffer_bytes |-> buffer]
  BY <1>4, NewHarqEntityIsInert
<1> QED BY <1>1, <1>3, <1>5, HarqIdsAssumption DEF Decisions

\* The counters stay natural numbers when a step adds to them.
LEMMA StatsIncrease ==
  ASSUME stats \in Stats, NEW a \in Nat, NEW b \in Nat
  PROVE  /\ [stats EXCEPT !.dl_retransmissions = @ + a,
                          !.ul_retransmissions = @ + b] \in Stats
         /\ [stats EXCEPT !.slots_processed = @ + a] \in Stats
         /\ [stats EXCEPT !.slots_skipped = @ + a] \in Stats
         /\ [stats EXCEPT !.allocation_failures = @ + a] \in Stats
         /\ [stats EXCEPT !.harq_timeouts = @ + a] \in Stats
<1>1. /\ stats.dl_retransmissions + a \in Nat /\ stats.ul_retransmissions + b \in Nat
      /\ stats.slots_processed + a \in Nat /\ stats.slots_skipped + a \in Nat
      /\ stats.allocation_failures + a \in Nat /\ stats.harq_timeouts + a \in Nat
  BY DEF Stats
<1> QED BY <1>1 DEF Stats

LEMMA EmptySlotOK ==
  ASSUME NEW c \in Cells, NEW t \in FrameTimings(SlotsPerFrame[c])
  PROVE  SlotOK(EmptySlot(c, t))
<1>1. <<>> \in Seq([decision : Decisions, resources : Resources])
      /\ <<>> \in Seq(Transmissions)
  BY EmptySeq
<1>2. DOMAIN <<>> = {}
  OBVIOUS
<1> QED BY <1>1, <1>2 DEF EmptySlot, SlotOK, Slots, Timings

\* A slot begins, in either direction, with decisions and nothing allocated.
LEMMA SlotWithDecisionsOK ==
  ASSUME NEW c \in Cells, NEW t \in FrameTimings(SlotsPerFrame[c]),
         NEW D \in SUBSET Decisions, \A d \in D : d.type = "NewTx" /\ d.harq_id = 0
  PROVE  /\ SlotOK([EmptySlot(c, t) EXCEPT !.decisions = D])
         /\ SlotOK([EmptySlot(c, t) EXCEPT !.is_downlink = FALSE, !.decisions = D])
<1>1. <<>> \in Seq([decision : Decisions, resources : Resources])
      /\ <<>> \in Seq(Transmissions)
  BY EmptySeq
<1>2. DOMAIN <<>> = {}
  OBVIOUS
<1> QED BY <1>1, <1>2 DEF EmptySlot, SlotOK, Slots, Timings

LEMMA AllocationsType ==
  ASSUME TypeOK, NEW d \in slot.decisions, NEW res \in Allocations(d)
  PROVE  res \in Resources
<1>1. slot.cell_id \in Cells /\ d \in Decisions
  BY DEF TypeOK, Slots
<1>2. NumRbs[slot.cell_id] \in Nat /\ StartSymbol \in Nat /\ NumSymbols \in Nat
  BY <1>1, EngineAssumption
<1> DEFINE required == MinRbs[slot.cell_id][ue[slot.cell_id][d.rnti].mcs][d.buffer_bytes]
<1>3. res \in [start_rb : 0..NumRbs[slot.cell_id], num_rbs : 1..required,
               start_symbol : {StartSymbol}, num_symbols : {NumSymbols}]
  BY DEF Allocations
<1>4. required \in 1..NumRbs[slot.cell_id]
  <2>1. d.buffer_bytes \in Bytes /\ ue[slot.cell_id][d.rnti].mcs \in Mcs
    BY <1>1 DEF TypeOK, Decisions, UeContexts
  <2> QED BY <1>1, <2>1, EngineAssumption
<1> HIDE DEF required
<1> QED BY <1>2, <1>3, <1>4 DEF Resources

LEMMA FeedbackTimingType ==
  ASSUME TypeOK
  PROVE  /\ RequestTiming \in FrameTimings(SlotsPerFrame[slot.cell_id])
         /\ FeedbackTiming \in FrameTimings(SlotsPerFrame[slot.cell_id])
<1>1. slot.cell_id \in Cells /\ slot.timing \in FrameTimings(SlotsPerFrame[slot.cell_id])
  BY DEF TypeOK, Slots
<1>2. config.scheduling_offset_slots \in Nat
  <2>1. config \in EngineConfigs
    BY EngineAssumption DEF TypeOK
  <2> QED BY <2>1 DEF EngineConfigs
<1>3. RequestTiming \in FrameTimings(SlotsPerFrame[slot.cell_id])
  BY <1>1, <1>2, AdvancedCellType DEF RequestTiming
<1>4. K1 \in Nat /\ UlCrcDelay \in Nat
  BY EngineAssumption
<1>5. FeedbackTiming \in FrameTimings(SlotsPerFrame[slot.cell_id])
  BY <1>1, <1>3, <1>4, AdvancedCellType DEF FeedbackTiming
<1> QED BY <1>3, <1>5

\* Going on to the uplink, or to the end of the slot.
LEMMA NextDirectionOK ==
  ASSUME IInv, NextDirection
  PROVE  /\ SlotOK(slot')
         /\ pc' \in {"allocate", "slot_end"}
         /\ slot'.cell_id = slot.cell_id
<1>1. slot.cell_id \in Cells /\ slot.timing \in FrameTimings(SlotsPerFrame[slot.cell_id])
  BY DEF IInv, TypeOK, Slots
<1>2. CASE slot.is_downlink
  <2> DEFINE D == IF capability[slot.cell_id].ul THEN DecisionsOf(slot.cell_id, FALSE) ELSE {}
  <2>1. D \in SUBSET Decisions /\ \A d \in D : d.type = "NewTx" /\ d.harq_id = 0
    BY <1>1, DecisionsAreNew DEF IInv
  <2>2. pc' = "allocate" /\ slot' = [EmptySlot(slot.cell_id, slot.timing) EXCEPT
                                        !.is_downlink = FALSE, !.decisions = D]
    BY <1>2 DEF NextDirection
  <2> HIDE DEF D
  <2>3. SlotOK(slot')
    BY <1>1, <2>1, <2>2, SlotWithDecisionsOK
  <2> QED BY <2>2, <2>3 DEF EmptySlot
<1>3. CASE ~slot.is_downlink
  <2>1. pc' = "slot_end" /\ slot' = EmptySlot(slot.cell_id, slot.timing)
    BY <1>3 DEF NextDirection
  <2> QED BY <1>1, <2>1, EmptySlotOK DEF EmptySlot
<1> QED BY <1>2, <1>3

-----------------------------------------------------------------------------
(* The steps.                                                               *)

LEMMA InitIInv == Init => IInv
<1> SUFFICES ASSUME Init PROVE IInv
  OBVIOUS
<1>1. PICK c \in Cells : slot = EmptySlot(c, StartTiming[c])
  BY DEF Init
<1>2. \A d \in Cells : /\ SlotsPerFrame[d] \in Nat \ {0}
                      /\ StartTiming[d] \in FrameTimings(SlotsPerFrame[d])
  BY EngineAssumption
<1>3. SlotOK(slot)
  BY <1>1, <1>2, EmptySlotOK
<1>4. ue \in [Cells -> [Rntis -> UeContexts]] /\ UesIdle
  BY NewUeType DEF Init, UesIdle
<1>5. pending \in [AbsoluteSlots -> Seq(PendingFeedbacks)]
  BY EmptySeq DEF Init
<1>6. StartTiming \in [Cells -> Timings]
  BY EngineAssumption
<1>7. stats \in Stats
  BY DEF Init, Stats
<1>8. capability \in [Cells -> SlotCapabilities]
  BY DEF Init, SlotCapabilities
<1>9. calls \in 0..MaxCalls
  <2>1. MaxCalls \in Nat
    BY EngineAssumption
  <2> QED BY <2>1 DEF Init
<1>10. TypeOK
  BY <1>2, <1>3, <1>4, <1>5, <1>6, <1>7, <1>8, <1>9 DEF Init, TypeOK, SlotOK
<1> QED BY <1>3, <1>4, <1>10 DEF Init, IInv, SlotIndicated

LEMMA CallCounted ==
  ASSUME TypeOK, Call
  PROVE  calls' \in 0..MaxCalls
<1>1. MaxCalls \in Nat
  BY EngineAssumption
<1>2. calls \in 0..MaxCalls
  BY DEF TypeOK
<1> QED BY <1>1, <1>2 DEF Call

LEMMA UeUpdate ==
  ASSUME TypeOK, UesIdle, NEW c \in Cells, NEW r \in Rntis, NEW context \in UeContexts,
         \A dl \in BOOLEAN : Harq(context, dl) = NewHarqEntity,
         ue' = [ue EXCEPT ![c][r] = context]
  PROVE  ue' \in [Cells -> [Rntis -> UeContexts]] /\ UesIdle'
BY DEF TypeOK, UesIdle

LEMMA CellStep ==
  ASSUME IInv, NEW c \in Cells,
         (\E flags \in UninitialisedFlags : add_cell(c, flags)) \/ remove_cell(c)
  PROVE  IInv'
<1>1. CASE \E flags \in UninitialisedFlags : add_cell(c, flags)
  <2>1. PICK flags \in UninitialisedFlags : add_cell(c, flags)
    BY <1>1
  <2>2. capability' \in [Cells -> SlotCapabilities]
    BY <2>1, EngineAssumption DEF add_cell, IInv, TypeOK
  <2>3. calls' \in 0..MaxCalls
    BY <2>1, CallCounted DEF add_cell, IInv
  <2>4. TypeOK'
    BY <2>1, <2>2, <2>3 DEF add_cell, IInv, TypeOK, slotVars, phyVars
  <2> QED BY <2>1, <2>4 DEF add_cell, IInv, UesIdle, SlotIndicated, Call, slotVars, phyVars
<1>2. CASE remove_cell(c)
  <2>1. ue' \in [Cells -> [Rntis -> UeContexts]] /\ UesIdle'
    <3>1. ue' = [ue EXCEPT ![c] = [r \in Rntis |-> NewUe(0)]]
      BY <1>2 DEF remove_cell
    <3> QED BY <3>1, NewUeType DEF IInv, TypeOK, UesIdle
  <2>2. calls' \in 0..MaxCalls
    BY <1>2, CallCounted DEF remove_cell, IInv
  <2>3. TypeOK'
    BY <1>2, <2>1, <2>2 DEF remove_cell, IInv, TypeOK, slotVars, phyVars
  <2> QED BY <1>2, <2>1, <2>3 DEF remove_cell, IInv, SlotIndicated, Call, slotVars, phyVars
<1> QED BY <1>1, <1>2

LEMMA ConfigStep ==
  ASSUME IInv, NEW new \in Configs, update_config(new)
  PROVE  IInv'
<1>1. calls' \in 0..MaxCalls
  BY CallCounted DEF update_config, IInv
<1>2. TypeOK'
  BY <1>1 DEF update_config, IInv, TypeOK, slotVars, phyVars
<1> QED BY <1>2 DEF update_config, IInv, UesIdle, SlotIndicated, Call, slotVars, phyVars

\* The handlers that replace the context of one UE by another that is typed and
\* has no HARQ process in use.
LEMMA ContextStep ==
  ASSUME IInv, NEW c \in Cells, NEW r \in Rntis, NEW context \in UeContexts,
         \A dl \in BOOLEAN : Harq(context, dl) = NewHarqEntity,
         ue' = [ue EXCEPT ![c][r] = context],
         ue_by_rnti' \in [Cells -> SUBSET Rntis], next_ue_id' \in [Cells -> Nat \ {0}],
         Call, UNCHANGED <<config, cells, capability, pending, stats, slotVars, phyVars>>
  PROVE  IInv'
<1>1. ue' \in [Cells -> [Rntis -> UeContexts]] /\ UesIdle'
  BY UeUpdate DEF IInv
<1>2. calls' \in 0..MaxCalls
  BY CallCounted DEF IInv
<1>3. TypeOK'
  BY <1>1, <1>2 DEF IInv, TypeOK, slotVars, phyVars
<1> QED BY <1>1, <1>3 DEF IInv, SlotIndicated, slotVars, phyVars

LEMMA UeConfigStep ==
  ASSUME IInv, NEW c \in Cells, NEW r \in Rntis,
         (\E drx \in DrxSettings : on_ue_config(c, r, drx)) \/ on_ue_release(c, r)
  PROVE  IInv'
<1>1. CASE \E drx \in DrxSettings : on_ue_config(c, r, drx)
  <2>1. PICK drx \in DrxSettings : on_ue_config(c, r, drx)
    BY <1>1
  <2> DEFINE context == [NewUe(next_ue_id[c]) EXCEPT !.drx_enabled = drx]
  <2>2. next_ue_id[c] \in Nat /\ drx \in BOOLEAN
    BY EngineAssumption DEF IInv, TypeOK
  <2>3. context \in UeContexts /\ \A dl \in BOOLEAN : Harq(context, dl) = NewHarqEntity
    BY <2>2, EngineAssumption, NewHarqEntityType DEF NewUe, UeContexts, Harq
  <2>4. ue_by_rnti' \in [Cells -> SUBSET Rntis] /\ next_ue_id' \in [Cells -> Nat \ {0}]
    BY <2>1 DEF on_ue_config, IInv, TypeOK
  <2>5. ue' = [ue EXCEPT ![c][r] = context] /\ Call
        /\ UNCHANGED <<config, cells, capability, pending, stats, slotVars, phyVars>>
    BY <2>1 DEF on_ue_config
  <2> HIDE DEF context
  <2> QED BY <2>3, <2>4, <2>5, ContextStep
<1>2. CASE on_ue_release(c, r)
  <2>1. ue_by_rnti' \in [Cells -> SUBSET Rntis] /\ next_ue_id' \in [Cells -> Nat \ {0}]
    BY <1>2 DEF on_ue_release, IInv, TypeOK
  <2>2. ue' = [ue EXCEPT ![c][r] = NewUe(0)] /\ Call
        /\ UNCHANGED <<config, cells, capability, pending, stats, slotVars, phyVars>>
    BY <1>2 DEF on_ue_release
  <2> QED BY <2>1, <2>2, NewUeType, ContextStep
<1> QED BY <1>1, <1>2

LEMMA ReportStep ==
  ASSUME IInv, NEW c \in Cells, NEW r \in Rntis,
         \/ \E bytes \in Bytes : on_dl_data(c, r, bytes) \/ on_bsr(c, r, bytes)
         \/ on_sr(c, r)
         \/ \E mcs \in Mcs : on_csi_update(c, r, mcs)
  PROVE  IInv'
<1>1. PICK context : /\ StoreReport(c, r, context)
                     /\ \/ \E bytes \in Bytes :
                             \/ context = [ue[c][r] EXCEPT !.dl_bytes = bytes]
                             \/ context = [ue[c][r] EXCEPT !.ul_bytes = bytes]
                        \/ context = [ue[c][r] EXCEPT !.sr_pending = TRUE]
                        \/ \E mcs \in Mcs : context = [ue[c][r] EXCEPT !.mcs = mcs]
  BY DEF on_dl_data, on_bsr, on_sr, on_csi_update
<1>2. ue[c][r] \in UeContexts /\ \A dl \in BOOLEAN : Harq(ue[c][r], dl) = NewHarqEntity
  BY DEF IInv, TypeOK, UesIdle
<1>3. context \in UeContexts /\ \A dl \in BOOLEAN : Harq(context, dl) = NewHarqEntity
  BY <1>1, <1>2 DEF UeContexts, Harq
<1>4. ue_by_rnti' \in [Cells -> SUBSET Rntis] /\ next_ue_id' \in [Cells -> Nat \ {0}]
  BY <1>1 DEF StoreReport, IInv, TypeOK
<1>5. ue' = [ue EXCEPT ![c][r] = context] /\ Call
      /\ UNCHANGED <<config, cells, capability, pending, stats, slotVars, phyVars>>
  BY <1>1 DEF StoreReport
<1> QED BY <1>3, <1>4, <1>5, ContextStep

LEMMA SlotIndicationStep ==
  ASSUME IInv, NEW c \in Cells, on_slot_indication(c)
  PROVE  IInv'
<1>1. clock[c] \in FrameTimings(SlotsPerFrame[c]) /\ elapsed[c] \in Nat
  BY DEF IInv, TypeOK
<1>2. clock' \in [Cells -> Timings] /\ \A d \in Cells : clock'[d] \in FrameTimings(SlotsPerFrame[d])
  <2>1. advanced(clock[c], 1) \in FrameTimings(SlotsPerFrame[c])
    BY <1>1, AdvancedCellType
  <2>2. clock' = [clock EXCEPT ![c] = advanced(clock[c], 1)]
    BY DEF on_slot_indication
  <2> QED BY <2>1, <2>2 DEF IInv, TypeOK, Timings
<1>3. elapsed' \in [Cells -> Nat] /\ elapsed'[c] > 0
  BY <1>1 DEF on_slot_indication, IInv, TypeOK
<1>4. air' \subseteq air
  BY DEF on_slot_indication
<1>5. /\ SlotOK(slot') /\ capability' \in [Cells -> SlotCapabilities] /\ stats' \in Stats
      /\ pc' \in {"idle", "allocate"}
      /\ pc' = "allocate" => slot'.cell_id = c
  <2>1. CASE c \notin cells
    BY <2>1 DEF on_slot_indication, IInv, TypeOK, Stats, slotVars
  <2>2. CASE c \in cells
    <3> DEFINE can == SlotCapability(c, clock[c])
               D == IF can.dl THEN DecisionsOf(c, TRUE) ELSE {}
    <3>1. can \in SlotCapabilities
      BY <1>1, SlotCapabilityType DEF IInv
    <3>2. D \in SUBSET Decisions /\ \A d \in D : d.type = "NewTx" /\ d.harq_id = 0
      BY DecisionsAreNew DEF IInv
    <3>3. /\ capability' = [capability EXCEPT ![c] = can]
          /\ slot' = [EmptySlot(c, clock[c]) EXCEPT !.decisions = D]
          /\ pc' = "allocate" /\ UNCHANGED stats
      BY <2>2 DEF on_slot_indication
    <3> HIDE DEF can, D
    <3>4. SlotOK(slot')
      BY <1>1, <3>2, <3>3, SlotWithDecisionsOK
    <3> QED BY <3>1, <3>3, <3>4 DEF IInv, TypeOK, EmptySlot
  <2> QED BY <2>1, <2>2
<1>6. TypeOK'
  BY <1>2, <1>3, <1>4, <1>5 DEF on_slot_indication, IInv, TypeOK, SlotOK
<1>7. UesIdle'
  BY DEF on_slot_indication, IInv, UesIdle
<1> QED BY <1>3, <1>4, <1>5, <1>6, <1>7 DEF IInv, SlotIndicated

\* A step of slot processing that changes the slot, the counters and `pc' only.
LEMMA ProcessingStep ==
  ASSUME IInv, SlotOK(slot'), slot'.cell_id = slot.cell_id, stats' \in Stats,
         pc \in {"allocate", "build"}, pc' \in {"allocate", "build", "slot_end"},
         pending' \in [AbsoluteSlots -> Seq(PendingFeedbacks)],
         air' \subseteq Transmissions, \A tx \in air' : tx.harq_id = 0,
         UNCHANGED <<engineVars, clock, elapsed, calls>>
  PROVE  IInv'
<1>1. TypeOK'
  BY DEF IInv, TypeOK, SlotOK, engineVars
<1> QED BY <1>1 DEF IInv, UesIdle, SlotIndicated, engineVars

LEMMA AllocateStep ==
  ASSUME IInv, NEW d \in slot.decisions, AllocateNext(d)
  PROVE  IInv'
<1>1. d \in Decisions /\ d.type = "NewTx" /\ d.harq_id = 0 /\ slot \in Slots
  BY DEF IInv, TypeOK, SlotOK, Slots
<1>2. /\ pc = "allocate" /\ pc' = "allocate"
      /\ UNCHANGED <<engineVars, clock, elapsed, calls, pending, air>>
  BY DEF AllocateNext, phyVars
<1>3. SlotOK(slot') /\ slot'.cell_id = slot.cell_id /\ stats' \in Stats
  <2>1. CASE /\ stats' = [stats EXCEPT !.allocation_failures = @ + 1]
             /\ slot' = [slot EXCEPT !.decisions = @ \ {d}]
    <3>1. SlotOK(slot)
      BY DEF IInv
    <3>2. SlotOK(slot') /\ slot'.cell_id = slot.cell_id
      BY <2>1, <3>1 DEF SlotOK, Slots
    <3>3. stats' \in Stats
      BY <2>1, StatsIncrease DEF IInv, TypeOK
    <3> QED BY <3>2, <3>3
  <2>2. ASSUME NEW res \in Allocations(d),
               slot' = [slot EXCEPT
                  !.decisions  = @ \ {d},
                  !.successful = Append(@, [decision |-> d, resources |-> res]),
                  !.dl_grid    = IF slot.is_downlink THEN allocate(@, res) ELSE @,
                  !.ul_grid    = IF slot.is_downlink THEN @ ELSE allocate(@, res)],
               UNCHANGED stats
        PROVE  SlotOK(slot') /\ slot'.cell_id = slot.cell_id /\ stats' \in Stats
    <3> DEFINE new == [decision |-> d, resources |-> res]
               T == [decision : Decisions, resources : Resources]
    <3>1. res \in Resources
      BY AllocationsType DEF IInv
    <3>2. new \in T /\ slot.successful \in Seq(T)
      BY <1>1, <3>1 DEF Slots
    <3>3. ResourceElements(res) \subseteq Nat \X Nat
      BY <3>1, EngineAssumption, ResourceElementsType DEF Resources
    <3>4. /\ Append(slot.successful, new) \in Seq(T)
          /\ DOMAIN Append(slot.successful, new) = 1..(Len(slot.successful) + 1)
          /\ DOMAIN slot.successful = 1..Len(slot.successful)
          /\ \A i \in 1..Len(slot.successful) :
               Append(slot.successful, new)[i] = slot.successful[i]
          /\ Append(slot.successful, new)[Len(slot.successful) + 1] = new
      BY <3>2, AppendProperties, LenProperties
    <3>5. Len(slot.successful) \in Nat
      BY <3>2, LenProperties
    <3>6. \A i \in DOMAIN Append(slot.successful, new) :
            /\ Append(slot.successful, new)[i].decision.type = "NewTx"
            /\ Append(slot.successful, new)[i].decision.harq_id = 0
      <4> SUFFICES ASSUME NEW i \in 1..(Len(slot.successful) + 1)
                   PROVE  /\ Append(slot.successful, new)[i].decision.type = "NewTx"
                          /\ Append(slot.successful, new)[i].decision.harq_id = 0
        BY <3>4
      <4>1. CASE i \in 1..Len(slot.successful)
        BY <3>4, <4>1 DEF IInv, SlotOK
      <4>2. CASE i = Len(slot.successful) + 1
        BY <1>1, <3>4, <4>2
      <4> QED BY <3>5, <4>1, <4>2
    <3> DEFINE after == Append(slot.successful, new)
               dl == IF slot.is_downlink THEN slot.dl_grid \cup ResourceElements(res) ELSE slot.dl_grid
               ul == IF slot.is_downlink THEN slot.ul_grid ELSE slot.ul_grid \cup ResourceElements(res)
    <3>7. slot' = [slot EXCEPT !.decisions = slot.decisions \ {d}, !.successful = after,
                               !.dl_grid = dl, !.ul_grid = ul]
      BY <2>2 DEF allocate
    <3>8. dl \in SUBSET (Nat \X Nat) /\ ul \in SUBSET (Nat \X Nat) /\ after \in Seq(T)
      BY <1>1, <3>3, <3>4 DEF Slots
    <3> HIDE DEF after, dl, ul
    <3>9. slot' \in Slots /\ slot'.cell_id = slot.cell_id /\ slot'.timing = slot.timing
          /\ slot'.decisions = slot.decisions \ {d} /\ slot'.successful = after
          /\ slot'.pdus = slot.pdus
      BY <1>1, <3>7, <3>8 DEF Slots
    <3> QED BY <2>2, <3>6, <3>9 DEF IInv, TypeOK, SlotOK, after
  <2> QED BY <2>1, <2>2 DEF AllocateNext
<1> QED BY <1>2, <1>3, ProcessingStep DEF IInv, TypeOK

LEMMA FinishStep ==
  ASSUME IInv, FinishAllocation
  PROVE  IInv'
<1>1. /\ pc = "allocate" /\ stats' \in Stats
      /\ UNCHANGED <<engineVars, clock, elapsed, calls, pending, air>>
  BY DEF FinishAllocation, phyVars, IInv, TypeOK
<1>2. SlotOK(slot') /\ slot'.cell_id = slot.cell_id /\ pc' \in {"allocate", "build", "slot_end"}
  <2>1. CASE slot.successful = <<>>
    BY <2>1, NextDirectionOK DEF FinishAllocation
  <2>2. CASE slot.successful # <<>>
    <3>1. pc' = "build" /\ slot' = [slot EXCEPT !.decisions = {}]
      BY <2>2 DEF FinishAllocation
    <3>2. SlotOK(slot)
      BY DEF IInv
    <3>3. SlotOK(slot') /\ slot'.cell_id = slot.cell_id
      BY <3>1, <3>2 DEF SlotOK, Slots
    <3> QED BY <3>1, <3>3
  <2> QED BY <2>1, <2>2
<1> QED BY <1>1, <1>2, ProcessingStep DEF IInv, TypeOK

LEMMA BuildStep ==
  ASSUME IInv, BuildPdu
  PROVE  IInv'
<1> DEFINE d   == Head(slot.successful).decision
           res == Head(slot.successful).resources
           c   == slot.cell_id
           n   == elapsed[c] - 1
           at  == IF slot.is_downlink THEN n ELSE n + config.scheduling_offset_slots
           due == at + (IF slot.is_downlink THEN K1 ELSE UlCrcDelay)
           pdu == [cell_id |-> c, rnti |-> d.rnti, ue_id |-> ue[c][d.rnti].ue_id,
                   harq_id |-> d.harq_id, is_downlink |-> slot.is_downlink,
                   resources |-> res, scheduled_at |-> n, on_air_at |-> at, due_at |-> due]
           info == [cell_id |-> c, rnti |-> d.rnti, harq_id |-> d.harq_id,
                    is_downlink |-> slot.is_downlink,
                    tx_slot |-> absolute_slot(RequestTiming)]
           T == [decision : Decisions, resources : Resources]
<1>1. /\ pc = "build" /\ pc' = "build" /\ slot.successful # <<>>
      /\ UNCHANGED <<engineVars, clock, elapsed, calls, air>>
      /\ slot' = [slot EXCEPT !.successful = Tail(slot.successful),
                              !.pdus = Append(slot.pdus, pdu)]
      /\ pending' = register_pending(pending, absolute_slot(FeedbackTiming), info)
  BY DEF BuildPdu, phyVars
<1>2. /\ c \in Cells /\ slot.is_downlink \in BOOLEAN
      /\ slot.successful \in Seq(T) /\ slot.pdus \in Seq(Transmissions)
  BY DEF IInv, TypeOK, Slots
<1>3. /\ Head(slot.successful) \in T
      /\ Tail(slot.successful) \in Seq(T)
      /\ Len(slot.successful) \in Nat \ {0}
      /\ Len(Tail(slot.successful)) = Len(slot.successful) - 1
      /\ \A i \in 1..Len(Tail(slot.successful)) :
           Tail(slot.successful)[i] = slot.successful[i + 1]
      /\ DOMAIN Tail(slot.successful) = 1..Len(Tail(slot.successful))
      /\ DOMAIN slot.successful = 1..Len(slot.successful)
  BY <1>1, <1>2, HeadTailProperties, LenProperties, EmptySeq
<1>4. d \in Decisions /\ res \in Resources /\ d.rnti \in Rntis /\ d.harq_id \in HarqIds
  BY <1>3 DEF Decisions
<1>5. d.harq_id = 0
  <2>1. Head(slot.successful) = slot.successful[1] /\ 1 \in DOMAIN slot.successful
    BY <1>2, <1>3
  <2> QED BY <2>1 DEF IInv, SlotOK
<1>6. n \in Nat
  <2>1. elapsed[c] \in Nat /\ elapsed[c] > 0
    BY <1>1, <1>2 DEF IInv, TypeOK, SlotIndicated
  <2> QED BY <2>1
<1>7. at \in Nat /\ due \in Nat
  <2>1. config \in EngineConfigs
    BY EngineAssumption DEF IInv, TypeOK
  <2>2. config.scheduling_offset_slots \in Nat
    BY <2>1 DEF EngineConfigs
  <2>3. K1 \in Nat /\ UlCrcDelay \in Nat
    BY EngineAssumption
  <2> HIDE DEF n
  <2> QED BY <1>6, <2>2, <2>3
<1>8. ue[c][d.rnti].ue_id \in Nat
  <2>1. ue[c][d.rnti] \in UeContexts
    BY <1>2, <1>4 DEF IInv, TypeOK
  <2> QED BY <2>1 DEF UeContexts
<1>9. pdu \in Transmissions /\ pdu.harq_id = 0
  <2> HIDE DEF c, d, res, n, at, due
  <2> QED BY <1>2, <1>4, <1>5, <1>6, <1>7, <1>8 DEF Transmissions
<1>10. info \in PendingFeedbacks
  <2>1. absolute_slot(RequestTiming) \in AbsoluteSlots
    BY <1>2, FeedbackTimingType, AbsoluteSlotType DEF IInv
  <2> HIDE DEF c, d
  <2> QED BY <1>2, <1>4, <2>1 DEF PendingFeedbacks
<1>11. pending' \in [AbsoluteSlots -> Seq(PendingFeedbacks)]
  <2>1. absolute_slot(FeedbackTiming) \in AbsoluteSlots
    BY <1>2, FeedbackTimingType, AbsoluteSlotType DEF IInv
  <2> HIDE DEF info
  <2> QED BY <1>1, <1>10, <2>1, RegisterType DEF IInv, TypeOK
<1>12. stats' \in Stats
  <2> DEFINE a == IF slot.is_downlink /\ d.type = "Retx" THEN 1 ELSE 0
             b == IF ~slot.is_downlink /\ d.type = "Retx" THEN 1 ELSE 0
  <2>1. a \in Nat /\ b \in Nat
    OBVIOUS
  <2>2. stats' = [stats EXCEPT !.dl_retransmissions = @ + a, !.ul_retransmissions = @ + b]
    BY DEF BuildPdu
  <2> HIDE DEF a, b
  <2> QED BY <2>1, <2>2, StatsIncrease DEF IInv, TypeOK
<1>13. SlotOK(slot') /\ slot'.cell_id = slot.cell_id
  <2> DEFINE sent == Append(slot.pdus, pdu)
             left == Tail(slot.successful)
  <2> HIDE DEF pdu
  <2>1. /\ sent \in Seq(Transmissions)
        /\ DOMAIN sent = 1..(Len(slot.pdus) + 1)
        /\ DOMAIN slot.pdus = 1..Len(slot.pdus) /\ Len(slot.pdus) \in Nat
        /\ \A i \in 1..Len(slot.pdus) : sent[i] = slot.pdus[i]
        /\ sent[Len(slot.pdus) + 1] = pdu
    BY <1>2, <1>9, AppendProperties, LenProperties
  <2>2. \A i \in DOMAIN sent : sent[i].harq_id = 0
    <3> SUFFICES ASSUME NEW i \in 1..(Len(slot.pdus) + 1) PROVE sent[i].harq_id = 0
      BY <2>1
    <3>1. CASE i \in 1..Len(slot.pdus)
      BY <2>1, <3>1 DEF IInv, SlotOK
    <3>2. CASE i = Len(slot.pdus) + 1
      BY <1>9, <2>1, <3>2
    <3> QED BY <2>1, <3>1, <3>2
  <2>3. \A i \in DOMAIN left : left[i].decision.type = "NewTx" /\ left[i].decision.harq_id = 0
    <3> SUFFICES ASSUME NEW i \in DOMAIN left
                 PROVE  left[i].decision.type = "NewTx" /\ left[i].decision.harq_id = 0
      OBVIOUS
    <3>1. i + 1 \in DOMAIN slot.successful /\ left[i] = slot.successful[i + 1]
      BY <1>3
    <3> QED BY <3>1 DEF IInv, SlotOK
  <2>4. slot' = [slot EXCEPT !.successful = left, !.pdus = sent] /\ left \in Seq(T)
    BY <1>1, <1>3
  <2> HIDE DEF left, sent
  <2>5. SlotOK(slot)
    BY DEF IInv
  <2>6. slot' \in Slots /\ slot'.cell_id = slot.cell_id /\ slot'.timing = slot.timing
        /\ slot'.decisions = slot.decisions /\ slot'.successful = left /\ slot'.pdus = sent
    BY <2>1, <2>4, <2>5 DEF SlotOK, Slots
  <2> QED BY <2>2, <2>3, <2>5, <2>6 DEF SlotOK
<1>14. air' \subseteq Transmissions /\ \A tx \in air' : tx.harq_id = 0
  BY <1>1 DEF IInv, TypeOK
<1> HIDE DEF c, d, res, n, at, due, pdu, info
<1> QED BY <1>1, <1>11, <1>12, <1>13, <1>14, ProcessingStep

LEMMA SendStep ==
  ASSUME IInv, SendTtiRequest
  PROVE  IInv'
<1>1. /\ pc = "build" /\ NextDirection /\ stats' = stats /\ pending' = pending
      /\ air' = air \cup {slot.pdus[i] : i \in DOMAIN slot.pdus}
      /\ UNCHANGED <<engineVars, clock, elapsed, calls>>
  BY DEF SendTtiRequest
<1>2. SlotOK(slot') /\ pc' \in {"allocate", "slot_end"} /\ slot'.cell_id = slot.cell_id
  BY <1>1, NextDirectionOK
<1>3. \A i \in DOMAIN slot.pdus : slot.pdus[i] \in Transmissions /\ slot.pdus[i].harq_id = 0
  <2>1. slot.pdus \in Seq(Transmissions)
    BY DEF IInv, TypeOK, Slots
  <2>2. DOMAIN slot.pdus = 1..Len(slot.pdus)
    BY <2>1, LenProperties
  <2> QED BY <2>1, <2>2, ElementOfSeq DEF IInv, SlotOK
<1>4. air' \subseteq Transmissions /\ \A tx \in air' : tx.harq_id = 0
  BY <1>1, <1>3 DEF IInv, TypeOK
<1>5. stats' \in Stats /\ pending' \in [AbsoluteSlots -> Seq(PendingFeedbacks)]
  BY <1>1 DEF IInv, TypeOK
<1> QED BY <1>1, <1>2, <1>4, <1>5, ProcessingStep

LEMMA EndSlotStep ==
  ASSUME IInv, NEW outcome \in RelockOutcomes, EndSlot(outcome)
  PROVE  IInv'
<1>1. stats' \in Stats /\ pc' \in {"idle", "hung"}
  <2> DEFINE a == IF outcome = "proceed" THEN 1 ELSE 0
  <2>1. a \in Nat /\ pc' \in {"idle", "hung"}
    BY DEF EndSlot
  <2>2. stats' = [stats EXCEPT !.slots_processed = @ + a]
    BY DEF EndSlot
  <2> HIDE DEF a
  <2> QED BY <2>1, <2>2, StatsIncrease DEF IInv, TypeOK
<1>2. TypeOK'
  BY <1>1 DEF EndSlot, IInv, TypeOK, engineVars, phyVars
<1> QED BY <1>1, <1>2 DEF EndSlot, IInv, UesIdle, SlotIndicated, engineVars, phyVars

\* No feedback moves a HARQ process.
LEMMA AnswerStep ==
  ASSUME IInv, NEW tx \in air, NEW ack \in BOOLEAN, NEW late \in 0..MaxLate,
         Answer(tx, ack, late)
  PROVE  IInv'
<1> DEFINE c == tx.cell_id
           s == SlotNumber(c, tx.due_at + late)
           matching == MatchingEntries(c, tx.harq_id, s)
<1>1. c \in Cells /\ tx.due_at \in Nat /\ tx.harq_id \in HarqIds
  BY DEF IInv, TypeOK, Transmissions
<1>2. s \in AbsoluteSlots
  <2>1. tx.due_at + late \in Nat /\ StartTiming[c] \in FrameTimings(SlotsPerFrame[c])
    <3>1. MaxLate \in Nat
      BY EngineAssumption
    <3> QED BY <1>1, <3>1, EngineAssumption
  <2>2. advanced(StartTiming[c], tx.due_at + late) \in FrameTimings(SlotsPerFrame[c])
    BY <1>1, <2>1, AdvancedCellType
  <2> QED BY <1>1, <2>2, AbsoluteSlotType DEF SlotNumber
<1>3. air' = air \ {tx} /\ on_harq_feedback(c, tx.harq_id, ack, s)
  BY DEF Answer
<1> HIDE DEF c, s
<1>4. /\ UNCHANGED <<config, cells, capability, ue_by_rnti, next_ue_id, slotVars,
                     clock, elapsed, calls>>
      /\ \/ stats' = [stats EXCEPT !.harq_timeouts = @ + 1] /\ UNCHANGED <<ue, pending>>
         \/ \E i \in matching :
              LET entry == pending[s][i]
              IN  /\ ue' = [ue EXCEPT ![c][entry.rnti] =
                             AfterFeedback(@, entry.is_downlink, tx.harq_id, ack)]
                  /\ pending' = find_and_remove(pending, s, entry.rnti, tx.harq_id)
                  /\ stats' = [stats EXCEPT
                       !.dl_retransmissions =
                          @ + (IF entry.is_downlink /\ ~ack THEN 1 ELSE 0),
                       !.ul_retransmissions =
                          @ + (IF ~entry.is_downlink /\ ~ack THEN 1 ELSE 0)]
  BY <1>3 DEF on_harq_feedback
<1>5. /\ ue' = ue
      /\ pending' \in [AbsoluteSlots -> Seq(PendingFeedbacks)]
      /\ stats' \in Stats
  <2>1. CASE stats' = [stats EXCEPT !.harq_timeouts = @ + 1] /\ UNCHANGED <<ue, pending>>
    BY <2>1, SMTT(20) DEF IInv, TypeOK, Stats
  <2>2. ASSUME NEW i \in matching,
               ue' = [ue EXCEPT ![c][pending[s][i].rnti] =
                        AfterFeedback(@, pending[s][i].is_downlink, tx.harq_id, ack)],
               pending' = find_and_remove(pending, s, pending[s][i].rnti, tx.harq_id),
               stats' = [stats EXCEPT
                 !.dl_retransmissions =
                    @ + (IF pending[s][i].is_downlink /\ ~ack THEN 1 ELSE 0),
                 !.ul_retransmissions =
                    @ + (IF ~pending[s][i].is_downlink /\ ~ack THEN 1 ELSE 0)]
        PROVE  /\ ue' = ue
               /\ pending' \in [AbsoluteSlots -> Seq(PendingFeedbacks)]
               /\ stats' \in Stats
    <3> DEFINE r == pending[s][i].rnti
               dl == pending[s][i].is_downlink
    <3>1. r \in Rntis /\ dl \in BOOLEAN
      <4>1. i \in DOMAIN pending[s] /\ pending[s] \in Seq(PendingFeedbacks)
        BY <1>2 DEF MatchingEntries, FirstOf, get_all_for_slot, IInv, TypeOK
      <4>2. pending[s][i] \in PendingFeedbacks
        BY <4>1, LenProperties, ElementOfSeq
      <4> QED BY <4>2 DEF PendingFeedbacks
    <3>2. ue[c][r] \in UeContexts /\ ue[c][r].dl_harq = NewHarqEntity
          /\ ue[c][r].ul_harq = NewHarqEntity
      <4>1. c \in Cells
        BY <1>1
      <4>2. ue[c][r] \in UeContexts
        BY <3>1, <4>1 DEF IInv, TypeOK
      <4>3. Harq(ue[c][r], TRUE) = NewHarqEntity /\ Harq(ue[c][r], FALSE) = NewHarqEntity
        BY <3>1, <4>1 DEF IInv, UesIdle
      <4> QED BY <4>2, <4>3 DEF Harq
    <3>3. AfterFeedback(ue[c][r], dl, tx.harq_id, ack) = ue[c][r]
      BY <3>2, NewHarqEntityIsInert DEF AfterFeedback, UeContexts
    <3>4. ue' = [ue EXCEPT ![c][r] = ue[c][r]]
      BY <2>2, <3>3
    <3>5. ue' = ue
      BY <1>1, <3>1, <3>4 DEF IInv, TypeOK
    <3>6. pending' \in [AbsoluteSlots -> Seq(PendingFeedbacks)]
      BY <1>2, <2>2, FindAndRemoveType DEF IInv, TypeOK
    <3>7. stats' \in Stats
      <4> DEFINE a == IF dl /\ ~ack THEN 1 ELSE 0
                 b == IF ~dl /\ ~ack THEN 1 ELSE 0
      <4>1. a \in Nat /\ b \in Nat
        OBVIOUS
      <4>2. stats' = [stats EXCEPT !.dl_retransmissions = @ + a, !.ul_retransmissions = @ + b]
        BY <2>2
      <4> HIDE DEF a, b
      <4> QED BY <4>1, <4>2, StatsIncrease DEF IInv, TypeOK
    <3> QED BY <3>5, <3>6, <3>7
  <2> QED BY <1>4, <2>1, <2>2
<1>6. TypeOK'
  BY <1>3, <1>4, <1>5 DEF IInv, TypeOK, slotVars
<1> QED BY <1>3, <1>4, <1>5, <1>6 DEF IInv, UesIdle, SlotIndicated, slotVars

LEMMA NextIInv == IInv /\ [Next]_vars => IInv'
<1> SUFFICES ASSUME IInv, [Next]_vars PROVE IInv'
  OBVIOUS
<1>1. ASSUME MacEvent PROVE IInv'
  BY <1>1, CellStep, UeConfigStep, ReportStep DEF MacEvent
<1>2. ASSUME NEW new \in Configs, update_config(new) PROVE IInv'
  BY <1>2, ConfigStep
<1>3. ASSUME NEW c \in Cells, on_slot_indication(c) PROVE IInv'
  BY <1>3, SlotIndicationStep
<1>4. ASSUME NEW d \in slot.decisions, AllocateNext(d) PROVE IInv'
  BY <1>4, AllocateStep
<1>5. ASSUME FinishAllocation PROVE IInv'
  BY <1>5, FinishStep
<1>6. ASSUME BuildPdu PROVE IInv'
  BY <1>6, BuildStep
<1>7. ASSUME SendTtiRequest PROVE IInv'
  BY <1>7, SendStep
<1>8. ASSUME NEW outcome \in RelockOutcomes, EndSlot(outcome) PROVE IInv'
  BY <1>8, EndSlotStep
<1>9. ASSUME NEW tx \in air, NEW ack \in BOOLEAN, NEW late \in 0..MaxLate, Answer(tx, ack, late)
      PROVE  IInv'
  BY <1>9, AnswerStep
<1>10. CASE UNCHANGED vars
  BY <1>10 DEF vars, IInv, TypeOK, UesIdle, SlotIndicated
<1> QED BY <1>1, <1>2, <1>3, <1>4, <1>5, <1>6, <1>7, <1>8, <1>9, <1>10 DEF Next

\* Every variable keeps its type: the timings stay within their frames whatever
\* the SFN does, the tracker's slot numbers within the cycle, the allocations are
\* well-formed.
THEOREM TypeCorrect == Spec => []TypeOK
<1>1. IInv => TypeOK
  BY DEF IInv
<1> QED BY <1>1, InitIInv, NextIInv, PTL DEF Spec

-----------------------------------------------------------------------------
(* The allocations of a slot.                                               *)

GridInv == IInv /\ GridPacked /\ RequestDisjoint

\* What a step may do to a request: nothing, empty it, or add one resource.
RequestStep ==
  \/ RequestResources' = RequestResources
  \/ RequestResources' = <<>>
  \/ \E res \in Resources :
       res.num_rbs # 0 /\ RequestResources' = Append(RequestResources, res)

-----------------------------------------------------------------------------
(* Lists of resources.                                                      *)

LEMMA ResourcesOfType ==
  ASSUME NEW S, NEW q \in Seq(S), \A x \in S : x.resources \in Resources
  PROVE  /\ ResourcesOf(q) \in Seq(Resources)
         /\ Len(ResourcesOf(q)) = Len(q)
         /\ \A i \in 1..Len(q) : ResourcesOf(q)[i] = q[i].resources
<1>1. Len(q) \in Nat /\ DOMAIN q = 1..Len(q) /\ \A i \in 1..Len(q) : q[i] \in S
  BY LenProperties, ElementOfSeq
<1>2. ResourcesOf(q) \in [1..Len(q) -> Resources]
  BY <1>1 DEF ResourcesOf
<1>3. ResourcesOf(q) \in Seq(Resources)
  BY <1>1, <1>2, SeqDef
<1>4. Len(ResourcesOf(q)) = Len(q)
  BY <1>1, <1>2, <1>3, LenProperties
<1> QED BY <1>1, <1>3, <1>4 DEF ResourcesOf

LEMMA ResourcesOfAppend ==
  ASSUME NEW S, NEW q \in Seq(S), NEW x \in S, \A y \in S : y.resources \in Resources
  PROVE  ResourcesOf(Append(q, x)) = Append(ResourcesOf(q), x.resources)
<1> DEFINE a == ResourcesOf(Append(q, x))
           b == Append(ResourcesOf(q), x.resources)
<1>1. /\ Append(q, x) \in Seq(S) /\ Len(Append(q, x)) = Len(q) + 1 /\ Len(q) \in Nat
      /\ \A i \in 1..Len(q) : Append(q, x)[i] = q[i]
      /\ Append(q, x)[Len(q) + 1] = x
  BY AppendProperties, LenProperties
<1>2. /\ ResourcesOf(q) \in Seq(Resources) /\ Len(ResourcesOf(q)) = Len(q)
      /\ \A i \in 1..Len(q) : ResourcesOf(q)[i] = q[i].resources
  BY ResourcesOfType
<1>3. /\ a \in Seq(Resources) /\ Len(a) = Len(q) + 1
      /\ \A i \in 1..(Len(q) + 1) : a[i] = Append(q, x)[i].resources
  BY <1>1, ResourcesOfType
<1>4. x.resources \in Resources
  OBVIOUS
<1>5. /\ b \in Seq(Resources) /\ Len(b) = Len(q) + 1
      /\ \A i \in 1..Len(q) : b[i] = ResourcesOf(q)[i]
      /\ b[Len(q) + 1] = x.resources
  BY <1>2, <1>4, AppendProperties
<1> HIDE DEF a, b
<1>6. \A i \in 1..Len(a) : a[i] = b[i]
  <2> SUFFICES ASSUME NEW i \in 1..(Len(q) + 1) PROVE a[i] = b[i]
    BY <1>3
  <2>1. CASE i \in 1..Len(q)
    BY <1>1, <1>2, <1>3, <1>5, <2>1
  <2>2. CASE i = Len(q) + 1
    BY <1>1, <1>3, <1>5, <2>2
  <2> QED BY <1>1, <2>1, <2>2
<1>7. a = b
  BY <1>3, <1>5, <1>6, SeqEqual
<1> QED BY <1>7 DEF a, b

LEMMA ResourcesOfHeadTail ==
  ASSUME NEW S, NEW q \in Seq(S), q # <<>>, \A y \in S : y.resources \in Resources
  PROVE  ResourcesOf(q) = <<Head(q).resources>> \o ResourcesOf(Tail(q))
<1> DEFINE a == ResourcesOf(q)
           h == <<Head(q).resources>>
           t == ResourcesOf(Tail(q))
<1>1. /\ Head(q) \in S /\ Tail(q) \in Seq(S) /\ Len(Tail(q)) = Len(q) - 1
      /\ \A i \in 1..Len(Tail(q)) : Tail(q)[i] = q[i + 1]
      /\ Len(q) \in Nat \ {0} /\ Head(q) = q[1]
  BY HeadTailProperties, EmptySeq
<1>2. /\ a \in Seq(Resources) /\ Len(a) = Len(q)
      /\ \A i \in 1..Len(q) : a[i] = q[i].resources
  BY ResourcesOfType
<1>3. /\ t \in Seq(Resources) /\ Len(t) = Len(q) - 1
      /\ \A i \in 1..(Len(q) - 1) : t[i] = Tail(q)[i].resources
  BY <1>1, ResourcesOfType
<1>4. h \in Seq(Resources) /\ Len(h) = 1 /\ h[1] = q[1].resources
  <2>1. Head(q).resources \in Resources
    BY <1>1
  <2> QED BY <1>1, <2>1
<1>5. /\ h \o t \in Seq(Resources) /\ Len(h \o t) = Len(h) + Len(t)
      /\ \A i \in 1..(Len(h) + Len(t)) :
           (h \o t)[i] = IF i <= Len(h) THEN h[i] ELSE t[i - Len(h)]
  BY <1>3, <1>4, ConcatProperties
<1> HIDE DEF a, h, t
<1>6. \A i \in 1..Len(a) : a[i] = (h \o t)[i]
  <2> SUFFICES ASSUME NEW i \in 1..Len(q) PROVE a[i] = (h \o t)[i]
    BY <1>2
  <2>1. CASE i = 1
    BY <1>1, <1>2, <1>3, <1>4, <1>5, <2>1
  <2>2. CASE i # 1
    <3>1. i - 1 \in 1..(Len(q) - 1) /\ (i - 1) + 1 = i
      BY <1>1, <2>2
    <3>2. t[i - 1] = q[i].resources
      BY <1>1, <1>3, <3>1
    <3>3. (h \o t)[i] = t[i - 1]
      BY <1>1, <1>3, <1>4, <1>5, <2>2
    <3> QED BY <1>2, <3>2, <3>3
  <2> QED BY <2>1, <2>2
<1>7. Len(h \o t) = Len(a)
  BY <1>1, <1>2, <1>3, <1>4, <1>5
<1>8. a = h \o t
  BY <1>2, <1>5, <1>6, <1>7, SeqEqual
<1> QED BY <1>8 DEF a, h, t

\* One more list entry, disjoint from the grid, keeps the entries of a list
\* pairwise disjoint and the grid their union.
LEMMA OneMoreResource ==
  ASSUME NEW taken \in Seq(Resources), NEW res \in Resources, NEW grid, NEW limit,
         \A i, j \in DOMAIN taken : i # j => Disjoint(taken[i], taken[j]),
         \A i \in DOMAIN taken : taken[i].start_rb + taken[i].num_rbs <= limit,
         grid = UNION {ResourceElements(taken[i]) : i \in DOMAIN taken},
         res.start_rb + res.num_rbs <= limit, is_available(grid, res)
  PROVE  LET more == Append(taken, res)
         IN  /\ \A i, j \in DOMAIN more : i # j => Disjoint(more[i], more[j])
             /\ \A i \in DOMAIN more : more[i].start_rb + more[i].num_rbs <= limit
             /\ allocate(grid, res) = UNION {ResourceElements(more[i]) : i \in DOMAIN more}
<1> DEFINE more == Append(taken, res)
           n == Len(taken)
<1>1. /\ n \in Nat /\ DOMAIN taken = 1..n /\ DOMAIN more = 1..(n + 1)
      /\ \A i \in 1..n : more[i] = taken[i]
      /\ more[n + 1] = res
  BY AppendProperties, LenProperties
<1> HIDE DEF more, n
<1>2. \A i \in 1..(n + 1) : i \in 1..n \/ i = n + 1
  BY <1>1
<1>3. \A i \in 1..n : i # n + 1 /\ i \in 1..(n + 1)
  BY <1>1
<1>4. n + 1 \in 1..(n + 1)
  BY <1>1
<1>5. \A i \in 1..n : Disjoint(taken[i], res) /\ Disjoint(res, taken[i])
  BY <1>1 DEF Disjoint, is_available
<1>6. ASSUME NEW i \in DOMAIN more, NEW j \in DOMAIN more, i # j
      PROVE  Disjoint(more[i], more[j])
  <2>1. CASE i \in 1..n /\ j \in 1..n
    BY <1>1, <1>6, <2>1
  <2>2. CASE i \in 1..n /\ j = n + 1
    BY <1>1, <1>5, <2>2
  <2>3. CASE i = n + 1 /\ j \in 1..n
    BY <1>1, <1>5, <2>3
  <2> QED BY <1>1, <1>2, <1>6, <2>1, <2>2, <2>3
<1>7. \A i \in DOMAIN more : more[i].start_rb + more[i].num_rbs <= limit
  BY <1>1, <1>2
<1>8. allocate(grid, res) = UNION {ResourceElements(more[i]) : i \in DOMAIN more}
  <2>1. ASSUME NEW x
        PROVE  x \in allocate(grid, res)
                 <=> \E i \in DOMAIN more : x \in ResourceElements(more[i])
    <3>1. x \in grid <=> \E i \in 1..n : x \in ResourceElements(taken[i])
      BY <1>1
    <3>2. (\E i \in 1..(n + 1) : x \in ResourceElements(more[i]))
             <=> \/ \E i \in 1..n : x \in ResourceElements(taken[i])
                 \/ x \in ResourceElements(res)
      BY <1>1, <1>2, <1>3, <1>4
    <3> QED BY <1>1, <3>1, <3>2 DEF allocate
  <2> QED BY <2>1
<1> QED BY <1>6, <1>7, <1>8 DEF more

-----------------------------------------------------------------------------
(* The steps.                                                               *)

\* A slot, or a direction of it, in which nothing is allocated.
LEMMA NothingAllocated ==
  ASSUME IInv, slot.pdus = <<>>, slot.successful = <<>>,
         slot.dl_grid = {}, slot.ul_grid = {}
  PROVE  GridPacked /\ RequestDisjoint /\ RequestResources = <<>>
<1>1. Grid = {}
  BY DEF Grid
<1>2. GridPacked
  <2>1. NumRbs[slot.cell_id] \in Nat
    BY EngineAssumption DEF IInv, TypeOK, Slots
  <2>2. 0 \in 0..NumRbs[slot.cell_id] /\ 0..(0 - 1) = {}
    BY <2>1
  <2>3. (StartSymbol..(StartSymbol + NumSymbols - 1)) \X (0..(0 - 1)) = {}
    BY <2>2
  <2> QED BY <1>1, <2>2, <2>3 DEF GridPacked
<1>3. RequestResources = <<>>
  <2>1. ResourcesOf(<<>>) = <<>>
    BY DEF ResourcesOf
  <2>2. <<>> \in Seq(Resources)
    BY EmptySeq
  <2> QED BY <2>1, <2>2, ConcatEmptySeq DEF RequestResources
<1>4. DOMAIN <<>> = {}
  OBVIOUS
<1> QED BY <1>1, <1>2, <1>3, <1>4 DEF RequestDisjoint

LEMMA InitGridInv == Init => GridInv
<1> SUFFICES ASSUME Init PROVE GridInv
  OBVIOUS
<1>1. IInv
  BY InitIInv
<1>2. PICK c \in Cells : slot = EmptySlot(c, StartTiming[c])
  BY DEF Init
<1> QED BY <1>1, <1>2, NothingAllocated DEF GridInv, EmptySlot

LEMMA NothingAllocatedAfter ==
  ASSUME IInv', slot'.pdus = <<>>, slot'.successful = <<>>,
         slot'.dl_grid = {}, slot'.ul_grid = {}
  PROVE  GridPacked' /\ RequestDisjoint' /\ RequestStep
<1>1. (IInv /\ slot.pdus = <<>> /\ slot.successful = <<>> /\ slot.dl_grid = {}
         /\ slot.ul_grid = {} => GridPacked /\ RequestDisjoint /\ RequestResources = <<>>)'
  BY NothingAllocated, PTL
<1> QED BY <1>1 DEF RequestStep

LEMMA NextDirectionEmpties ==
  ASSUME NextDirection
  PROVE  slot'.pdus = <<>> /\ slot'.successful = <<>> /\ slot'.dl_grid = {} /\ slot'.ul_grid = {}
<1>1. CASE slot.is_downlink
  BY <1>1 DEF NextDirection, EmptySlot
<1>2. CASE ~slot.is_downlink
  BY <1>2 DEF NextDirection, EmptySlot
<1> QED BY <1>1, <1>2

\* A step that leaves the grid of the slot and the resources of its lists alone.
LEMMA AllocationsKept ==
  ASSUME GridPacked, RequestDisjoint, slot'.cell_id = slot.cell_id, Grid' = Grid,
         RequestResources' = RequestResources
  PROVE  GridPacked' /\ RequestDisjoint' /\ RequestStep
BY DEF GridPacked, RequestDisjoint, RequestStep

LEMMA ListTypes ==
  ASSUME IInv
  PROVE  /\ slot.pdus \in Seq(Transmissions)
         /\ \A tx \in Transmissions : tx.resources \in Resources
         /\ slot.successful \in Seq([decision : Decisions, resources : Resources])
         /\ \A x \in [decision : Decisions, resources : Resources] : x.resources \in Resources
         /\ ResourcesOf(slot.pdus) \in Seq(Resources)
         /\ ResourcesOf(slot.successful) \in Seq(Resources)
         /\ RequestResources \in Seq(Resources)
<1>1. /\ slot.pdus \in Seq(Transmissions)
      /\ slot.successful \in Seq([decision : Decisions, resources : Resources])
  BY DEF IInv, TypeOK, Slots
<1>2. \A tx \in Transmissions : tx.resources \in Resources
  BY DEF Transmissions
<1>3. \A x \in [decision : Decisions, resources : Resources] : x.resources \in Resources
  OBVIOUS
<1>4. ResourcesOf(slot.pdus) \in Seq(Resources) /\ ResourcesOf(slot.successful) \in Seq(Resources)
  BY <1>1, <1>2, <1>3, ResourcesOfType
<1> QED BY <1>1, <1>2, <1>3, <1>4, ConcatProperties DEF RequestResources

\* Where the blocks of a decision are, in a packed grid.
LEMMA AllocationsPacked ==
  ASSUME IInv, NEW d \in slot.decisions, NEW res \in Allocations(d),
         NEW k \in 0..NumRbs[slot.cell_id],
         Grid = (StartSymbol..(StartSymbol + NumSymbols - 1)) \X (0..(k - 1))
  PROVE  /\ res.start_rb = k /\ res.num_rbs \in Nat \ {0}
         /\ k + res.num_rbs <= NumRbs[slot.cell_id]
         /\ is_available(Grid, res)
<1>1. slot.cell_id \in Cells
  BY DEF IInv, TypeOK, Slots
<1>2. NumRbs[slot.cell_id] \in Nat /\ StartSymbol \in Nat /\ NumSymbols \in Nat \ {0}
  BY <1>1, EngineAssumption
<1>3. res \in Resources
  BY AllocationsType DEF IInv
<1> DEFINE required == MinRbs[slot.cell_id][ue[slot.cell_id][d.rnti].mcs][d.buffer_bytes]
           n == res.num_rbs
<1>4. n \in 1..required /\ res.start_rb \in Runs(n) /\ n \in Nat
  BY <1>3 DEF Allocations, Resources
<1>5. n \in Nat \ {0}
  <2>1. required \in Nat
    <3>1. d \in Decisions
      BY DEF IInv, TypeOK, Slots
    <3>2. ue[slot.cell_id][d.rnti] \in UeContexts /\ d.buffer_bytes \in Bytes
      BY <1>1, <3>1 DEF Decisions, IInv, TypeOK
    <3>3. required \in 1..NumRbs[slot.cell_id]
      BY <1>1, <3>2, EngineAssumption DEF UeContexts
    <3> HIDE DEF required
    <3> QED BY <1>2, <3>3
  <2> HIDE DEF required
  <2> QED BY <1>4, <2>1
<1> HIDE DEF required, n
<1>6. Runs(n) = IF k + n <= NumRbs[slot.cell_id] THEN {k} ELSE {}
  BY <1>2, <1>5, FindInPackedGrid DEF Runs
<1>7. res.start_rb = k /\ k + n <= NumRbs[slot.cell_id]
  BY <1>4, <1>6
<1>8. is_available(Grid, [start_rb |-> k, num_rbs |-> n,
                          start_symbol |-> StartSymbol, num_symbols |-> NumSymbols])
  BY <1>2, <1>4, <1>5, <1>7, FindContiguousFree DEF Runs
<1>9. res = [start_rb |-> k, num_rbs |-> n,
             start_symbol |-> StartSymbol, num_symbols |-> NumSymbols]
  BY <1>3, <1>7 DEF Resources, n
<1> QED BY <1>5, <1>7, <1>8, <1>9 DEF n

LEMMA AllocateGrid ==
  ASSUME GridInv, NEW d \in slot.decisions, AllocateNext(d)
  PROVE  GridPacked' /\ RequestDisjoint' /\ RequestStep
<1>1. CASE slot' = [slot EXCEPT !.decisions = @ \ {d}]
  <2>1. slot \in Slots
    BY DEF GridInv, IInv, TypeOK
  <2>2. /\ slot'.cell_id = slot.cell_id /\ slot'.is_downlink = slot.is_downlink
        /\ slot'.dl_grid = slot.dl_grid /\ slot'.ul_grid = slot.ul_grid
        /\ slot'.pdus = slot.pdus /\ slot'.successful = slot.successful
    BY <1>1, <2>1 DEF Slots
  <2>3. Grid' = Grid /\ RequestResources' = RequestResources
    BY <2>2 DEF Grid, RequestResources
  <2> QED BY <2>2, <2>3, AllocationsKept DEF GridInv
<1>2. ASSUME NEW res \in Allocations(d),
             slot' = [slot EXCEPT
               !.decisions  = @ \ {d},
               !.successful = Append(@, [decision |-> d, resources |-> res]),
               !.dl_grid    = IF slot.is_downlink THEN allocate(@, res) ELSE @,
               !.ul_grid    = IF slot.is_downlink THEN @ ELSE allocate(@, res)]
      PROVE  GridPacked' /\ RequestDisjoint' /\ RequestStep
  <2> DEFINE new == [decision |-> d, resources |-> res]
             T == [decision : Decisions, resources : Resources]
             symbols == StartSymbol..(StartSymbol + NumSymbols - 1)
  <2>1. slot \in Slots /\ slot.cell_id \in Cells /\ slot.is_downlink \in BOOLEAN
    BY DEF GridInv, IInv, TypeOK, Slots
  <2>2. /\ slot'.cell_id = slot.cell_id /\ slot'.is_downlink = slot.is_downlink
        /\ slot'.pdus = slot.pdus /\ slot'.successful = Append(slot.successful, new)
        /\ slot'.dl_grid = IF slot.is_downlink THEN allocate(slot.dl_grid, res) ELSE slot.dl_grid
        /\ slot'.ul_grid = IF slot.is_downlink THEN slot.ul_grid ELSE allocate(slot.ul_grid, res)
    BY <1>2, <2>1 DEF Slots
  <2>3. Grid' = allocate(Grid, res)
    BY <2>1, <2>2 DEF Grid
  <2>4. res \in Resources /\ d \in Decisions
    BY <2>1, AllocationsType DEF GridInv, IInv, Slots
  <2>5. new \in T
    BY <2>4
  <2>6. RequestResources' = Append(RequestResources, res)
    <3>1. ResourcesOf(Append(slot.successful, new)) = Append(ResourcesOf(slot.successful), res)
      <4> HIDE DEF T
      <4>1. new.resources = res /\ slot.successful \in Seq(T) /\ new \in T
            /\ \A x \in T : x.resources \in Resources
        BY <2>5, ListTypes DEF GridInv, T
      <4> HIDE DEF new
      <4> QED BY <4>1, ResourcesOfAppend
    <3> DEFINE p == ResourcesOf(slot.pdus)
               q == ResourcesOf(slot.successful)
    <3>2. p \in Seq(Resources) /\ q \in Seq(Resources) /\ RequestResources = p \o q
          /\ RequestResources \in Seq(Resources)
      BY ListTypes DEF GridInv, RequestResources
    <3>3. RequestResources' = p \o Append(q, res)
      BY <2>2, <3>1 DEF RequestResources
    <3> HIDE DEF p, q
    <3>4. <<res>> \in Seq(Resources)
      BY <2>4
    <3>5. p \o Append(q, res) = p \o (q \o <<res>>)
      BY <2>4, <3>2, AppendIsConcat
    <3>6. p \o (q \o <<res>>) = (p \o q) \o <<res>>
      BY <3>2, <3>4, ConcatAssociative
    <3>7. (p \o q) \o <<res>> = Append(RequestResources, res)
      BY <2>4, <3>2, AppendIsConcat
    <3> QED BY <3>3, <3>5, <3>6, <3>7
  <2>7. PICK k \in 0..NumRbs[slot.cell_id] : Grid = symbols \X (0..(k - 1))
    BY DEF GridInv, GridPacked
  <2>8. /\ res.start_rb = k /\ res.num_rbs \in Nat \ {0}
        /\ k + res.num_rbs <= NumRbs[slot.cell_id]
        /\ is_available(Grid, res)
    BY <2>7, AllocationsPacked DEF GridInv
  <2>9. RequestDisjoint'
    <3>1. res.start_rb + res.num_rbs <= NumRbs[slot.cell_id]
      BY <2>8
    <3> DEFINE more == Append(RequestResources, res)
    <3>2. /\ RequestResources \in Seq(Resources)
          /\ \A i, j \in DOMAIN RequestResources :
               i # j => Disjoint(RequestResources[i], RequestResources[j])
          /\ \A i \in DOMAIN RequestResources :
               RequestResources[i].start_rb + RequestResources[i].num_rbs <= NumRbs[slot.cell_id]
          /\ Grid = UNION {ResourceElements(RequestResources[i]) : i \in DOMAIN RequestResources}
      BY ListTypes DEF GridInv, RequestDisjoint
    <3>3. /\ \A i, j \in DOMAIN more : i # j => Disjoint(more[i], more[j])
          /\ \A i \in DOMAIN more : more[i].start_rb + more[i].num_rbs <= NumRbs[slot.cell_id]
          /\ allocate(Grid, res) = UNION {ResourceElements(more[i]) : i \in DOMAIN more}
      BY <2>4, <2>8, <3>1, <3>2, OneMoreResource
    <3>4. RequestResources' = more
      BY <2>6
    <3> HIDE DEF more
    <3> QED BY <2>2, <2>3, <3>3, <3>4 DEF RequestDisjoint
  <2>10. GridPacked'
    <3>1. NumRbs[slot.cell_id] \in Nat
      BY <2>1, EngineAssumption
    <3>2. ResourceElements(res) = symbols \X (k..(k + res.num_rbs - 1))
      BY <2>4, <2>8 DEF ResourceElements, Resources
    <3>3. (0..(k - 1)) \cup (k..(k + res.num_rbs - 1)) = 0..((k + res.num_rbs) - 1)
      BY <2>8, <3>1
    <3> DEFINE n == k + res.num_rbs
    <3>4. n \in 0..NumRbs[slot.cell_id]
      BY <2>8, <3>1
    <3> HIDE DEF n, symbols
    <3>5. Grid' = symbols \X (0..(n - 1))
      BY <2>3, <2>7, <3>2, <3>3 DEF allocate, n
    <3> QED BY <2>2, <3>4, <3>5 DEF GridPacked, symbols
  <2>11. RequestStep
    BY <2>4, <2>6, <2>8 DEF RequestStep
  <2> QED BY <2>9, <2>10, <2>11
<1> QED BY <1>1, <1>2 DEF AllocateNext

\* The head of the list of allocations becomes the last PDU.
LEMMA BuildGrid ==
  ASSUME GridInv, BuildPdu
  PROVE  GridPacked' /\ RequestDisjoint' /\ RequestStep
<1> DEFINE T == [decision : Decisions, resources : Resources]
           p == ResourcesOf(slot.pdus)
           t == ResourcesOf(Tail(slot.successful))
           h == Head(slot.successful).resources
<1>1. slot \in Slots /\ slot.successful # <<>>
  BY DEF GridInv, IInv, TypeOK, BuildPdu
<1> DEFINE d   == Head(slot.successful).decision
           c   == slot.cell_id
           n   == elapsed[c] - 1
           at  == IF slot.is_downlink THEN n ELSE n + config.scheduling_offset_slots
           pdu == [cell_id |-> c, rnti |-> d.rnti, ue_id |-> ue[c][d.rnti].ue_id,
                   harq_id |-> d.harq_id, is_downlink |-> slot.is_downlink,
                   resources |-> h, scheduled_at |-> n, on_air_at |-> at,
                   due_at |-> at + (IF slot.is_downlink THEN K1 ELSE UlCrcDelay)]
<1>2. /\ slot' = [slot EXCEPT !.successful = Tail(slot.successful),
                              !.pdus = Append(slot.pdus, pdu)]
      /\ pdu.resources = h
  BY DEF BuildPdu
<1> HIDE DEF pdu
<1>3. /\ slot'.cell_id = slot.cell_id /\ slot'.is_downlink = slot.is_downlink
      /\ slot'.dl_grid = slot.dl_grid /\ slot'.ul_grid = slot.ul_grid
      /\ slot'.successful = Tail(slot.successful) /\ slot'.pdus = Append(slot.pdus, pdu)
  BY <1>1, <1>2 DEF Slots
<1>4. /\ slot.successful \in Seq(T) /\ \A x \in T : x.resources \in Resources
      /\ p \in Seq(Resources) /\ RequestResources = p \o ResourcesOf(slot.successful)
  BY ListTypes DEF GridInv, RequestResources
<1>5. Head(slot.successful) \in T /\ Tail(slot.successful) \in Seq(T)
  BY <1>1, <1>4, HeadTailProperties
<1>6. h \in Resources /\ t \in Seq(Resources)
  BY <1>4, <1>5, ResourcesOfType
<1>7. ResourcesOf(slot.successful) = <<h>> \o t
  BY <1>1, <1>4, ResourcesOfHeadTail
<1>8. slot'.pdus \in Seq(Transmissions) /\ slot.pdus \in Seq(Transmissions)
      /\ \A tx \in Transmissions : tx.resources \in Resources
  <2>1. IInv'
    BY BuildStep DEF GridInv
  <2> QED BY <2>1, ListTypes DEF GridInv, IInv, TypeOK, Slots
<1>9. pdu \in Transmissions
  BY <1>3, <1>8
<1>10. ResourcesOf(slot'.pdus) = Append(p, h)
  BY <1>2, <1>3, <1>8, <1>9, ResourcesOfAppend
<1>11. RequestResources' = Append(p, h) \o t
  BY <1>3, <1>10 DEF RequestResources
<1> HIDE DEF p, t, h
<1>12. Append(p, h) \o t = p \o (<<h>> \o t)
  <2>1. <<h>> \in Seq(Resources) /\ Append(p, h) = p \o <<h>>
    BY <1>4, <1>6, AppendIsConcat
  <2> QED BY <1>4, <1>6, <2>1, ConcatAssociative
<1>13. RequestResources' = RequestResources /\ Grid' = Grid
  BY <1>3, <1>4, <1>7, <1>11, <1>12 DEF Grid
<1> QED BY <1>3, <1>13, AllocationsKept DEF GridInv

LEMMA NextGridInv == GridInv /\ [Next]_vars => GridInv' /\ RequestStep
<1> SUFFICES ASSUME GridInv, [Next]_vars PROVE GridPacked' /\ RequestDisjoint' /\ RequestStep
  BY NextIInv DEF GridInv
<1>0. IInv'
  BY NextIInv DEF GridInv
<1>1. ASSUME slot' = slot PROVE GridPacked' /\ RequestDisjoint' /\ RequestStep
  BY <1>1, AllocationsKept DEF GridInv, Grid, RequestResources
<1>2. ASSUME MacEvent PROVE slot' = slot
  BY <1>2 DEF MacEvent, add_cell, remove_cell, on_ue_config, on_ue_release, on_dl_data,
              on_bsr, on_sr, on_csi_update, StoreReport, slotVars
<1>3. ASSUME NEW new \in Configs, update_config(new) PROVE slot' = slot
  BY <1>3 DEF update_config, slotVars
<1>4. ASSUME NEW c \in Cells, on_slot_indication(c) PROVE GridPacked' /\ RequestDisjoint' /\ RequestStep
  <2>1. CASE c \notin cells
    BY <1>1, <1>4, <2>1 DEF on_slot_indication, slotVars
  <2>2. CASE c \in cells
    BY <1>0, <1>4, <2>2, NothingAllocatedAfter DEF on_slot_indication, EmptySlot
  <2> QED BY <2>1, <2>2
<1>5. ASSUME NEW d \in slot.decisions, AllocateNext(d) PROVE GridPacked' /\ RequestDisjoint' /\ RequestStep
  BY <1>5, AllocateGrid
<1>6. ASSUME FinishAllocation PROVE GridPacked' /\ RequestDisjoint' /\ RequestStep
  <2>1. CASE slot.successful = <<>>
    BY <1>0, <1>6, <2>1, NextDirectionEmpties, NothingAllocatedAfter DEF FinishAllocation
  <2>2. CASE slot.successful # <<>>
    <3>1. slot \in Slots
      BY DEF GridInv, IInv, TypeOK
    <3>2. slot' = [slot EXCEPT !.decisions = {}]
      BY <1>6, <2>2 DEF FinishAllocation
    <3>3. /\ slot'.cell_id = slot.cell_id /\ slot'.is_downlink = slot.is_downlink
          /\ slot'.dl_grid = slot.dl_grid /\ slot'.ul_grid = slot.ul_grid
          /\ slot'.pdus = slot.pdus /\ slot'.successful = slot.successful
      BY <3>1, <3>2 DEF Slots
    <3> QED BY <3>3, AllocationsKept DEF GridInv, Grid, RequestResources
  <2> QED BY <2>1, <2>2
<1>7. ASSUME BuildPdu PROVE GridPacked' /\ RequestDisjoint' /\ RequestStep
  BY <1>7, BuildGrid
<1>8. ASSUME SendTtiRequest PROVE GridPacked' /\ RequestDisjoint' /\ RequestStep
  BY <1>0, <1>8, NextDirectionEmpties, NothingAllocatedAfter DEF SendTtiRequest
<1>9. ASSUME NEW outcome \in RelockOutcomes, EndSlot(outcome) PROVE slot' = slot
  BY <1>9 DEF EndSlot
<1>10. ASSUME NEW tx \in air, NEW ack \in BOOLEAN, NEW late \in 0..MaxLate, Answer(tx, ack, late)
       PROVE  slot' = slot
  BY <1>10 DEF Answer, on_harq_feedback, slotVars
<1>11. ASSUME UNCHANGED vars PROVE slot' = slot
  BY <1>11 DEF vars
<1> QED BY <1>1, <1>2, <1>3, <1>4, <1>5, <1>6, <1>7, <1>8, <1>9, <1>10, <1>11 DEF Next

\* A step of the engine makes one grant, ends grants or leaves them alone.
LEMMA StepGrants ==
  ASSUME GridInv, [Next]_vars
  PROVE  [Grants!Next]_{ResourceElements(RequestResources[i]) : i \in DOMAIN RequestResources}
<1> DEFINE taken == RequestResources
           grants == {ResourceElements(taken[i]) : i \in DOMAIN taken}
<1>1. GridInv' /\ RequestStep
  BY NextGridInv
<1>2. CASE RequestResources' = RequestResources
  BY <1>2
<1>3. CASE RequestResources' = <<>>
  <2>1. grants' = {}
    BY <1>3
  <2> QED BY <2>1 DEF Grants!Next, Grants!End
<1>4. ASSUME NEW res \in Resources, res.num_rbs # 0, RequestResources' = Append(taken, res)
      PROVE  Grants!Grant
  <2>1. taken \in Seq(Resources)
    BY ListTypes DEF GridInv
  <2>2. /\ DOMAIN taken' = DOMAIN taken \cup {Len(taken) + 1}
        /\ Len(taken) + 1 \notin DOMAIN taken
        /\ taken'[Len(taken) + 1] = res
        /\ \A i \in DOMAIN taken : taken'[i] = taken[i]
    BY <1>4, <2>1, AppendProperties, LenProperties
  <2>3. \A i, j \in DOMAIN taken' : i # j => Disjoint(taken'[i], taken'[j])
    BY <1>1 DEF GridInv, RequestDisjoint, Disjoint
  <2> DEFINE g == ResourceElements(res)
  <2>4. g # {}
    <3>1. /\ res.start_symbol \in Nat /\ res.num_symbols \in Nat \ {0}
          /\ res.start_rb \in Nat /\ res.num_rbs \in Nat \ {0}
      BY <1>4, EngineAssumption DEF Resources
    <3>2. <<res.start_symbol, res.start_rb>> \in g
      BY <3>1 DEF ResourceElements
    <3> QED BY <3>2
  <2>5. \A i \in DOMAIN taken : g \cap ResourceElements(taken[i]) = {}
    BY <2>2, <2>3 DEF Disjoint
  <2>6. grants' = grants \cup {g}
    BY <2>2
  <2>7. \A h \in grants : g \cap h = {}
    BY <2>5
  <2>8. g \in grants' \ grants
    BY <2>4, <2>6, <2>7
  <2> QED BY <2>4, <2>6, <2>7, <2>8 DEF Grants!Grant
<1> QED BY <1>1, <1>2, <1>3, <1>4 DEF RequestStep, Grants!Next

\* For every number of UEs, order of the decisions and size of the grid: the PDUs
\* of a TTI request occupy disjoint blocks of the cell's grid, and the bitmap is
\* their union.
THEOREM RequestsDisjoint == Spec => []RequestDisjoint
<1>1. GridInv => RequestDisjoint
  BY DEF GridInv
<1> QED BY <1>1, InitGridInv, NextGridInv, PTL DEF Spec

\* The allocations of a slot leave no gap.
THEOREM GridStaysPacked == Spec => []GridPacked
<1>1. GridInv => GridPacked
  BY DEF GridInv
<1> QED BY <1>1, InitGridInv, NextGridInv, PTL DEF Spec

LEMMA FailsOnlyWhenFull ==
  ASSUME GridInv, [Next]_vars, stats'.allocation_failures > stats.allocation_failures
  PROVE  \A rb \in 0..(NumRbs[slot.cell_id] - 1) : <<StartSymbol, rb>> \in Grid
<1>1. stats \in Stats /\ stats.allocation_failures \in Nat
  BY DEF GridInv, IInv, TypeOK, Stats
<1>2. ~(stats'.allocation_failures = stats.allocation_failures)
  BY <1>1
<1>3. \E d \in slot.decisions : AllocateNext(d) /\ Allocations(d) = {}
  <2>1. ASSUME MacEvent PROVE stats' = stats
    BY <2>1 DEF MacEvent, add_cell, remove_cell, on_ue_config, on_ue_release, on_dl_data,
                on_bsr, on_sr, on_csi_update, StoreReport
  <2>2. ASSUME NEW new \in Configs, update_config(new) PROVE stats' = stats
    BY <2>2 DEF update_config
  <2>3. ASSUME NEW c \in Cells, on_slot_indication(c)
        PROVE  stats'.allocation_failures = stats.allocation_failures
    BY <1>1, <2>3 DEF on_slot_indication, Stats
  <2>4. ASSUME NEW d \in slot.decisions, AllocateNext(d), Allocations(d) # {}
        PROVE  stats' = stats
    BY <2>4 DEF AllocateNext
  <2>5. ASSUME BuildPdu PROVE stats'.allocation_failures = stats.allocation_failures
    BY <1>1, <2>5 DEF BuildPdu, Stats
  <2>6. ASSUME NEW outcome \in RelockOutcomes, EndSlot(outcome)
        PROVE  stats'.allocation_failures = stats.allocation_failures
    BY <1>1, <2>6 DEF EndSlot, Stats
  <2>7. ASSUME NEW tx \in air, NEW ack \in BOOLEAN, NEW late \in 0..MaxLate, Answer(tx, ack, late)
        PROVE  stats'.allocation_failures = stats.allocation_failures
    BY <1>1, <2>7 DEF Answer, on_harq_feedback, Stats
  <2>8. ASSUME FinishAllocation \/ SendTtiRequest \/ UNCHANGED vars PROVE stats' = stats
    BY <2>8 DEF FinishAllocation, SendTtiRequest, vars
  <2> QED BY <1>2, <2>1, <2>2, <2>3, <2>4, <2>5, <2>6, <2>7, <2>8 DEF Next
<1>4. PICK d \in slot.decisions : Allocations(d) = {}
  BY <1>3
<1> DEFINE N == NumRbs[slot.cell_id]
           symbols == StartSymbol..(StartSymbol + NumSymbols - 1)
           required == MinRbs[slot.cell_id][ue[slot.cell_id][d.rnti].mcs][d.buffer_bytes]
<1>5. PICK k \in 0..N : Grid = symbols \X (0..(k - 1))
  BY DEF GridInv, GridPacked
<1>6. slot.cell_id \in Cells /\ d \in Decisions
  BY DEF GridInv, IInv, TypeOK, Slots
<1>7. N \in Nat /\ StartSymbol \in Nat /\ NumSymbols \in Nat \ {0}
  BY <1>6, EngineAssumption
<1>8. required \in 1..N
  <2>1. ue[slot.cell_id][d.rnti] \in UeContexts /\ d.buffer_bytes \in Bytes
    BY <1>6 DEF Decisions, GridInv, IInv, TypeOK
  <2> QED BY <1>6, <2>1, EngineAssumption DEF UeContexts
<1>9. \A n \in Nat \ {0} : Runs(n) = IF k + n <= N THEN {k} ELSE {}
  BY <1>5, <1>7, FindInPackedGrid DEF Runs
<1> HIDE DEF N, required
<1>10. ASSUME k < N PROVE FALSE
  <2> DEFINE m == IF k + required <= N THEN required ELSE N - k
             res == [start_rb |-> k, num_rbs |-> m,
                     start_symbol |-> StartSymbol, num_symbols |-> NumSymbols]
  <2>1. m \in 1..required /\ m \in Nat \ {0} /\ k + m <= N
    BY <1>7, <1>8, <1>10
  <2>2. m < required => ~(k + (m + 1) <= N) /\ m + 1 \in Nat \ {0}
    BY <1>7, <1>8, <1>10
  <2> HIDE DEF m
  <2>3. k \in Runs(m) /\ (m < required => Runs(m + 1) = {})
    BY <1>9, <2>1, <2>2
  <2>4. res \in Allocations(d)
    BY <2>1, <2>3 DEF Allocations, N, required
  <2> QED BY <1>4, <2>4
<1>11. k = N
  BY <1>7, <1>10
<1>12. StartSymbol \in symbols
  BY <1>7
<1> QED BY <1>5, <1>11, <1>12 DEF N

\* An allocation fails only when every block of the grid is in use, for every
\* size of the buffers, of the grid and of the allocations before it.
THEOREM AllocationFailsWhenFull == Spec => AllocationFailsOnlyWhenFull
<1>1. GridInv /\ [Next]_vars =>
        [stats'.allocation_failures > stats.allocation_failures =>
           \A rb \in 0..(NumRbs[slot.cell_id] - 1) : <<StartSymbol, rb>> \in Grid]_vars
  BY FailsOnlyWhenFull
<1> QED BY <1>1, InitGridInv, NextGridInv, PTL DEF Spec, AllocationFailsOnlyWhenFull

\* The blocks of a request are granted exclusively: the engine implements the
\* abstract allocator, for every order of the decisions and size of the grid, with
\* the grants empty when a behaviour begins.
THEOREM GrantsExclusive == Spec => BlocksGrantedOnce
<1>1. Init => Grants!Init
  <2> SUFFICES ASSUME Init PROVE Grants!Init
    OBVIOUS
  <2>1. PICK c \in Cells : slot = EmptySlot(c, StartTiming[c])
    BY DEF Init
  <2>2. IInv
    BY InitIInv
  <2>3. RequestResources = <<>>
    BY <2>1, <2>2, NothingAllocated DEF EmptySlot
  <2> QED BY <2>3 DEF Grants!Init
<1> QED BY <1>1, InitGridInv, NextGridInv, StepGrants, PTL
     DEF Spec, BlocksGrantedOnce, Grants!Spec

-----------------------------------------------------------------------------
(* From the request to the air.                                             *)

\* Every configuration the engine may be given has the same scheduling offset.
SameOffset ==
  \A a, b \in Configs : a.scheduling_offset_slots = b.scheduling_offset_slots

\* The slot being processed, counted from the first the PHY indicated.
Now == elapsed[slot.cell_id] - 1

\* A request is being made.
InAllocation == pc \in {"allocate", "build"}

\* A downlink transmission is on the air in the slot it is scheduled in, an uplink
\* one scheduling_offset_slots later.
Flies(tx) ==
  tx.on_air_at = tx.scheduled_at + (IF tx.is_downlink THEN 0 ELSE config.scheduling_offset_slots)

\* No UE has two places in the request being made.
OneEach ==
  /\ \A i, j \in DOMAIN slot.pdus : i # j => slot.pdus[i].rnti # slot.pdus[j].rnti
  /\ \A i, j \in DOMAIN slot.successful :
       i # j => slot.successful[i].decision.rnti # slot.successful[j].decision.rnti
  /\ \A i \in DOMAIN slot.pdus, j \in DOMAIN slot.successful :
       slot.pdus[i].rnti # slot.successful[j].decision.rnti
  /\ \A d \in slot.decisions :
       /\ \A i \in DOMAIN slot.pdus : slot.pdus[i].rnti # d.rnti
       /\ \A j \in DOMAIN slot.successful : slot.successful[j].decision.rnti # d.rnti
       /\ \A e \in slot.decisions : e.rnti = d.rnti => e = d

\* The PDUs built are for the slot and the direction being processed.
PdusOfSlot ==
  /\ pc # "build" => slot.pdus = <<>>
  /\ \A i \in DOMAIN slot.pdus :
       /\ slot.pdus[i].cell_id = slot.cell_id
       /\ slot.pdus[i].is_downlink = slot.is_downlink
       /\ slot.pdus[i].scheduled_at = Now
       /\ Flies(slot.pdus[i])

\* What is on the air was scheduled in a slot the PHY has indicated.
AirTimes == \A tx \in air : Flies(tx) /\ tx.scheduled_at < elapsed[tx.cell_id]

\* The transmissions of one slot and direction are apart.
AirApart ==
  \A x, y \in air :
    /\ x # y /\ x.cell_id = y.cell_id
    /\ x.is_downlink = y.is_downlink /\ x.scheduled_at = y.scheduled_at
    => x.rnti # y.rnti /\ Disjoint(x.resources, y.resources)

\* Of the slot being processed only a direction that is done is on the air.
SlotFresh ==
  InAllocation =>
    \A tx \in air : tx.cell_id = slot.cell_id /\ tx.scheduled_at = Now
                      => tx.is_downlink /\ ~slot.is_downlink

\* What holds of the request being made.
RequestInv == GridInv /\ OneEach /\ PdusOfSlot

\* The inductive invariant of AirDisjoint.
AirInv == RequestInv /\ AirTimes /\ AirApart /\ SlotFresh

-----------------------------------------------------------------------------
(* What the steps do to the slot and to the air.                            *)

\* update_config leaves the offset as it is.
LEMMA OffsetFixed ==
  ASSUME SameOffset, IInv, IInv'
  PROVE  /\ config'.scheduling_offset_slots = config.scheduling_offset_slots
         /\ config.scheduling_offset_slots \in Nat
<1>1. config \in Configs /\ config' \in Configs
  BY DEF IInv, TypeOK
<1>2. config \in EngineConfigs
  BY <1>1, EngineAssumption
<1> QED BY <1>1, <1>2 DEF SameOffset, EngineConfigs

\* An eligible UE gets one decision.
LEMMA DecisionOfUe ==
  ASSUME TypeOK, UesIdle, NEW c \in Cells, NEW dl \in BOOLEAN, NEW r \in get_eligible_ues(c, dl)
  PROVE  \E d : d.rnti = r /\ DecisionsFor(c, r, dl) = {d}
<1> DEFINE buffer == IF dl THEN ue[c][r].dl_bytes
                     ELSE IF ue[c][r].ul_bytes > MinGrant THEN ue[c][r].ul_bytes
                     ELSE MinGrant
<1>1. r \in Rntis
  BY DEF get_eligible_ues, TypeOK
<1>2. Harq(ue[c][r], dl) = NewHarqEntity
  BY <1>1 DEF UesIdle
<1>3. has_traffic(ue[c][r], dl)
  BY <1>2, NewHarqEntityIsInert DEF get_eligible_ues
<1>4. {h \in get_retx_process(NewHarqEntity) : config.harq_retx_priority} = {}
  BY NewHarqEntityIsInert
<1>5. {g \in get_free_process(NewHarqEntity) : has_traffic(ue[c][r], dl)} = {0}
  BY <1>3, NewHarqEntityIsInert
<1>6. DecisionsFor(c, r, dl) =
        {[rnti |-> r, type |-> "NewTx", harq_id |-> h, buffer_bytes |-> buffer] : h \in {0}}
  BY <1>2, <1>4, <1>5 DEF DecisionsFor
<1> DEFINE d == [rnti |-> r, type |-> "NewTx", harq_id |-> 0, buffer_bytes |-> buffer]
<1> HIDE DEF buffer
<1>7. DecisionsFor(c, r, dl) = {d} /\ d.rnti = r
  BY <1>6
<1> HIDE DEF d
<1> QED BY <1>7

\* schedule_dl and schedule_ul decide once for a UE.
LEMMA OneDecisionEach ==
  ASSUME TypeOK, UesIdle, NEW c \in Cells, NEW dl \in BOOLEAN
  PROVE  \A d, e \in DecisionsOf(c, dl) : e.rnti = d.rnti => e = d
<1> SUFFICES ASSUME NEW r \in get_eligible_ues(c, dl), NEW d \in DecisionsFor(c, r, dl),
                    NEW q \in get_eligible_ues(c, dl), NEW e \in DecisionsFor(c, q, dl),
                    e.rnti = d.rnti
             PROVE  e = d
  BY DEF DecisionsOf
<1>1. PICK x : x.rnti = r /\ DecisionsFor(c, r, dl) = {x}
  BY DecisionOfUe, Zenon
<1>2. PICK y : y.rnti = q /\ DecisionsFor(c, q, dl) = {y}
  BY DecisionOfUe, Zenon
<1>3. d = x /\ e = y /\ r = q
  BY <1>1, <1>2
<1> QED BY <1>1, <1>2, <1>3

\* One allocation: the decision is taken, and its resource is appended or counted
\* as a failure.
LEMMA AllocateEffect ==
  ASSUME IInv, NEW d \in slot.decisions, AllocateNext(d)
  PROVE  /\ pc = "allocate" /\ slot'.decisions = slot.decisions \ {d}
         /\ slot'.cell_id = slot.cell_id /\ slot'.timing = slot.timing
         /\ slot'.is_downlink = slot.is_downlink /\ slot'.pdus = slot.pdus
         /\ \/ slot'.successful = slot.successful
               /\ stats'.allocation_failures > stats.allocation_failures
            \/ \E res \in Resources :
                 slot'.successful = Append(slot.successful, [decision |-> d, resources |-> res])
         /\ UNCHANGED <<pc, pending, engineVars, phyVars>>
<1>1. slot \in Slots /\ pc = "allocate" /\ UNCHANGED <<pc, pending, engineVars, phyVars>>
  BY DEF IInv, TypeOK, AllocateNext
<1>2. CASE /\ slot' = [slot EXCEPT !.decisions = @ \ {d}]
           /\ stats' = [stats EXCEPT !.allocation_failures = @ + 1]
  <2>1. stats.allocation_failures \in Nat /\ stats \in Stats
    BY DEF IInv, TypeOK, Stats
  <2>2. stats'.allocation_failures = stats.allocation_failures + 1
    BY <1>2, <2>1 DEF Stats
  <2> QED BY <1>1, <1>2, <2>1, <2>2 DEF Slots
<1>3. ASSUME NEW res \in Allocations(d),
             slot' = [slot EXCEPT
               !.decisions  = @ \ {d},
               !.successful = Append(@, [decision |-> d, resources |-> res]),
               !.dl_grid    = IF slot.is_downlink THEN allocate(@, res) ELSE @,
               !.ul_grid    = IF slot.is_downlink THEN @ ELSE allocate(@, res)]
      PROVE  /\ slot'.decisions = slot.decisions \ {d}
             /\ slot'.cell_id = slot.cell_id /\ slot'.timing = slot.timing
             /\ slot'.is_downlink = slot.is_downlink /\ slot'.pdus = slot.pdus
             /\ \E r \in Resources :
                  slot'.successful = Append(slot.successful, [decision |-> d, resources |-> r])
  <2>1. res \in Resources
    BY AllocationsType DEF IInv
  <2> QED BY <1>1, <1>3, <2>1 DEF Slots
<1> QED BY <1>1, <1>2, <1>3 DEF AllocateNext

\* The decisions left at the limit of the TTI are dropped.
LEMMA FinishEffect ==
  ASSUME IInv, FinishAllocation, slot.successful # <<>>
  PROVE  /\ pc' = "build" /\ slot'.decisions = {}
         /\ slot'.cell_id = slot.cell_id /\ slot'.timing = slot.timing
         /\ slot'.is_downlink = slot.is_downlink /\ slot'.pdus = slot.pdus
         /\ slot'.successful = slot.successful
BY DEF FinishAllocation, IInv, TypeOK, Slots

\* One PDU is built from the head of the successful allocations.
LEMMA BuildEffect ==
  ASSUME IInv, BuildPdu
  PROVE  /\ pc = "build" /\ slot.successful # <<>>
         /\ slot'.decisions = slot.decisions
         /\ slot'.cell_id = slot.cell_id /\ slot'.timing = slot.timing
         /\ slot'.is_downlink = slot.is_downlink
         /\ slot'.successful = Tail(slot.successful)
         /\ \E pdu \in Transmissions :
              /\ slot'.pdus = Append(slot.pdus, pdu)
              /\ pdu.rnti = Head(slot.successful).decision.rnti
              /\ pdu.harq_id = 0
              /\ pdu.cell_id = slot.cell_id /\ pdu.is_downlink = slot.is_downlink
              /\ pdu.scheduled_at = Now /\ Flies(pdu)
              /\ pdu.due_at = pdu.on_air_at + (IF slot.is_downlink THEN K1 ELSE UlCrcDelay)
         /\ UNCHANGED <<pc, engineVars, phyVars>>
<1> DEFINE d   == Head(slot.successful).decision
           c   == slot.cell_id
           n   == elapsed[c] - 1
           at  == IF slot.is_downlink THEN n ELSE n + config.scheduling_offset_slots
           pdu == [cell_id |-> c, rnti |-> d.rnti, ue_id |-> ue[c][d.rnti].ue_id,
                   harq_id |-> d.harq_id, is_downlink |-> slot.is_downlink,
                   resources |-> Head(slot.successful).resources,
                   scheduled_at |-> n, on_air_at |-> at,
                   due_at |-> at + (IF slot.is_downlink THEN K1 ELSE UlCrcDelay)]
<1>1. slot \in Slots /\ slot.successful # <<>> /\ pc = "build"
      /\ UNCHANGED <<pc, engineVars, phyVars>>
  BY DEF IInv, TypeOK, BuildPdu
<1>2. slot' = [slot EXCEPT !.successful = Tail(slot.successful), !.pdus = Append(slot.pdus, pdu)]
  BY DEF BuildPdu
<1>3. /\ slot'.cell_id = slot.cell_id /\ slot'.is_downlink = slot.is_downlink
      /\ slot'.decisions = slot.decisions /\ slot'.timing = slot.timing
      /\ slot'.successful = Tail(slot.successful) /\ slot'.pdus = Append(slot.pdus, pdu)
  <2> HIDE DEF pdu
  <2> QED BY <1>1, <1>2 DEF Slots
<1>4. pdu \in Transmissions /\ pdu.harq_id = 0
  <2>1. SlotOK(slot')
    BY BuildStep DEF IInv
  <2>2. slot'.pdus \in Seq(Transmissions) /\ slot.pdus \in Seq(Transmissions)
    BY <1>1, <2>1 DEF SlotOK, Slots
  <2> HIDE DEF pdu
  <2>3. /\ Len(slot.pdus) \in Nat /\ Len(slot'.pdus) = Len(slot.pdus) + 1
        /\ slot'.pdus[Len(slot.pdus) + 1] = pdu
        /\ DOMAIN slot'.pdus = 1..(Len(slot.pdus) + 1)
    BY <1>3, <2>2, LenProperties, AppendProperties
  <2>4. Len(slot.pdus) + 1 \in DOMAIN slot'.pdus
    BY <2>3
  <2> QED BY <2>1, <2>2, <2>3, <2>4, ElementOfSeq DEF SlotOK
<1>5. slot.is_downlink \in BOOLEAN /\ n \in Int /\ config.scheduling_offset_slots \in Nat
  <2>1. elapsed[c] \in Nat /\ config \in EngineConfigs
    BY <1>1, EngineAssumption DEF IInv, TypeOK, Slots
  <2> QED BY <1>1, <2>1 DEF Slots, EngineConfigs
<1>6. pdu.scheduled_at = Now /\ pdu.on_air_at = at
  BY DEF Now
<1>7. Flies(pdu)
  BY <1>5 DEF Flies
<1> QED BY <1>1, <1>3, <1>4, <1>6, <1>7

-----------------------------------------------------------------------------
(* The request being made.                                                  *)

\* A request with no resource yet.
LEMMA NothingRequested ==
  ASSUME slot.pdus = <<>>, slot.successful = <<>>,
         \A d, e \in slot.decisions : e.rnti = d.rnti => e = d
  PROVE  OneEach /\ PdusOfSlot
<1>1. DOMAIN <<>> = {}
  OBVIOUS
<1> QED BY <1>1 DEF OneEach, PdusOfSlot

\* The same of the next state.
LEMMA NothingRequestedAfter ==
  ASSUME slot'.pdus = <<>>, slot'.successful = <<>>,
         \A d, e \in slot'.decisions : e.rnti = d.rnti => e = d
  PROVE  OneEach' /\ PdusOfSlot'
<1>1. DOMAIN <<>> = {}
  OBVIOUS
<1> QED BY <1>1 DEF OneEach, PdusOfSlot

\* The uplink, and the end of a slot, start from an empty request.
LEMMA NextDirectionRequest ==
  ASSUME IInv, NextDirection
  PROVE  OneEach' /\ PdusOfSlot'
<1>1. slot.cell_id \in Cells
  BY DEF IInv, TypeOK, Slots
<1>2. \A d, e \in slot'.decisions : e.rnti = d.rnti => e = d
  <2>1. \A d, e \in DecisionsOf(slot.cell_id, FALSE) : e.rnti = d.rnti => e = d
    BY <1>1, OneDecisionEach DEF IInv
  <2>2. slot'.decisions = DecisionsOf(slot.cell_id, FALSE) \/ slot'.decisions = {}
    <3>1. CASE slot.is_downlink
      <4> DEFINE D == IF capability[slot.cell_id].ul THEN DecisionsOf(slot.cell_id, FALSE) ELSE {}
      <4>1. slot' = [EmptySlot(slot.cell_id, slot.timing) EXCEPT
                       !.is_downlink = FALSE, !.decisions = D]
        BY <3>1 DEF NextDirection
      <4>2. D = DecisionsOf(slot.cell_id, FALSE) \/ D = {}
        OBVIOUS
      <4> HIDE DEF D
      <4> QED BY <4>1, <4>2 DEF EmptySlot
    <3>2. CASE ~slot.is_downlink
      <4>1. slot' = EmptySlot(slot.cell_id, slot.timing)
        BY <3>2 DEF NextDirection
      <4> QED BY <4>1 DEF EmptySlot
    <3> QED BY <3>1, <3>2
  <2> QED BY <2>1, <2>2, ZenonT(20)
<1> QED BY <1>2, NextDirectionEmpties, NothingRequestedAfter

\* An allocation keeps one place for each UE.
LEMMA AllocateRequest ==
  ASSUME RequestInv, NEW d \in slot.decisions, AllocateNext(d)
  PROVE  OneEach'
<1>1. IInv
  BY DEF RequestInv, GridInv
<1>2. CASE slot'.successful = slot.successful
  BY <1>1, <1>2, AllocateEffect DEF RequestInv, OneEach
<1>3. ASSUME NEW res \in Resources,
             slot'.successful = Append(slot.successful, [decision |-> d, resources |-> res])
      PROVE  OneEach'
  <2> DEFINE T == [decision : Decisions, resources : Resources]
             new == [decision |-> d, resources |-> res]
             n == Len(slot.successful)
  <2>1. slot'.decisions = slot.decisions \ {d} /\ slot'.pdus = slot.pdus
    BY <1>1, AllocateEffect
  <2>2. d \in Decisions /\ slot.successful \in Seq(T)
    BY <1>1 DEF IInv, TypeOK, Slots
  <2>3. new \in T /\ new.decision = d
    BY <2>2
  <2> HIDE DEF T, new
  <2>4. /\ n \in Nat /\ DOMAIN slot.successful = 1..n /\ DOMAIN slot'.successful = 1..(n + 1)
        /\ \A i \in 1..n : slot'.successful[i] = slot.successful[i]
        /\ slot'.successful[n + 1] = new
    BY <1>3, <2>2, <2>3, AppendProperties, LenProperties DEF new
  <2> HIDE DEF n
  <2>5. \A i \in 1..(n + 1) : i \in 1..n \/ i = n + 1
    BY <2>4
  <2> DEFINE who(i) == slot'.successful[i].decision.rnti
  <2>6. /\ who(n + 1) = d.rnti
        /\ \A i \in 1..n : who(i) = slot.successful[i].decision.rnti /\ who(i) # d.rnti
    BY <2>3, <2>4 DEF RequestInv, OneEach
  <2>7. \A i, j \in 1..(n + 1) : i # j => who(i) # who(j)
    <3> SUFFICES ASSUME NEW i \in 1..(n + 1), NEW j \in 1..(n + 1), i # j
                 PROVE  who(i) # who(j)
      OBVIOUS
    <3>1. CASE i \in 1..n /\ j \in 1..n
      BY <2>4, <2>6, <3>1, SMTT(20) DEF RequestInv, OneEach
    <3>2. CASE i = n + 1 \/ j = n + 1
      BY <2>5, <2>6, <3>2
    <3> QED BY <2>5, <3>1, <3>2
  <2>8. \A i \in DOMAIN slot.pdus, j \in 1..(n + 1) : slot.pdus[i].rnti # who(j)
    BY <2>4, <2>5, <2>6 DEF RequestInv, OneEach
  <2>9. \A e \in slot'.decisions, j \in 1..(n + 1) : who(j) # e.rnti
    BY <2>1, <2>4, <2>5, <2>6 DEF RequestInv, OneEach
  <2> QED BY <2>1, <2>4, <2>7, <2>8, <2>9 DEF RequestInv, OneEach
<1> QED BY <1>1, <1>2, <1>3, AllocateEffect

\* Building a PDU moves a UE from the allocations to the PDUs.
LEMMA BuildRequest ==
  ASSUME RequestInv, BuildPdu
  PROVE  OneEach' /\ PdusOfSlot'
<1>1. IInv
  BY DEF RequestInv, GridInv
<1>2. /\ pc' = pc /\ pc = "build" /\ slot'.decisions = slot.decisions
      /\ slot'.cell_id = slot.cell_id /\ slot'.is_downlink = slot.is_downlink
      /\ slot'.successful = Tail(slot.successful) /\ slot.successful # <<>>
      /\ elapsed' = elapsed /\ config' = config
  BY <1>1, BuildEffect DEF engineVars, phyVars
<1>3. PICK pdu \in Transmissions :
        /\ slot'.pdus = Append(slot.pdus, pdu)
        /\ pdu.rnti = Head(slot.successful).decision.rnti
        /\ pdu.cell_id = slot.cell_id /\ pdu.is_downlink = slot.is_downlink
        /\ pdu.scheduled_at = Now /\ Flies(pdu)
  BY <1>1, BuildEffect
<1> DEFINE T == [decision : Decisions, resources : Resources]
           n == Len(slot.pdus)
           m == Len(slot.successful)
           to(i) == slot'.pdus[i].rnti
           who(i) == slot.successful[i].decision.rnti
<1>4. slot.pdus \in Seq(Transmissions) /\ slot.successful \in Seq(T)
  BY <1>1 DEF IInv, TypeOK, Slots
<1>5. /\ n \in Nat /\ DOMAIN slot.pdus = 1..n /\ DOMAIN slot'.pdus = 1..(n + 1)
      /\ \A i \in 1..n : slot'.pdus[i] = slot.pdus[i]
      /\ slot'.pdus[n + 1] = pdu
  BY <1>3, <1>4, AppendProperties, LenProperties
<1>6. /\ m \in Nat \ {0} /\ DOMAIN slot.successful = 1..m /\ DOMAIN slot'.successful = 1..(m - 1)
      /\ \A i \in 1..(m - 1) : slot'.successful[i] = slot.successful[i + 1]
      /\ Head(slot.successful) = slot.successful[1]
  BY <1>2, <1>4, HeadTailProperties, LenProperties, EmptySeq
<1> HIDE DEF T, n, m
<1>7. /\ 1 \in 1..m /\ \A i \in 1..(m - 1) : i + 1 \in 1..m /\ i + 1 # 1
      /\ \A i, j \in 1..(m - 1) : i # j => i + 1 # j + 1
      /\ \A i \in 1..(n + 1) : i \in 1..n \/ i = n + 1
  BY <1>5, <1>6
<1>8. /\ to(n + 1) = who(1)
      /\ \A i \in 1..n : to(i) = slot.pdus[i].rnti
      /\ \A i \in 1..(m - 1) : slot'.successful[i].decision.rnti = who(i + 1)
  BY <1>3, <1>5, <1>6
<1>9. /\ \A i, j \in 1..n : i # j => to(i) # to(j)
      /\ \A i, j \in 1..m : i # j => who(i) # who(j)
      /\ \A i \in 1..n, j \in 1..m : to(i) # who(j)
      /\ \A d \in slot.decisions : /\ \A i \in 1..n : to(i) # d.rnti
                                   /\ \A j \in 1..m : who(j) # d.rnti
                                   /\ \A e \in slot.decisions : e.rnti = d.rnti => e = d
  <2>1. OneEach
    BY DEF RequestInv
  <2>2. \A i, j \in 1..n : i # j => to(i) # to(j)
    <3> SUFFICES ASSUME NEW i \in 1..n, NEW j \in 1..n, i # j PROVE to(i) # to(j)
      OBVIOUS
    <3>1. i \in DOMAIN slot.pdus /\ j \in DOMAIN slot.pdus
      BY <1>5
    <3>2. slot.pdus[i].rnti # slot.pdus[j].rnti
      BY <2>1, <3>1 DEF OneEach
    <3> HIDE DEF to
    <3> QED BY <1>8, <3>2
  <2>3. \A i, j \in 1..m : i # j => who(i) # who(j)
    BY <1>6, <2>1 DEF OneEach
  <2>4. \A i \in 1..n, j \in 1..m : to(i) # who(j)
    <3> SUFFICES ASSUME NEW i \in 1..n, NEW j \in 1..m PROVE to(i) # who(j)
      OBVIOUS
    <3>1. i \in DOMAIN slot.pdus /\ j \in DOMAIN slot.successful
      BY <1>5, <1>6
    <3>2. slot.pdus[i].rnti # who(j)
      BY <2>1, <3>1 DEF OneEach
    <3> HIDE DEF to, who
    <3> QED BY <1>8, <3>2
  <2>5. \A d \in slot.decisions : \A i \in 1..n : to(i) # d.rnti
    BY <1>5, <1>8, <2>1 DEF OneEach
  <2>6. \A d \in slot.decisions : \A j \in 1..m : who(j) # d.rnti
    BY <1>6, <2>1 DEF OneEach
  <2>7. \A d \in slot.decisions, e \in slot.decisions : e.rnti = d.rnti => e = d
    BY <2>1 DEF OneEach
  <2> QED BY <2>2, <2>3, <2>4, <2>5, <2>6, <2>7
<1> HIDE DEF to, who
<1>10. \A i, j \in 1..(n + 1) : i # j => to(i) # to(j)
  BY <1>7, <1>8, <1>9
<1>11. \A i, j \in 1..(m - 1) : i # j => who(i + 1) # who(j + 1)
  BY <1>7, <1>9
<1>12. \A i \in 1..(n + 1), j \in 1..(m - 1) : to(i) # who(j + 1)
  BY <1>7, <1>8, <1>9
<1>13. \A d \in slot.decisions : /\ \A i \in 1..(n + 1) : to(i) # d.rnti
                                /\ \A j \in 1..(m - 1) : who(j + 1) # d.rnti
  BY <1>7, <1>8, <1>9
<1>14. OneEach'
  BY <1>2, <1>5, <1>6, <1>8, <1>9, <1>10, <1>11, <1>12, <1>13, SMTT(20) DEF OneEach, to
<1>15. PdusOfSlot'
  <2>1. ASSUME NEW i \in 1..(n + 1)
        PROVE  /\ slot'.pdus[i].cell_id = slot'.cell_id
               /\ slot'.pdus[i].is_downlink = slot'.is_downlink
               /\ slot'.pdus[i].scheduled_at = Now' /\ Flies(slot.pdus[i])'
    <3>1. Now' = Now
      BY <1>2 DEF Now
    <3>2. CASE i \in 1..n
      <4>1. i \in DOMAIN slot.pdus /\ slot'.pdus[i] = slot.pdus[i]
        BY <1>5, <3>2
      <4> QED BY <1>2, <3>1, <4>1 DEF RequestInv, PdusOfSlot, Flies
    <3>3. CASE i = n + 1
      BY <1>2, <1>3, <1>5, <3>1, <3>3 DEF Flies
    <3> QED BY <1>7, <3>2, <3>3
  <2> QED BY <1>2, <1>5, <2>1 DEF PdusOfSlot
<1> QED BY <1>14, <1>15

-----------------------------------------------------------------------------
(* The steps.                                                               *)

\* No request is being made when the engine is created.
LEMMA InitRequestInv == Init => RequestInv
<1> SUFFICES ASSUME Init PROVE RequestInv
  OBVIOUS
<1>1. PICK c \in Cells : slot = EmptySlot(c, StartTiming[c])
  BY DEF Init
<1>2. slot.pdus = <<>> /\ slot.successful = <<>> /\ slot.decisions = {}
  BY <1>1 DEF EmptySlot
<1> QED BY <1>2, InitGridInv, NothingRequested DEF RequestInv

\* A step that leaves the slot alone.
LEMMA RequestKept ==
  ASSUME RequestInv, GridInv', slot' = slot,
         pc' # pc => slot.pdus = <<>>,
         slot.pdus = <<>> \/ (elapsed' = elapsed /\ config' = config)
  PROVE  RequestInv'
<1>1. OneEach'
  BY DEF RequestInv, OneEach
<1>2. DOMAIN <<>> = {}
  OBVIOUS
<1>3. PdusOfSlot'
  BY <1>2 DEF RequestInv, PdusOfSlot, Now, Flies
<1> QED BY <1>1, <1>3 DEF RequestInv

\* Every step keeps the request in order.
LEMMA NextRequestInv == RequestInv /\ [Next]_vars => RequestInv'
<1> SUFFICES ASSUME RequestInv, [Next]_vars PROVE RequestInv'
  OBVIOUS
<1>0. GridInv' /\ IInv /\ IInv'
  BY NextGridInv DEF RequestInv, GridInv
<1>1. ASSUME MacEvent PROVE RequestInv'
  <2>1. slot' = slot /\ elapsed' = elapsed /\ config' = config /\ pc' = pc
    BY <1>1 DEF MacEvent, add_cell, remove_cell, on_ue_config, on_ue_release, on_dl_data,
              on_bsr, on_sr, on_csi_update, StoreReport, slotVars, phyVars
  <2> QED BY <1>0, <2>1, RequestKept
<1>2. ASSUME NEW new \in Configs, update_config(new) PROVE RequestInv'
  <2>1. slot' = slot /\ pc = "idle" /\ pc' = pc
    BY <1>2 DEF update_config, Call, slotVars
  <2>2. slot.pdus = <<>>
    BY <2>1 DEF RequestInv, PdusOfSlot
  <2> QED BY <1>0, <2>1, <2>2, RequestKept
<1>3. ASSUME NEW c \in Cells, on_slot_indication(c) PROVE RequestInv'
  <2>1. CASE c \notin cells
    <3>1. slot' = slot /\ pc = "idle" /\ pc' = pc
      BY <1>3, <2>1 DEF on_slot_indication, slotVars
    <3>2. slot.pdus = <<>>
      BY <3>1 DEF RequestInv, PdusOfSlot
    <3> QED BY <1>0, <3>1, <3>2, RequestKept
  <2>2. CASE c \in cells
    <3> DEFINE D == IF SlotCapability(c, clock[c]).dl THEN DecisionsOf(c, TRUE) ELSE {}
    <3>1. slot' = [EmptySlot(c, clock[c]) EXCEPT !.decisions = D]
      BY <1>3, <2>2 DEF on_slot_indication
    <3>2. \A d, e \in D : e.rnti = d.rnti => e = d
      BY <1>0, OneDecisionEach DEF IInv
    <3> HIDE DEF D
    <3>3. slot'.pdus = <<>> /\ slot'.successful = <<>> /\ slot'.decisions = D
      BY <3>1 DEF EmptySlot
    <3> QED BY <1>0, <3>2, <3>3, NothingRequestedAfter DEF RequestInv
  <2> QED BY <2>1, <2>2
<1>4. ASSUME NEW d \in slot.decisions, AllocateNext(d) PROVE RequestInv'
  <2>1. slot'.pdus = slot.pdus /\ pc = "allocate"
    BY <1>0, <1>4, AllocateEffect
  <2>2. slot.pdus = <<>> /\ DOMAIN <<>> = {}
    BY <2>1 DEF RequestInv, PdusOfSlot
  <2>3. PdusOfSlot'
    BY <2>1, <2>2 DEF PdusOfSlot
  <2> QED BY <1>0, <1>4, <2>3, AllocateRequest DEF RequestInv
<1>5. ASSUME FinishAllocation PROVE RequestInv'
  <2>1. CASE slot.successful = <<>>
    BY <1>0, <1>5, <2>1, NextDirectionRequest DEF FinishAllocation, RequestInv
  <2>2. CASE slot.successful # <<>>
    <3>1. /\ pc' = "build" /\ slot'.decisions = {}
          /\ slot'.cell_id = slot.cell_id /\ slot'.is_downlink = slot.is_downlink
          /\ slot'.pdus = slot.pdus /\ slot'.successful = slot.successful
      BY <1>0, <1>5, <2>2, FinishEffect
    <3>2. elapsed' = elapsed /\ config' = config
      BY <1>5 DEF FinishAllocation, engineVars, phyVars
    <3>3. OneEach'
      BY <3>1 DEF RequestInv, OneEach
    <3>4. PdusOfSlot'
      BY <3>1, <3>2 DEF RequestInv, PdusOfSlot, Now, Flies
    <3> QED BY <1>0, <3>3, <3>4 DEF RequestInv
  <2> QED BY <2>1, <2>2
<1>6. ASSUME BuildPdu PROVE RequestInv'
  BY <1>0, <1>6, BuildRequest DEF RequestInv
<1>7. ASSUME SendTtiRequest PROVE RequestInv'
  BY <1>0, <1>7, NextDirectionRequest DEF SendTtiRequest, RequestInv
<1>8. ASSUME NEW outcome \in RelockOutcomes, EndSlot(outcome) PROVE RequestInv'
  <2>1. slot' = slot /\ pc = "slot_end" /\ pc' \in {"idle", "hung"}
    BY <1>8 DEF EndSlot
  <2>2. slot.pdus = <<>>
    BY <2>1 DEF RequestInv, PdusOfSlot
  <2> QED BY <1>0, <2>1, <2>2, RequestKept
<1>9. ASSUME NEW tx \in air, NEW ack \in BOOLEAN, NEW late \in 0..MaxLate, Answer(tx, ack, late)
      PROVE  RequestInv'
  <2>1. slot' = slot /\ elapsed' = elapsed /\ config' = config /\ pc' = pc
    BY <1>9 DEF Answer, on_harq_feedback, slotVars
  <2> QED BY <1>0, <2>1, RequestKept
<1>10. ASSUME UNCHANGED vars PROVE RequestInv'
  <2>1. slot' = slot /\ elapsed' = elapsed /\ config' = config /\ pc' = pc
    BY <1>10 DEF vars
  <2> QED BY <1>0, <2>1, RequestKept
<1> QED BY <1>1, <1>2, <1>3, <1>4, <1>5, <1>6, <1>7, <1>8, <1>9, <1>10 DEF Next

-----------------------------------------------------------------------------
(* What is on the air.                                                      *)

\* Nothing is on the air when the engine is created.
LEMMA InitAirInv == Init => AirInv
BY InitRequestInv DEF Init, AirInv, AirTimes, AirApart, SlotFresh, InAllocation

\* A step that leaves the slot alone, and of the air takes transmissions away.
LEMMA AirKept ==
  ASSUME AirInv, RequestInv', SameOffset, slot' = slot, elapsed' = elapsed,
         air' \subseteq air, pc' # pc => pc' \notin {"allocate", "build"}
  PROVE  AirInv'
<1>1. config'.scheduling_offset_slots = config.scheduling_offset_slots
  BY OffsetFixed DEF AirInv, RequestInv, GridInv
<1>2. AirTimes' /\ AirApart'
  BY <1>1 DEF AirInv, AirTimes, AirApart, Flies
<1>3. SlotFresh'
  BY DEF AirInv, SlotFresh, InAllocation, Now
<1> QED BY <1>2, <1>3 DEF AirInv

\* A step of the allocation of a direction.
LEMMA AirInAllocation ==
  ASSUME AirInv, RequestInv', InAllocation,
         slot'.cell_id = slot.cell_id, slot'.is_downlink = slot.is_downlink,
         UNCHANGED <<elapsed, air, config>>
  PROVE  AirInv'
<1>1. AirTimes' /\ AirApart'
  BY DEF AirInv, AirTimes, AirApart, Flies
<1>2. SlotFresh'
  BY DEF AirInv, SlotFresh, Now, InAllocation
<1> QED BY <1>1, <1>2 DEF AirInv

\* A new slot is not on the air yet.
LEMMA AirIndication ==
  ASSUME AirInv, RequestInv', SameOffset, NEW c \in Cells, on_slot_indication(c)
  PROVE  AirInv'
<1>1. IInv /\ IInv'
  BY DEF AirInv, RequestInv, GridInv
<1>2. config' = config /\ elapsed' = [elapsed EXCEPT ![c] = elapsed[c] + 1] /\ air' \subseteq air
      /\ pc = "idle"
  BY DEF on_slot_indication
<1>3. \A d \in Cells : elapsed[d] \in Nat
  BY <1>1 DEF IInv, TypeOK
<1>4. \A tx \in air : tx.cell_id \in Cells /\ tx.scheduled_at \in Nat
  BY <1>1 DEF IInv, TypeOK, Transmissions
<1>5. \A d \in Cells : elapsed'[d] >= elapsed[d] /\ elapsed'[d] \in Nat
  BY <1>2, <1>3, <1>1 DEF IInv, TypeOK
<1>6. AirTimes' /\ AirApart'
  <2>1. AirApart'
    BY <1>2 DEF AirInv, AirApart
  <2>2. \A tx \in air : tx.scheduled_at < elapsed'[tx.cell_id]
    BY <1>3, <1>4, <1>5 DEF AirInv, AirTimes
  <2> QED BY <1>2, <2>1, <2>2 DEF AirInv, AirTimes, Flies
<1>7. CASE c \notin cells
  <2>1. slot' = slot /\ pc' = "idle"
    BY <1>2, <1>7 DEF on_slot_indication, slotVars
  <2> QED BY <1>6, <2>1 DEF AirInv, SlotFresh, InAllocation
<1>8. CASE c \in cells
  <2>1. slot'.cell_id = c
    BY <1>8 DEF on_slot_indication, EmptySlot
  <2>2. SlotFresh'
    <3>1. Now' = elapsed[c]
      BY <1>1, <1>2, <1>3, <2>1 DEF Now, IInv, TypeOK
    <3>2. \A tx \in air' : tx.cell_id = c => tx.scheduled_at < elapsed[c] /\ tx.scheduled_at \in Nat
      BY <1>2, <1>4 DEF AirInv, AirTimes
    <3> QED BY <1>3, <2>1, <3>1, <3>2 DEF SlotFresh
  <2> QED BY <1>6, <2>2 DEF AirInv
<1> QED BY <1>7, <1>8

\* The PDUs of the request join the air.
LEMMA AirSend ==
  ASSUME AirInv, RequestInv', SendTtiRequest
  PROVE  AirInv'
<1> DEFINE sent == {slot.pdus[i] : i \in DOMAIN slot.pdus}
<1>1. IInv /\ IInv'
  BY DEF AirInv, RequestInv, GridInv
<1>2. /\ pc = "build" /\ slot.successful = <<>> /\ NextDirection
      /\ air' = air \cup sent /\ elapsed' = elapsed /\ config' = config
  BY DEF SendTtiRequest, engineVars
<1>4. slot.cell_id \in Cells /\ elapsed[slot.cell_id] \in Nat /\ slot.is_downlink \in BOOLEAN
  BY <1>1 DEF IInv, TypeOK, Slots
<1>5. \A i \in DOMAIN slot.pdus :
        /\ slot.pdus[i].cell_id = slot.cell_id
        /\ slot.pdus[i].is_downlink = slot.is_downlink
        /\ slot.pdus[i].scheduled_at = Now
        /\ Flies(slot.pdus[i])
  BY DEF AirInv, RequestInv, PdusOfSlot
<1>6. \A tx \in sent : /\ tx.cell_id = slot.cell_id /\ tx.is_downlink = slot.is_downlink
                       /\ tx.scheduled_at = Now /\ Flies(tx)
  BY <1>5
<1>7. \A i, j \in DOMAIN slot.pdus : i # j =>
        /\ slot.pdus[i].rnti # slot.pdus[j].rnti
        /\ Disjoint(slot.pdus[i].resources, slot.pdus[j].resources)
  <2>1. ResourcesOf(slot.successful) = <<>>
    BY <1>2 DEF ResourcesOf
  <2>2. RequestResources = ResourcesOf(slot.pdus)
    BY <1>1, <2>1, ListTypes, ConcatEmptySeq DEF RequestResources
  <2>3. \A i, j \in DOMAIN slot.pdus :
          i # j => Disjoint(slot.pdus[i].resources, slot.pdus[j].resources)
    BY <2>2 DEF AirInv, RequestInv, GridInv, RequestDisjoint, ResourcesOf
  <2> QED BY <2>3 DEF AirInv, RequestInv, OneEach
<1>8. \A x, y \in sent : x # y => x.rnti # y.rnti /\ Disjoint(x.resources, y.resources)
  BY <1>7
<1>9. \A tx \in air : tx.cell_id = slot.cell_id /\ tx.scheduled_at = Now
                       => tx.is_downlink /\ ~slot.is_downlink
  BY <1>2 DEF AirInv, SlotFresh, InAllocation
<1> HIDE DEF sent
<1>10. AirTimes'
  <2>1. \A tx \in air : Flies(tx)' /\ tx.scheduled_at < elapsed'[tx.cell_id]
    BY <1>2 DEF AirInv, AirTimes, Flies
  <2>2. \A tx \in sent : Flies(tx)' /\ tx.scheduled_at < elapsed'[tx.cell_id]
    BY <1>2, <1>4, <1>6 DEF Flies, Now
  <2> QED BY <1>2, <2>1, <2>2 DEF AirTimes
<1>11. AirApart'
  <2> SUFFICES ASSUME NEW x \in air', NEW y \in air', x # y, x.cell_id = y.cell_id,
                      x.is_downlink = y.is_downlink, x.scheduled_at = y.scheduled_at
               PROVE  x.rnti # y.rnti /\ Disjoint(x.resources, y.resources)
    BY DEF AirApart
  <2>1. CASE x \in air /\ y \in air
    BY <2>1 DEF AirInv, AirApart
  <2>2. CASE x \in sent /\ y \in sent
    BY <1>8, <2>2
  <2>3. CASE (x \in air /\ y \in sent) \/ (x \in sent /\ y \in air)
    BY <1>6, <1>9, <2>3
  <2> QED BY <1>2, <2>1, <2>2, <2>3
<1>12. SlotFresh'
  <2>1. CASE slot.is_downlink
    <3>1. slot'.cell_id = slot.cell_id /\ ~slot'.is_downlink
      BY <1>2, <2>1 DEF NextDirection, EmptySlot
    <3>2. \A tx \in air' : tx.cell_id = slot.cell_id /\ tx.scheduled_at = Now => tx.is_downlink
      BY <1>2, <1>6, <1>9, <2>1
    <3> QED BY <1>2, <3>1, <3>2 DEF SlotFresh, Now
  <2>2. CASE ~slot.is_downlink
    BY <1>2, <2>2 DEF NextDirection, SlotFresh, InAllocation
  <2> QED BY <2>1, <2>2
<1> QED BY <1>10, <1>11, <1>12 DEF AirInv

\* Every step keeps the transmissions on the air apart.
LEMMA NextAirInv == SameOffset /\ AirInv /\ [Next]_vars => AirInv'
<1> SUFFICES ASSUME SameOffset, AirInv, [Next]_vars PROVE AirInv'
  OBVIOUS
<1>0. RequestInv' /\ IInv
  BY NextRequestInv DEF AirInv, RequestInv, GridInv
<1>1. ASSUME MacEvent PROVE AirInv'
  <2>1. slot' = slot /\ elapsed' = elapsed /\ air' = air /\ pc' = pc
    BY <1>1 DEF MacEvent, add_cell, remove_cell, on_ue_config, on_ue_release, on_dl_data,
              on_bsr, on_sr, on_csi_update, StoreReport, slotVars, phyVars
  <2> QED BY <1>0, <2>1, AirKept
<1>2. ASSUME NEW new \in Configs, update_config(new) PROVE AirInv'
  <2>1. slot' = slot /\ elapsed' = elapsed /\ air' = air /\ pc' = pc
    BY <1>2 DEF update_config, slotVars, phyVars
  <2> QED BY <1>0, <2>1, AirKept
<1>3. ASSUME NEW c \in Cells, on_slot_indication(c) PROVE AirInv'
  BY <1>0, <1>3, AirIndication
<1>4. ASSUME NEW d \in slot.decisions, AllocateNext(d) PROVE AirInv'
  <2>1. /\ slot'.cell_id = slot.cell_id /\ slot'.is_downlink = slot.is_downlink
        /\ pc = "allocate" /\ UNCHANGED <<elapsed, air, config>>
    BY <1>0, <1>4, AllocateEffect DEF engineVars, phyVars
  <2> QED BY <1>0, <2>1, AirInAllocation DEF InAllocation
<1>5. ASSUME FinishAllocation PROVE AirInv'
  <2>1. pc = "allocate" /\ UNCHANGED <<elapsed, air, config>>
    BY <1>5 DEF FinishAllocation, engineVars, phyVars
  <2>2. CASE slot.successful = <<>>
    <3>1. NextDirection
      BY <1>5, <2>2 DEF FinishAllocation
    <3>3. AirTimes' /\ AirApart'
      BY <2>1 DEF AirInv, AirTimes, AirApart, Flies
    <3>4. SlotFresh'
      <4>1. CASE slot.is_downlink
        <5>1. slot'.cell_id = slot.cell_id /\ ~slot'.is_downlink
          BY <3>1, <4>1 DEF NextDirection, EmptySlot
        <5> QED BY <2>1, <4>1, <5>1 DEF AirInv, SlotFresh, InAllocation, Now
      <4>2. CASE ~slot.is_downlink
        BY <3>1, <4>2 DEF NextDirection, SlotFresh, InAllocation
      <4> QED BY <4>1, <4>2
    <3> QED BY <1>0, <3>3, <3>4 DEF AirInv
  <2>3. CASE slot.successful # <<>>
    <3>1. slot'.cell_id = slot.cell_id /\ slot'.is_downlink = slot.is_downlink
      BY <1>0, <1>5, <2>3, FinishEffect
    <3> QED BY <1>0, <2>1, <3>1, AirInAllocation DEF InAllocation
  <2> QED BY <2>2, <2>3
<1>6. ASSUME BuildPdu PROVE AirInv'
  <2>1. /\ pc = "build" /\ slot'.cell_id = slot.cell_id /\ slot'.is_downlink = slot.is_downlink
        /\ UNCHANGED <<elapsed, air, config>>
    BY <1>0, <1>6, BuildEffect DEF engineVars, phyVars
  <2> QED BY <1>0, <2>1, AirInAllocation DEF InAllocation
<1>7. ASSUME SendTtiRequest PROVE AirInv'
  BY <1>0, <1>7, AirSend
<1>8. ASSUME NEW outcome \in RelockOutcomes, EndSlot(outcome) PROVE AirInv'
  <2>1. slot' = slot /\ elapsed' = elapsed /\ air' = air /\ pc = "slot_end"
        /\ pc' \in {"idle", "hung"}
    BY <1>8 DEF EndSlot, phyVars
  <2> QED BY <1>0, <2>1, AirKept
<1>9. ASSUME NEW tx \in air, NEW ack \in BOOLEAN, NEW late \in 0..MaxLate, Answer(tx, ack, late)
      PROVE  AirInv'
  <2>1. slot' = slot /\ elapsed' = elapsed /\ air' \subseteq air /\ pc' = pc
    BY <1>9 DEF Answer, on_harq_feedback, slotVars
  <2> QED BY <1>0, <2>1, AirKept
<1>10. ASSUME UNCHANGED vars PROVE AirInv'
  <2>1. slot' = slot /\ elapsed' = elapsed /\ air' = air /\ pc' = pc
    BY <1>10 DEF vars
  <2> QED BY <1>0, <2>1, AirKept
<1> QED BY <1>1, <1>2, <1>3, <1>4, <1>5, <1>6, <1>7, <1>8, <1>9, <1>10 DEF Next

\* No two transmissions of a slot and direction of a cell overlap on the air or are
\* for one UE, for every number of cells, UEs and blocks, when the configurations
\* agree on the scheduling offset.
THEOREM AirStaysDisjoint ==
  ASSUME SameOffset
  PROVE  Spec => []AirDisjoint
<1>1. AirInv => AirDisjoint
  <2> SUFFICES ASSUME AirInv, NEW x \in air, NEW y \in air, x # y, x.cell_id = y.cell_id,
                      x.is_downlink = y.is_downlink, x.on_air_at = y.on_air_at
               PROVE  x.rnti # y.rnti /\ Disjoint(x.resources, y.resources)
    BY DEF AirDisjoint
  <2>1. x.scheduled_at \in Nat /\ y.scheduled_at \in Nat /\ config \in EngineConfigs
    BY EngineAssumption DEF AirInv, RequestInv, GridInv, IInv, TypeOK, Transmissions
  <2>2. config.scheduling_offset_slots \in Nat
    BY <2>1 DEF EngineConfigs
  <2>3. x.scheduled_at = y.scheduled_at
    BY <2>1, <2>2 DEF AirInv, AirTimes, Flies
  <2> QED BY <2>3 DEF AirInv, AirApart
<1>2. AirInv /\ [Next]_vars => AirInv'
  BY NextAirInv
<1> QED BY <1>1, <1>2, InitAirInv, PTL DEF Spec

-----------------------------------------------------------------------------
(* A slot that can serve a UE serves one.                                   *)

\* Every TDD cell has a pattern, and the configurations allow an allocation.
PatternsSet == \A c \in Cells : Duplex[c] = "FDD" \/ TddPattern[c] # <<>>

\* Every configuration allows at least one allocation for a request.
LimitsPositive ==
  \A new \in Configs : new.max_pdsch_per_tti > 0 /\ new.max_pusch_per_tti > 0

\* UEs wait for a direction that the slot can carry.
Wanted(dl) ==
  get_eligible_ues(slot.cell_id, dl) # {} /\ PatternAllows(slot.cell_id, slot.timing, dl)

\* The slot being processed has sent something in the direction.
Served(dl) ==
  \E tx \in air : /\ tx.cell_id = slot.cell_id /\ tx.is_downlink = dl
                  /\ tx.scheduled_at = elapsed[slot.cell_id] - 1

\* In a direction that is wanted there is a decision to allocate, an allocation to
\* build or a PDU to send, until it has been served.
ServiceInv ==
  /\ RequestInv
  /\ pc \in {"allocate", "build", "slot_end"} =>
       capability[slot.cell_id] = SlotCapability(slot.cell_id, slot.timing)
  /\ pc = "allocate" /\ Wanted(slot.is_downlink) =>
       slot.decisions # {} \/ slot.successful # <<>>
  /\ pc = "build" => slot.successful # <<>> \/ slot.pdus # <<>>
  /\ InAllocation /\ ~slot.is_downlink /\ Wanted(TRUE) => Served(TRUE)
  /\ pc = "slot_end" => \A dl \in BOOLEAN : Wanted(dl) => Served(dl)

\* An eligible UE gets a decision.
LEMMA EligibleDecided ==
  ASSUME TypeOK, UesIdle, NEW c \in Cells, NEW dl \in BOOLEAN, get_eligible_ues(c, dl) # {}
  PROVE  DecisionsOf(c, dl) # {}
<1>1. PICK r \in get_eligible_ues(c, dl) : TRUE
  OBVIOUS
<1>2. PICK d : d.rnti = r /\ DecisionsFor(c, r, dl) = {d}
  BY DecisionOfUe, Zenon
<1>3. d \in DecisionsOf(c, dl)
  BY <1>2 DEF DecisionsOf
<1> QED BY <1>3

\* What the TDD pattern allows is what the slot is capable of.
LEMMA PatternCapability ==
  ASSUME PatternsSet, NEW c \in Cells, NEW t
  PROVE  /\ PatternAllows(c, t, TRUE) => SlotCapability(c, t).dl
         /\ PatternAllows(c, t, FALSE) => SlotCapability(c, t).ul
<1>1. CASE Duplex[c] = "FDD"
  BY <1>1 DEF SlotCapability
<1>2. CASE Duplex[c] # "FDD"
  BY <1>2 DEF SlotCapability, PatternAllows, PatternsSet
<1> QED BY <1>1, <1>2

\* What is wanted depends on the UEs and the slot alone.
LEMMA WantedKept ==
  ASSUME UNCHANGED <<ue, ue_by_rnti>>, slot'.cell_id = slot.cell_id, slot'.timing = slot.timing
  PROVE  \A dl \in BOOLEAN : Wanted(dl)' <=> Wanted(dl)
BY DEF Wanted, get_eligible_ues

\* The capability set at the start of the slot stays that of the slot.
LEMMA CapabilityKept ==
  ASSUME ServiceInv, InAllocation, UNCHANGED engineVars,
         slot'.cell_id = slot.cell_id, slot'.timing = slot.timing
  PROVE  capability'[slot'.cell_id] = SlotCapability(slot.cell_id, slot.timing)'
BY DEF ServiceInv, InAllocation, engineVars, SlotCapability

\* What has been sent stays sent while the slot is processed.
LEMMA ServedKept ==
  ASSUME air \subseteq air', slot'.cell_id = slot.cell_id, elapsed' = elapsed
  PROVE  \A dl : Served(dl) => Served(dl)'
BY DEF Served

\* Going on to the uplink or to the end of the slot once the downlink, or the
\* uplink, that is wanted has been served.
LEMMA NextDirectionServes ==
  ASSUME PatternsSet, ServiceInv, RequestInv', InAllocation, NextDirection,
         UNCHANGED <<engineVars, elapsed>>, air \subseteq air',
         NEW direction \in BOOLEAN, slot.is_downlink = direction,
         Wanted(direction) => Served(direction)'
  PROVE  ServiceInv'
<1>1. IInv /\ slot.cell_id \in Cells /\ slot.is_downlink \in BOOLEAN
  BY DEF ServiceInv, RequestInv, GridInv, IInv, TypeOK, Slots
<1>2. slot'.cell_id = slot.cell_id /\ slot'.timing = slot.timing
  <2>1. CASE slot.is_downlink
    BY <2>1 DEF NextDirection, EmptySlot
  <2>2. CASE ~slot.is_downlink
    BY <2>2 DEF NextDirection, EmptySlot
  <2> QED BY <2>1, <2>2
<1>3. \A dl \in BOOLEAN : Wanted(dl)' <=> Wanted(dl)
  BY <1>2, WantedKept DEF engineVars
<1>4. \A dl : Served(dl) => Served(dl)'
  BY <1>2, ServedKept
<1>5. capability'[slot'.cell_id] = SlotCapability(slot.cell_id, slot.timing)'
  BY <1>2, CapabilityKept
<1>6. CASE slot.is_downlink
  <2> DEFINE D == IF capability[slot.cell_id].ul THEN DecisionsOf(slot.cell_id, FALSE) ELSE {}
  <2>1. slot' = [EmptySlot(slot.cell_id, slot.timing) EXCEPT
                   !.is_downlink = FALSE, !.decisions = D] /\ pc' = "allocate"
    BY <1>6 DEF NextDirection
  <2>2. Wanted(FALSE) => D # {}
    <3>1. capability[slot.cell_id] = SlotCapability(slot.cell_id, slot.timing)
      BY DEF ServiceInv, InAllocation
    <3>2. Wanted(FALSE) => capability[slot.cell_id].ul
      BY <1>1, <3>1, PatternCapability DEF Wanted
    <3>3. Wanted(FALSE) => DecisionsOf(slot.cell_id, FALSE) # {}
      BY <1>1, EligibleDecided DEF IInv, Wanted
    <3> QED BY <3>2, <3>3
  <2> HIDE DEF D
  <2>3. slot'.is_downlink = FALSE /\ slot'.decisions = D
    BY <2>1 DEF EmptySlot
  <2>4. Wanted(TRUE) => Served(TRUE)'
    <3>1. direction = TRUE
      BY <1>1, <1>6
    <3> QED BY <3>1
  <2>5. Wanted(TRUE)' => Served(TRUE)'
    BY <1>3, <2>4
  <2>6. Wanted(slot.is_downlink)' => D # {}
    <3>1. Wanted(FALSE)' => D # {}
      BY <1>3, <2>2
    <3> QED BY <2>3, <3>1
  <2> QED BY <1>5, <2>1, <2>3, <2>5, <2>6 DEF ServiceInv
<1>7. CASE ~slot.is_downlink
  <2>1. pc' = "slot_end"
    BY <1>7 DEF NextDirection
  <2>2. (Wanted(TRUE) => Served(TRUE)) /\ (Wanted(FALSE) => Served(FALSE)')
    <3>1. direction = FALSE
      BY <1>1, <1>7
    <3> QED BY <3>1, <1>7 DEF ServiceInv
  <2>3. \A dl \in BOOLEAN : Wanted(dl)' => Served(dl)'
    BY <1>3, <1>4, <2>2
  <2> QED BY <1>5, <2>1, <2>3 DEF ServiceInv, InAllocation
<1> QED BY <1>6, <1>7

\* No slot is being processed when the engine is created.
LEMMA InitServiceInv == Init => ServiceInv
BY InitRequestInv DEF Init, ServiceInv, InAllocation

\* Appending leaves no sequence empty.
LEMMA AppendNotEmpty ==
  ASSUME NEW S, NEW q \in Seq(S), NEW x \in S
  PROVE  Append(q, x) # <<>>
<1>1. Len(Append(q, x)) = Len(q) + 1 /\ Len(q) \in Nat /\ Len(<<>>) = 0
  BY AppendProperties, LenProperties
<1> QED BY <1>1

\* In an empty grid an allocation succeeds.
LEMMA FirstAllocationSucceeds ==
  ASSUME GridInv, PdusOfSlot, [Next]_vars, NEW d \in slot.decisions, AllocateNext(d),
         slot.successful = <<>>
  PROVE  slot'.successful # <<>>
<1>1. IInv /\ slot.cell_id \in Cells
  BY DEF GridInv, IInv, TypeOK, Slots
<1>2. CASE stats'.allocation_failures > stats.allocation_failures
  <2>1. slot.pdus = <<>>
    BY <1>1, AllocateEffect DEF PdusOfSlot
  <2>2. ResourcesOf(<<>>) = <<>> /\ <<>> \in Seq(Resources) /\ DOMAIN <<>> = {}
    BY EmptySeq DEF ResourcesOf
  <2>3. RequestResources = <<>>
    BY <2>1, <2>2, ConcatEmptySeq DEF RequestResources
  <2>4. Grid = {}
    BY <2>2, <2>3 DEF GridInv, RequestDisjoint
  <2>5. 0 \in 0..(NumRbs[slot.cell_id] - 1)
    BY <1>1, EngineAssumption
  <2>6. <<StartSymbol, 0>> \in Grid
    BY <1>2, <2>5, FailsOnlyWhenFull
  <2> QED BY <2>4, <2>6
<1>3. ASSUME NEW res \in Resources,
             slot'.successful = Append(slot.successful, [decision |-> d, resources |-> res])
      PROVE  slot'.successful # <<>>
  <2> DEFINE T == [decision : Decisions, resources : Resources]
             new == [decision |-> d, resources |-> res]
  <2>1. slot.successful \in Seq(T) /\ new \in T
    BY <1>1, <1>3 DEF IInv, TypeOK, Slots
  <2> HIDE DEF T, new
  <2> QED BY <1>3, <2>1, AppendNotEmpty DEF new
<1> QED BY <1>1, <1>2, <1>3, AllocateEffect

\* Every step keeps the service invariant.
LEMMA NextServiceInv ==
  PatternsSet /\ LimitsPositive /\ ServiceInv /\ [Next]_vars => ServiceInv'
<1> SUFFICES ASSUME PatternsSet, LimitsPositive, ServiceInv, [Next]_vars PROVE ServiceInv'
  OBVIOUS
<1>0. RequestInv /\ RequestInv' /\ GridInv /\ IInv /\ PdusOfSlot
  BY NextRequestInv DEF ServiceInv, RequestInv, GridInv
<1>00. slot.cell_id \in Cells /\ slot.is_downlink \in BOOLEAN
  BY <1>0 DEF IInv, TypeOK, Slots
<1>1. ASSUME pc' \in {"idle", "hung"} PROVE ServiceInv'
  BY <1>0, <1>1 DEF ServiceInv, InAllocation
<1>2. ASSUME NEW c \in Cells, on_slot_indication(c), c \in cells PROVE ServiceInv'
  <2> DEFINE can == SlotCapability(c, clock[c])
             D == IF can.dl THEN DecisionsOf(c, TRUE) ELSE {}
  <2>1. /\ slot' = [EmptySlot(c, clock[c]) EXCEPT !.decisions = D] /\ pc' = "allocate"
        /\ capability' = [capability EXCEPT ![c] = can]
        /\ UNCHANGED <<ue, ue_by_rnti>>
    BY <1>2 DEF on_slot_indication
  <2>2. get_eligible_ues(c, TRUE) # {} /\ PatternAllows(c, clock[c], TRUE) => D # {}
    BY <1>0, PatternCapability, EligibleDecided DEF IInv
  <2>3. capability'[c] = can
    BY <1>0, <2>1 DEF IInv, TypeOK
  <2> HIDE DEF can, D
  <2>5. /\ slot'.decisions = D /\ slot'.cell_id = c /\ slot'.timing = clock[c]
        /\ slot'.is_downlink = TRUE
    BY <2>1 DEF EmptySlot
  <2>6. capability'[slot'.cell_id] = SlotCapability(slot.cell_id, slot.timing)'
    BY <2>3, <2>5 DEF SlotCapability, can, PatternsSet
  <2>7. Wanted(slot.is_downlink)' => slot'.decisions # {}
    BY <2>1, <2>2, <2>5, ZenonT(20) DEF Wanted, get_eligible_ues
  <2> QED BY <1>0, <2>1, <2>5, <2>6, <2>7 DEF ServiceInv
<1>3. ASSUME NEW d \in slot.decisions, AllocateNext(d) PROVE ServiceInv'
  <2>1. /\ pc = "allocate" /\ pc' = "allocate"
        /\ slot'.cell_id = slot.cell_id /\ slot'.timing = slot.timing
        /\ slot'.is_downlink = slot.is_downlink
        /\ UNCHANGED <<engineVars, elapsed, air>>
    BY <1>0, <1>3, AllocateEffect DEF phyVars
  <2>2. slot'.successful # <<>>
    <3>1. CASE slot.successful = <<>>
      BY <1>0, <1>3, <3>1, FirstAllocationSucceeds
    <3>2. ASSUME slot.successful # <<>>, NEW res \in Resources,
                 slot'.successful = Append(slot.successful, [decision |-> d, resources |-> res])
          PROVE  slot'.successful # <<>>
      <4> DEFINE T == [decision : Decisions, resources : Resources]
                 new == [decision |-> d, resources |-> res]
      <4>1. slot.successful \in Seq(T) /\ new \in T
        BY <1>0, <1>3 DEF IInv, TypeOK, Slots
      <4> HIDE DEF T, new
      <4> QED BY <3>2, <4>1, AppendNotEmpty DEF new
    <3> QED BY <1>0, <1>3, <3>1, <3>2, AllocateEffect
  <2>3. capability'[slot'.cell_id] = SlotCapability(slot.cell_id, slot.timing)'
    BY <2>1, CapabilityKept DEF InAllocation
  <2>4. InAllocation' /\ ~slot'.is_downlink /\ Wanted(TRUE)' => Served(TRUE)'
    <3>1. Wanted(TRUE)' <=> Wanted(TRUE)
      BY <2>1, WantedKept DEF engineVars
    <3>2. Served(TRUE) => Served(TRUE)'
      BY <2>1, ServedKept
    <3> QED BY <2>1, <3>1, <3>2 DEF ServiceInv, InAllocation
  <2> QED BY <1>0, <2>1, <2>2, <2>3, <2>4 DEF ServiceInv
<1>4. ASSUME FinishAllocation PROVE ServiceInv'
  <2>1. pc = "allocate" /\ UNCHANGED <<engineVars, elapsed, air>>
    BY <1>4 DEF FinishAllocation, phyVars
  <2>2. CASE slot.successful = <<>>
    <3>1. NextDirection
      BY <1>4, <2>2 DEF FinishAllocation
    <3>2. slot.decisions = {}
      <4>1. Len(slot.successful) = 0
        BY <2>2
      <4>2. config \in Configs /\ config \in EngineConfigs
        BY <1>0, EngineAssumption DEF IInv, TypeOK
      <4>3. MaxPerTti \in Nat \ {0}
        BY <4>2 DEF MaxPerTti, LimitsPositive, EngineConfigs
      <4> QED BY <1>4, <4>1, <4>3 DEF FinishAllocation
    <3>3. ~Wanted(slot.is_downlink)
      BY <2>1, <2>2, <3>2 DEF ServiceInv
    <3>4. PICK dl \in BOOLEAN : slot.is_downlink = dl
      BY <1>00
    <3>5. ~Wanted(dl)
      BY <3>3, <3>4
    <3> QED BY <1>0, <2>1, <3>1, <3>4, <3>5, NextDirectionServes DEF InAllocation
  <2>3. CASE slot.successful # <<>>
    <3>1. /\ pc' = "build" /\ slot'.cell_id = slot.cell_id /\ slot'.timing = slot.timing
          /\ slot'.is_downlink = slot.is_downlink /\ slot'.successful = slot.successful
      BY <1>0, <1>4, <2>3, FinishEffect
    <3>2. capability'[slot'.cell_id] = SlotCapability(slot.cell_id, slot.timing)'
      BY <2>1, <3>1, CapabilityKept DEF InAllocation
    <3>3. (Wanted(TRUE)' <=> Wanted(TRUE)) /\ (Served(TRUE) => Served(TRUE)')
      BY <2>1, <3>1, WantedKept, ServedKept DEF engineVars
    <3> QED BY <1>0, <2>1, <2>3, <3>1, <3>2, <3>3 DEF ServiceInv, InAllocation
  <2> QED BY <2>2, <2>3
<1>5. ASSUME BuildPdu PROVE ServiceInv'
  <2>1. /\ pc = "build" /\ pc' = "build"
        /\ slot'.cell_id = slot.cell_id /\ slot'.timing = slot.timing
        /\ slot'.is_downlink = slot.is_downlink
        /\ UNCHANGED <<engineVars, elapsed, air>>
    BY <1>0, <1>5, BuildEffect DEF phyVars
  <2>2. slot'.pdus # <<>>
    <3>1. PICK pdu \in Transmissions : slot'.pdus = Append(slot.pdus, pdu)
      BY <1>0, <1>5, BuildEffect
    <3>2. slot.pdus \in Seq(Transmissions)
      BY <1>0 DEF IInv, TypeOK, Slots
    <3> QED BY <3>1, <3>2, AppendNotEmpty
  <2>3. capability'[slot'.cell_id] = SlotCapability(slot.cell_id, slot.timing)'
    BY <2>1, CapabilityKept DEF InAllocation
  <2>4. (Wanted(TRUE)' <=> Wanted(TRUE)) /\ (Served(TRUE) => Served(TRUE)')
    BY <2>1, WantedKept, ServedKept DEF engineVars
  <2> QED BY <1>0, <2>1, <2>2, <2>3, <2>4 DEF ServiceInv, InAllocation
<1>6. ASSUME SendTtiRequest PROVE ServiceInv'
  <2>1. /\ pc = "build" /\ slot.successful = <<>> /\ NextDirection
        /\ air' = air \cup {slot.pdus[i] : i \in DOMAIN slot.pdus}
        /\ UNCHANGED <<engineVars, elapsed>>
    BY <1>6 DEF SendTtiRequest
  <2>2. slot.pdus # <<>> /\ slot.pdus \in Seq(Transmissions)
    BY <1>0, <2>1 DEF ServiceInv, IInv, TypeOK, Slots
  <2>3. 1 \in DOMAIN slot.pdus
    BY <2>2, LenProperties, EmptySeq
  <2>4. /\ slot.pdus[1] \in air'
        /\ slot.pdus[1].cell_id = slot.cell_id
        /\ slot.pdus[1].is_downlink = slot.is_downlink
        /\ slot.pdus[1].scheduled_at = elapsed[slot.cell_id] - 1
    BY <1>0, <2>1, <2>3 DEF PdusOfSlot, Now
  <2>5. slot'.cell_id = slot.cell_id
    BY <1>0, <2>1, NextDirectionOK
  <2>6. PICK dl \in BOOLEAN : slot.is_downlink = dl
    BY <1>00
  <2>7. Served(dl)'
    BY <2>1, <2>4, <2>5, <2>6 DEF Served
  <2> QED BY <1>0, <2>1, <2>6, <2>7, NextDirectionServes DEF InAllocation
<1>7. ASSUME MacEvent PROVE pc' = "idle"
  BY <1>7 DEF MacEvent, add_cell, remove_cell, on_ue_config, on_ue_release, on_dl_data,
              on_bsr, on_sr, on_csi_update, StoreReport, slotVars, Call
<1>8. ASSUME NEW new \in Configs, update_config(new) PROVE pc' = "idle"
  BY <1>8 DEF update_config, Call, slotVars
<1>9. ASSUME NEW c \in Cells, on_slot_indication(c), c \notin cells PROVE pc' = "idle"
  BY <1>9 DEF on_slot_indication, slotVars
<1>10. ASSUME NEW outcome \in RelockOutcomes, EndSlot(outcome) PROVE pc' \in {"idle", "hung"}
  BY <1>10 DEF EndSlot
<1>11. ASSUME NEW tx \in air, NEW ack \in BOOLEAN, NEW late \in 0..MaxLate, Answer(tx, ack, late)
       PROVE  pc' = "idle"
  BY <1>11 DEF Answer, on_harq_feedback, slotVars
<1>12. ASSUME UNCHANGED vars PROVE ServiceInv'
  <2>1. \A dl : Wanted(dl)' <=> Wanted(dl)
    BY <1>12 DEF vars, Wanted, get_eligible_ues
  <2>2. \A dl : Served(dl)' <=> Served(dl)
    BY <1>12 DEF vars, Served
  <2>3. SlotCapability(slot.cell_id, slot.timing)' = SlotCapability(slot.cell_id, slot.timing)
    BY <1>12 DEF vars, SlotCapability
  <2>4. slot' = slot /\ pc' = pc /\ capability' = capability
    BY <1>12 DEF vars
  <2>5. Wanted(slot.is_downlink)' <=> Wanted(slot.is_downlink)
    BY <2>1, <2>4
  <2> QED BY <1>0, <2>1, <2>2, <2>3, <2>4, <2>5 DEF ServiceInv, InAllocation
<1> QED BY <1>1, <1>2, <1>3, <1>4, <1>5, <1>6, <1>7, <1>8, <1>9, <1>10, <1>11, <1>12 DEF Next

\* A slot with eligible UEs puts a transmission for one of them on the air, in each
\* direction its pattern allows, whatever was allocated before, for every number of
\* UEs and blocks and every order of the decisions.  Every TDD cell has a pattern
\* and the limits per TTI are not zero.
THEOREM SlotsServeTraffic ==
  ASSUME PatternsSet, LimitsPositive
  PROVE  Spec => []SlotServesTraffic
<1>1. ServiceInv => SlotServesTraffic
  BY DEF ServiceInv, SlotServesTraffic, Wanted, Served
<1>2. ServiceInv /\ [Next]_vars => ServiceInv'
  BY NextServiceInv
<1> QED BY <1>1, <1>2, InitServiceInv, PTL DEF Spec

-----------------------------------------------------------------------------
(* The HARQ timing tracker.                                                 *)

\* One cell, answered in time: the delay of an answer is the same in both
\* directions, and both the cleanup and the SFN wrap take longer than an answer.
AnswersInTime ==
  /\ \A c, d \in Cells : c = d
  /\ MaxLate = 0
  /\ K1 # 0
  /\ \A cf \in Configs : K1 = cf.scheduling_offset_slots + UlCrcDelay
  /\ K1 + ReportDelay <= CLEANUP_AGE + 1
  /\ \A c \in Cells : K1 + ReportDelay <= Cycle(SlotsPerFrame[c])

\* The slot number n slots after the first the PHY indicates.
At(c, n) == (absolute_slot(StartTiming[c]) + n) % Cycle(SlotsPerFrame[c])

\* The transmissions sent and the ones of the request being made.
Flights == air \cup {slot.pdus[i] : i \in DOMAIN slot.pdus}

\* Those whose answer is due in slot n.
Live(n) == {tx \in Flights : tx.due_at = n}

\* The engine and the count of indicated slots agree on the number of the slot.
ClocksAgree ==
  /\ \A c \in Cells : absolute_slot(clock[c]) = At(c, elapsed[c])
  /\ InAllocation => absolute_slot(slot.timing) = At(slot.cell_id, Now)

EntriesOfProcess0 ==
  \A s \in AbsoluteSlots : \A i \in DOMAIN pending[s] : pending[s][i].harq_id = 0

\* An answer is due at most K1 slots ahead and ReportDelay slots behind.
DueSoon ==
  \A tx \in Flights : /\ elapsed[tx.cell_id] <= tx.due_at + ReportDelay
                      /\ tx.due_at <= elapsed[tx.cell_id] - 1 + K1

\* The list of a slot is as long as the answers due in it are many.
ListsLongEnough ==
  /\ IsFiniteSet(Flights)
  /\ \A c \in Cells, n \in Nat : Cardinality(Live(n)) <= Len(pending[At(c, n)])

\* The inductive invariant of EveryTransmissionTracked.
TrackInv == RequestInv /\ ClocksAgree /\ EntriesOfProcess0 /\ DueSoon /\ ListsLongEnough

-----------------------------------------------------------------------------
(* Slot numbers.                                                            *)

\* The numbers of a frame, from the assumptions on the constants.
LEMMA CellFrame ==
  ASSUME NEW c \in Cells
  PROVE  /\ SlotsPerFrame[c] \in Nat \ {0} /\ Cycle(SlotsPerFrame[c]) \in Nat \ {0}
         /\ StartTiming[c] \in FrameTimings(SlotsPerFrame[c])
         /\ absolute_slot(StartTiming[c]) \in 0..(Cycle(SlotsPerFrame[c]) - 1)
         /\ absolute_slot(StartTiming[c]) \in Int
<1>1. SlotsPerFrame[c] \in Nat \ {0} /\ StartTiming[c] \in FrameTimings(SlotsPerFrame[c])
  BY EngineAssumption
<1>2. Cycle(SlotsPerFrame[c]) \in Nat \ {0}
  <2>1. \A n \in Nat \ {0} : MAX_SFN * n \in Nat \ {0}
    BY MaxSfnAssumption
  <2> QED BY <1>1, <2>1 DEF Cycle
<1>3. absolute_slot(StartTiming[c]) \in 0..(Cycle(SlotsPerFrame[c]) - 1)
  BY <1>1, AbsoluteSlotRange
<1> QED BY <1>1, <1>2, <1>3

\* Slot numbers lie in the SFN cycle.
LEMMA AtRange ==
  ASSUME NEW c \in Cells, NEW n \in Int
  PROVE  At(c, n) \in AbsoluteSlots /\ At(c, n) \in Nat
<1> DEFINE m == Cycle(SlotsPerFrame[c])
           a == absolute_slot(StartTiming[c]) + n
<1>1. m \in Nat \ {0} /\ a \in Int
  BY CellFrame
<1>2. At(c, n) = a % m
  BY DEF At
<1> HIDE DEF a
<1>3. At(c, n) \in 0..(m - 1)
  <2> HIDE DEF m
  <2> QED BY <1>1, <1>2
<1> QED BY <1>1, <1>3 DEF AbsoluteSlots

\* The PHY and FrameTiming count slots alike.
LEMMA SlotNumberAt ==
  ASSUME NEW c \in Cells, NEW n \in Nat
  PROVE  SlotNumber(c, n) = At(c, n)
BY CellFrame, AdvancedSlot DEF SlotNumber, At

\* Advancing a timing adds to its slot number.
LEMMA AdvancedAt ==
  ASSUME NEW c \in Cells, NEW n \in Int, NEW k \in Nat,
         NEW t \in FrameTimings(SlotsPerFrame[c]), absolute_slot(t) = At(c, n)
  PROVE  absolute_slot(advanced(t, k)) = At(c, n + k)
<1> DEFINE m == Cycle(SlotsPerFrame[c])
           a == absolute_slot(StartTiming[c]) + n
<1>1. /\ m \in Nat \ {0} /\ a \in Int /\ k \in Int
      /\ a + k = absolute_slot(StartTiming[c]) + (n + k)
  BY CellFrame
<1>2. absolute_slot(advanced(t, k)) = ((a % m) + k) % m
  BY CellFrame, AdvancedSlot DEF At
<1>3. At(c, n + k) = (a + k) % m
  BY <1>1 DEF At
<1> HIDE DEF a, m
<1>4. ((a % m) + k) % m = (a + k) % m
  BY <1>1, ModAdd, Zenon
<1> QED BY <1>2, <1>3, <1>4

\* Within one SFN cycle two slots have two numbers.
LEMMA AtApart ==
  ASSUME NEW c \in Cells, NEW n \in Int, NEW k \in Int, n < k, k - n < Cycle(SlotsPerFrame[c])
  PROVE  At(c, n) # At(c, k)
<1> DEFINE m == Cycle(SlotsPerFrame[c])
           a == absolute_slot(StartTiming[c]) + n
           b == absolute_slot(StartTiming[c]) + k
<1>1. m \in Nat \ {0} /\ a \in Int /\ b \in Int /\ a < b /\ b - a < m
  BY CellFrame
<1>2. At(c, n) = a % m /\ At(c, k) = b % m
  BY DEF At
<1> HIDE DEF a, b, m
<1> QED BY <1>1, <1>2, ModApart

\* The signed distance of two slot numbers is never more than the slots between.
LEMMA AtBehind ==
  ASSUME NEW c \in Cells, NEW n \in Int, NEW k \in Int, n <= k, k - n < Cycle(SlotsPerFrame[c])
  PROVE  At(c, k) - At(c, n) <= k - n
<1> DEFINE m == Cycle(SlotsPerFrame[c])
           a == absolute_slot(StartTiming[c]) + n
           j == k - n
<1>1. m \in Nat \ {0} /\ a \in Int /\ j \in Nat /\ j < m /\ a + j = absolute_slot(StartTiming[c]) + k
  BY CellFrame
<1>2. At(c, n) = a % m /\ At(c, k) = (a + j) % m
  BY <1>1 DEF At
<1> HIDE DEF a, m, j
<1>3. ((a + j) % m) - (a % m) <= j
  BY <1>1, ModBehind
<1> QED BY <1>2, <1>3 DEF j

-----------------------------------------------------------------------------
(* What is in flight.                                                       *)

\* What is in flight is a transmission of process 0.
LEMMA FlightsType ==
  ASSUME IInv
  PROVE  /\ Flights \subseteq Transmissions
         /\ \A tx \in Transmissions : tx.cell_id \in Cells /\ tx.due_at \in Nat
         /\ \A tx \in Flights : tx.harq_id = 0
<1>1. slot.pdus \in Seq(Transmissions) /\ air \subseteq Transmissions
  BY DEF IInv, TypeOK, Slots
<1>2. \A i \in DOMAIN slot.pdus : slot.pdus[i] \in Transmissions
  BY <1>1, LenProperties, ElementOfSeq
<1>3. \A i \in DOMAIN slot.pdus : slot.pdus[i].harq_id = 0
  BY DEF IInv, SlotOK
<1> QED BY <1>1, <1>2, <1>3 DEF Flights, Transmissions, IInv

\* The tracker's lists are finite.
LEMMA ListLengths ==
  ASSUME IInv, NEW c \in Cells, NEW n \in Int
  PROVE  /\ pending[At(c, n)] \in Seq(PendingFeedbacks)
         /\ Len(pending[At(c, n)]) \in Nat
<1>1. pending[At(c, n)] \in Seq(PendingFeedbacks)
  BY AtRange DEF IInv, TypeOK
<1> QED BY <1>1, LenProperties

\* Finitely many answers are due in a slot.
LEMMA LiveFinite ==
  ASSUME IsFiniteSet(Flights), NEW n
  PROVE  IsFiniteSet(Live(n)) /\ Cardinality(Live(n)) \in Nat
<1>1. Live(n) \subseteq Flights
  BY DEF Live
<1> QED BY <1>1, FS_Subset, FS_CardinalityType

\* When less is in flight the lists stay long enough.
LEMMA ListsKept ==
  ASSUME IInv, ListsLongEnough, pending' = pending, Flights' \subseteq Flights
  PROVE  ListsLongEnough'
<1>1. IsFiniteSet(Flights) /\ IsFiniteSet(Flights')
  BY FS_Subset DEF ListsLongEnough
<1>2. ASSUME NEW c \in Cells, NEW n \in Nat
      PROVE  Cardinality(Live(n)') <= Len(pending'[At(c, n)])
  <2>1. Live(n)' \subseteq Live(n)
    BY DEF Live
  <2>2. IsFiniteSet(Live(n)) /\ Cardinality(Live(n)) \in Nat
    BY <1>1, LiveFinite
  <2>3. Cardinality(Live(n)') <= Cardinality(Live(n)) /\ Cardinality(Live(n)') \in Nat
    BY <2>1, <2>2, FS_Subset, FS_CardinalityType
  <2>4. Cardinality(Live(n)) <= Len(pending[At(c, n)]) /\ Len(pending[At(c, n)]) \in Nat
    BY ListLengths DEF ListsLongEnough
  <2> QED BY <2>2, <2>3, <2>4
<1> QED BY <1>1, <1>2 DEF ListsLongEnough, At

\* A step after which less is in flight, and the tracker is as before.
LEMMA TrackKept ==
  ASSUME TrackInv, RequestInv', pending' = pending,
         elapsed' = elapsed, clock' = clock, Flights' \subseteq Flights,
         InAllocation' => InAllocation /\ slot'.timing = slot.timing /\ slot'.cell_id = slot.cell_id
  PROVE  TrackInv'
<1>1. ClocksAgree' /\ EntriesOfProcess0'
  BY DEF TrackInv, ClocksAgree, EntriesOfProcess0, Now
<1>2. DueSoon'
  BY DEF TrackInv, DueSoon
<1>3. ListsLongEnough'
  BY ListsKept DEF TrackInv, RequestInv, GridInv
<1> QED BY <1>1, <1>2, <1>3 DEF TrackInv

\* Answers due in different slots are due in different slot numbers.
LEMMA WindowApart ==
  ASSUME AnswersInTime, TrackInv, NEW c \in Cells, NEW x \in Flights, NEW y \in Flights,
         x.due_at # y.due_at
  PROVE  At(c, x.due_at) # At(c, y.due_at)
<1>1. /\ x.due_at \in Nat /\ y.due_at \in Nat /\ x.cell_id = c /\ y.cell_id = c
      /\ elapsed[c] \in Nat
  BY FlightsType DEF AnswersInTime, TrackInv, RequestInv, GridInv, IInv, TypeOK
<1>2. /\ elapsed[c] <= x.due_at + ReportDelay /\ x.due_at <= elapsed[c] - 1 + K1
      /\ elapsed[c] <= y.due_at + ReportDelay /\ y.due_at <= elapsed[c] - 1 + K1
  BY <1>1 DEF TrackInv, DueSoon
<1>3. K1 \in Nat /\ ReportDelay \in Nat /\ Cycle(SlotsPerFrame[c]) \in Nat
      /\ K1 + ReportDelay <= Cycle(SlotsPerFrame[c])
  BY EngineAssumption, CellFrame DEF AnswersInTime
<1>4. /\ x.due_at - y.due_at < Cycle(SlotsPerFrame[c])
      /\ y.due_at - x.due_at < Cycle(SlotsPerFrame[c])
      /\ x.due_at < y.due_at \/ y.due_at < x.due_at
      /\ x.due_at \in Int /\ y.due_at \in Int
  BY <1>1, <1>2, <1>3
<1> QED BY <1>4, AtApart

\* The PHY indicates a slot: the answers nobody waits for any longer are given up.
LEMMA TrackIndication ==
  ASSUME AnswersInTime, TrackInv, RequestInv', NEW c \in Cells, on_slot_indication(c)
  PROVE  TrackInv'
<1>1. IInv /\ IInv'
  BY DEF TrackInv, RequestInv, GridInv
<1>2. /\ pc = "idle" /\ pending' = pending
      /\ elapsed' = [elapsed EXCEPT ![c] = elapsed[c] + 1]
      /\ clock' = [clock EXCEPT ![c] = advanced(clock[c], 1)]
      /\ air' = {tx \in air : tx.cell_id = c => MayBeAnswered(tx, elapsed[c] + 1)}
  BY DEF on_slot_indication
<1>3. \A d \in Cells : d = c
  BY DEF AnswersInTime
<1>4. /\ elapsed[c] \in Nat /\ clock[c] \in FrameTimings(SlotsPerFrame[c])
      /\ elapsed'[c] = elapsed[c] + 1 /\ clock'[c] = advanced(clock[c], 1)
  BY <1>1, <1>2 DEF IInv, TypeOK
<1>5. slot'.pdus = <<>> /\ (InAllocation' => slot'.cell_id = c /\ slot'.timing = clock[c])
  <2>1. CASE c \in cells
    BY <2>1 DEF on_slot_indication, EmptySlot
  <2>2. CASE c \notin cells
    <3>1. slot' = slot /\ pc' = pc
      BY <2>2 DEF on_slot_indication, slotVars
    <3> QED BY <1>2, <3>1 DEF InAllocation, TrackInv, RequestInv, PdusOfSlot
  <2> QED BY <2>1, <2>2
<1>6. Flights' = air' /\ air' \subseteq air /\ air \subseteq Flights
  <2>1. DOMAIN <<>> = {}
    OBVIOUS
  <2> QED BY <1>2, <1>5, <2>1 DEF Flights
<1>7. ClocksAgree'
  <2>1. absolute_slot(clock[c]) = At(c, elapsed[c])
    BY DEF TrackInv, ClocksAgree
  <2>2. elapsed[c] \in Int /\ 1 \in Nat
    BY <1>4
  <2>3. absolute_slot(clock'[c]) = At(c, elapsed[c] + 1)
    BY <1>4, <2>1, <2>2, AdvancedAt
  <2>4. \A d \in Cells : absolute_slot(clock'[d]) = At(d, elapsed'[d])
    BY <1>3, <1>4, <2>3
  <2>5. ASSUME InAllocation' PROVE absolute_slot(slot'.timing) = At(slot'.cell_id, Now')
    <3>1. Now' = elapsed[c]
      BY <1>4, <1>5, <2>5 DEF Now
    <3> QED BY <1>5, <2>1, <2>5, <3>1
  <2> QED BY <2>4, <2>5 DEF ClocksAgree, At
<1>8. EntriesOfProcess0'
  BY <1>2 DEF TrackInv, EntriesOfProcess0
<1>9. DueSoon'
  <2> SUFFICES ASSUME NEW tx \in air'
               PROVE  /\ elapsed'[tx.cell_id] <= tx.due_at + ReportDelay
                      /\ tx.due_at <= elapsed'[tx.cell_id] - 1 + K1
    BY <1>6 DEF DueSoon
  <2>1. tx \in air /\ tx \in Flights /\ tx.cell_id = c /\ tx.due_at \in Nat
    BY <1>1, <1>3, <1>6, FlightsType
  <2>2. tx.due_at <= elapsed[c] - 1 + K1
    BY <2>1 DEF TrackInv, DueSoon
  <2>3. elapsed[c] + 1 <= tx.due_at + 0 + ReportDelay
    BY <1>2, <2>1 DEF MayBeAnswered, AnswersInTime
  <2>4. K1 \in Nat /\ ReportDelay \in Nat
    BY EngineAssumption
  <2> QED BY <1>4, <2>1, <2>2, <2>3, <2>4
<1>10. ListsLongEnough'
  BY <1>1, <1>2, <1>6, ListsKept DEF TrackInv
<1> QED BY <1>7, <1>8, <1>9, <1>10 DEF TrackInv

-----------------------------------------------------------------------------
(* The tracker.                                                             *)

\* find_and_remove takes at most one entry, of the slot the feedback came in.
LEMMA RemoveEffect ==
  ASSUME pending \in [AbsoluteSlots -> Seq(PendingFeedbacks)], NEW e \in AbsoluteSlots,
         NEW rnti, NEW h, pending' = find_and_remove(pending, e, rnti, h)
  PROVE  /\ \A s \in AbsoluteSlots \ {e} : pending'[s] = pending[s]
         /\ Len(pending'[e]) >= Len(pending[e]) - 1
         /\ \A j \in DOMAIN pending'[e] :
              \E i \in DOMAIN pending[e] : pending'[e][j] = pending[e][i]
<1> DEFINE entries == pending[e]
           found == FirstOf({i \in DOMAIN entries :
                               entries[i].rnti = rnti /\ entries[i].harq_id = h})
           left == IF found = {} THEN entries
                   ELSE Without(entries, CHOOSE i \in found : TRUE)
<1>1. pending' = [pending EXCEPT ![e] = left]
  BY DEF find_and_remove
<1>2. found \subseteq DOMAIN entries /\ entries \in Seq(PendingFeedbacks)
  BY DEF FirstOf
<1> HIDE DEF entries
<1>3. /\ Len(left) >= Len(entries) - 1
      /\ \A j \in DOMAIN left : \E i \in DOMAIN entries : left[j] = entries[i]
  <2>1. Len(entries) \in Nat /\ DOMAIN entries = 1..Len(entries)
    BY <1>2, LenProperties
  <2>2. CASE found = {}
    BY <2>1, <2>2
  <2>3. CASE found # {}
    <3> DEFINE k == CHOOSE i \in found : TRUE
    <3>1. k \in DOMAIN entries /\ left = Without(entries, k)
      BY <1>2, <2>3
    <3> HIDE DEF k, left, found
    <3>2. /\ left \in Seq(PendingFeedbacks) /\ Len(left) = Len(entries) - 1
          /\ \A j \in 1..(Len(entries) - 1) :
               left[j] = IF j < k THEN entries[j] ELSE entries[j + 1]
      BY <1>2, <3>1, WithoutProperties
    <3>3. DOMAIN left = 1..(Len(entries) - 1)
      BY <3>2, LenProperties
    <3>4. ASSUME NEW j \in 1..(Len(entries) - 1)
          PROVE  \E i \in DOMAIN entries : left[j] = entries[i]
      <4>1. j \in DOMAIN entries /\ j + 1 \in DOMAIN entries
        BY <2>1
      <4> QED BY <3>2, <4>1
    <3>5. Len(left) >= Len(entries) - 1
      BY <2>1, <3>2
    <3> QED BY <3>3, <3>4, <3>5
  <2> QED BY <2>2, <2>3
<1> HIDE DEF left
<1> QED BY <1>1, <1>3 DEF entries

\* The entry of a PDU is put where its answer is due, K1 slots ahead.
LEMMA BuildTracks ==
  ASSUME AnswersInTime, TrackInv, BuildPdu
  PROVE  /\ \E info \in PendingFeedbacks :
              /\ info.harq_id = 0
              /\ pending' = register_pending(pending, At(slot.cell_id, Now + K1), info)
         /\ Now \in Nat /\ elapsed[slot.cell_id] = Now + 1 /\ slot.cell_id \in Cells
         /\ config.scheduling_offset_slots \in Nat
         /\ K1 = config.scheduling_offset_slots + UlCrcDelay
<1> DEFINE c == slot.cell_id
           d == Head(slot.successful).decision
           info == [cell_id |-> c, rnti |-> d.rnti, harq_id |-> d.harq_id,
                    is_downlink |-> slot.is_downlink,
                    tx_slot |-> absolute_slot(RequestTiming)]
           T == [decision : Decisions, resources : Resources]
           offset == config.scheduling_offset_slots
<1>1. IInv /\ pc = "build" /\ slot.successful # <<>>
      /\ pending' = register_pending(pending, absolute_slot(FeedbackTiming), info)
  BY DEF TrackInv, RequestInv, GridInv, BuildPdu
<1>2. /\ c \in Cells /\ slot.is_downlink \in BOOLEAN /\ slot.successful \in Seq(T)
      /\ slot.timing \in FrameTimings(SlotsPerFrame[c])
  BY <1>1 DEF IInv, TypeOK, Slots
<1>3. d \in Decisions /\ d.harq_id = 0
  <2>1. /\ Head(slot.successful) \in T
        /\ Len(slot.successful) \in Nat \ {0}
        /\ DOMAIN slot.successful = 1..Len(slot.successful)
    BY <1>1, <1>2, HeadTailProperties, LenProperties, EmptySeq
  <2>2. Head(slot.successful) = slot.successful[1] /\ 1 \in DOMAIN slot.successful
    BY <1>2, <2>1
  <2> QED BY <1>1, <2>1, <2>2 DEF IInv, SlotOK
<1>4. info \in PendingFeedbacks /\ info.harq_id = 0
  <2>1. absolute_slot(RequestTiming) \in AbsoluteSlots
    BY <1>1, <1>2, FeedbackTimingType, AbsoluteSlotType DEF IInv
  <2>2. d.rnti \in Rntis /\ d.harq_id \in HarqIds
    BY <1>3 DEF Decisions
  <2> HIDE DEF c, d
  <2> QED BY <1>2, <1>3, <2>1, <2>2 DEF PendingFeedbacks
<1>5. Now \in Nat /\ elapsed[c] = Now + 1
  <2>1. elapsed[c] \in Nat /\ elapsed[c] > 0
    BY <1>1, <1>2 DEF IInv, TypeOK, SlotIndicated
  <2> QED BY <2>1 DEF Now
<1>6. offset \in Nat /\ K1 = offset + UlCrcDelay /\ K1 \in Nat /\ UlCrcDelay \in Nat
  <2>1. config \in Configs /\ config \in EngineConfigs
    BY <1>1, EngineAssumption DEF IInv, TypeOK
  <2> QED BY <2>1, EngineAssumption DEF AnswersInTime, EngineConfigs
<1>7. absolute_slot(FeedbackTiming) = At(c, Now + K1)
  <2>1. absolute_slot(slot.timing) = At(c, Now) /\ Now \in Int
    BY <1>1, <1>5 DEF TrackInv, ClocksAgree, InAllocation
  <2>2. CASE slot.is_downlink
    <3>1. FeedbackTiming = advanced(slot.timing, K1)
      BY <2>2 DEF FeedbackTiming, RequestTiming
    <3> QED BY <1>2, <1>6, <2>1, <3>1, AdvancedAt
  <2>3. CASE ~slot.is_downlink
    <3>1. FeedbackTiming = advanced(advanced(slot.timing, offset), UlCrcDelay)
      BY <2>3 DEF FeedbackTiming, RequestTiming
    <3>2. absolute_slot(advanced(slot.timing, offset)) = At(c, Now + offset)
      BY <1>2, <1>6, <2>1, AdvancedAt
    <3>3. advanced(slot.timing, offset) \in FrameTimings(SlotsPerFrame[c]) /\ Now + offset \in Int
      BY <1>2, <1>6, <2>1, AdvancedCellType
    <3>4. absolute_slot(FeedbackTiming) = At(c, (Now + offset) + UlCrcDelay)
      BY <1>2, <1>6, <3>1, <3>2, <3>3, AdvancedAt
    <3>5. (Now + offset) + UlCrcDelay = Now + K1
      BY <1>6, <2>1
    <3> QED BY <3>4, <3>5
  <2> QED BY <2>2, <2>3
<1> HIDE DEF info
<1> QED BY <1>1, <1>2, <1>4, <1>5, <1>6, <1>7

\* One more transmission in flight, and one more entry.
LEMMA TrackBuild ==
  ASSUME AnswersInTime, TrackInv, RequestInv', BuildPdu
  PROVE  TrackInv'
<1> DEFINE c == slot.cell_id
           due == Now + K1
           e == At(c, due)
<1>1. IInv /\ IInv'
  BY DEF TrackInv, RequestInv, GridInv
<1>2. PICK info \in PendingFeedbacks :
        info.harq_id = 0 /\ pending' = register_pending(pending, e, info)
  BY BuildTracks
<1>3. /\ Now \in Nat /\ elapsed[c] = Now + 1 /\ c \in Cells
      /\ config.scheduling_offset_slots \in Nat /\ K1 = config.scheduling_offset_slots + UlCrcDelay
  BY BuildTracks
<1>4. /\ slot'.cell_id = c /\ slot'.timing = slot.timing
      /\ UNCHANGED <<pc, engineVars, phyVars>>
  BY <1>1, BuildEffect
<1>5. PICK pdu \in Transmissions :
        /\ slot'.pdus = Append(slot.pdus, pdu)
        /\ pdu.cell_id = c /\ pdu.is_downlink = slot.is_downlink
        /\ pdu.scheduled_at = Now /\ Flies(pdu)
        /\ pdu.due_at = pdu.on_air_at + (IF slot.is_downlink THEN K1 ELSE UlCrcDelay)
  BY <1>1, BuildEffect
<1>6. /\ K1 \in Nat \ {0} /\ UlCrcDelay \in Nat /\ ReportDelay \in Nat /\ CLEANUP_AGE \in Nat
      /\ K1 + ReportDelay <= CLEANUP_AGE + 1
      /\ K1 + ReportDelay <= Cycle(SlotsPerFrame[c]) /\ Cycle(SlotsPerFrame[c]) \in Nat
  BY <1>3, EngineAssumption, CleanupAgeAssumption, CellFrame DEF AnswersInTime
<1>7. pdu.due_at = due /\ due \in Nat
  <2>1. slot.is_downlink \in BOOLEAN
    BY <1>1 DEF IInv, TypeOK, Slots
  <2>2. pdu.on_air_at = Now + (IF slot.is_downlink THEN 0 ELSE config.scheduling_offset_slots)
    BY <1>5 DEF Flies
  <2> HIDE DEF Now
  <2> QED BY <1>3, <1>5, <1>6, <2>1, <2>2, SMTT(20)
<1>8. Flights' = Flights \cup {pdu}
  <2> DEFINE n == Len(slot.pdus)
  <2>1. slot.pdus \in Seq(Transmissions)
    BY <1>1 DEF IInv, TypeOK, Slots
  <2>2. /\ n \in Nat /\ DOMAIN slot.pdus = 1..n /\ DOMAIN slot'.pdus = 1..(n + 1)
        /\ \A i \in 1..n : slot'.pdus[i] = slot.pdus[i]
        /\ slot'.pdus[n + 1] = pdu
    BY <1>5, <2>1, AppendProperties, LenProperties
  <2> HIDE DEF n
  <2>3. 1..(n + 1) = (1..n) \cup {n + 1}
    BY <2>2
  <2>4. {slot'.pdus[i] : i \in 1..(n + 1)} = {slot.pdus[i] : i \in 1..n} \cup {pdu}
    BY <2>2, <2>3
  <2>5. air' = air
    BY <1>4 DEF phyVars
  <2> QED BY <2>2, <2>4, <2>5 DEF Flights
<1> HIDE DEF due
<1>9. e \in AbsoluteSlots /\ e \in Nat /\ pending \in [AbsoluteSlots -> Seq(PendingFeedbacks)]
      /\ due \in Int
  BY <1>1, <1>3, <1>7, AtRange DEF IInv, TypeOK
<1> HIDE DEF e
<1>10. /\ pending'[e] = Append(pending[e], info)
       /\ \A s \in AbsoluteSlots \ {e} : ~ s + CLEANUP_AGE < e => pending'[s] = pending[s]
       /\ \A s \in AbsoluteSlots :
            \/ pending'[s] = <<>> \/ pending'[s] = pending[s]
            \/ pending'[s] = Append(pending[s], info)
  <2> DEFINE after == register_pending(pending, e, info)
  <2>1. /\ after[e] = Append(pending[e], info)
        /\ \A s \in AbsoluteSlots \ {e} : ~ s + CLEANUP_AGE < e => after[s] = pending[s]
        /\ \A s \in AbsoluteSlots : \/ after[s] = <<>> \/ after[s] = pending[s]
                                   \/ after[s] = Append(pending[s], info)
    <3>1. e \in AbsoluteSlots /\ e \in Nat /\ pending \in [AbsoluteSlots -> Seq(PendingFeedbacks)]
      BY <1>9
    <3> QED BY <3>1, CleanupAgeAssumption DEF register_pending
  <2>2. pending' = after
    BY <1>2
  <2> HIDE DEF after
  <2> QED BY <2>1, <2>2
<1>11. elapsed' = elapsed /\ clock' = clock /\ pc' = pc
  BY <1>4 DEF phyVars
<1>12. ClocksAgree'
  BY <1>4, <1>11 DEF TrackInv, ClocksAgree, InAllocation, Now
<1>13. EntriesOfProcess0'
  <2> SUFFICES ASSUME NEW s \in AbsoluteSlots, NEW i \in DOMAIN pending'[s]
               PROVE  pending'[s][i].harq_id = 0
    BY DEF EntriesOfProcess0
  <2>1. pending[s] \in Seq(PendingFeedbacks)
        /\ \A j \in DOMAIN pending[s] : pending[s][j].harq_id = 0
    BY <1>9 DEF TrackInv, EntriesOfProcess0
  <2>2. CASE pending'[s] = <<>>
    <3>1. DOMAIN <<>> = {}
      OBVIOUS
    <3> QED BY <2>2, <3>1
  <2>3. CASE pending'[s] = pending[s]
    BY <2>1, <2>3
  <2>4. CASE pending'[s] = Append(pending[s], info)
    <3> DEFINE n == Len(pending[s])
    <3>1. /\ n \in Nat /\ DOMAIN pending[s] = 1..n /\ DOMAIN pending'[s] = 1..(n + 1)
          /\ \A j \in 1..n : pending'[s][j] = pending[s][j]
          /\ pending'[s][n + 1] = info
      BY <2>1, <2>4, AppendProperties, LenProperties
    <3> HIDE DEF n
    <3>2. i \in 1..n \/ i = n + 1
      BY <3>1
    <3> QED BY <1>2, <2>1, <3>1, <3>2
  <2> QED BY <1>10, <2>2, <2>3, <2>4
<1>14. DueSoon'
  <2>1. \A tx \in Flights : /\ elapsed'[tx.cell_id] <= tx.due_at + ReportDelay
                            /\ tx.due_at <= elapsed'[tx.cell_id] - 1 + K1
    BY <1>11 DEF TrackInv, DueSoon
  <2>2. Now \in Nat /\ K1 \in Nat /\ K1 > 0 /\ ReportDelay \in Nat /\ due = Now + K1
    BY <1>3, <1>6 DEF due
  <2>3. elapsed'[pdu.cell_id] = Now + 1 /\ pdu.due_at = Now + K1
    BY <1>3, <1>5, <1>7, <1>11 DEF due
  <2>4. /\ elapsed'[pdu.cell_id] <= pdu.due_at + ReportDelay
        /\ pdu.due_at <= elapsed'[pdu.cell_id] - 1 + K1
    BY <2>2, <2>3
  <2> QED BY <1>8, <2>1, <2>4 DEF DueSoon
<1>15. ListsLongEnough'
  <2>1. IsFiniteSet(Flights) /\ IsFiniteSet(Flights')
    BY <1>8, FS_AddElement DEF TrackInv, ListsLongEnough
  <2>2. ASSUME NEW d \in Cells, NEW n \in Nat
        PROVE  Cardinality(Live(n)') <= Len(pending'[At(d, n)])
    <3>1. d = c
      BY <1>3 DEF AnswersInTime
    <3>2. /\ Cardinality(Live(n)) <= Len(pending[At(c, n)])
          /\ pending[At(c, n)] \in Seq(PendingFeedbacks) /\ Len(pending[At(c, n)]) \in Nat
      BY <1>1, <1>3, ListLengths DEF TrackInv, ListsLongEnough
    <3>3. IsFiniteSet(Live(n)) /\ Cardinality(Live(n)) \in Nat
      BY <2>1, LiveFinite
    <3>4. CASE n = due
      <4>1. Live(n)' = Live(n) \cup {pdu}
        BY <1>7, <1>8, <3>4 DEF Live
      <4>2. Cardinality(Live(n)') <= Cardinality(Live(n)) + 1
        BY <3>3, <4>1, FS_AddElement
      <4>3. At(c, n) = e
        BY <3>4 DEF e
      <4>4. Len(pending'[e]) = Len(pending[e]) + 1
        BY <1>2, <1>10, <3>2, <4>3, AppendProperties
      <4>5. Cardinality(Live(n)') \in Nat
        BY <3>3, <4>1, FS_AddElement, FS_CardinalityType
      <4> QED BY <3>1, <3>2, <3>3, <4>2, <4>3, <4>4, <4>5
    <3>5. CASE n # due
      <4>1. Live(n)' = Live(n)
        BY <1>7, <1>8, <3>5 DEF Live
      <4>2. CASE Live(n) = {}
        <5>1. Cardinality(Live(n)') = 0
          BY <4>1, <4>2, FS_EmptySet
        <5>2. Len(pending'[At(c, n)]) \in Nat
          <6>1. n \in Int
            OBVIOUS
          <6>2. pending'[At(c, n)] \in Seq(PendingFeedbacks)
            BY <1>1, <1>3, <6>1, AtRange DEF IInv, TypeOK
          <6> QED BY <6>2, LenProperties
        <5> QED BY <3>1, <5>1, <5>2
      <4>3. ASSUME NEW tx \in Live(n) PROVE Cardinality(Live(n)') <= Len(pending'[At(c, n)])
        <5>1. tx \in Flights /\ tx.due_at = n /\ tx.cell_id = c
          BY <1>1, <1>3, FlightsType DEF Live, AnswersInTime
        <5>2. Now + 1 <= n + ReportDelay /\ n <= Now + 1 - 1 + K1
          BY <1>3, <5>1 DEF TrackInv, DueSoon
        <5>3. n < due /\ due - n < K1 + ReportDelay
          <6> HIDE DEF Now
          <6> QED BY <1>3, <1>6, <3>5, <5>2 DEF due
        <5>4. n \in Int /\ due - n < Cycle(SlotsPerFrame[c]) /\ n <= due
          BY <1>6, <1>9, <5>3
        <5>5. At(c, n) # e /\ e - At(c, n) <= due - n
          BY <1>3, <1>9, <5>3, <5>4, AtApart, AtBehind DEF e
        <5>6. At(c, n) \in AbsoluteSlots /\ At(c, n) \in Nat
          BY <1>3, <5>4, AtRange
        <5>7. ~ At(c, n) + CLEANUP_AGE < e
          BY <1>6, <1>9, <5>3, <5>5, <5>6
        <5>8. pending'[At(c, n)] = pending[At(c, n)]
          BY <1>10, <5>5, <5>6, <5>7
        <5> QED BY <3>2, <4>1, <5>8
      <4> QED BY <3>1, <4>2, <4>3
    <3> QED BY <3>4, <3>5
  <2> QED BY <2>1, <2>2 DEF ListsLongEnough, At
<1> QED BY <1>12, <1>13, <1>14, <1>15 DEF TrackInv

\* An answer takes its transmission out of flight, and at most one entry out of
\* the list of the slot it was due in.
LEMMA TrackAnswer ==
  ASSUME AnswersInTime, TrackInv, RequestInv', NEW tx \in air, NEW ack \in BOOLEAN,
         NEW late \in 0..MaxLate, Answer(tx, ack, late)
  PROVE  TrackInv'
<1> DEFINE c == tx.cell_id
           s == At(c, tx.due_at)
<1>1. IInv /\ IInv'
  BY DEF TrackInv, RequestInv, GridInv
<1>2. c \in Cells /\ tx.due_at \in Nat /\ tx.due_at \in Int /\ tx \in Flights
  BY <1>1, FlightsType DEF Flights
<1>3. SlotNumber(c, tx.due_at + late) = s
  <2>1. late = 0
    BY DEF AnswersInTime
  <2>2. tx.due_at + late = tx.due_at
    BY <1>2, <2>1
  <2> QED BY <1>2, <2>2, SlotNumberAt
<1>4. /\ air' = air \ {tx} /\ on_harq_feedback(c, tx.harq_id, ack, s)
      /\ pc = "idle" /\ elapsed' = elapsed /\ clock' = clock /\ pc' = pc /\ slot' = slot
  BY <1>3 DEF Answer, on_harq_feedback, slotVars
<1>5. Flights' = Flights \ {tx}
  <2>1. slot.pdus = <<>> /\ DOMAIN <<>> = {}
    BY <1>4 DEF TrackInv, RequestInv, PdusOfSlot
  <2> QED BY <1>4, <2>1 DEF Flights
<1>6. /\ s \in AbsoluteSlots /\ s \in Nat /\ pending \in [AbsoluteSlots -> Seq(PendingFeedbacks)]
      /\ pending' \in [AbsoluteSlots -> Seq(PendingFeedbacks)]
  BY <1>1, <1>2, AtRange DEF IInv, TypeOK
<1> HIDE DEF s
<1>7. /\ \A k \in AbsoluteSlots \ {s} : pending'[k] = pending[k]
      /\ Len(pending'[s]) >= Len(pending[s]) - 1
      /\ \A j \in DOMAIN pending'[s] : \E i \in DOMAIN pending[s] : pending'[s][j] = pending[s][i]
  <2>1. CASE pending' = pending
    <3>1. Len(pending[s]) \in Nat
      BY <1>6, LenProperties
    <3> QED BY <2>1, <3>1
  <2>2. ASSUME NEW r, pending' = find_and_remove(pending, s, r, tx.harq_id)
        PROVE  /\ \A k \in AbsoluteSlots \ {s} : pending'[k] = pending[k]
               /\ Len(pending'[s]) >= Len(pending[s]) - 1
               /\ \A j \in DOMAIN pending'[s] :
                    \E i \in DOMAIN pending[s] : pending'[s][j] = pending[s][i]
    BY <1>6, <2>2, RemoveEffect
  <2>3. pending' = pending \/ \E r : pending' = find_and_remove(pending, s, r, tx.harq_id)
    BY <1>4 DEF on_harq_feedback
  <2> QED BY <2>1, <2>2, <2>3
<1>8. ClocksAgree'
  BY <1>4 DEF TrackInv, ClocksAgree, InAllocation, Now
<1>9. EntriesOfProcess0'
  <2> SUFFICES ASSUME NEW k \in AbsoluteSlots, NEW j \in DOMAIN pending'[k]
               PROVE  pending'[k][j].harq_id = 0
    BY DEF EntriesOfProcess0
  <2>1. \A i \in DOMAIN pending[k] : pending[k][i].harq_id = 0
    BY DEF TrackInv, EntriesOfProcess0
  <2>2. CASE k # s
    BY <1>7, <2>1, <2>2
  <2>3. CASE k = s
    BY <1>7, <2>1, <2>3
  <2> QED BY <2>2, <2>3
<1>10. DueSoon'
  BY <1>4, <1>5 DEF TrackInv, DueSoon
<1>11. ListsLongEnough'
  <2>1. IsFiniteSet(Flights) /\ IsFiniteSet(Flights')
    BY <1>5, FS_Subset DEF TrackInv, ListsLongEnough
  <2>2. ASSUME NEW d \in Cells, NEW n \in Nat
        PROVE  Cardinality(Live(n)') <= Len(pending'[At(d, n)])
    <3>0. n \in Int
      OBVIOUS
    <3>1. d = c
      BY <1>2 DEF AnswersInTime
    <3>2. /\ Cardinality(Live(n)) <= Len(pending[At(c, n)]) /\ Len(pending[At(c, n)]) \in Nat
      BY <1>1, <1>2, ListLengths DEF TrackInv, ListsLongEnough
    <3>3. IsFiniteSet(Live(n)) /\ Cardinality(Live(n)) \in Nat
      BY <2>1, LiveFinite
    <3>4. At(c, n) \in AbsoluteSlots
      BY <1>2, <3>0, AtRange
    <3>5. Len(pending'[At(c, n)]) \in Nat
      <4>1. pending'[At(c, n)] \in Seq(PendingFeedbacks)
        BY <1>6, <3>4
      <4> QED BY <4>1, LenProperties
    <3>6. CASE n = tx.due_at
      <4>1. Live(n)' = Live(n) \ {tx} /\ tx \in Live(n)
        BY <1>2, <1>5, <3>6 DEF Live
      <4>2. Cardinality(Live(n)') = Cardinality(Live(n)) - 1
        BY <3>3, <4>1, FS_RemoveElement
      <4>3. At(c, n) = s
        BY <3>6 DEF s
      <4>4. Len(pending'[At(c, n)]) >= Len(pending[At(c, n)]) - 1
        BY <1>7, <4>3
      <4> QED BY <3>1, <3>2, <3>3, <3>5, <4>2, <4>4
    <3>7. CASE n # tx.due_at
      <4>1. Live(n)' = Live(n)
        BY <1>5, <3>7 DEF Live
      <4>2. CASE Live(n) = {}
        <5>1. Cardinality(Live(n)') = 0
          BY <4>1, <4>2, FS_EmptySet
        <5> QED BY <3>1, <3>5, <5>1
      <4>3. ASSUME NEW y \in Live(n) PROVE Cardinality(Live(n)') <= Len(pending'[At(c, n)])
        <5>1. y \in Flights /\ y.due_at = n
          BY DEF Live
        <5>2. At(c, n) # s
          BY <1>2, <3>7, <5>1, WindowApart DEF s
        <5> QED BY <1>7, <3>2, <3>4, <4>1, <5>2
      <4> QED BY <3>1, <4>2, <4>3
    <3> QED BY <3>6, <3>7
  <2> QED BY <2>1, <2>2 DEF ListsLongEnough, At
<1> QED BY <1>8, <1>9, <1>10, <1>11 DEF TrackInv

\* Nothing is in flight when the engine is created.
LEMMA InitTrackInv ==
  ASSUME AnswersInTime, Init
  PROVE  TrackInv
<1>1. RequestInv
  BY InitRequestInv
<1>2. IInv
  BY <1>1 DEF RequestInv, GridInv
<1>3. Flights = {}
  <2>1. slot.pdus = <<>> /\ DOMAIN <<>> = {}
    BY DEF Init, EmptySlot
  <2> QED BY <2>1 DEF Init, Flights
<1>4. ClocksAgree
  <2>1. ASSUME NEW c \in Cells PROVE absolute_slot(clock[c]) = At(c, elapsed[c])
    <3> DEFINE m == Cycle(SlotsPerFrame[c])
               a == absolute_slot(StartTiming[c])
    <3>1. m \in Nat \ {0} /\ a \in 0..(m - 1) /\ a \in Int
      BY CellFrame
    <3>2. At(c, elapsed[c]) = (a + 0) % m /\ absolute_slot(clock[c]) = a
      BY DEF Init, At
    <3> HIDE DEF a, m
    <3>3. Divides(m, a + 0, 0, a)
      BY <3>1 DEF Divides
    <3>4. (a + 0) % m = a
      BY <3>1, <3>3, ModUnique
    <3> QED BY <3>2, <3>4
  <2>2. ~InAllocation
    BY DEF Init, InAllocation
  <2> QED BY <2>1, <2>2 DEF ClocksAgree
<1>5. EntriesOfProcess0
  <2>1. \A k \in AbsoluteSlots : pending[k] = <<>>
    BY DEF Init
  <2>2. DOMAIN <<>> = {}
    OBVIOUS
  <2> QED BY <2>1, <2>2 DEF EntriesOfProcess0
<1>6. DueSoon
  BY <1>3 DEF DueSoon
<1>7. ListsLongEnough
  <2>1. \A n : Live(n) = {}
    BY <1>3 DEF Live
  <2>2. ASSUME NEW c \in Cells, NEW n \in Nat
        PROVE  Cardinality(Live(n)) <= Len(pending[At(c, n)])
    <3>1. n \in Int
      OBVIOUS
    <3>2. Len(pending[At(c, n)]) \in Nat
      BY <1>2, <3>1, ListLengths
    <3> QED BY <2>1, <3>2, FS_EmptySet
  <2> QED BY <1>3, <2>2, FS_EmptySet DEF ListsLongEnough
<1> QED BY <1>1, <1>4, <1>5, <1>6, <1>7 DEF TrackInv

\* Every step keeps a tracker entry for each answer due.
LEMMA NextTrackInv == AnswersInTime /\ TrackInv /\ [Next]_vars => TrackInv'
<1> SUFFICES ASSUME AnswersInTime, TrackInv, [Next]_vars PROVE TrackInv'
  OBVIOUS
<1>0. RequestInv' /\ IInv
  BY NextRequestInv DEF TrackInv, RequestInv, GridInv
<1>a. DOMAIN <<>> = {}
  OBVIOUS
<1>1. ASSUME MacEvent PROVE TrackInv'
  <2>1. /\ slot' = slot /\ elapsed' = elapsed /\ clock' = clock /\ air' = air /\ pc' = pc
        /\ pending' = pending
    BY <1>1 DEF MacEvent, add_cell, remove_cell, on_ue_config, on_ue_release, on_dl_data,
              on_bsr, on_sr, on_csi_update, StoreReport, slotVars, phyVars
  <2> QED BY <1>0, <2>1, TrackKept DEF Flights, InAllocation
<1>2. ASSUME NEW new \in Configs, update_config(new) PROVE TrackInv'
  <2>1. /\ slot' = slot /\ elapsed' = elapsed /\ clock' = clock /\ air' = air /\ pc' = pc
        /\ pending' = pending
    BY <1>2 DEF update_config, slotVars, phyVars
  <2> QED BY <1>0, <2>1, TrackKept DEF Flights, InAllocation
<1>3. ASSUME NEW c \in Cells, on_slot_indication(c) PROVE TrackInv'
  BY <1>0, <1>3, TrackIndication
<1>4. ASSUME NEW d \in slot.decisions, AllocateNext(d) PROVE TrackInv'
  <2>1. /\ slot'.pdus = slot.pdus /\ slot'.cell_id = slot.cell_id /\ slot'.timing = slot.timing
        /\ pc' = pc /\ elapsed' = elapsed /\ clock' = clock /\ air' = air /\ pending' = pending
    BY <1>0, <1>4, AllocateEffect DEF phyVars
  <2> QED BY <1>0, <2>1, TrackKept DEF Flights, InAllocation
<1>5. ASSUME FinishAllocation PROVE TrackInv'
  <2>1. /\ elapsed' = elapsed /\ clock' = clock /\ air' = air /\ pending' = pending
        /\ pc = "allocate"
    BY <1>5 DEF FinishAllocation, phyVars
  <2>2. CASE slot.successful = <<>>
    <3>1. NextDirection
      BY <1>5, <2>2 DEF FinishAllocation
    <3>2. Flights' \subseteq Flights
      BY <1>a, <2>1, <3>1, NextDirectionEmpties DEF Flights
    <3>3. InAllocation' => slot'.timing = slot.timing /\ slot'.cell_id = slot.cell_id
      BY <3>1 DEF NextDirection, EmptySlot, InAllocation
    <3> QED BY <1>0, <2>1, <3>2, <3>3, TrackKept DEF InAllocation
  <2>3. CASE slot.successful # <<>>
    <3>1. slot'.pdus = slot.pdus /\ slot'.cell_id = slot.cell_id /\ slot'.timing = slot.timing
      BY <1>0, <1>5, <2>3, FinishEffect
    <3> QED BY <1>0, <2>1, <3>1, TrackKept DEF Flights, InAllocation
  <2> QED BY <2>2, <2>3
<1>6. ASSUME BuildPdu PROVE TrackInv'
  BY <1>0, <1>6, TrackBuild
<1>7. ASSUME SendTtiRequest PROVE TrackInv'
  <2>1. /\ elapsed' = elapsed /\ clock' = clock /\ pending' = pending /\ pc = "build"
        /\ air' = air \cup {slot.pdus[i] : i \in DOMAIN slot.pdus} /\ NextDirection
    BY <1>7 DEF SendTtiRequest
  <2>2. Flights' \subseteq Flights
    BY <1>a, <2>1, NextDirectionEmpties DEF Flights
  <2>3. InAllocation' => slot'.timing = slot.timing /\ slot'.cell_id = slot.cell_id
    BY <2>1 DEF NextDirection, EmptySlot, InAllocation
  <2> QED BY <1>0, <2>1, <2>2, <2>3, TrackKept DEF InAllocation
<1>8. ASSUME NEW outcome \in RelockOutcomes, EndSlot(outcome) PROVE TrackInv'
  <2>1. /\ slot' = slot /\ elapsed' = elapsed /\ clock' = clock /\ air' = air
        /\ pc = "slot_end" /\ pc' \in {"idle", "hung"} /\ pending' = pending
    BY <1>8 DEF EndSlot, phyVars
  <2> QED BY <1>0, <2>1, TrackKept DEF Flights, InAllocation
<1>9. ASSUME NEW tx \in air, NEW ack \in BOOLEAN, NEW late \in 0..MaxLate, Answer(tx, ack, late)
      PROVE  TrackInv'
  BY <1>0, <1>9, TrackAnswer
<1>10. ASSUME UNCHANGED vars PROVE TrackInv'
  <2>1. /\ slot' = slot /\ elapsed' = elapsed /\ clock' = clock /\ air' = air /\ pc' = pc
        /\ pending' = pending
    BY <1>10 DEF vars
  <2> QED BY <1>0, <2>1, TrackKept DEF Flights, InAllocation
<1> QED BY <1>1, <1>2, <1>3, <1>4, <1>5, <1>6, <1>7, <1>8, <1>9, <1>10 DEF Next

-----------------------------------------------------------------------------
\* With one cell that is answered in time the tracker has an entry for every
\* transmission whose answer may still come, for every number of UEs, every
\* numerology, and every SFN the PHY starts with.
THEOREM TransmissionsTracked ==
  ASSUME AnswersInTime
  PROVE  Spec => []EveryTransmissionTracked
<1>1. ASSUME TrackInv PROVE EveryTransmissionTracked
  <2> SUFFICES ASSUME NEW tx \in air
               PROVE  LET s     == SlotNumber(tx.cell_id, tx.due_at)
                          alike == {other \in air : /\ other.cell_id = tx.cell_id
                                                    /\ other.due_at = tx.due_at
                                                    /\ other.harq_id = tx.harq_id}
                      IN  Cardinality(alike) <=
                            Cardinality({i \in DOMAIN pending[s] :
                               pending[s][i].cell_id = tx.cell_id
                                 /\ pending[s][i].harq_id = tx.harq_id})
    BY DEF EveryTransmissionTracked
  <2> DEFINE c == tx.cell_id
             s == SlotNumber(c, tx.due_at)
             alike == {other \in air : /\ other.cell_id = c
                                       /\ other.due_at = tx.due_at
                                       /\ other.harq_id = tx.harq_id}
             entries == {i \in DOMAIN pending[s] :
                           pending[s][i].cell_id = c /\ pending[s][i].harq_id = tx.harq_id}
  <2>1. IInv
    BY <1>1 DEF TrackInv, RequestInv, GridInv
  <2>2. c \in Cells /\ tx.due_at \in Nat /\ tx.due_at \in Int /\ tx.harq_id = 0 /\ air \subseteq Flights
    BY <2>1, FlightsType DEF Flights
  <2>3. s = At(c, tx.due_at) /\ s \in AbsoluteSlots
    BY <2>2, SlotNumberAt, AtRange
  <2>4. pending[s] \in Seq(PendingFeedbacks) /\ Len(pending[s]) \in Nat
    BY <2>1, <2>2, <2>3, ListLengths
  <2>5. Cardinality(alike) <= Cardinality(Live(tx.due_at)) /\ Cardinality(alike) \in Nat
        /\ Cardinality(Live(tx.due_at)) \in Nat
    <3>1. alike \subseteq Live(tx.due_at)
      BY <2>2 DEF Live
    <3>2. IsFiniteSet(Live(tx.due_at)) /\ Cardinality(Live(tx.due_at)) \in Nat
      BY <1>1, LiveFinite DEF TrackInv, ListsLongEnough
    <3> HIDE DEF alike
    <3> QED BY <3>1, <3>2, FS_Subset, FS_CardinalityType
  <2>6. Cardinality(entries) = Len(pending[s])
    <3>1. DOMAIN pending[s] = 1..Len(pending[s])
          /\ \A i \in DOMAIN pending[s] : pending[s][i] \in PendingFeedbacks
      BY <2>4, LenProperties, ElementOfSeq
    <3>2. \A i \in DOMAIN pending[s] : pending[s][i].cell_id = c /\ pending[s][i].harq_id = 0
      BY <1>1, <2>2, <2>3, <3>1 DEF PendingFeedbacks, AnswersInTime, TrackInv, EntriesOfProcess0
    <3>3. entries = 1..Len(pending[s])
      BY <2>2, <3>1, <3>2
    <3> HIDE DEF entries, s
    <3> DEFINE len == Len(pending[s])
    <3>4. len \in Nat /\ len \in Int /\ 1 \in Int
      BY <2>4
    <3> HIDE DEF len
    <3>5. Cardinality(1..len) = IF 1 > len THEN 0 ELSE len - 1 + 1
      BY <3>4, FS_Interval
    <3>6. Cardinality(1..len) = len
      BY <3>4, <3>5
    <3> QED BY <3>3, <3>6 DEF len
  <2>7. Cardinality(Live(tx.due_at)) <= Len(pending[s])
    BY <1>1, <2>2, <2>3 DEF TrackInv, ListsLongEnough
  <2>8. Cardinality(alike) <= Cardinality(entries)
    <3> HIDE DEF alike, entries, s
    <3> QED BY <2>4, <2>5, <2>6, <2>7
  <2> QED BY <2>8
<1>2. ASSUME TrackInv, [Next]_vars PROVE TrackInv'
  BY <1>2, NextTrackInv
<1>3. ASSUME Init PROVE TrackInv
  BY <1>3, InitTrackInv
<1> QED BY <1>1, <1>2, <1>3, PTL DEF Spec

\* While the transmissions are tracked, an answer in time finds an entry unless a
\* UE waiting in its slot, or the cell, is gone.
LEMMA AnswerFindsEntry ==
  ASSUME AnswersInTime, TrackInv, NEW tx \in air, NEW ack \in BOOLEAN, Answer(tx, ack, 0),
         stats'.harq_timeouts > stats.harq_timeouts, tx.cell_id \in cells,
         \A i \in DOMAIN pending[SlotNumber(tx.cell_id, tx.due_at)] :
           pending[SlotNumber(tx.cell_id, tx.due_at)][i].rnti \in ue_by_rnti[tx.cell_id]
  PROVE  FALSE
<1> DEFINE c == tx.cell_id
           s == SlotNumber(c, tx.due_at)
           matching == MatchingEntries(c, tx.harq_id, s)
<1>1. IInv
  BY DEF TrackInv, RequestInv, GridInv
<1>2. /\ c \in Cells /\ tx.due_at \in Nat /\ tx.due_at \in Int /\ tx.harq_id = 0
      /\ tx \in Live(tx.due_at)
  BY <1>1, FlightsType DEF Flights, Live
<1>3. s = At(c, tx.due_at) /\ s \in AbsoluteSlots
  BY <1>2, SlotNumberAt, AtRange
<1>4. pending[s] \in Seq(PendingFeedbacks) /\ Len(pending[s]) \in Nat
  BY <1>1, <1>2, <1>3, ListLengths
<1>5. Len(pending[s]) >= 1
  <2>1. Cardinality(Live(tx.due_at)) <= Len(pending[s])
    BY <1>2, <1>3 DEF TrackInv, ListsLongEnough
  <2>2. Cardinality(Live(tx.due_at)) \in Nat /\ Cardinality(Live(tx.due_at)) # 0
    BY <1>2, LiveFinite, FS_EmptySet DEF TrackInv, ListsLongEnough
  <2> QED BY <1>4, <2>1, <2>2
<1>6. \A i \in DOMAIN pending[s] : pending[s][i].cell_id = c /\ pending[s][i].harq_id = 0
  <2>1. \A i \in DOMAIN pending[s] : pending[s][i] \in PendingFeedbacks
    BY <1>4, LenProperties, ElementOfSeq
  <2> QED BY <1>2, <1>3, <2>1 DEF PendingFeedbacks, AnswersInTime, TrackInv, EntriesOfProcess0
<1>7. 1 \in matching
  <2>1. DOMAIN pending[s] = 1..Len(pending[s])
    BY <1>4, LenProperties
  <2>2. 1 \in DOMAIN pending[s] /\ \A i \in DOMAIN pending[s] : 1 <= i
    BY <1>4, <1>5, <2>1
  <2> HIDE DEF s
  <2> QED BY <1>2, <1>6, <2>2 DEF MatchingEntries, FirstOf, get_all_for_slot, s
<1>8. on_harq_feedback(c, tx.harq_id, ack, s)
  <2>1. tx.due_at + 0 = tx.due_at
    BY <1>2
  <2> QED BY <2>1 DEF Answer
<1>9. \E a, b : stats' = [stats EXCEPT !.dl_retransmissions = a, !.ul_retransmissions = b]
  <2> HIDE DEF s
  <2> QED BY <1>7, <1>8 DEF on_harq_feedback
<1>10. stats \in Stats
  BY <1>1 DEF IInv, TypeOK
<1>11. stats'.harq_timeouts = stats.harq_timeouts /\ stats.harq_timeouts \in Nat
  BY <1>9, <1>10 DEF Stats
<1> QED BY <1>11

\* An answer that comes in time is counted as a timeout only when a UE waiting in
\* its slot, or the cell, is gone, for every number of UEs and every numerology.
THEOREM TimeoutsAreReleases ==
  ASSUME AnswersInTime
  PROVE  Spec => TimeoutMeansReleased
<1> DEFINE Justified ==
      \A tx \in air : \A ack \in BOOLEAN :
        LET s == SlotNumber(tx.cell_id, tx.due_at)
        IN  /\ Answer(tx, ack, 0)
            /\ stats'.harq_timeouts > stats.harq_timeouts
            => \/ tx.cell_id \notin cells
               \/ \E i \in DOMAIN pending[s] : pending[s][i].rnti \notin ue_by_rnti[tx.cell_id]
<1>1. ASSUME TrackInv PROVE Justified
  BY <1>1, AnswerFindsEntry
<1>2. ASSUME TrackInv, [Next]_vars PROVE TrackInv'
  BY <1>2, NextTrackInv
<1>3. ASSUME Init PROVE TrackInv
  BY <1>3, InitTrackInv
<1>4. TimeoutMeansReleased <=> [][Justified]_vars
  BY DEF TimeoutMeansReleased
<1> HIDE DEF Justified
<1> QED BY <1>1, <1>2, <1>3, <1>4, PTL DEF Spec
=============================================================================
