# A formal model of NR5G Basic Scheduler

TLA+ modules, TLC configurations and TLAPS proofs about the 5G NR MAC scheduler in
`src/nr_scheduler`. Paths below are relative to that directory.

The tree does not build as it stands: `nr_types.hpp` uses `SubcarrierSpacing`
before it declares it, and `slice_orchestrator.cpp` calls `std::min` with an `int`
and a `uint16_t` (line 311). The model reads both as what they plainly mean: the
enumeration in scope, the smaller of the two numbers.

## 1. The system

The engine owns everything. The PHY calls it once a slot, and it answers with a
downlink and an uplink TTI request; the MAC tells it of UEs, data and reports; UEs
answer transmissions and the answers reach it as HARQ feedback. All of its handlers
lock one mutex. Nothing is persisted and there are no threads of its own.

| Component | State | Operations | Hard behaviour | What makes it correct |
|---|---|---|---|---|
| Frame timing, `nr_types.hpp` | none (a value) | `absolute_slot`, `advance`, `advanced`, `diff` | SFN wrap | two ways of computing a slot number agree across the wrap |
| Scheduler engine, `scheduler_engine.cpp` | cells, configuration, statistics, callbacks, its mutex | `add_cell`, `remove_cell`, MAC events, `on_slot_indication`, `on_harq_feedback`, `start`, `stop` | slots, events and answers interleave; PDUs are granted in one slot and sent or answered in another | blocks do not collide; slots end and serve traffic; every transmission's answer finds its entry |
| HARQ timing tracker, same file | entries by slot number | `register_pending` with cleanup, `find_and_remove`, `get_all_for_slot`, `clear_for_ue` | wrap of slot numbers, lost and late answers, released UEs | an entry lives as long as its transmission may be answered |
| HARQ entity, `ue_context.hpp` | 16 processes a direction | `get_free_process`, `get_retx_process`, `process_feedback` | protocol over several slots | a process carries one block at a time, retransmitted at most `MAX_TX` times |
| UE context and repository, same file | buffers, reports, DRX, HARQ; maps by RNTI and by id | `create_ue`, `remove_ue`, setters | reconfiguration, reuse of RNTIs | a context belongs to one UE |
| Cell and slot context, `cell_context.hpp` | configuration, TDD pattern, capability of the slot | `start_slot`, `initialize` | uninitialised flags | a slot is used in the directions the pattern gives it |
| Resource grid, same file | a bit per resource element | `is_available`, `allocate`, `deallocate`, `find_contiguous` | a grid nearly full | no element is given twice, no free run is missed |
| Default allocator, `scheduler_engine.cpp` | none | `allocate`, `max_allocatable_rbs` | any order and size of requests | it fails only when nothing is free |
| Policies, same file | slot numbers and rate averages by RNTI | `calculate_priority`, `update_history`, `on_slot_start` | starvation, slot numbers that start again | each UE is served again and again |
| Slice orchestrator, `slice_orchestrator.cpp` | slices, UE map, budgets, pool | create, delete, associate; budgets, borrowing, reports | borrowing in any order, unsigned budgets, a mutex locked twice | budgets fit in the cell, guarantees hold |
| QoS engine, `qos_engine.cpp` | flows with token buckets, rate and delay trackers | register, remove, report, limits, priority, lists of flows in trouble | rounding, debt, unsigned counts, trackers that forget | a flow keeps to its rates; no false alarms |
| CCE pool, `cell_context.hpp` | a bit per CCE, a count | `allocate`, `deallocate`, `can_allocate` | aggregation levels, double releases | no CCE is given twice, the count is exact (used by nothing yet) |
| TBS functions, `nr_types.hpp` | none | `tbs_table_lookup`, `min_rbs_for_tbs` | rounding, an undefined cast, sizes that shrink as blocks are added | the search ends with enough blocks and none too many; the transport block fits what was allocated |
| Channel managers, `channels/*.hpp` | declared only | `reset_slot` is all that is called | their bodies are not in the repository | |
| PHY and MAC interfaces | messages | indications, requests, events | lost and late answers | (the world around the engine) |

Interaction in a slot: `on_slot_indication` locks `Impl::mutex`, ticks the QoS engine,
starts the slice orchestrator's slot, initialises the cell's slot context, and for each
direction the slot allows selects UEs, asks the policy to order the decisions,
allocates blocks for each, builds a TTI request (registering each PDU with the
tracker), hands it to the PHY and to a callback, and ends the orchestrator's slot.

The engine constructs its own orchestrator and QoS engine and lets nobody reach
them, so in the engine no slice, budget or flow exists. They are modelled as
components of their own, with the callers their interfaces invite.

## 2. Modules

| Module | Models |
|---|---|
| `FrameTiming` | `FrameTiming`: slot numbers and their wrap |
| `HarqEntity` | `HarqEntity` and its processes, as operators on a value |
| `HarqTracker` | `HarqTimingTracker`, as operators on the map |
| `ResourceGrid` | the bitmap of a slot, as operators on a set of elements |
| `SchedulerEngine` | the engine, its cells and UEs, with the PHY and the UEs around it; its properties |
| `SchedulingPolicies` | the policies with the loops of `schedule_dl` and `schedule_ul`: who is served, slot after slot |
| `SlotResources` | `ResourceGrid` and `CcePool` in the hands of any callers |
| `TransportBlock` | `tbs_table_lookup` and the loop of `min_rbs_for_tbs` |
| `SliceOrchestrator` | slices, associations, budgets and borrowing |
| `QosEngine` | flows, token buckets, counts |
| `QosMonitors` | the GBR and delay trackers of the flows and the lists computed from them |
| `ExclusiveGrants` | abstract: elements are granted in sets and free again when the grant ends |
| `MCSchedulerEngine`, `MCSchedulingPolicies`, `MCSliceOrchestrator`, `MCQosEngine` | values for TLC |
| `NumberLemmas` | facts the proofs share: arithmetic modulo a number, induction over sets of numbers and finite sets, what `SumFunctionOnSet` returns |
| `SchedulerEngineProofs` | the operators of the first four modules, then the engine: types, allocations, the air, service, the tracker |
| `SlotResourcesProofs`, `SliceProofs`, `QosProofs`, `QosMonitorsProofs`, `SchedulingPoliciesProofs`, `TransportBlockProofs` | proofs about the module each is named for |

`SchedulerEngine` composes the first four modules. It leaves open what two others compute in
detail: the order of the decisions (`SchedulingPolicies`) and the number of blocks a transport
block takes (`TransportBlock`). `SchedulerEngine` and `SlotResources` both implement
`ExclusiveGrants`.

Operators whose comment begins with "Mutant" are plausible bugs of the definition
that follows them. They are not part of the model; each shows that a property
can fail.

### The engine's state and steps

Variables carry the names of the members they model. `pc` tells where the slot being
processed is and doubles as the mutex: it is `"idle"` when nobody holds it. `clock`,
`elapsed` and `air` are the world: the slot the PHY indicates next, how many it has
indicated, and the transmissions whose answer has not come back.

A handler that makes one update is one action (`on_ue_config`, `on_dl_data`, ...). A
slot is several: `on_slot_indication` decides, `AllocateNext` takes the decisions one
by one in any order, `FinishAllocation` begins to build the request, `BuildPdu`
registers each PDU, `SendTtiRequest` puts the request on the air and goes on to the
uplink, `EndSlot` ends the slot. Since `pc` holds the mutex these steps interleave
with nothing; they are separate so that the grid, the tracker and the air can be
observed between them and every order of the decisions is tried.

Abstractions, and why they lose nothing the properties see:

* The policy is *any* order of the decisions. The four strategies compute
  real-valued metrics sorted with ties broken arbitrarily, and any other may be set.
* `min_rbs_for_tbs` is a constant function `MinRbs`, anything between 1 and the width
  of the cell.
* The capability of a slot (`can_schedule_dl`, `can_schedule_ul`) keeps
  indeterminate values in a TDD cell without a pattern; `UninitialisedFlags` gives
  the outcomes.
* Locking the orchestrator's mutex a second time (`on_slot_end` calls
  `check_sla_compliance`) is undefined; `RelockOutcomes` are that the thread blocks,
  that `lock` throws, that it is granted.
* UEs answer in the slot the engine expects, or up to `MaxLate` slots later, and the
  report reaches the engine up to `ReportDelay` slots after that, or never.
* Statistics that are only read by a getter and are not in a property are left out,
  as are power, timing advance and bandwidth parts, which nothing reads.

### Slices

Each method is one action. `calculate_budgets`, `request_resources` and the like
iterate over hash maps, so they take the iteration order as a parameter. Budgets are
16 bit and wrap. Three variables are the world's: the cell the budgets are for, what was scheduled
against each budget, whether the agreements have changed. `is_scheduling_allowed` and
`report_scheduling` lock the mutex separately, so they are two actions, `Ask` and `Report`, and
`asked` has the decisions between them. `report_scheduling` tests nothing. The caller is any:
`MaxAsked` says how many decisions may wait while it makes another call, and with 0 it
reports each before it does anything else. Nothing in the repository fixes the number: the one caller there is,
`get_eligible_ues`, asks for all UEs first and reports nothing.

`connected_ues` is left uninitialised by `create_slice`; `IndeterminateCounts` gives the
outcomes, as `UninitialisedFlags` does in the engine. `borrowed_rbs` is an `int16_t`, and so is what
`return_resources` converts its argument to (`AsInt16`).

### QoS

Each method is one action that reads a clock advanced by `Tick`. A flow's log of sent
blocks lives only in the model and is what the rate properties speak about. The sender
keeps to `get_allowed_bytes` but for the padding of a transport block, with nothing between the query and the
report: `Send` is one step, the discipline of the sender and not of the engine. `calculate_priority` updates the
bucket as `get_allowed_bytes` does, and is that action; what it answers is not modelled. `QosMonitors` has the
other half of the flow, which shares nothing with the buckets but the calls that feed
it: the sender keeps a queue of packets and reports each arrival and transmission.

### Policies

A slot is `on_slot_start` and one `Schedule` for each direction. `Schedule` takes the set of
UEs that are served: a set no UE outside of which has a higher priority, of any size up to the limit,
since the grid may be full earlier. Priorities are fractions. `RoundRobin` is exact,
with the unsigned difference of slot numbers; `ProportionalFair` is modelled for UEs that differ in their
history only. `waited` counts what a property needs to know of the past.

### Grid, CCEs, transport blocks

`SlotResources` calls every operation of the two bitmaps with every argument: callers release
what they hold, what others hold or what nobody holds, and allocate at once or later what
`find_contiguous` returned. The scan of `find_contiguous` is modelled as its loop
and compared with the definition of `ResourceGrid` that the engine and its proofs use.
`TransportBlock` is one call of `min_rbs_for_tbs`, one action for a turn of its loop, with the
code's table and arithmetic.

### Refinement

`ExclusiveGrants` has one variable, the set of grants in force, and two steps: a grant is made of
elements in no other grant, or grants end. `BlocksGrantedOnce` maps it to the resources of the allocated
decisions and built PDUs of the slot in progress, `GridGrantedOnce` to what the callers of a grid hold, `CcesGrantedOnce`
to the blocks of CCEs. A step of the code may be a stutter (a failed allocation, a PDU that moves
from the decisions to the request) but must not make two grants, nor one that overlaps.

## 3. Runs

| Run | Asks | Result |
|---|---|---|
| `engine` | over more than an SFN cycle of a TDD cell: does every order of the decisions pack the grid, grant each block once, fail only when full; is traffic served, also with a limit of one PDU; are transmissions disjoint and tracked; is a timeout only counted for a released UE? | holds |
| `policies` | is no UE passed over too often, is each served again and again? | holds |
| `slot_resources` | is no element and no CCE granted twice, is the lowest run found, is the count exact? | holds |
| `tbs` | does the search end with what it should, does the block fit its resources? | holds |
| `slices` | with decisions reported at once: do budgets fit in the cell, are guarantees kept, is borrowing accounted for; is there no dangling slice? | holds |
| `qos` | does a flow keep to its bucket and fill rate, is its debt bounded, do the counts cover the flows? | holds |
| `qos_monitors` | is no alarm false, no violation counted that was none, no steady flow in deficit? | holds |
| `feedback_routing` | does an answer consume the entry of its own transmission? | violated |
| `slot_end_relock` | is every slot that was begun counted as processed, when relocking may block? | violated |
| `harq_retx` | does a NACK leave its process waiting for a retransmission? | violated |
| `qos_mbr` | does a flow keep to its maximum bit rate? | violated |
| `slices_stale` | with one call between the answer and the report: does a slice keep to its budget? | violated |

Each violated run quotes, in `PROJECT.json`, the sentence of the repository it
contradicts.

**Bounds.** `MaxSlots`, `MaxCalls`, `MaxUeId`, `MaxTime`, `MaxBlocks`, `MaxPackets` and `MaxUpdates` end a
behaviour or some of its steps, which is why `CHECK_DEADLOCK` is off in every run but
`slot_resources` and `policies`; the search of `tbs` ends by itself, and with `"hang"` the engine really stops.

*Engine.* The numbers are small and keep the relations the code has: `K1`
(4 in the code, 2 here) equals the scheduling offset plus the CRC delay (2 + 2, 1 + 1)
as with the default configuration, and the cleanup age (100, 2) is no less than `K1` and less than the SFN cycle (1024
frames, 2 frames of 2 slots). Behaviours start one slot before the SFN wraps, and `engine` has five slots, past the four of the
cycle, so that numbers repeat and the cleanup meets them. Every other slot carries both directions, so that the answers of
a downlink and an uplink block of one UE are due in one slot. Two UEs are enough for two entries, PDUs or allocations to meet; three
blocks with sizes of one and three make fits, shares and a full grid in which an allocation fails. Five calls add a cell,
configure two UEs and give both traffic, or one and leave the others for a release, a
reconfiguration, a new report or the removal of the cell. The violated runs have an FDD cell and blocks of one size.

*Policies.* Three UEs, one of them served in a slot, so that an order of two may starve the third; an
SFN cycle of four slots, so that it wraps within a turn; `NEVER` is 4, above
every difference before the wrap and below those after it, as 1000 is in the code for a UE that did not
pause for a thousand slots. A window of two slots drops samples. Six slots of waiting are counted, the bound of `WaitBounded`.

*Slot.* Three blocks and two symbols leave a hole and let a run be free in one symbol only. Seven
CCEs with levels 1, 2 and 4 have an aligned block that does not fit.

*Transport blocks.* All 29 schemes; one, two and four layers; sizes around the thresholds of
24, 3824 and 8424 bits; cells of 1, 11, 51 and 273 blocks.

*Slices.* Three slices, the least for two lenders, of four agreements, in cells of three blocks, which the
guarantees exceed, and five; seven calls: three slices, two associations, the budgets and one change. `COUNT_WORD`, 2^32 in
the code, is 4: the count wraps after two associations from the indeterminate value 3. `slices_stale` has the same
values but for `MaxAsked`, which is 1.

*QoS.* Two flows of any type, three ticks, three blocks and a rate (3) that loses part of a
byte in each tick. For the monitors, one flow (flows share no tracker) with two guaranteed rates and
two budgets, five packets in five milliseconds and a window of two.

RNTIs, slices and QFIs are symmetric in `engine`, `slices`, `slices_stale`, `qos` and `qos_mbr`; the
runs with a liveness property use no symmetry.

**Fairness.** No fairness is assumed of the MAC or the UEs. What is assumed is weak, and of threads
that wait for nobody:

* of the steps of the slot being processed (`slot_end_relock`): the thread that called
  `on_slot_indication` holds the mutex and runs on once it has begun;
* of `ProcessSlot` (`policies`): the PHY indicates one slot after the other and each is processed, for
  serving a UE again and again means nothing to a PHY that stops;
* of the loop of `min_rbs_for_tbs` (`tbs`).

**What the properties assume.** They are stated where they hold and no wider:

* `EveryTransmissionTracked` takes answers that come in the slot they are due in
  (`MaxLate = 0`) and are reported before the cleanup age has passed. With
  `MaxLate = 1` it fails: a late answer takes another transmission's entry. It takes
  one cell, or cells that share no RNTI: `find_and_remove` does not compare cells.
* `AirDisjoint` takes configurations with the same `scheduling_offset_slots`. After
  `update_config` with another, PUSCHs granted in two slots meet in one and overlap.
* `SlotServesTraffic` speaks of cells with a TDD pattern, or FDD, and of UEs that are
  eligible. A TDD cell without a pattern may serve nothing, as its flags are indeterminate, and a
  UE with DRX is never eligible, as `active_time` is never set.

* The properties of the policies are for slots of one direction and UEs that are not in DRX: see below for both.
* `BudgetsWithinCell` and `GuaranteeKept` take a caller that reports each decision before another call (`MaxAsked = 0`): an
  answer that is stale when it is reported overdraws a budget, as `slices_stale` shows, and what is left then wraps.
* `GuaranteeKept` and `BorrowedBlocksAreUsed` take agreements that stay in force during the slot, and the latter returns below 2^15
  blocks, as those in a cell of at most 275 are: `return_resources` makes a greater number negative, and `borrowed_rbs` grows.
* `CountsCoverFlows` speaks of the time until `reset_statistics`.
* `GridMarksHeld` excludes leaks only while callers release what they hold, and `CanAllocateExact` says yes
  may be wrong once levels rise or blocks are released.
* `MinimalForSmallBlocks` ends at 3824 bits, where sizes stop growing with the blocks.

**Seen on the way, without a run of their own.**

* Engine: the entries of a released UE stay in the tracker (`scheduler_engine.cpp:998`; `clear_for_ue`, line
  103, "Clear all pending entries (e.g., on UE release)", is never called), so a UE that takes over the RNTI finds
  them. As no HARQ process is ever marked pending, process 0 carries every block although the answer of
  another is outstanding. A PUSCH is granted by the direction of the current slot and sent later, possibly in a
  downlink slot. After the SFN wrap the cleanup keeps entries of the previous cycle. Configuring a UE twice
  discards its context. `active_time` of a UE in DRX is never set.
* Policies: under `ProportionalFair` a UE whose last average is higher than what the others' tends to is never served again, since
  an average is computed only when its UE is served (`DOCUMENTATION.md:353` says it balances fairness and throughput).
  `RoundRobin` keeps one entry for an RNTI, so a UE served in the downlink of every slot may never be served in the uplink
  (`DOCUMENTATION.md:345`). After the SFN wrap the difference of slot numbers exceeds the priority of a UE never served. `sr_pending` is
  never cleared, and a UE with nothing else has priority 0. `create_policy_manager` ignores `alpha_fairness`
  and `history_window_ms`.
* Slices: borrowing ignores `preemption_capable`, and `max_rbs` ("Maximum RBs per slot", `slice_orchestrator.hpp:39`), which only the
  shares of `calculate_budgets` respect: a slice at its maximum borrows and schedules more. `return_resources` leaves the blocks in the
  budget. `connected_ues` is not the number of UEs: `create_slice` stores it uninitialised (line 63), associating a UE twice counts it
  twice (line 134), and it may wrap to 0 with UEs in the slice. After a lender is deleted the reported isolation may be negative.
* QoS: `gbr_flows` counts delay-critical flows in and not out, and after `reset_statistics` removals wrap the counts. `calculate_priority`
  casts a negative number of tokens to `uint32_t` (`qos_engine.cpp:184`) where `get_allowed_bytes` takes it as 0, so that a flow
  in debt may send its whole buffer. The GBR tracker drops samples only when one is added, so a flow that fell silent is not in deficit. The delay tracker forgets what
  waits behind a packet that was sent. `is_critical` takes 0.8 of the budget where `calculate_priority` reads `delay_margin_factor`.
* Sizes: between 3825 and 8424 bits the size is divided by 32 (`nr_types.hpp:408`) and falls to about a quarter, so
  `min_rbs_for_tbs` may return more blocks than needed (MCS 16, four layers, 262 bytes, 11 blocks).
* CCEs: `can_allocate` looks at the count alone; a pool of more than 128 CCEs ends the program with an
  exception from the bitset.

## 4. Proofs

Every safety property that a passing run checks, the refinements of `ExclusiveGrants` included and `BorrowedBlocksAreUsed`
excepted, is also a theorem, which holds for every value of the constants that satisfies the named assumptions of the modules: any number of cells,
UEs, slots, blocks, slices, flows, rates. The assumptions are about what types and widths guarantee in the code
(`EngineAssumption`, `MaxSfnAssumption`, `CleanupAgeAssumption`, `HarqIdsAssumption`, `SlotResourcesAssumption`,
`SliceAssumption`, `QosAssumption`, `MonitorsAssumption`, `PoliciesAssumption`, `TransportBlockAssumption`), and TLC
evaluates each. One deserves a word: `ProductsFit` asks that the product the code computes for the widest cell
and the most layers (`n_info`, before it is divided by 1024) fits in 30 bits, as it does for the 275 blocks and
8 layers of 5G.

Some theorems have a hypothesis of their own. Those of the engine and of the slices say when its property is true: what happens without
them is described in section 3. `FewUes` is sufficient, and the code's numbers leave much room within it,
but the property may hold beyond.

| Hypothesis | Of | Says | Why |
|---|---|---|---|
| `SameOffset` | `AirStaysDisjoint` | all configurations have the same scheduling offset | PUSCHs of two slots meet in one |
| `PatternsSet`, `LimitsPositive` | `SlotsServeTraffic` | cells are FDD or have a pattern, a request has room for one PDU | the flags of the slot are indeterminate; a limit of 0 is legal |
| `AnswersInTime` | `TransmissionsTracked`, `TimeoutsAreReleases` | one cell; answers in the slot they are due in, `K1` slots later as the offset and the CRC delay say, and reported before the cleanup age and the SFN cycle have passed | late answers take other entries, cleanup removes entries |
| `ReportsFirst` | `BudgetsFitInCell`, `GuaranteesAreKept` | each decision is reported before another call | a stale answer overdraws a budget |
| `FewUes` | `WaitsAreBounded` | slots of one direction; twice the UEs are at most the SFN cycle, `NEVER` and the window | with more UEs slot numbers may repeat, priorities saturate or samples leave the window before each was served; the code's 1000 allow for 500 UEs |

The runs `engine` and `slices` are inside of these hypotheses. `policies` is deliberately smaller than `FewUes` asks
(three UEs in a cycle of four): the bound holds there too, but the proof does not say so.

### The engine

* `TypeCorrect`, from `IInv`. `TypeOK` is not inductive alone: a retransmission takes the size of the block from
  the HARQ process, so that it is a buffer size depends on the processes being idle (`UesIdle`), as the code leaves them to its
  discredit (`harq_retx`); and that they stay idle depends on the
  types of the entries that feedback is applied to. One lemma per action, one step per conjunct it disturbs.
* `RequestsDisjoint`, `GridStaysPacked`, `AllocationFailsWhenFull`, `GrantsExclusive`, from `GridInv`: the grid is a lowest interval
  of blocks and the union of what the request holds. First fit on such a grid returns its first free block (`FindInPackedGrid`), so
  the new allocation is disjoint from the others and the interval grows. The third is an action property: no free run means no
  free block. The last is the refinement: `RequestStep` says what a step does to the resources of the request (one more,
  none, or all gone), `StepGrants` that each is a step of the abstract specification.
* `AirStaysDisjoint`, from `AirInv`: within a request UEs and blocks differ (`RequestInv`); transmissions are dated by the slots the PHY has
  indicated (`AirTimes`); those of the same slot and direction do not meet (`AirApart`); and the slot being processed has put nothing
  on the air in a direction it has not sent yet (`SlotFresh`). With a fixed offset two requests are for two slots.
* `SlotsServeTraffic`, from `ServiceInv`: in a direction that UEs wait for and the slot allows there is a decision to take, an allocation
  to build or a PDU to send, until something has been sent. The grid of a request without allocations is empty, so the first decision fits.
* `TransmissionsTracked`, `TimeoutsAreReleases`, from `TrackInv`. That a transmission has *an* entry is not inductive, as two transmissions of
  a UE may be due in one slot and their entries are alike. `ListsLongEnough` is: the tracker's list for a slot and a UE is at least as long
  as the answers due in it are many. It needs that the engine's slot is the PHY's (`ClocksAgree`), that entries are of process 0
  (`EntriesOfProcess0`) and that what is on the air is due soon enough not to be taken for old by the cleanup, nor for another
  cycle's (`DueSoon`). The second is an action property: an answer without an entry is of a released UE.

### The slot's bitmaps

* `GridMarks`, `GridExclusive`, from `GridInv` (what is held is disjoint and marked), and `CceCountExact`, `CcesExclusive`, from `PoolInv` (blocks
  held are marked, the count is the cardinality). The invariants need what the refinement does not say, that the bitmap
  knows of every grant: only then is what is available in no grant. A release of foreign blocks ends the grants it touches.
* `ScanFindsTheLowestRun`: `ScanKnows` says what the loop of `find_contiguous` knows after `n` blocks, by induction on `n`.
* `CanAllocateIsExact`, from `CceInv`: until levels rise or blocks are released the pool fills from the bottom (`Packed`), in whole
  blocks of the level, so that enough free CCEs are an aligned free block.

### Slices

* `AssociationsStayValid`, from itself: what each call does to the four maps.
* `TypeCorrect`, for any caller: the conversions keep every number within its width.
* `BudgetsFitInCell`, `GuaranteesAreKept`, from `IInv`: what the shares of `calculate_budgets` take in any order of the
  slices stays within the cell (`WithinCell`), and a loan moves blocks from what one slice has left to what another has. `OneAsked` says
  what `ReportsFirst` is for: a decision that waits for its report is still allowed, so the budget it is charged to has room and
  the 16-bit difference does not wrap.

### Flows

* `TypeCorrect`, `DebtStaysBounded`, `CountsStayCovering`, from `FlowsGood` (buckets neither overflow nor are updated in the future nor are
  deeper in debt than a padding) and `CountsGood`. The bound on the debt needs that `get_allowed_bytes` is never more than the tokens of the
  updated bucket, in spite of the cast to 32 bits.
* `TokenRateIsKept`, from `RateInv`: `LogGood` says of every block that was sent that the bytes since then and the tokens left are at
  most a bucket and what the rate let in up to the last update. Each update rounds down, so the sum does too.
* `TypeCorrect`, `DelayAlarmsAreReal`, `ViolationsCountedAreReal`, `DeficitsAreReal` (`QosMonitorsProofs`), from `MonitorsInv`: packets wait in
  the order they arrived (`QueuesOrdered`), the packet a tracker takes for the oldest waits, or an older one (`PendingWaits`), waiting
  and sent packets are all that arrived (`WaitingCounted`), and samples are in order, so that dropping those in front drops
  the old ones (`HistoriesOrdered`).

### Policies

* `TypeCorrect`, from `PolicyInv`: the averages are fractions with a positive denominator, the history is in order.
* `WaitsAreBounded`, from `WaitInv`. A UE that waits loses each slot to UEs that were served later than it afterwards. For one that has been served
  (`Known`) the number of slots it has waited is at most that of the UEs standing behind it, or the slot numbers have come round and
  passed its own, which happens once and starts the count again: hence twice the UEs. For one never served (`Unknown`) the same
  with the wrap of the numbers in place of its own. A newcomer under `ProportionalFair` (`NewTurn`) has an infinite
  priority until it has an average, and each loss gives another UE a sample or an average, of which there are two for each.

### Transport blocks

* `BoundsStayInCell`, `SearchIsTight`, from `SearchInv`: the number below `low` does not hold the bytes, `high` does or is the whole
  cell. Nothing is used of the sizes, which do not grow with the blocks.
* `BlocksFitTheirResources`: the rounding of every branch of `tbs_table_lookup` ends below the information it started with, for every
  outcome of the undefined cast.
* `SmallBlocksAreMinimal`: up to 3824 bits the sizes grow with the blocks, so what the search ends with is the least.

### What is only model-checked

The liveness properties `RoundRobinServesEveryUe` and `SearchEnds`: liveness under fairness needs `ENABLED`, which the
prover does not know. `BorrowedBlocksAreUsed`, for it depends on the widths
of the numbers returned. The violated properties, of course, and the values TLC gives the constants.

Sums, the scan of a grid and the window of samples are functions over data. The library's induction theorems take a
predicate as a parameter, which no installed prover instantiates; `NumberLemmas` states induction over sets instead
(`NatSetInduction`, `FiniteInduction`): a set that has 0 and the successor of each member has every number. Powers of two are a recursive
function for the same purpose, since the provers know nothing of `^`.

## 5. Not modelled

* `start`, `stop`, `set_phy_interface`, `set_policy_manager`, registration of callbacks and what callbacks do, the
  accessors that take no lock (`get_statistics` may be read while a slot updates it, `stop` clears a flag nothing reads, a callback that calls the engine
  blocks). Planned, see below.
* `on_phr` (stored, never read), power, timing advance, bandwidth parts.
* The metrics of `MaxThroughput` and `QosAware` and the priority of a QoS flow: functions of real numbers without state.
* Latency, utilisation and the other figures of slices; the 5QI table; `update_config` of the QoS engine.
* The channel managers: what keeps state is declared over an `Impl` that is defined nowhere in the repository. DCI and UCI encoding.
* `FrameTiming::diff` and comparison, `clear_for_ue`, `pending_count`, `next_rv`: nobody calls them.
* The tests, which were read for what they expect.

## 6. Plan

Done: the engine with its operators; slices; token buckets; monitors; policies; the slot's bitmaps; block sizes; the refinement of
`ExclusiveGrants`; proofs of the safety properties of these. Left, in this order:

1. `EngineLocks`: `start`, `stop`, unlocked accessors, callbacks that call back.
2. `HarqLifecycle`: the HARQ entity with a scheduler that marks processes pending, as the
   entity's interface expects, with the bound on transmissions and a new-data indicator that toggles.
3. Theorems for slots of both directions: which UEs `RoundRobin` may starve, and a bound for those it does not.
