------------------------- MODULE SchedulingPolicies -------------------------
(***************************************************************************)
(* Who is served: the policies of src/scheduler_engine.cpp with the loops of *)
(* schedule_dl and schedule_ul that use them, slot after slot.               *)
(*                                                                          *)
(* A policy gives each decision a priority and is told of each UE served.    *)
(* The loop takes the decisions in the order of their priorities, equal ones *)
(* in any order, until the limit is reached or the grid is full; how many    *)
(* that are is left open, but the first always fits.  No flow or slice is    *)
(* known to the engine, so their factors are 1.                              *)
(*                                                                          *)
(* RoundRobin computes with integers and is exact.  ProportionalFair is       *)
(* modelled for UEs with the same channel, buffers and grants, so that its     *)
(* metric orders them by their average rate alone, and for slots that take    *)
(* one millisecond each.                                                     *)
(***************************************************************************)
EXTENDS Integers, Sequences, FiniteSets, FrameTiming, Functions

CONSTANTS
  Rntis,
  Directions,      \* <<"dl">> or <<"dl", "ul">>: the directions of every slot
  StartStrategies, \* those of the first configuration
  Strategies,      \* those a configuration may select
  SlotsPerFrame,
  StartTiming,     \* the first slot
  MaxPerTti,       \* max_pdsch_per_tti and max_pusch_per_tti
  NEVER,           \* priority of a UE never scheduled: 1000
  WORD,            \* 2^32, the range of uint32_t
  WINDOW,          \* window_ms of ProportionalFair: 1000, in slots
  MaxWait,         \* bound: slots of waiting that are counted
  MaxUpdates       \* bound: calls of update_config

ASSUME PoliciesAssumption ==
  /\ IsFiniteSet(Rntis)
  /\ Directions \in {<<"dl">>, <<"ul">>, <<"dl", "ul">>}
  /\ Strategies \subseteq {"RoundRobin", "ProportionalFair"}
  /\ StartStrategies \subseteq Strategies
  /\ SlotsPerFrame \in Nat \ {0}
  /\ StartTiming \in FrameTimings(SlotsPerFrame)
  /\ MaxPerTti \in Nat \ {0} /\ NEVER \in Nat
  /\ WORD \in Nat /\ WORD > Cycle(SlotsPerFrame)
  /\ WINDOW \in Nat /\ MaxWait \in Nat /\ MaxUpdates \in Nat

VARIABLES
  strategy,        \* SchedulerConfig::strategy, which selects Impl::policy_manager
  demand,          \* of each direction and UE: "none", "data", or "sr", an uplink
                   \* scheduling request without a buffer report
  current_slot,    \* RoundRobinPolicy::current_slot_
  last_scheduled,  \* RoundRobinPolicy::last_scheduled_, by RNTI
  rate_history,    \* ProportionalFairPolicy::rate_history_, by RNTI
  timing,          \* external: the slot the PHY indicates next
  step,            \* the directions of the slot that are done; 0 between slots
  served,          \* of each direction, the UEs served when it was last scheduled
  waited,          \* external: of each direction and UE, the slots it has waited
                   \* since it was served, has data or the policy is new
  updates          \* the calls counted against MaxUpdates

vars == <<strategy, demand, current_slot, last_scheduled, rate_history, timing, step, served,
          waited, updates>>

DirectionNames == {Directions[i] : i \in DOMAIN Directions}

With(f, x, value) == [y \in DOMAIN f \cup {x} |-> IF y = x THEN value ELSE f[y]]

Lesser(a, b) == IF a < b THEN a ELSE b

-----------------------------------------------------------------------------
(* Priorities, as fractions <<numerator, denominator>>; <<1, 0>> is above all.  *)

\* Mutant: the difference is signed, and negative after the SFN wraps.
SlotsSince_signed(last) == current_slot - last

\* The difference of two uint32_t.
SlotsSince(last) == (current_slot - last) % WORD

RoundRobin(r) ==
  IF r \in DOMAIN last_scheduled THEN <<SlotsSince(last_scheduled[r]), 1>> ELSE <<NEVER, 1>>

\* The average is the number of samples over the slots from the first to the last;
\* 1.0, which is below every other, for a UE with fewer than two or with no time
\* between them.
Average(ages) ==
  IF Len(ages) < 2 \/ ages[1] = ages[Len(ages)]
    THEN <<0, 1>>
    ELSE <<Len(ages), ages[1] - ages[Len(ages)]>>

\* The reciprocal of the average computed when the UE was last served.
ProportionalFair(r) ==
  IF r \in DOMAIN rate_history
    THEN <<rate_history[r].cached_avg_rate[2], rate_history[r].cached_avg_rate[1]>>
    ELSE <<1, 0>>

calculate_priority(r, d) ==
  IF demand[d][r] # "data" THEN <<0, 1>>
  ELSE IF strategy = "RoundRobin" THEN RoundRobin(r)
  ELSE ProportionalFair(r)

Above(p, q) == p[1] * q[2] > q[1] * p[2]

-----------------------------------------------------------------------------

Init ==
  /\ strategy \in StartStrategies
  /\ demand = [d \in DirectionNames |-> [r \in Rntis |-> "none"]]
  /\ current_slot = 0
  /\ last_scheduled = <<>>
  /\ rate_history = <<>>
  /\ timing = StartTiming
  /\ step = 0
  /\ served = [d \in DirectionNames |-> {}]
  /\ waited = [d \in DirectionNames |-> [r \in Rntis |-> 0]]
  /\ updates = 0

\* Buffer reports and scheduling requests of the MAC between two slots, and the
\* release of a UE, whose RNTI the policy remembers.
Report(d, r, what) ==
  /\ step = 0
  /\ what = "sr" => d = "ul"
  /\ what # demand[d][r]
  /\ demand' = [demand EXCEPT ![d][r] = what]
  /\ waited' = [waited EXCEPT ![d][r] = 0]
  /\ UNCHANGED <<strategy, current_slot, last_scheduled, rate_history, timing, step, served,
                 updates>>

\* update_config makes a new policy, also for the strategy in use.
update_config(new) ==
  /\ step = 0
  /\ updates < MaxUpdates
  /\ updates' = updates + 1
  /\ strategy' = new
  /\ last_scheduled' = <<>> /\ rate_history' = <<>> /\ current_slot' = 0
  /\ waited' = [d \in DirectionNames |-> [r \in Rntis |-> 0]]
  /\ UNCHANGED <<demand, timing, step, served>>

\* on_slot_start, and the passing of a slot's time on the samples of the averages;
\* those older than the window are alike.
on_slot_start ==
  /\ step = 0
  /\ step' = 1
  /\ timing' = advanced(timing, 1)
  /\ current_slot' = IF strategy = "RoundRobin" THEN absolute_slot(timing) ELSE 0
  /\ rate_history' = [r \in DOMAIN rate_history |->
       [rate_history[r] EXCEPT
          !.ages = [i \in DOMAIN @ |-> Lesser(@[i] + 1, WINDOW + 1)]]]
  /\ UNCHANGED <<strategy, demand, last_scheduled, served, waited, updates>>

Eligible(d) == {r \in Rntis : demand[d][r] # "none"}

\* The sets of UEs that may be served: none left out has a higher priority than one
\* that is in.
Winners(d) ==
  {S \in SUBSET Eligible(d) :
     /\ Cardinality(S) \in 1..MaxPerTti
     /\ \A r \in S, other \in Eligible(d) \ S :
          ~Above(calculate_priority(other, d), calculate_priority(r, d))}

\* The samples left when a new one, of age 0, is added and those in front of the first
\* one in the window are dropped.
Sampled(ages) ==
  LET samples == Append(ages, 0)
      InWindow(i) == samples[i] <= WINDOW
      first == CHOOSE i \in 1..Len(samples) : InWindow(i) /\ \A j \in 1..(i - 1) : ~InWindow(j)
  IN  SubSeq(samples, first, Len(samples))

History(r) == IF r \in DOMAIN rate_history THEN rate_history[r].ages ELSE <<>>

\* Mutant: the slot in which a UE is served is noted once.
update_history_once(S) ==
  /\ last_scheduled' =
       [r \in DOMAIN last_scheduled \cup S |->
          IF r \in DOMAIN last_scheduled THEN last_scheduled[r] ELSE current_slot]
  /\ UNCHANGED rate_history

\* The policy is told of each UE served.
update_history(S) ==
  IF strategy = "RoundRobin"
    THEN /\ last_scheduled' = [r \in DOMAIN last_scheduled \cup S |->
              IF r \in S THEN current_slot ELSE last_scheduled[r]]
         /\ UNCHANGED rate_history
    ELSE /\ rate_history' = [r \in DOMAIN rate_history \cup S |->
              IF r \in S THEN [ages |-> Sampled(History(r)),
                               cached_avg_rate |-> Average(Sampled(History(r)))]
                         ELSE rate_history[r]]
         /\ UNCHANGED last_scheduled

\* schedule_dl or schedule_ul.
Schedule(S) ==
  /\ step > 0
  /\ LET d == Directions[step]
     IN  /\ IF Eligible(d) = {} THEN S = {} ELSE S \in Winners(d)
         /\ update_history(S)
         /\ served' = [served EXCEPT ![d] = S]
         /\ waited' = [waited EXCEPT ![d] = [r \in Rntis |->
              IF r \notin S /\ demand[d][r] = "data" THEN Lesser(@[r] + 1, MaxWait) ELSE 0]]
  /\ step' = IF step = Len(Directions) THEN 0 ELSE step + 1
  /\ UNCHANGED <<strategy, demand, current_slot, timing, updates>>

ProcessSlot == on_slot_start \/ \E S \in SUBSET Rntis : Schedule(S)

Next ==
  \/ \E d \in DirectionNames, r \in Rntis, what \in {"none", "data", "sr"} : Report(d, r, what)
  \/ \E new \in Strategies : update_config(new)
  \/ ProcessSlot

Spec == Init /\ [][Next]_vars

\* The PHY indicates one slot after the other, and each is processed.
FairSpec == Spec /\ WF_vars(ProcessSlot)

-----------------------------------------------------------------------------
(* Properties.                                                              *)

\* The values the variables take.
TypeOK ==
  /\ strategy \in Strategies
  /\ demand \in [DirectionNames -> [Rntis -> {"none", "data", "sr"}]]
  /\ current_slot \in 0..(Cycle(SlotsPerFrame) - 1)
  /\ DOMAIN last_scheduled \subseteq Rntis
  /\ \A r \in DOMAIN last_scheduled : last_scheduled[r] \in 0..(Cycle(SlotsPerFrame) - 1)
  /\ DOMAIN rate_history \subseteq Rntis
  /\ \A r \in DOMAIN rate_history :
       /\ rate_history[r].ages \in Seq(0..(WINDOW + 1))
       /\ rate_history[r].cached_avg_rate \in Nat \X (Nat \ {0})
  /\ timing \in FrameTimings(SlotsPerFrame)
  /\ step \in 0..Len(Directions)
  /\ served \in [DirectionNames -> SUBSET Rntis]
  /\ waited \in [DirectionNames -> [Rntis -> 0..MaxWait]]
  /\ updates \in 0..MaxUpdates

\* The UEs of which the policy knows no average.
Newcomers == {r \in Rntis : ProportionalFair(r) = <<1, 0>>}

\* In slots of one direction, a UE that keeps having data is passed over less often
\* than twice for each UE: under RoundRobin always, across the SFN wrap, after any pause
\* and after a new policy; under ProportionalFair as long as no average of it is known
\* and the window is longer than a turn of all UEs (calculate_priority and update_history
\* of the two policies, schedule_ul).
WaitBounded ==
  \A d \in DirectionNames, r \in Rntis :
    strategy = "RoundRobin" \/ r \in Newcomers => waited[d][r] < 2 * Cardinality(Rntis)

\* A UE that has data from some time on, while the strategy is RoundRobin, is served again
\* and again, in slots of one direction: the slots of the wrapped SFN, the UEs that come
\* and go, the scheduling requests of priority 0 and a new policy starve nobody for good
\* (RoundRobinPolicy, schedule_ul).
RoundRobinServesEveryUe ==
  \A d \in DirectionNames, r \in Rntis :
    <>[](demand[d][r] = "data" /\ strategy = "RoundRobin") => []<>(r \in served[d])
=============================================================================
