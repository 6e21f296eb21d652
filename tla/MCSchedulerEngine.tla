------------------------ MODULE MCSchedulerEngine ------------------------
(***************************************************************************)
(* Instances of SchedulerEngine for TLC.  The delays keep the relations     *)
(* they have in the code with smaller numbers: K1 equals the scheduling     *)
(* offset plus UlCrcDelay, and the cleanup age lies between K1 and the SFN  *)
(* cycle.                                                                   *)
(***************************************************************************)
EXTENDS SchedulerEngine, TLC

EveryCell(value) == [c \in Cells |-> value]

TwoSlotFrames == EveryCell(2)
BeforeTheWrap == EveryCell([sfn |-> MAX_SFN - 1, slot |-> 1, slots_per_frame |-> 2])
ThreeRbs      == EveryCell(3)
Fdd           == EveryCell("FDD")
Tdd           == EveryCell("TDD")
NoFlags       == {[dl |-> FALSE, ul |-> FALSE]}
NoPattern     == EveryCell(<<>>)

\* A size of n needs n blocks at MCS 0 and half of them at MCS 1, within the cell.
BlocksNeeded ==
  [c \in Cells |-> [m \in Mcs |-> [b \in Bytes |->
     LET n == IF m = 0 THEN b ELSE (b + 1) \div 2
     IN  IF n < 1 THEN 1 ELSE IF n > NumRbs[c] THEN NumRbs[c] ELSE n]]]

Default == [max_pdsch_per_tti |-> 16, max_pusch_per_tti |-> 16,
            harq_retx_priority |-> TRUE, scheduling_offset_slots |-> 1]
\* A slot for both directions and an uplink slot, alternating; periodicity_slots is 2.
Mixed         == EveryCell(<<[dl |-> TRUE, ul |-> TRUE], [dl |-> FALSE, ul |-> TRUE]>>)
RntiSymmetry  == Permutations(Rntis)

OnlyDefault == {Default}
OneLimited  == {Default, [Default EXCEPT !.max_pdsch_per_tti = 1]}
=============================================================================
