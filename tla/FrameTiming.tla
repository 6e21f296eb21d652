---------------------------- MODULE FrameTiming ----------------------------
(***************************************************************************)
(* struct FrameTiming of include/core/nr_types.hpp: a position in the radio *)
(* timeline as a System Frame Number, a slot in that frame and the number   *)
(* of slots a frame has (10 * 2^numerology).  The SFN wraps at MAX_SFN, so   *)
(* slot numbers repeat every MAX_SFN * slots_per_frame slots.               *)
(*                                                                          *)
(* MAX_SFN is 1024 in the code.  No intermediate value of the code's 16 and *)
(* 32 bit arithmetic overflows for slots_per_frame <= 160 and k < 2^16, so  *)
(* the operators use unbounded integers.  The field `symbol' is never read  *)
(* or changed by these functions and is left out.                           *)
(***************************************************************************)
EXTENDS Integers

CONSTANT MAX_SFN

ASSUME MaxSfnAssumption == MAX_SFN \in Nat \ {0}

FrameTimings(slotsPerFrame) ==
  [sfn : 0..(MAX_SFN - 1), slot : 0..(slotsPerFrame - 1),
   slots_per_frame : {slotsPerFrame}]

\* The number of a slot within the SFN cycle.
absolute_slot(t) == t.sfn * t.slots_per_frame + t.slot

\* Mutant: the SFN is not reduced modulo MAX_SFN.
advanced_without_wrap(t, k) ==
  LET total_slots == t.slot + k
  IN  [t EXCEPT !.slot = total_slots % t.slots_per_frame,
                !.sfn  = t.sfn + total_slots \div t.slots_per_frame]

\* FrameTiming::advance, as the value advanced() returns.
advanced(t, k) ==
  LET total_slots == t.slot + k
  IN  [t EXCEPT !.slot = total_slots % t.slots_per_frame,
                !.sfn  = (t.sfn + total_slots \div t.slots_per_frame) % MAX_SFN]

Cycle(slotsPerFrame) == MAX_SFN * slotsPerFrame
=============================================================================
