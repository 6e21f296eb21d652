------------------------ MODULE MCSliceOrchestrator ------------------------
(***************************************************************************)
(* Instances of SliceOrchestrator for TLC: agreements in the manner of the  *)
(* three templates, scaled to a cell of a few blocks.                       *)
(***************************************************************************)
EXTENDS SliceOrchestrator, TLC

Sla(guaranteed, max, share, priority, strict, capable, preemptible) ==
  [guaranteed_rbs |-> guaranteed, max_rbs |-> max, resource_share |-> share,
   slice_priority |-> priority, strict_isolation |-> strict,
   preemption_capable |-> capable, preemptible |-> preemptible]

\* URLLC: strictly isolated and not preemptible.  eMBB: preemptible.  mMTC:
\* preemptible by the others, with a maximum.  The fourth may preempt any slice
\* that lets it, may not be preempted itself and has a maximum.
Urllc     == Sla(2, 3, 1, 10, TRUE, TRUE, FALSE)
Embb      == Sla(1, 0, 1, 100, FALSE, FALSE, TRUE)
Mmtc      == Sla(1, 2, 2, 150, FALSE, FALSE, TRUE)
Preempter == Sla(1, 2, 0, 5, FALSE, TRUE, FALSE)

Templates     == {Urllc, Embb, Mmtc, Preempter}
SliceSymmetry == Permutations(SliceIds) \cup Permutations(Rntis)
=============================================================================
