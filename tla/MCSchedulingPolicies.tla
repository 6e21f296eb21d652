------------------------ MODULE MCSchedulingPolicies ------------------------
(* Instances of SchedulingPolicies for TLC: frames of two slots, two of them    *)
(* in an SFN cycle.                                                           *)
EXTENDS SchedulingPolicies, TLC

BeforeTheWrap == [sfn |-> MAX_SFN - 1, slot |-> 1, slots_per_frame |-> 2]
Downlink      == <<"dl">>
Uplink        == <<"ul">>
BothWays      == <<"dl", "ul">>
=============================================================================
