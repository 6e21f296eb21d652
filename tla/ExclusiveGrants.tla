--------------------------- MODULE ExclusiveGrants ---------------------------
(***************************************************************************)
(* What the allocators of the repository promise: elements are granted in   *)
(* sets, no element is in two grants at a time, and an element is free again *)
(* once the grant it was in has ended.  The resource blocks of a slot as the *)
(* engine allocates them, a ResourceGrid and a CcePool in the hands of any   *)
(* callers implement it.                                                    *)
(***************************************************************************)
VARIABLE grants   \* the grants in force, each a set of elements

Init == grants = {}

\* One grant is made, of elements none of which is in a grant.
Grant ==
  \E g \in grants' \ grants :
    /\ g # {}
    /\ \A h \in grants : g \cap h = {}
    /\ grants' = grants \cup {g}

\* Some grants, or all of them, end.
End == grants' \subseteq grants

Next == Grant \/ End

Spec == Init /\ [][Next]_grants
=============================================================================
