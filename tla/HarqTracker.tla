---------------------------- MODULE HarqTracker ----------------------------
(***************************************************************************)
(* class HarqTimingTracker of src/scheduler_engine.cpp: the transmissions   *)
(* whose HARQ feedback is awaited, listed under the absolute slot number in *)
(* which the feedback is expected.  The std::map is a function from slot    *)
(* numbers to sequences, a slot that is not a key of the map having the     *)
(* empty sequence.                                                          *)
(*                                                                          *)
(* CLEANUP_AGE is the literal 100 of register_pending.                      *)
(***************************************************************************)
EXTENDS Integers, Sequences

CONSTANT CLEANUP_AGE

ASSUME CleanupAgeAssumption == CLEANUP_AGE \in Nat

\* Mutant: the age is an unsigned difference, huge for a slot after the wrap.
register_pending_unsigned_age(pending, expected_slot, info) ==
  [s \in DOMAIN pending |->
     IF s > expected_slot \/ s + CLEANUP_AGE < expected_slot THEN <<>>
     ELSE IF s = expected_slot THEN Append(pending[s], info)
     ELSE pending[s]]

\* push_back under the expected slot, then erase from the front of the ordered
\* map every slot number more than CLEANUP_AGE below the expected one.
register_pending(pending, expected_slot, info) ==
  [s \in DOMAIN pending |->
     IF s + CLEANUP_AGE < expected_slot THEN <<>>
     ELSE IF s = expected_slot          THEN Append(pending[s], info)
     ELSE pending[s]]

\* The positions in a list whose entry satisfies a test, and the first of them.
FirstOf(S) == {i \in S : \A j \in S : i <= j}

Without(entries, i) == SubSeq(entries, 1, i - 1) \o SubSeq(entries, i + 1, Len(entries))

\* Mutant: the key is erased from the map with the entry.
find_and_remove_slot(pending, feedback_slot, rnti, harq_id) ==
  [pending EXCEPT ![feedback_slot] = <<>>]

\* Removes the first entry of the slot with this RNTI and process number.  The
\* cell and the direction of the entry are not compared.
find_and_remove(pending, feedback_slot, rnti, harq_id) ==
  LET entries == pending[feedback_slot]
      found   == FirstOf({i \in DOMAIN entries :
                            entries[i].rnti = rnti /\ entries[i].harq_id = harq_id})
  IN  [pending EXCEPT ![feedback_slot] =
         IF found = {} THEN @ ELSE Without(@, CHOOSE i \in found : TRUE)]

get_all_for_slot(pending, feedback_slot) == pending[feedback_slot]
=============================================================================
