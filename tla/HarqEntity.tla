----------------------------- MODULE HarqEntity -----------------------------
(***************************************************************************)
(* template HarqEntity of include/core/ue_context.hpp: the HARQ processes   *)
(* of one UE in one direction.  An entity is a function from process        *)
(* numbers to process records; HarqIds is 0..15 in the code.                *)
(*                                                                          *)
(* tx_slot stands for tx_time.absolute_slot(), the only part of tx_time the *)
(* entity reads, and tb_size for tb_config.tb_size_bytes, the only part of   *)
(* tb_config the scheduler reads.                                           *)
(***************************************************************************)
EXTENDS Integers

CONSTANT HarqIds

ASSUME HarqIdsAssumption == HarqIds \subseteq Nat /\ 0 \in HarqIds

HarqStates == {"Idle", "Pending", "NackReceived", "Complete"}

MAX_TX == 4

HarqProcesses ==
  [state : HarqStates, tx_count : Nat, rv_index : 0..3, ndi : BOOLEAN,
   tx_slot : Nat, tb_size : Nat]

HarqEntities == [HarqIds -> HarqProcesses]

NewHarqEntity ==
  [h \in HarqIds |-> [state |-> "Idle", tx_count |-> 0, rv_index |-> 0,
                      ndi |-> FALSE, tx_slot |-> 0, tb_size |-> 0]]

can_retransmit(proc) == proc.tx_count < MAX_TX /\ proc.state = "NackReceived"

\* Process::reset, which keeps the time of the last transmission.
reset(proc) == [proc EXCEPT !.state = "Idle", !.tx_count = 0, !.rv_index = 0,
                            !.ndi = ~proc.ndi]

\* The processes get_free_process may return: the first idle one, or none.
get_free_process(entity) ==
  {h \in HarqIds : /\ entity[h].state = "Idle"
                   /\ \A g \in HarqIds : entity[g].state = "Idle" => h <= g}

\* The processes get_retx_process may return: among those that can be
\* retransmitted the one sent longest ago, the first of them on a tie.
get_retx_process(entity) ==
  LET retx == {h \in HarqIds : can_retransmit(entity[h])}
  IN  {h \in retx : \A g \in retx :
         \/ entity[h].tx_slot < entity[g].tx_slot
         \/ entity[h].tx_slot = entity[g].tx_slot /\ h <= g}

\* Feedback counts only for a process that waits for it.
process_feedback(entity, harq_id, ack) ==
  IF harq_id \notin HarqIds \/ entity[harq_id].state # "Pending"
    THEN entity
    ELSE [entity EXCEPT ![harq_id] =
            IF ack THEN reset(@) ELSE [@ EXCEPT !.state = "NackReceived"]]
=============================================================================
