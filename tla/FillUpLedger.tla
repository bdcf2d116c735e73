---------------------------- MODULE FillUpLedger ----------------------------
(***************************************************************************)
(* What the forecourt pipeline promises about a fill-up, without queues,   *)
(* calls or transactions: once the bridge has captured it, it is held      *)
(* until Odoo has received it, and then posted to the books, once.  It     *)
(* never moves back and is never dropped.                                  *)
(***************************************************************************)
CONSTANT Refs

VARIABLE stage

Stages == {"unseen", "held", "received", "posted"}

Init == stage = [r \in Refs |-> "unseen"]

(* The bridge captures a fill-up. *)
Hold(r) ==
    /\ stage[r] = "unseen"
    /\ stage' = [stage EXCEPT ![r] = "held"]

(* One commit in Odoo: some fill-ups held by the bridge are received, and    *)
(* some that were held or received are posted.                               *)
Settle(received, posted) ==
    /\ \A r \in received : stage[r] = "held"
    /\ \A r \in posted : stage[r] \in {"held", "received"}
    /\ stage' = [r \in Refs |-> IF r \in posted THEN "posted"
                                ELSE IF r \in received THEN "received"
                                ELSE stage[r]]

Next ==
    \/ \E r \in Refs : Hold(r)
    \/ \E received, posted \in SUBSET Refs : Settle(received, posted)

Spec == Init /\ [][Next]_stage

=============================================================================
