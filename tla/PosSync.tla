------------------------------ MODULE PosSync ------------------------------
(***************************************************************************)
(* The orders of a till of the POS app (flutter_pos) on their way into     *)
(* Odoo: SyncBloc, the gateway (nexus_api_gateway) and the recipes it      *)
(* consumes (nexus_restaurant_costing).                                    *)
(*                                                                         *)
(* The sync loop posts all pending orders in one call; a call that timed   *)
(* out may still be running in Odoo when the next one comes.  Odoo books   *)
(* each order of a call in a savepoint of one REPEATABLE READ transaction. *)
(***************************************************************************)
EXTENDS Naturals

CONSTANTS
    Refs,         \* client_order_ref of the till's orders, in storing order
    EmptyOrders,  \* those paid with an empty cart
    Calls,        \* post_offline_orders calls that may be open at a time
    NoCall        \* the sync loop waits for none

ASSUME PosAssumption ==
    Refs \subseteq Nat /\ EmptyOrders \subseteq Refs /\ NoCall \notin Calls

VARIABLES
    rows,     \* the orders table: copies of a reference that are alike are one
    sync,     \* the call SyncBloc waits for
    call,     \* calls of the gateway
    odoo      \* what Odoo has committed for each reference

vars == <<rows, sync, call, odoo>>

Row == [pending : BOOLEAN, synced : BOOLEAN]

(* seen: references committed when the transaction began.  made: booked in  *)
(* it so far; once answered, the references the till has yet to mark.       *)
Call == [phase : {"free", "sent", "open", "answered"},
         todo : SUBSET Refs, seen : SUBSET Refs, made : SUBSET Refs]

(* consumed counts the times the recipes' ingredients left the stock. *)
Booking == [orders : Nat, sale : {"none", "sale", "cancel"},
            recipe_consumed : BOOLEAN, consumed : Nat]

Free == [phase |-> "free", todo |-> {}, seen |-> {}, made |-> {}]

Pending == {r \in Refs : rows[r].pending}
Booked == {r \in Refs : odoo[r].orders > 0}

-----------------------------------------------------------------------------
Init ==
    /\ rows = [r \in Refs |-> [pending |-> FALSE, synced |-> FALSE]]
    /\ sync = NoCall
    /\ call = [c \in Calls |-> Free]
    /\ odoo = [r \in Refs |-> [orders |-> 0, sale |-> "none",
                               recipe_consumed |-> FALSE, consumed |-> 0]]

(* The checkout stores an order (again, when building the next one failed). *)
StoreRow(r) ==
    /\ \A q \in Refs : q < r => rows[q].pending \/ rows[q].synced
    /\ rows' = [rows EXCEPT ![r].pending = TRUE]
    /\ UNCHANGED <<sync, call, odoo>>

-----------------------------------------------------------------------------
(* SyncBloc *)

(* Mutant: the oldest pending order only. *)
StartWithOldest(c) ==
    /\ sync = NoCall /\ call[c] = Free
    /\ Pending # {}
    /\ call' = [call EXCEPT ![c].phase = "sent",
                 ![c].todo = {r \in Pending : \A q \in Pending : r <= q}]
    /\ sync' = c
    /\ UNCHANGED <<rows, odoo>>

StartSync(c) ==
    /\ sync = NoCall /\ call[c] = Free
    /\ Pending # {}
    /\ call' = [call EXCEPT ![c].phase = "sent", ![c].todo = Pending]
    /\ sync' = c
    /\ UNCHANGED <<rows, odoo>>

(* Each reference that was created is marked, in all its rows. *)
MarkSynced(c, r) ==
    /\ sync = c /\ call[c].phase = "answered" /\ r \in call[c].made
    /\ rows' = [rows EXCEPT ![r] =
                   [pending |-> FALSE,
                    synced |-> rows[r].synced \/ rows[r].pending]]
    /\ call' = [call EXCEPT ![c].made = @ \ {r}]
    /\ UNCHANGED <<sync, odoo>>

EndSync(c) ==
    /\ sync = c /\ call[c].phase = "answered" /\ call[c].made = {}
    /\ call' = [call EXCEPT ![c] = Free]
    /\ sync' = NoCall
    /\ UNCHANGED <<rows, odoo>>

(* The network fails or the time is up: an exception ends the sync.  The    *)
(* call may still reach Odoo, and goes on there if it has.                  *)
GiveUp(c) ==
    /\ sync = c /\ call[c].phase # "answered"
    /\ sync' = NoCall
    /\ UNCHANGED <<rows, call, odoo>>

(* A call or an answer nobody waits for is lost. *)
Discard(c) ==
    /\ sync # c /\ call[c].phase \in {"sent", "answered"}
    /\ call' = [call EXCEPT ![c] = Free]
    /\ UNCHANGED <<rows, sync, odoo>>

(* The app is killed and started again: its database stays. *)
Restart ==
    /\ sync # NoCall
    /\ sync' = NoCall
    /\ UNCHANGED <<rows, call, odoo>>

-----------------------------------------------------------------------------
(* The gateway: _post_offline_orders and create_pos_order *)

BeginCall(c) ==
    /\ call[c].phase = "sent"
    /\ call' = [call EXCEPT ![c].phase = "open", ![c].seen = Booked]
    /\ UNCHANGED <<rows, sync, odoo>>

(* The orders of a call are booked in the order of their rows; one not yet  *)
(* booked has its first row there.                                          *)
Turn(c, r) ==
    /\ call[c].phase = "open" /\ r \in call[c].todo
    /\ \A q \in call[c].todo : r <= q

(* Inserting a reference another transaction has inserted waits for its end *)
(* and fails if that one commits (unique reference and company).            *)
Unclaimed(c, r) ==
    \A d \in Calls \ {c} : call[d].phase = "open" => r \notin call[d].made

(* Mutant: no unique constraint on the reference. *)
CreateUnchecked(c, r) ==
    /\ Turn(c, r)
    /\ r \notin call[c].seen
    /\ r \notin EmptyOrders
    /\ call' = [call EXCEPT ![c].todo = @ \ {r}, ![c].made = @ \union {r}]
    /\ UNCHANGED <<rows, sync, odoo>>

(* The sale order is confirmed with the order. *)
CreatePosOrder(c, r) ==
    /\ Turn(c, r)
    /\ r \notin call[c].seen
    /\ r \notin Booked /\ Unclaimed(c, r)
    /\ r \notin EmptyOrders
    /\ call' = [call EXCEPT ![c].todo = @ \ {r}, ![c].made = @ \union {r}]
    /\ UNCHANGED <<rows, sync, odoo>>

(* An exception is answered as the order's error and its savepoint undone:  *)
(* an order that is already booked (the branch that should return it logs   *)
(* to a name the module lacks), one without lines, or any other failure.    *)
RefuseOrder(c, r) ==
    /\ Turn(c, r)
    /\ call' = [call EXCEPT ![c].todo = @ \ {r}]
    /\ UNCHANGED <<rows, sync, odoo>>

RefuseBad(c, r) == RefuseOrder(c, r) /\ (r \in Booked \/ r \in EmptyOrders)
RefuseGood(c, r) == RefuseOrder(c, r) /\ ~(r \in Booked \/ r \in EmptyOrders)

(* Mutant: the flag on the sale order is not looked at. *)
ConfirmAgain(b) ==
    [b EXCEPT !.sale = "sale", !.recipe_consumed = TRUE, !.consumed = @ + 1]

Confirm(b) ==
    [b EXCEPT !.sale = "sale", !.recipe_consumed = TRUE,
              !.consumed = IF b.recipe_consumed THEN @ ELSE @ + 1]

CommitCall(c) ==
    /\ call[c].phase = "open" /\ call[c].todo = {}
    /\ odoo' = [r \in Refs |-> IF r \in call[c].made
                   THEN Confirm([odoo[r] EXCEPT !.orders = @ + 1])
                   ELSE odoo[r]]
    /\ call' = [call EXCEPT ![c].phase = "answered", ![c].seen = {}]
    /\ UNCHANGED <<rows, sync>>

(* Mutants: the answer is sent before the transaction is undone; the loop   *)
(* is not told of the failure.                                              *)
AbortAnswered(c) ==
    /\ call[c].phase = "open"
    /\ call' = [call EXCEPT ![c].phase = "answered", ![c].todo = {},
                            ![c].seen = {}]
    /\ UNCHANGED <<rows, sync, odoo>>

AbortSilently(c) ==
    /\ call[c].phase = "open"
    /\ call' = [call EXCEPT ![c] = Free]
    /\ UNCHANGED <<rows, sync, odoo>>

(* The Odoo worker dies: the transaction is undone and the call fails. *)
AbortCall(c) ==
    /\ call[c].phase = "open"
    /\ call' = [call EXCEPT ![c] = Free]
    /\ sync' = IF sync = c THEN NoCall ELSE sync
    /\ UNCHANGED <<rows, odoo>>

(* The sales department works on the sale order of a booked order. *)
SetSale(r, from, b) ==
    /\ odoo[r].sale = from
    /\ odoo' = [odoo EXCEPT ![r] = b]
    /\ UNCHANGED <<rows, sync, call>>

CancelSale(r) == SetSale(r, "sale", [odoo[r] EXCEPT !.sale = "cancel"])

(* Set back to quotation and confirmed. *)
ConfirmSale(r) == SetSale(r, "cancel", Confirm(odoo[r]))

-----------------------------------------------------------------------------
Trouble ==
    \/ \E c \in Calls : GiveUp(c) \/ AbortCall(c)
    \/ \E c \in Calls : Discard(c) /\ call[c].phase = "sent"
    \/ \E c \in Calls, r \in Refs : RefuseGood(c, r)
    \/ Restart

Next ==
    \/ Restart
    \/ \E c \in Calls :
          \/ StartSync(c) \/ EndSync(c) \/ GiveUp(c) \/ Discard(c)
          \/ BeginCall(c) \/ CommitCall(c) \/ AbortCall(c)
          \/ \E r \in Refs :
                \/ MarkSynced(c, r) \/ CreatePosOrder(c, r)
                \/ RefuseBad(c, r) \/ RefuseGood(c, r)
    \/ \E r \in Refs : StoreRow(r) \/ CancelSale(r) \/ ConfirmSale(r)

Spec == Init /\ [][Next]_vars

(* The network comes back again and again, each time starting a sync; Odoo  *)
(* serves the calls that reach it.                                          *)
Fairness ==
    /\ WF_vars(\E c \in Calls : StartSync(c))
    /\ \A c \in Calls :
          /\ WF_vars(EndSync(c) \/ \E r \in Refs : MarkSynced(c, r))
          /\ WF_vars(\/ BeginCall(c) \/ CommitCall(c)
                     \/ \E r \in Refs : CreatePosOrder(c, r) \/ RefuseBad(c, r))
          /\ WF_vars(Discard(c) /\ call[c].phase = "answered")

FairSpec == Spec /\ Fairness

-----------------------------------------------------------------------------
(* Properties *)

(* Every variable has its type, and the sync loop waits for a call that is  *)
(* under way.                                                               *)
PosTypeOK ==
    /\ rows \in [Refs -> Row]
    /\ sync \in {c \in Calls : call[c] # Free} \union {NoCall}
    /\ call \in [Calls -> Call]
    /\ odoo \in [Refs -> Booking]

(* However often an order is sent, by calls that overlap or whose answer    *)
(* was lost, Odoo books it once.                                            *)
BookedOnce == \A r \in Refs : odoo[r].orders <= 1

(* The till takes an order off its list only once Odoo has committed it: an *)
(* answer that came out of a transaction then undone marks nothing.         *)
SyncedIsBooked == \A r \in Refs : rows[r].synced => r \in Booked

(* A booked order's ingredients leave the stock once, through cancelling,   *)
(* resetting and confirming its sale order again.                           *)
RecipeConsumedOnce == \A r \in Refs : odoo[r].consumed = odoo[r].orders

(* Once the trouble ends, every stored order with lines gets booked.        *)
EveryOrderIsBooked ==
    <>[][~Trouble]_vars =>
        \A r \in Refs :
            (rows[r].pending /\ r \notin EmptyOrders) ~> (r \in Booked)

=============================================================================
