--------------------------- MODULE PosSync_proofs ---------------------------
(* Proofs about the till's orders: what holds for every set of orders and   *)
(* of calls that may be open at a time.                                     *)
EXTENDS PosSync, TLAPS

(* A call holds nothing it has not reached the phase for; what an answer    *)
(* reports is committed; what an open transaction has booked is neither     *)
(* committed nor booked in another one.                                     *)
CallsAreSound ==
    \A c \in Calls :
        /\ call[c].phase = "free" => call[c] = Free
        /\ call[c].phase = "sent" => call[c].made = {}
        /\ call[c].phase = "answered" => call[c].made \subseteq Booked
        /\ call[c].phase = "open" =>
              /\ call[c].made \intersect Booked = {}
              /\ \A d \in Calls \ {c} :
                    call[d].phase = "open" =>
                        call[c].made \intersect call[d].made = {}

(* The flag on the sale order is set with the first confirmation.           *)
Consumed ==
    \A r \in Refs :
        /\ odoo[r].consumed = odoo[r].orders
        /\ odoo[r].recipe_consumed <=> odoo[r].orders > 0
        /\ odoo[r].sale = "none" <=> odoo[r].orders = 0

PosInv ==
    /\ PosTypeOK /\ CallsAreSound /\ Consumed
    /\ BookedOnce /\ SyncedIsBooked

-----------------------------------------------------------------------------
LEMMA FreeType == Free \in Call
BY DEF Free, Call

LEMMA PosInvInit == Init => PosInv
<1> SUFFICES ASSUME Init PROVE PosInv
  OBVIOUS
<1> USE DEF Init
<1>1. PosTypeOK
  BY FreeType DEF PosTypeOK, Row, Booking
<1>2. CallsAreSound
  BY DEF CallsAreSound, Free
<1>3. Consumed /\ BookedOnce /\ SyncedIsBooked
  BY DEF Consumed, BookedOnce, SyncedIsBooked
<1> QED BY <1>1, <1>2, <1>3 DEF PosInv

-----------------------------------------------------------------------------
(* One call changes, and stays sound; what Odoo books meanwhile, if any-    *)
(* thing, no other open transaction has booked.                             *)
LEMMA CallChanges ==
    ASSUME PosTypeOK, CallsAreSound, NEW c \in Calls, NEW k \in Call,
           call' = [call EXCEPT ![c] = k],
           Booked \subseteq Booked',
           \A d \in Calls \ {c} :
              call[d].phase = "open" => call[d].made \intersect Booked' = {},
           k.phase = "free" => k = Free,
           k.phase = "sent" => k.made = {},
           k.phase = "answered" => k.made \subseteq Booked',
           k.phase = "open" =>
              /\ k.made \intersect Booked' = {}
              /\ \A d \in Calls \ {c} :
                    call[d].phase = "open" => k.made \intersect call[d].made = {}
    PROVE  CallsAreSound'
<1>1. call'[c] = k /\ \A d \in Calls : d # c => call'[d] = call[d]
  BY DEF PosTypeOK
<1> SUFFICES ASSUME NEW d \in Calls
             PROVE  /\ call'[d].phase = "free" => call'[d] = Free
                    /\ call'[d].phase = "sent" => call'[d].made = {}
                    /\ call'[d].phase = "answered" => call'[d].made \subseteq Booked'
                    /\ call'[d].phase = "open" =>
                          /\ call'[d].made \intersect Booked' = {}
                          /\ \A e \in Calls \ {d} :
                                call'[e].phase = "open" =>
                                    call'[d].made \intersect call'[e].made = {}
  BY DEF CallsAreSound
<1>2. CASE d = c
  BY <1>1, <1>2
<1>3. CASE d # c
  <2>1. /\ call[d].phase = "free" => call[d] = Free
        /\ call[d].phase = "sent" => call[d].made = {}
        /\ call[d].phase = "answered" => call[d].made \subseteq Booked'
    BY DEF CallsAreSound
  <2>2. ASSUME call[d].phase = "open", NEW e \in Calls \ {d}, call'[e].phase = "open"
        PROVE  call[d].made \intersect call'[e].made = {}
    BY <1>1, <1>3, <2>2 DEF CallsAreSound
  <2> QED BY <1>1, <1>3, <2>1, <2>2
<1> QED BY <1>2, <1>3

LEMMA CallTypes ==
    ASSUME PosTypeOK, NEW c \in Calls, NEW k \in Call, k.phase # "free",
           call' = [call EXCEPT ![c] = k], sync' = sync,
           rows' \in [Refs -> Row], odoo' \in [Refs -> Booking]
    PROVE  PosTypeOK'
<1>1. /\ sync \in {d \in Calls : call[d] # Free} \union {NoCall}
      /\ call \in [Calls -> Call]
  BY DEF PosTypeOK
<1>2. /\ call' \in [Calls -> Call] /\ call'[c] = k
      /\ \A d \in Calls : d # c => call'[d] = call[d]
  BY <1>1
<1>3. k # Free
  BY DEF Free
<1>4. sync' \in {d \in Calls : call'[d] # Free} \union {NoCall}
  BY <1>1, <1>2, <1>3
<1> QED BY <1>2, <1>4 DEF PosTypeOK

LEMMA PosFields ==
    ASSUME PosInv
    PROVE  /\ PosTypeOK /\ CallsAreSound /\ Consumed /\ BookedOnce /\ SyncedIsBooked
           /\ rows \in [Refs -> Row] /\ odoo \in [Refs -> Booking]
           /\ call \in [Calls -> Call] /\ \A c \in Calls : call[c] \in Call
BY DEF PosInv, PosTypeOK

(* No transaction of another call is concerned when Odoo commits nothing.   *)
LEMMA OthersKept ==
    ASSUME CallsAreSound, UNCHANGED odoo
    PROVE  /\ Booked' = Booked
           /\ \A d \in Calls : call[d].phase = "open" =>
                 call[d].made \intersect Booked' = {}
BY DEF CallsAreSound, Booked

(* The till: storing orders, waiting for calls, giving up, marking.         *)

(* Storing an order marks none as synced. *)
LEMMA StoreRowInv ==
    ASSUME PosInv, NEW r \in Refs, StoreRow(r)
    PROVE  PosInv'
<1> USE DEF PosInv, StoreRow
<1>1. PosTypeOK'
  BY DEF PosTypeOK, Row
<1>2. CallsAreSound' /\ Consumed' /\ BookedOnce'
  BY DEF CallsAreSound, Consumed, BookedOnce, Booked
<1>3. SyncedIsBooked'
  BY DEF SyncedIsBooked, Booked, PosTypeOK, Row
<1> QED BY <1>1, <1>2, <1>3

LEMMA StartSyncInv ==
    ASSUME PosInv, NEW c \in Calls, StartSync(c)
    PROVE  PosInv'
<1> USE DEF PosInv, StartSync
<1>1. PosTypeOK'
  BY DEF PosTypeOK, Call, Pending, Free
<1>2. CallsAreSound'
  BY DEF CallsAreSound, PosTypeOK, Call, Free, Booked
<1>3. Consumed' /\ BookedOnce' /\ SyncedIsBooked'
  BY DEF Consumed, BookedOnce, SyncedIsBooked, Booked
<1> QED BY <1>1, <1>2, <1>3

(* Only what an answer reports is marked, and that is committed. *)
LEMMA MarkSyncedInv ==
    ASSUME PosInv, NEW c \in Calls, NEW r \in Refs, MarkSynced(c, r)
    PROVE  PosInv'
<1> DEFINE k == [call[c] EXCEPT !.made = @ \ {r}]
<1>1. /\ call[c].phase = "answered" /\ r \in call[c].made
      /\ rows' = [rows EXCEPT ![r] = [pending |-> FALSE,
                                      synced |-> rows[r].synced \/ rows[r].pending]]
      /\ call' = [call EXCEPT ![c] = k] /\ UNCHANGED <<sync, odoo>>
  BY DEF MarkSynced
<1>2. call[c].made \subseteq Booked
  BY <1>1, PosFields DEF CallsAreSound
<1>3. call[c] \in Call
  BY PosFields
<1>4. k \in Call /\ k.phase = "answered" /\ k.made = call[c].made \ {r}
  BY <1>1, <1>3 DEF Call
<1> HIDE DEF k
<1>5. rows' \in [Refs -> Row]
  BY <1>1, PosFields DEF Row
<1>6. PosTypeOK'
  BY <1>1, <1>4, <1>5, PosFields, CallTypes
<1>7. CallsAreSound'
  BY <1>1, <1>2, <1>4, PosFields, CallChanges, OthersKept
<1>8. Consumed' /\ BookedOnce' /\ Booked' = Booked
  BY <1>1, PosFields DEF Consumed, BookedOnce, Booked
<1>9. \A q \in Refs : q # r => rows'[q] = rows[q]
  BY <1>1, PosFields
<1>10. SyncedIsBooked'
  BY <1>1, <1>2, <1>8, <1>9, PosFields DEF SyncedIsBooked
<1> QED BY <1>6, <1>7, <1>8, <1>10 DEF PosInv

(* The call is free again, and nobody waits for it. *)
LEMMA FreedInv ==
    ASSUME PosInv, NEW c \in Calls, sync' # c, sync' \in {sync, NoCall},
           call' = [call EXCEPT ![c] = Free], UNCHANGED <<rows, odoo>>
    PROVE  PosInv'
<1> USE DEF PosInv
<1>1. PosTypeOK'
  BY FreeType DEF PosTypeOK
<1>2. CallsAreSound'
  BY FreeType DEF CallsAreSound, PosTypeOK, Free, Booked
<1>3. Consumed' /\ BookedOnce' /\ SyncedIsBooked'
  BY DEF Consumed, BookedOnce, SyncedIsBooked, Booked
<1> QED BY <1>1, <1>2, <1>3

(* The till waits no more, whatever becomes of the call. *)
LEMMA UnwaitedInv ==
    ASSUME PosInv, sync' = NoCall, UNCHANGED <<rows, call, odoo>>
    PROVE  PosInv'
BY DEF PosInv, PosTypeOK, CallsAreSound, Consumed, BookedOnce, SyncedIsBooked, Booked

-----------------------------------------------------------------------------
(* The gateway: one transaction for each call.                              *)

(* A transaction goes on, and nothing is committed. *)
LEMMA CallKeepsInv ==
    ASSUME PosInv, NEW c \in Calls, NEW k \in Call, k.phase = "open",
           call' = [call EXCEPT ![c] = k], UNCHANGED <<rows, sync, odoo>>,
           k.made \intersect Booked = {},
           \A d \in Calls \ {c} : call[d].phase = "open" => k.made \intersect call[d].made = {}
    PROVE  PosInv'
<1>1. PosTypeOK'
  BY PosFields, CallTypes
<1>2. CallsAreSound'
  BY PosFields, CallChanges, OthersKept
<1>3. Consumed' /\ BookedOnce' /\ SyncedIsBooked'
  BY PosFields DEF Consumed, BookedOnce, SyncedIsBooked, Booked
<1> QED BY <1>1, <1>2, <1>3 DEF PosInv

LEMMA BeginCallInv ==
    ASSUME PosInv, NEW c \in Calls, BeginCall(c)
    PROVE  PosInv'
<1> DEFINE k == [call[c] EXCEPT !.phase = "open", !.seen = Booked]
<1>1. call[c].phase = "sent" /\ call[c] \in Call
  BY PosFields DEF BeginCall
<1>2. call[c].made = {}
  BY <1>1, PosFields DEF CallsAreSound
<1>3. call' = [call EXCEPT ![c] = k] /\ UNCHANGED <<rows, sync, odoo>>
  BY DEF BeginCall
<1>4. Booked \subseteq Refs
  BY DEF Booked
<1>5. k \in Call /\ k.phase = "open" /\ k.made = {}
  BY <1>1, <1>2, <1>4 DEF Call
<1> HIDE DEF k
<1> QED BY <1>3, <1>5, CallKeepsInv

(* Booking in a transaction what is neither committed nor booked in another *)
(* open one.                                                                *)
LEMMA CreatePosOrderInv ==
    ASSUME PosInv, NEW c \in Calls, NEW r \in Refs, CreatePosOrder(c, r)
    PROVE  PosInv'
<1> DEFINE k == [call[c] EXCEPT !.todo = @ \ {r}, !.made = @ \union {r}]
<1>1. /\ call[c].phase = "open" /\ r \notin Booked /\ Unclaimed(c, r)
      /\ call' = [call EXCEPT ![c] = k] /\ UNCHANGED <<rows, sync, odoo>>
  BY DEF CreatePosOrder, Turn
<1>2. call[c] \in Call
  BY PosFields
<1>3. k \in Call /\ k.phase = "open" /\ k.made = call[c].made \union {r}
  BY <1>1, <1>2 DEF Call
<1> HIDE DEF k
<1>4. k.made \intersect Booked = {}
  BY <1>1, <1>3, PosFields DEF CallsAreSound
<1>5. \A d \in Calls \ {c} : call[d].phase = "open" => k.made \intersect call[d].made = {}
  BY <1>1, <1>3, PosFields DEF CallsAreSound, Unclaimed
<1> QED BY <1>1, <1>3, <1>4, <1>5, CallKeepsInv

LEMMA RefuseOrderInv ==
    ASSUME PosInv, NEW c \in Calls, NEW r \in Refs, RefuseOrder(c, r)
    PROVE  PosInv'
<1> DEFINE k == [call[c] EXCEPT !.todo = @ \ {r}]
<1>1. /\ call[c].phase = "open"
      /\ call' = [call EXCEPT ![c] = k] /\ UNCHANGED <<rows, sync, odoo>>
  BY DEF RefuseOrder, Turn
<1>2. call[c] \in Call
  BY PosFields
<1>3. k \in Call /\ k.phase = "open" /\ k.made = call[c].made
  BY <1>1, <1>2 DEF Call
<1> HIDE DEF k
<1>4. /\ k.made \intersect Booked = {}
      /\ \A d \in Calls \ {c} : call[d].phase = "open" => k.made \intersect call[d].made = {}
  BY <1>1, <1>3, PosFields DEF CallsAreSound
<1> QED BY <1>1, <1>3, <1>4, CallKeepsInv

(* A first confirmation consumes, a later one does not. *)
LEMMA Confirmed ==
    ASSUME NEW b \in Booking, b.recipe_consumed <=> b.consumed > 0
    PROVE  /\ Confirm(b) \in Booking
           /\ Confirm(b).orders = b.orders
           /\ Confirm(b).sale = "sale" /\ Confirm(b).recipe_consumed
           /\ Confirm(b).consumed = IF b.consumed > 0 THEN b.consumed ELSE 1
<1> DEFINE n == IF b.recipe_consumed THEN b.consumed ELSE b.consumed + 1
<1>1. n \in Nat /\ n = IF b.consumed > 0 THEN b.consumed ELSE 1
  BY DEF Booking
<1>2. Confirm(b) = [b EXCEPT !.sale = "sale", !.recipe_consumed = TRUE, !.consumed = n]
  BY DEF Confirm
<1> HIDE DEF n
<1> QED BY <1>1, <1>2 DEF Booking

(* Committing books what was not booked yet: once, and with its first       *)
(* confirmation.                                                            *)
LEMMA CommitCallInv ==
    ASSUME PosInv, NEW c \in Calls, CommitCall(c)
    PROVE  PosInv'
<1> DEFINE k == [call[c] EXCEPT !.phase = "answered", !.seen = {}]
           made == call[c].made
<1>0. /\ call[c].phase = "open" /\ UNCHANGED <<rows, sync>>
      /\ odoo' = [r \in Refs |-> IF r \in made
                     THEN Confirm([odoo[r] EXCEPT !.orders = @ + 1]) ELSE odoo[r]]
      /\ call' = [call EXCEPT ![c] = k]
  BY DEF CommitCall
<1>1. \A r \in Refs : odoo[r] \in Booking /\ (r \notin made => odoo'[r] = odoo[r])
  BY <1>0, PosFields
<1>2. call[c] \in Call /\ made \subseteq Refs /\ made \intersect Booked = {}
  <2>1. call[c] \in Call /\ CallsAreSound
    BY PosFields
  <2> QED BY <1>0, <2>1 DEF Call, CallsAreSound
<1>3. k \in Call /\ k.phase = "answered" /\ k.made = made
  BY <1>2 DEF Call
<1> HIDE DEF k, made
<1>4. ASSUME NEW r \in made
      PROVE  /\ r \in Refs /\ odoo'[r] \in Booking
             /\ odoo'[r].orders = 1 /\ odoo'[r].consumed = 1
             /\ odoo'[r].sale = "sale" /\ odoo'[r].recipe_consumed
  <2>1. r \in Refs /\ odoo[r] \in Booking /\ r \notin Booked
    BY <1>1, <1>2
  <2>2. odoo[r].orders = 0
    BY <2>1 DEF Booked, Booking
  <2>3. odoo[r].consumed = 0 /\ ~odoo[r].recipe_consumed
    BY <2>1, <2>2, PosFields DEF Consumed
  <2> DEFINE b == [odoo[r] EXCEPT !.orders = @ + 1]
  <2>4. /\ b \in Booking /\ b.orders = 1 /\ b.consumed = 0 /\ ~b.recipe_consumed
    BY <2>1, <2>2, <2>3 DEF Booking
  <2>5. odoo'[r] = Confirm(b)
    BY <1>0, <2>1
  <2> HIDE DEF b
  <2> QED BY <2>1, <2>4, <2>5, Confirmed
<1>5. odoo' \in [Refs -> Booking]
  <2>1. odoo' = [r \in Refs |-> odoo'[r]]
    BY <1>0
  <2>2. \A r \in Refs : odoo'[r] \in Booking
    BY <1>1, <1>4
  <2> QED BY <2>1, <2>2
<1>6. PosTypeOK'
  BY <1>0, <1>3, <1>5, PosFields, CallTypes
<1>7. Booked' = Booked \union made
  <2>1. \A r \in Refs : r \notin made => odoo'[r].orders = odoo[r].orders
    BY <1>1
  <2>2. \A r \in made : r \in Refs /\ odoo'[r].orders = 1
    BY <1>4
  <2>3. \A r \in made : r \in Refs /\ odoo'[r].orders > 0
    BY <2>2
  <2> QED BY <2>1, <2>3 DEF Booked
<1>8. CallsAreSound'
  <2>1. \A d \in Calls \ {c} : call[d].phase = "open" =>
           call[d].made \intersect made = {} /\ call[d].made \intersect Booked = {}
    BY <1>0, PosFields DEF CallsAreSound, made
  <2>2. \A d \in Calls \ {c} :
           call[d].phase = "open" => call[d].made \intersect Booked' = {}
    BY <1>7, <2>1
  <2> QED BY <1>0, <1>3, <1>7, <2>2, PosFields, CallChanges
<1>9. Consumed'
  <2> SUFFICES ASSUME NEW r \in Refs
               PROVE  /\ odoo'[r].consumed = odoo'[r].orders
                      /\ odoo'[r].recipe_consumed <=> odoo'[r].orders > 0
                      /\ odoo'[r].sale = "none" <=> odoo'[r].orders = 0
    BY DEF Consumed
  <2>1. CASE r \in made
    BY <1>4, <2>1
  <2>2. CASE r \notin made
    BY <1>1, <2>2, PosFields DEF Consumed
  <2> QED BY <2>1, <2>2
<1>10. BookedOnce'
  <2>1. \A r \in Refs : r \in made => odoo'[r].orders = 1
    BY <1>4
  <2>2. \A r \in Refs : r \notin made => odoo'[r].orders <= 1
    BY <1>1, PosFields DEF BookedOnce
  <2> QED BY <2>1, <2>2 DEF BookedOnce
<1>11. SyncedIsBooked'
  BY <1>0, <1>7, PosFields DEF SyncedIsBooked
<1> QED BY <1>6, <1>8, <1>9, <1>10, <1>11 DEF PosInv

(* The sales department leaves orders and consumption as they are. *)
LEMMA SetSaleInv ==
    ASSUME PosInv, NEW r \in Refs, CancelSale(r) \/ ConfirmSale(r)
    PROVE  PosInv'
<1> USE DEF PosInv
<1>1. odoo[r] \in Booking /\ odoo[r].sale # "none"
  BY DEF PosTypeOK, CancelSale, ConfirmSale, SetSale
<1>2. odoo[r].orders > 0 /\ odoo[r].consumed = odoo[r].orders /\ odoo[r].recipe_consumed
  BY <1>1 DEF Consumed, Booking
<1>3. PICK b \in Booking :
         /\ odoo' = [odoo EXCEPT ![r] = b]
         /\ b.orders = odoo[r].orders /\ b.consumed = odoo[r].consumed
         /\ b.recipe_consumed /\ b.sale # "none"
  <2>1. CASE CancelSale(r)
    <3> DEFINE b == [odoo[r] EXCEPT !.sale = "cancel"]
    <3>1. /\ b \in Booking /\ b.orders = odoo[r].orders /\ b.consumed = odoo[r].consumed
          /\ b.recipe_consumed = odoo[r].recipe_consumed /\ b.sale = "cancel"
      BY <1>1 DEF Booking
    <3>2. odoo' = [odoo EXCEPT ![r] = b]
      BY <2>1 DEF CancelSale, SetSale
    <3> HIDE DEF b
    <3> QED BY <1>2, <3>1, <3>2
  <2>2. CASE ConfirmSale(r)
    BY <1>1, <1>2, <2>2, Confirmed DEF ConfirmSale, SetSale, Booking
  <2> QED BY <2>1, <2>2
<1>4. UNCHANGED <<rows, sync, call>>
  BY DEF CancelSale, ConfirmSale, SetSale
<1>5. odoo' \in [Refs -> Booking] /\ Booked' = Booked
  BY <1>3 DEF PosTypeOK, Booked
<1>6. PosTypeOK' /\ CallsAreSound' /\ SyncedIsBooked'
  BY <1>4, <1>5 DEF PosTypeOK, CallsAreSound, SyncedIsBooked
<1>7. Consumed' /\ BookedOnce'
  BY <1>1, <1>2, <1>3 DEF Consumed, BookedOnce, PosTypeOK
<1> QED BY <1>6, <1>7

-----------------------------------------------------------------------------
LEMMA PosInvStep == PosInv /\ [Next]_vars => PosInv'
<1> SUFFICES ASSUME PosInv, [Next]_vars PROVE PosInv'
  OBVIOUS
<1>1. CASE UNCHANGED vars
  BY <1>1 DEF vars, PosInv, PosTypeOK, CallsAreSound, Consumed, BookedOnce, SyncedIsBooked, Booked
<1>2. CASE Restart
  BY <1>2, UnwaitedInv DEF Restart
<1>3. ASSUME NEW r \in Refs, StoreRow(r) \/ CancelSale(r) \/ ConfirmSale(r) PROVE PosInv'
  BY <1>3, StoreRowInv, SetSaleInv
<1>4. ASSUME NEW c \in Calls, NEW r \in Refs,
             \/ MarkSynced(c, r) \/ CreatePosOrder(c, r)
             \/ RefuseBad(c, r) \/ RefuseGood(c, r)
      PROVE  PosInv'
  BY <1>4, MarkSyncedInv, CreatePosOrderInv, RefuseOrderInv DEF RefuseBad, RefuseGood
<1>5. ASSUME NEW c \in Calls, StartSync(c) \/ BeginCall(c) \/ CommitCall(c) PROVE PosInv'
  BY <1>5, StartSyncInv, BeginCallInv, CommitCallInv
<1>6. ASSUME NEW c \in Calls, GiveUp(c) PROVE PosInv'
  BY <1>6, UnwaitedInv DEF GiveUp
<1>7. ASSUME NEW c \in Calls, EndSync(c) \/ Discard(c) \/ AbortCall(c) PROVE PosInv'
  <2>1. /\ sync' # c /\ sync' \in {sync, NoCall}
        /\ call' = [call EXCEPT ![c] = Free] /\ UNCHANGED <<rows, odoo>>
    BY <1>7, PosAssumption DEF EndSync, Discard, AbortCall
  <2> QED BY <2>1, FreedInv
<1> QED BY <1>1, <1>2, <1>3, <1>4, <1>5, <1>6, <1>7 DEF Next

(* The inductive invariant of the till, its calls and Odoo. *)
THEOREM PosSafe == Spec => []PosInv
BY PosInvInit, PosInvStep, PTL DEF Spec

(* Types, whatever is sent, lost, aborted, cancelled or restarted. *)
THEOREM PosTypes == Spec => []PosTypeOK
<1>1. PosInv => PosTypeOK
  BY DEF PosInv
<1> QED BY <1>1, PosSafe, PTL

(* An order is booked at most once, however many calls post it, overlap or  *)
(* come again after a lost answer: create_pos_order and its constraint.     *)
THEOREM OrdersBookedOnce == Spec => []BookedOnce
<1>1. PosInv => BookedOnce
  BY DEF PosInv
<1> QED BY <1>1, PosSafe, PTL

(* What the till marks as synced is committed in Odoo: SyncBloc marks what  *)
(* an answer says, and an answer comes of a committed transaction only.     *)
THEOREM SyncedOrdersBooked == Spec => []SyncedIsBooked
<1>1. PosInv => SyncedIsBooked
  BY DEF PosInv
<1> QED BY <1>1, PosSafe, PTL

(* Every booked order has consumed its ingredients exactly once, however    *)
(* often its sale order is cancelled and confirmed: _consume_recipe.        *)
THEOREM RecipesConsumedOnce == Spec => []RecipeConsumedOnce
<1>1. PosInv => RecipeConsumedOnce
  BY DEF PosInv, Consumed, RecipeConsumedOnce
<1> QED BY <1>1, PosSafe, PTL

=============================================================================
