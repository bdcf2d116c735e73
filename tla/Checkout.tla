------------------------------ MODULE Checkout ------------------------------
(***************************************************************************)
(* Checkout on a till of the POS app (flutter_pos): the cart, the checkout *)
(* screen, CheckoutBloc and the orders table of the till's own database.   *)
(*                                                                         *)
(* The screen asks the bloc to build an order from the cart, then to pay   *)
(* it, and waits on the flags of the bloc's state; the bloc charges,       *)
(* stores the order and prints.  What becomes of a stored order is module  *)
(* PosSync.                                                                *)
(***************************************************************************)
EXTENDS Naturals, Sequences

CONSTANTS
    Items,      \* cart lines that cashiers ever add
    MaxRefs     \* bound: orders built

ASSUME CheckoutAssumption == MaxRefs \in Nat

VARIABLES
    cart,     \* lines in the cart table
    screen,   \* what the checkout screen waits for
    bloc,     \* state of CheckoutBloc, and the payment it is working on
    built,    \* lines of each order built, its client_order_ref is its index
    stored    \* references in the orders table

checkoutVars == <<cart, screen, bloc, built, stored>>

Refs == 1..MaxRefs
NoRef == 0

Screen == {"away", "open", "building", "paying"}

(* copyWith keeps the old value of a flag it is given no new one for, so   *)
(* that paid and error are never taken back.                               *)
Bloc == [payload : Refs \union {NoRef}, paid : BOOLEAN, error : BOOLEAN,
         job : {"none", "build", "charge", "store", "print"},
         order : Refs \union {NoRef}]

Fresh == [payload |-> NoRef, paid |-> FALSE, error |-> FALSE,
          job |-> "none", order |-> NoRef]

-----------------------------------------------------------------------------
CheckoutInit ==
    /\ cart = {}
    /\ screen = "away"
    /\ bloc = Fresh
    /\ built = <<>>
    /\ stored = {}

(* The cashier *)

AddToCart(i) ==
    /\ screen = "away"
    /\ i \notin cart /\ \A r \in DOMAIN built : i \notin built[r]
    /\ cart' = cart \union {i}
    /\ UNCHANGED <<screen, bloc, built, stored>>

RemoveFromCart(i) ==
    /\ screen = "away" /\ i \in cart
    /\ cart' = cart \ {i}
    /\ UNCHANGED <<screen, bloc, built, stored>>

OpenCheckout ==
    /\ screen = "away"
    /\ screen' = "open"
    /\ UNCHANGED <<cart, bloc, built, stored>>

(* A handler of a screen that is gone does nothing more (context.mounted). *)
LeaveScreen ==
    /\ screen # "away"
    /\ screen' = "away"
    /\ UNCHANGED <<cart, bloc, built, stored>>

(* Pay & Complete Order: the button is dead while the bloc is processing. *)
PressPay ==
    /\ screen = "open" /\ bloc.job = "none"
    /\ screen' = "building"
    /\ bloc' = [bloc EXCEPT !.job = "build"]
    /\ UNCHANGED <<cart, built, stored>>

NewPayload == [bloc EXCEPT !.payload = Len(built) + 1]

(* A new tip or split of the bill builds the order anew, under a new        *)
(* reference, if there is one.                                              *)
RebuildOrder ==
    /\ screen = "open"
    /\ bloc.payload # NoRef /\ Len(built) < MaxRefs
    /\ built' = Append(built, cart)
    /\ bloc' = NewPayload
    /\ UNCHANGED <<cart, screen, stored>>

-----------------------------------------------------------------------------
(* CheckoutBloc *)

(* Mutant: a payload that is there already is not built again. *)
BuildFirst ==
    /\ bloc.job = "build" /\ Len(built) < MaxRefs
    /\ IF bloc.payload = NoRef
         THEN built' = Append(built, cart) /\ bloc' = [NewPayload EXCEPT !.job = "none"]
         ELSE built' = built /\ bloc' = [bloc EXCEPT !.job = "none"]
    /\ UNCHANGED <<cart, screen, stored>>

BuildOrder ==
    /\ bloc.job = "build" /\ Len(built) < MaxRefs
    /\ built' = Append(built, cart)
    /\ bloc' = [NewPayload EXCEPT !.job = "none"]
    /\ UNCHANGED <<cart, screen, stored>>

(* Any exception ends the work in hand with an error; an order that was     *)
(* built earlier stays the payload.                                         *)
Fail ==
    /\ bloc.job # "none"
    /\ bloc' = [bloc EXCEPT !.job = "none", !.error = TRUE, !.order = NoRef]
    /\ UNCHANGED <<cart, screen, built, stored>>

(* The screen goes on when the bloc is not processing, built or not; paying *)
(* works on the payload of that moment.                                     *)
ProcessPayment ==
    /\ screen = "building" /\ bloc.job = "none"
    /\ screen' = "paying"
    /\ bloc' = IF bloc.payload = NoRef
                 THEN [bloc EXCEPT !.error = TRUE]
                 ELSE [bloc EXCEPT !.job = "charge", !.order = bloc.payload]
    /\ UNCHANGED <<cart, built, stored>>

CollectPayment ==
    /\ bloc.job = "charge"
    /\ bloc' = [bloc EXCEPT !.job = "store"]
    /\ UNCHANGED <<cart, screen, built, stored>>

StoreOrder ==
    /\ bloc.job = "store"
    /\ stored' = stored \union {bloc.order}
    /\ bloc' = [bloc EXCEPT !.job = "print"]
    /\ UNCHANGED <<cart, screen, built>>

PrintReceipt ==
    /\ bloc.job = "print"
    /\ bloc' = [bloc EXCEPT !.job = "none", !.paid = TRUE, !.order = NoRef]
    /\ UNCHANGED <<cart, screen, built, stored>>

(* The screen stops waiting at the first state with a flag set, one left by *)
(* an earlier payment included.  It clears the cart if it finds paid set,   *)
(* else it shows the error.                                                 *)
Resolve ==
    /\ screen = "paying"
    /\ bloc.paid \/ bloc.error
    /\ cart' = IF bloc.paid THEN {} ELSE cart
    /\ screen' = IF bloc.paid THEN "away" ELSE "open"
    /\ UNCHANGED <<bloc, built, stored>>

(* The app is killed and started again: its database stays. *)
RestartTill ==
    /\ screen' = "away" /\ bloc' = Fresh
    /\ UNCHANGED <<cart, built, stored>>

-----------------------------------------------------------------------------
CheckoutNext ==
    \/ \E i \in Items : AddToCart(i) \/ RemoveFromCart(i)
    \/ OpenCheckout \/ LeaveScreen \/ PressPay \/ RebuildOrder
    \/ BuildOrder \/ Fail \/ ProcessPayment \/ Resolve
    \/ CollectPayment \/ StoreOrder \/ PrintReceipt \/ RestartTill

CheckoutSpec == CheckoutInit /\ [][CheckoutNext]_checkoutVars

-----------------------------------------------------------------------------
(* Properties *)

(* Every variable has its type. *)
CheckoutTypeOK ==
    /\ cart \subseteq Items
    /\ screen \in Screen
    /\ bloc \in Bloc
    /\ built \in Seq(SUBSET Items) /\ Len(built) <= MaxRefs
    /\ stored \subseteq DOMAIN built

(* "Order posted and payment complete" (checkout_screen.dart): the lines    *)
(* the screen takes out of the cart are in an order stored on the till.     *)
NoSaleLost ==
    [][screen = "paying" =>
          \A i \in cart \ cart' : \E r \in stored : i \in built[r]]_checkoutVars

(* As long as nothing has failed since the app was started, and the bloc is *)
(* let finish before the screen reads its state, the same holds: what the   *)
(* screen takes out of the cart is what the bloc built and stored.          *)
NoErrorNoLoss ==
    [][screen = "paying" /\ bloc.job = "none" /\ ~bloc.error =>
          \A i \in cart \ cart' : \E r \in stored : i \in built[r]]_checkoutVars

=============================================================================
