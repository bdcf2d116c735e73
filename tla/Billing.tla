------------------------------ MODULE Billing ------------------------------
(***************************************************************************)
(* One tenant of the SaaS control plane, its subscription                  *)
(* (nexus_saas_tenant) and the Stripe subscription that pays for it        *)
(* (nexus_saas_billing).  Stripe's webhook calls arrive in any order, some *)
(* more than once and some never; what the control plane knows besides     *)
(* them it learns from a daily pull and two daily jobs.                    *)
(***************************************************************************)
EXTENDS Integers, FiniteSets

CONSTANT MaxBilled      \* bound: paid invoice records kept

ASSUME BillingAssumption == MaxBilled \in Nat

VARIABLES
    stripe,     \* status of the subscription at Stripe, "none" before the checkout
    events,     \* webhook events Stripe still means to deliver
    sub,        \* nexus.saas.subscription
    tenant,     \* state of nexus.saas.tenant
    billed,     \* nexus.saas.billing.invoice records in state paid
    named       \* does Cloudflare hold the tenant's record?

billingVars == <<stripe, events, sub, tenant, billed, named>>

StripeStatus == {"none", "active", "past_due", "canceled"}
EventTypes == {"checkout", "paid", "succeeded", "failed", "deleted"}
SubStates == {"trialing", "active", "past_due", "cancelled"}
TenantStates == {"draft", "active", "suspended", "cancelled"}

\* linked: stripe_subscription_id is set; late: trial_end has passed;
\* period: current_period_end is not set, ahead, or passed.
Subscription == [state : SubStates, linked : BOOLEAN, late : BOOLEAN,
                 period : {"unset", "ahead", "passed"}]

BillingTypeOK ==
    /\ stripe \in StripeStatus
    /\ events \subseteq EventTypes
    /\ sub \in Subscription
    /\ tenant \in TenantStates
    /\ billed \in 0 .. MaxBilled
    /\ named \in BOOLEAN

\* Signing up creates an active tenant with a trial; staff may create a draft.
BillingInit ==
    /\ stripe = "none" /\ events = {} /\ billed = 0
    /\ sub = [state |-> "trialing", linked |-> FALSE, late |-> FALSE, period |-> "unset"]
    /\ tenant \in {"active", "draft"}
    /\ named \in {FALSE, tenant = "active"}

-----------------------------------------------------------------------------
(* Writing the tenant's state also calls Cloudflare, before the             *)
(* transaction commits; a failed call is logged and forgotten.              *)

\* SaaSTenant.write: what the record at Cloudflare may be afterwards.
Dns(state) ==
    CASE state = "active" -> {named, TRUE}
      [] state = "cancelled" -> {named, FALSE}
      [] OTHER -> {named}

SetTenant(state) == tenant' = state /\ named' \in Dns(state)

-----------------------------------------------------------------------------
(* Stripe: the customer pays, misses a payment or ends the subscription.    *)

PayAtStripe ==
    /\ stripe # "canceled"
    /\ stripe' = "active"
    /\ events' = events \cup {"paid", "succeeded"} \cup
                 (IF stripe = "none" THEN {"checkout"} ELSE {})
    /\ UNCHANGED <<sub, tenant, billed, named>>

MissPayment ==
    /\ stripe = "active"
    /\ stripe' = "past_due"
    /\ events' = events \cup {"failed"}
    /\ UNCHANGED <<sub, tenant, billed, named>>

CancelAtStripe ==
    /\ stripe \in {"active", "past_due"}
    /\ stripe' = "canceled"
    /\ events' = events \cup {"deleted"}
    /\ UNCHANGED <<sub, tenant, billed, named>>

\* Stripe counts an event as delivered, or sends it again.
Acknowledge(e) == events' \in {events, events \ {e}}

\* After three days of failures Stripe stops sending an event.
GiveUpEvent(e) ==
    /\ e \in events
    /\ events' = events \ {e}
    /\ UNCHANGED <<stripe, sub, tenant, billed, named>>

-----------------------------------------------------------------------------
(* The webhook.                                                             *)

DeliverCheckout ==
    /\ "checkout" \in events
    /\ sub' = [sub EXCEPT !.linked = TRUE, !.state = "active"]
    /\ Acknowledge("checkout")
    /\ UNCHANGED <<stripe, tenant, billed, named>>

\* Both events of a paid invoice activate the tenant and add a paid record.
\* An event for a subscription that is not linked yet is acknowledged.
DeliverPaid(e) ==
    /\ e \in events /\ billed < MaxBilled
    /\ sub.linked => sub.period # "unset"
    /\ IF sub.linked
       THEN /\ sub' = [sub EXCEPT !.state = "active"]
            /\ SetTenant("active")
            /\ billed' = billed + 1
       ELSE UNCHANGED <<sub, tenant, billed, named>>
    /\ Acknowledge(e)
    /\ UNCHANGED stripe

\* The record needs the period: before the first pull the transaction is
\* rolled back and Stripe tries again, but Cloudflare has been called.
PaidWithoutPeriod(e) ==
    /\ e \in events /\ sub.linked /\ sub.period = "unset"
    /\ named' \in Dns("active")
    /\ UNCHANGED <<stripe, events, sub, tenant, billed>>

\* The handler looks the subscription up by the id of the invoice and finds none.
DeliverFailed ==
    /\ "failed" \in events
    /\ Acknowledge("failed")
    /\ UNCHANGED <<stripe, sub, tenant, billed, named>>

CancelledSub == [sub EXCEPT !.state = "cancelled"]

DeliverDeleted ==
    /\ "deleted" \in events
    /\ IF sub.linked THEN sub' = CancelledSub /\ SetTenant("cancelled")
                     ELSE UNCHANGED <<sub, tenant, named>>
    /\ Acknowledge("deleted")
    /\ UNCHANGED <<stripe, billed>>

-----------------------------------------------------------------------------
(* The daily jobs.                                                          *)

\* state_map without an entry for a payment that is late.
StateMapPaidOnly ==
    CASE stripe = "active" -> "active"
      [] stripe = "canceled" -> "cancelled"
      [] OTHER -> sub.state

StateMap ==
    CASE stripe = "active" -> "active"
      [] stripe = "past_due" -> "past_due"
      [] stripe = "canceled" -> "cancelled"
      [] OTHER -> sub.state

\* sync_from_stripe, when Stripe answers; one that fails changes nothing.
SyncFromStripe ==
    /\ sub.linked
    /\ sub' = [sub EXCEPT !.state = StateMap,
                          !.period = IF stripe = "canceled" /\ sub.period = "passed"
                                     THEN "passed" ELSE "ahead"]
    /\ IF sub'.state \in {"past_due", "cancelled"}
       THEN SetTenant("suspended") ELSE UNCHANGED <<tenant, named>>
    /\ UNCHANGED <<stripe, events, billed>>

CheckSubscriptions ==
    /\ sub.state \in {"past_due", "cancelled"} /\ sub.period = "passed"
    /\ tenant # "cancelled"
    /\ SetTenant("suspended")
    /\ UNCHANGED <<stripe, events, sub, billed>>

TrialExpiry ==
    /\ sub.state = "trialing" /\ sub.late
    /\ IF sub.linked THEN /\ sub' = [sub EXCEPT !.state = "active"]
                          /\ UNCHANGED <<tenant, named>>
                     ELSE /\ sub' = [sub EXCEPT !.state = "past_due"]
                          /\ SetTenant("suspended")
    /\ UNCHANGED <<stripe, events, billed>>

DayPasses ==
    /\ sub' \in {[sub EXCEPT !.late = TRUE],
                 [sub EXCEPT !.period = IF @ = "ahead" THEN "passed" ELSE @]}
    /\ sub' # sub
    /\ UNCHANGED <<stripe, events, tenant, billed, named>>

-----------------------------------------------------------------------------
(* Staff, in the forms of the tenant and of the subscription.               *)

ActivateDraft ==
    /\ tenant = "draft"
    /\ SetTenant("active")
    /\ UNCHANGED <<stripe, events, sub, billed>>

SuspendTenant ==
    /\ tenant = "active"
    /\ SetTenant("suspended")
    /\ UNCHANGED <<stripe, events, sub, billed>>

CancelTenant ==
    /\ tenant # "cancelled"
    /\ SetTenant("cancelled")
    /\ UNCHANGED <<stripe, events, sub, billed>>

CancelSubscription ==
    /\ sub.state # "cancelled"
    /\ sub' = CancelledSub
    /\ SetTenant("cancelled")
    /\ UNCHANGED <<stripe, events, billed>>

\* The dates of the subscription are open to edits.
EditDates ==
    /\ sub' \in {[sub EXCEPT !.late = FALSE], [sub EXCEPT !.period = "ahead"]}
    /\ sub' # sub
    /\ UNCHANGED <<stripe, events, tenant, billed, named>>

BillingNext ==
    \/ PayAtStripe \/ MissPayment \/ CancelAtStripe
    \/ \E e \in EventTypes : GiveUpEvent(e)
    \/ DeliverCheckout \/ DeliverFailed \/ DeliverDeleted
    \/ \E e \in {"paid", "succeeded"} : DeliverPaid(e) \/ PaidWithoutPeriod(e)
    \/ SyncFromStripe \/ CheckSubscriptions \/ TrialExpiry \/ DayPasses
    \/ ActivateDraft \/ SuspendTenant \/ CancelTenant \/ CancelSubscription
    \/ EditDates

\* The scheduler runs the daily jobs, and Stripe answers some day's pull.
BillingFairness ==
    WF_billingVars(SyncFromStripe) /\ WF_billingVars(TrialExpiry)

BillingSpec == BillingInit /\ [][BillingNext]_billingVars /\ BillingFairness

-----------------------------------------------------------------------------
\* A tenant rides free: Stripe has stopped being paid (or never was), its
\* last event is delivered or given up, the trial has run out, and the tenant
\* is active again and again.  The webhook activates and never finds a failed
\* payment; only the daily pull and the trial job can end it.
NobodyRidesFree ==
    <>[](stripe # "active" /\ events = {} /\ sub.late) => <>[](tenant # "active")
=============================================================================
