--------------------------- MODULE BackOfficeMC ---------------------------
(***************************************************************************)
(* The components that share no state with one another, for TLC: each      *)
(* behaviour is one of the component at its desk, while the others rest.   *)
(***************************************************************************)
EXTENDS SyncQueue, Checkout, Bridge, SetupJourney, Papers, Onboarding,
        Reports, Billing, Migrator

VARIABLE desk

(* The second and third partner are namesakes; two amounts in 100 per cent  *)
(* of which a change is rounded away.                                       *)
MCShownAs == <<"Amal", "Salem", "Salem">>
MCAmount == <<3, 2>>

Desks == {"queue", "till", "bridge", "journey", "papers", "wizard", "reports",
          "billing", "migration"}

vars == <<desk, queueVars, checkoutVars, bridgeVars, journeyVars, papersVars,
          onboardingVars, reportsVars, billingVars, migratorVars>>

Init ==
    /\ desk \in Desks
    /\ QueueInit /\ CheckoutInit /\ BridgeInit /\ JourneyInit
    /\ PapersInit /\ OnboardingInit /\ ReportsInit /\ BillingInit
    /\ MigratorInit
    \* Where a component rests, one of its initial states will do.
    /\ desk # "bridge" => record.kind = "asset"
    /\ desk # "billing" => named

Next ==
    /\ UNCHANGED desk
    /\ IF desk = "queue" THEN QueueNext ELSE UNCHANGED queueVars
    /\ IF desk = "till" THEN CheckoutNext ELSE UNCHANGED checkoutVars
    /\ IF desk = "bridge" THEN BridgeNext ELSE UNCHANGED bridgeVars
    /\ IF desk = "journey" THEN JourneyNext ELSE UNCHANGED journeyVars
    /\ IF desk = "papers" THEN PapersNext ELSE UNCHANGED papersVars
    /\ IF desk = "wizard" THEN OnboardingNext ELSE UNCHANGED onboardingVars
    /\ IF desk = "reports" THEN ReportsNext ELSE UNCHANGED reportsVars
    /\ IF desk = "billing" THEN BillingNext ELSE UNCHANGED billingVars
    /\ IF desk = "migration" THEN MigratorNext ELSE UNCHANGED migratorVars

Spec == Init /\ [][Next]_vars /\ BillingFairness

BackOfficeTypeOK ==
    /\ desk \in Desks
    /\ QueueTypeOK /\ CheckoutTypeOK /\ BridgeTypeOK /\ JourneyTypeOK
    /\ PapersTypeOK /\ OnboardingTypeOK /\ ReportsTypeOK /\ BillingTypeOK
    /\ MigratorTypeOK

=============================================================================
