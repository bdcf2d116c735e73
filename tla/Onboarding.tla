----------------------------- MODULE Onboarding -----------------------------
(***************************************************************************)
(* The onboarding wizard of ai_enterprise_copilot: the answers of the      *)
(* administrator, step by step, and the engine that makes journals,        *)
(* warehouses, terminals and taxes of them.                                *)
(*                                                                         *)
(* Applying is one transaction, undone as a whole when one of its records  *)
(* is refused.  The modules it installs are left out.                      *)
(***************************************************************************)
EXTENDS Naturals, Sequences, FiniteSets, FiniteSetsExt, Functions

CONSTANTS
    MaxCode,    \* bound: numbers of journal and warehouse codes (BNK1, BR1...)
    MaxAsked    \* bound: accounts, branches and terminals asked for

(* There is a code for whatever is asked for. *)
ASSUME OnboardingAssumption ==
    MaxCode \in Nat \ {0} /\ MaxAsked \in 1..MaxCode

VARIABLES
    wizard,     \* the onboarding wizard
    office      \* what the company has in Odoo

onboardingVars == <<wizard, office>>

WizardSteps == <<"welcome", "business_profile", "operations", "financial",
                 "advanced", "review">>
Review == Len(WizardSteps)

Codes == 1..MaxCode
Asked == 0..MaxAsked

(* named: the company's name is given.  pos, vat: none, or terminals (a tax *)
(* registration) without or with their count (its number).                  *)
Wizard == [step : 1..Review, named : BOOLEAN,
           pos : {"none", "uncounted", "counted"},
           vat : {"none", "unnumbered", "numbered"},
           banks : Asked, branches : Asked,
           result : {"none", "done", "branch code", "tax"}]

(* The numbers in the codes of its bank journals and its warehouses. *)
Office == [banks : SUBSET Codes, branches : SUBSET Codes, tax : BOOLEAN]

NewWizard == [step |-> 1, named |-> TRUE, pos |-> "none", vat |-> "none",
              banks |-> 1, branches |-> 0, result |-> "none"]

-----------------------------------------------------------------------------
OnboardingInit ==
    /\ wizard = NewWizard
    /\ office = [banks |-> {1}, branches |-> {}, tax |-> FALSE]

(* jump_start and default_get *)
JumpStart ==
    /\ wizard' = NewWizard
    /\ UNCHANGED office

(* Answers are given on the step that asks for them. *)
At(step) == wizard.result = "none" /\ WizardSteps[wizard.step] = step

AnswerProfile ==
    /\ At("business_profile")
    /\ wizard' = [wizard EXCEPT !.named = ~@]
    /\ UNCHANGED office

AnswerOperations ==
    /\ At("operations")
    /\ \E pos \in {"none", "uncounted", "counted"}, branches \in Asked :
          wizard' = [wizard EXCEPT !.pos = pos, !.branches = branches]
    /\ UNCHANGED office

AnswerFinancial ==
    /\ At("financial")
    /\ \E vat \in {"none", "unnumbered", "numbered"}, banks \in Asked :
          wizard' = [wizard EXCEPT !.vat = vat, !.banks = banks]
    /\ UNCHANGED office

(* action_auto_fill_from_document, on the profile step: what it read of a   *)
(* number, a name and the trade (of which some have terminals, their count  *)
(* left as it is or set).                                                   *)
AutoFill ==
    /\ At("business_profile")
    /\ \E vat \in {wizard.vat, "numbered"}, named \in {wizard.named, TRUE},
          pos \in {wizard.pos, "counted",
                 IF wizard.pos = "counted" THEN "counted" ELSE "uncounted"} :
          wizard' = [wizard EXCEPT !.vat = vat, !.named = named, !.pos = pos]
    /\ UNCHANGED office

(* Mutant: the operations are not validated. *)
ValidTaxOnly(w) ==
    CASE WizardSteps[w.step] = "business_profile" -> w.named
      [] WizardSteps[w.step] = "financial" -> w.vat # "unnumbered"
      [] OTHER -> TRUE

(* What is asked for on the step is validated before the next one. *)
Valid(w) ==
    CASE WizardSteps[w.step] = "business_profile" -> w.named
      [] WizardSteps[w.step] = "operations" -> w.pos # "uncounted"
      [] WizardSteps[w.step] = "financial" -> w.vat # "unnumbered"
      [] OTHER -> TRUE

StepForward ==
    /\ wizard.result = "none" /\ wizard.step < Review
    /\ Valid(wizard)
    /\ wizard' = [wizard EXCEPT !.step = @ + 1]
    /\ UNCHANGED office

PrevStep ==
    /\ wizard.result = "none" /\ wizard.step > 1
    /\ wizard' = [wizard EXCEPT !.step = @ - 1]
    /\ UNCHANGED office

-----------------------------------------------------------------------------
(* action_apply_and_start *)

(* The first code that is free, from the count of bank journals on. *)
FreeCode(taken, n) == Min({c \in n..MaxCode + n : c \notin taken})

(* One after the other, so that none is taken twice. *)
NewBanks ==
    {codes \in [1..wizard.banks -> Codes] :
        \A i \in 1..wizard.banks :
           codes[i] = FreeCode(office.banks \union {codes[j] : j \in 1..i - 1},
                               Cardinality(office.banks) + i)}

(* Mutant: one short. *)
BranchesButOne == Cardinality(office.branches) + 1 .. wizard.branches - 1

(* Branches are numbered from their count on: a code may be taken. *)
NewBranches == Cardinality(office.branches) + 1 .. wizard.branches

(* A tax of the same name and use is refused. *)
Refusal ==
    IF wizard.vat # "none" /\ office.tax THEN "tax"
    ELSE IF NewBranches \intersect office.branches # {} THEN "branch code"
    ELSE "none"

ApplyAndStart ==
    /\ At("review") /\ wizard.named
    /\ \E codes \in NewBanks :
          IF Refusal # "none"
            THEN /\ wizard' = [wizard EXCEPT !.result = Refusal]
                 /\ UNCHANGED office
            ELSE /\ wizard' = [wizard EXCEPT !.result = "done"]
                 /\ office' = [banks |-> office.banks \union Range(codes),
                               branches |-> office.branches \union NewBranches,
                               tax |-> office.tax \/ wizard.vat # "none"]

(* The accountants delete unused journals, the stock managers warehouses. *)
DeleteUnused(c) ==
    /\ \/ c \in office.banks
          /\ office' = [office EXCEPT !.banks = @ \ {c}]
       \/ c \in office.branches
          /\ office' = [office EXCEPT !.branches = @ \ {c}]
    /\ UNCHANGED wizard

-----------------------------------------------------------------------------
OnboardingNext ==
    \/ JumpStart \/ StepForward \/ PrevStep
    \/ AnswerProfile \/ AnswerOperations \/ AnswerFinancial \/ AutoFill
    \/ ApplyAndStart
    \/ \E c \in Codes : DeleteUnused(c)

OnboardingSpec == OnboardingInit /\ [][OnboardingNext]_onboardingVars

-----------------------------------------------------------------------------
(* Properties *)

(* Every variable has its type. *)
OnboardingTypeOK ==
    /\ wizard \in Wizard
    /\ office \in Office

(* However one goes back and forth and fills in from documents, what the    *)
(* review shows has passed every validation: applying checks the name only. *)
ReviewedIsValid ==
    wizard.step = Review =>
        /\ wizard.named
        /\ wizard.pos # "uncounted"
        /\ wizard.vat # "unnumbered"

(* "This is the engine that transforms business answers into real Odoo      *)
(* configuration": once it is through, the company has the branches that    *)
(* were asked for and as many more bank journals as were asked for.         *)
AnswersAreMade ==
    [][wizard'.result = "done" /\ ApplyAndStart =>
          /\ Cardinality(office'.banks) = Cardinality(office.banks) + wizard.banks
          /\ Cardinality(office'.branches) >= wizard.branches]_onboardingVars

=============================================================================
