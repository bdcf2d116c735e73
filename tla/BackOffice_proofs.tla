--------------------------- MODULE BackOffice_proofs ---------------------------
(***************************************************************************)
(* Proofs about the till's checkout, the papers of the staff, the          *)
(* onboarding wizard, the reports, the migrator and billing, and about the *)
(* back office: its components do what their own modules say.              *)
(*                                                                         *)
(* What is recursive here, the sum over the names of an aging and the       *)
(* rows of a file, is reasoned about by its least counterexample.          *)
(***************************************************************************)
EXTENDS BackOfficeMC, SyncQueue_proofs, Bridge_proofs, SetupJourney_proofs,
        FiniteSetTheorems, TLAPS

-----------------------------------------------------------------------------
(* Sizes *)

LEMMA SizeOfInterval ==
    ASSUME NEW a \in Nat, NEW b \in Nat
    PROVE  /\ IsFiniteSet(a + 1 .. b)
           /\ Cardinality(a + 1 .. b) = IF a < b THEN b - a ELSE 0
BY FS_Interval

LEMMA SizeOfUnion ==
    ASSUME NEW S, NEW T, IsFiniteSet(S), IsFiniteSet(T), S \intersect T = {}
    PROVE  /\ IsFiniteSet(S \union T)
           /\ Cardinality(S \union T) = Cardinality(S) + Cardinality(T)
<1>1. /\ Cardinality(S) \in Nat /\ Cardinality(T) \in Nat
      /\ Cardinality(S \intersect T) = 0
  BY FS_CardinalityType, FS_EmptySet
<1>2. /\ IsFiniteSet(S \union T)
      /\ Cardinality(S \union T)
           = Cardinality(S) + Cardinality(T) - Cardinality(S \intersect T)
  BY FS_Union
<1> QED BY <1>1, <1>2

-----------------------------------------------------------------------------
(* Module Onboarding *)

(* What was validated on a step holds on every later one. *)
StepsValidated ==
    /\ wizard.step > 2 => wizard.named
    /\ wizard.step > 3 => wizard.pos # "uncounted"
    /\ wizard.step > 4 => wizard.vat # "unnumbered"

OnboardingInv == OnboardingTypeOK /\ StepsValidated

LEMMA StepNames ==
    /\ Len(WizardSteps) = 6 /\ Review = 6
    /\ \A n \in 1..6 :
         /\ WizardSteps[n] = "business_profile" <=> n = 2
         /\ WizardSteps[n] = "operations" <=> n = 3
         /\ WizardSteps[n] = "financial" <=> n = 4
         /\ WizardSteps[n] = "review" <=> n = 6
BY DEF WizardSteps, Review

LEMMA WizardNumbers ==
    1 \in 1..Review /\ 0 \in Asked /\ 1 \in Asked /\ 1 \in Codes
BY StepNames, OnboardingAssumption DEF Asked, Codes

(* The answers one by one. *)
LEMMA WizardFields ==
    ASSUME wizard \in Wizard
    PROVE  /\ wizard.step \in 1..Review /\ wizard.named \in BOOLEAN
           /\ wizard.pos \in {"none", "uncounted", "counted"}
           /\ wizard.vat \in {"none", "unnumbered", "numbered"}
           /\ wizard.banks \in Asked /\ wizard.branches \in Asked
BY DEF Wizard

LEMMA NewWizardTyped == NewWizard \in Wizard
BY WizardNumbers DEF NewWizard, Wizard

LEMMA OnboardingInvInit == OnboardingInit => OnboardingInv
BY NewWizardTyped, WizardNumbers
   DEF OnboardingInit, OnboardingInv, OnboardingTypeOK, StepsValidated,
       Office, NewWizard

(* Codes of at most the highest number are finite sets. *)
LEMMA CodesFinite ==
    ASSUME NEW S \in SUBSET Codes
    PROVE  IsFiniteSet(S) /\ Cardinality(S) \in Nat /\ Cardinality(S) <= MaxCode
<1>1. IsFiniteSet(Codes) /\ Cardinality(Codes) = MaxCode
  BY FS_Interval, OnboardingAssumption DEF Codes
<1>2. IsFiniteSet(S) /\ Cardinality(S) <= Cardinality(Codes)
  BY <1>1, FS_Subset
<1> QED BY <1>1, <1>2, FS_CardinalityType

(* New branches are numbered with codes. *)
LEMMA BranchCodes ==
    ASSUME OnboardingTypeOK
    PROVE  NewBranches \subseteq Codes
<1>1. Cardinality(office.branches) \in Nat
  BY CodesFinite DEF OnboardingTypeOK, Office
<1>2. wizard.branches \in Asked
  BY WizardFields DEF OnboardingTypeOK
<1> QED
  BY <1>1, <1>2, OnboardingAssumption DEF NewBranches, Codes, Asked

(* The answers to a step are validated before the next. *)
LEMMA OnboardingInvStep ==
    OnboardingInv /\ [OnboardingNext]_onboardingVars => OnboardingInv'
<1> SUFFICES ASSUME OnboardingInv, [OnboardingNext]_onboardingVars
             PROVE  OnboardingInv'
  OBVIOUS
<1>1. wizard \in Wizard /\ office \in Office /\ StepsValidated
  BY DEF OnboardingInv, OnboardingTypeOK
<1> SUFFICES (wizard \in Wizard /\ office \in Office /\ StepsValidated)'
  BY DEF OnboardingInv, OnboardingTypeOK
<1>2. CASE JumpStart
  BY <1>1, <1>2, NewWizardTyped DEF JumpStart, NewWizard, StepsValidated
<1>3. CASE StepForward
  <2>1. wizard.step + 1 \in 1..Review /\ wizard.step \in 1..6
    BY <1>1, <1>3, WizardFields, StepNames DEF StepForward
  <2>2. wizard' \in Wizard
    BY <1>1, <1>3, <2>1 DEF StepForward, Wizard
  <2>3. /\ wizard'.step = wizard.step + 1 /\ wizard'.named = wizard.named
        /\ wizard'.pos = wizard.pos /\ wizard'.vat = wizard.vat
    BY <1>1, <1>3 DEF StepForward, Wizard
  <2>4. /\ wizard.step = 2 => wizard.named
        /\ wizard.step = 3 => wizard.pos # "uncounted"
        /\ wizard.step = 4 => wizard.vat # "unnumbered"
    BY <1>3, <2>1, StepNames DEF StepForward, Valid
  <2>5. StepsValidated'
    BY <1>1, <2>1, <2>3, <2>4 DEF StepsValidated
  <2> QED BY <1>1, <1>3, <2>2, <2>5 DEF StepForward
<1>4. CASE PrevStep
  <2>1. wizard.step - 1 \in 1..Review /\ wizard.step \in 1..6
    BY <1>1, <1>4, WizardFields, StepNames DEF PrevStep
  <2>2. wizard' \in Wizard
    BY <1>1, <1>4, <2>1 DEF PrevStep, Wizard
  <2>3. /\ wizard'.step = wizard.step - 1 /\ wizard'.named = wizard.named
        /\ wizard'.pos = wizard.pos /\ wizard'.vat = wizard.vat
    BY <1>1, <1>4 DEF PrevStep, Wizard
  <2>4. StepsValidated'
    BY <1>1, <2>1, <2>3 DEF StepsValidated
  <2> QED BY <1>1, <1>4, <2>2, <2>4 DEF PrevStep
<1>5. CASE AnswerProfile
  <2>1. wizard.step = 2
    BY <1>1, <1>5, WizardFields, StepNames DEF AnswerProfile, At
  <2>2. wizard' \in Wizard /\ wizard'.step = wizard.step
    BY <1>1, <1>5 DEF AnswerProfile, Wizard
  <2> QED BY <1>1, <1>5, <2>1, <2>2 DEF AnswerProfile, StepsValidated
<1>6. CASE AnswerOperations
  <2>1. wizard.step = 3
    BY <1>1, <1>6, WizardFields, StepNames DEF AnswerOperations, At
  <2>2. /\ wizard' \in Wizard /\ wizard'.step = wizard.step
        /\ wizard'.named = wizard.named
    BY <1>1, <1>6 DEF AnswerOperations, Wizard
  <2> QED BY <1>1, <1>6, <2>1, <2>2 DEF AnswerOperations, StepsValidated
<1>7. CASE AnswerFinancial
  <2>1. wizard.step = 4
    BY <1>1, <1>7, WizardFields, StepNames DEF AnswerFinancial, At
  <2>2. /\ wizard' \in Wizard /\ wizard'.step = wizard.step
        /\ wizard'.named = wizard.named /\ wizard'.pos = wizard.pos
    BY <1>1, <1>7 DEF AnswerFinancial, Wizard
  <2> QED BY <1>1, <1>7, <2>1, <2>2 DEF AnswerFinancial, StepsValidated
<1>8. CASE AutoFill
  <2>1. wizard.step = 2
    BY <1>1, <1>8, WizardFields, StepNames DEF AutoFill, At
  <2>2. PICK v \in {wizard.vat, "numbered"}, n \in {wizard.named, TRUE},
             p \in {wizard.pos, "counted",
                   IF wizard.pos = "counted" THEN "counted" ELSE "uncounted"} :
          wizard' = [wizard EXCEPT !.vat = v, !.named = n, !.pos = p]
    BY <1>8 DEF AutoFill
  <2>3. /\ v \in {"none", "unnumbered", "numbered"} /\ n \in BOOLEAN
        /\ p \in {"none", "uncounted", "counted"}
    BY <1>1, WizardFields
  <2>4. wizard' \in Wizard /\ wizard'.step = wizard.step
    BY <1>1, <2>2, <2>3 DEF Wizard
  <2> QED BY <1>1, <1>8, <2>1, <2>4 DEF AutoFill, StepsValidated
<1>9. CASE ApplyAndStart
  <2> PICK codes \in NewBanks :
         \/ /\ Refusal # "none" /\ wizard' = [wizard EXCEPT !.result = Refusal]
            /\ UNCHANGED office
         \/ /\ wizard' = [wizard EXCEPT !.result = "done"]
            /\ office' = [banks |-> office.banks \union Range(codes),
                          branches |-> office.branches \union NewBranches,
                          tax |-> office.tax \/ wizard.vat # "none"]
    BY <1>9 DEF ApplyAndStart
  <2>1. Range(codes) \subseteq Codes
    BY DEF NewBanks, Range
  <2>2. Refusal \in {"none", "tax", "branch code"}
    BY DEF Refusal
  <2>3. NewBranches \subseteq Codes
    BY <1>1, BranchCodes DEF OnboardingTypeOK
  <2>4. /\ wizard' \in Wizard /\ wizard'.step = wizard.step
        /\ wizard'.named = wizard.named /\ wizard'.pos = wizard.pos
        /\ wizard'.vat = wizard.vat
    BY <1>1, <2>2 DEF Wizard
  <2>5. office' \in Office
    <3>1. PICK tax \in BOOLEAN : tax = (office.tax \/ wizard.vat # "none")
      OBVIOUS
    <3>2. /\ office.banks \union Range(codes) \in SUBSET Codes
          /\ office.branches \union NewBranches \in SUBSET Codes
      BY <1>1, <2>1, <2>3 DEF Office
    <3>3. CASE UNCHANGED office
      BY <1>1, <3>3
    <3>4. CASE office' = [banks |-> office.banks \union Range(codes),
                          branches |-> office.branches \union NewBranches,
                          tax |-> office.tax \/ wizard.vat # "none"]
      BY <3>1, <3>2, <3>4 DEF Office
    <3> QED BY <3>3, <3>4
  <2> QED BY <1>1, <2>4, <2>5 DEF StepsValidated
<1>10. ASSUME NEW c \in Codes, DeleteUnused(c)
       PROVE  (wizard \in Wizard /\ office \in Office /\ StepsValidated)'
  <2>1. office' \in Office
    BY <1>1, <1>10 DEF DeleteUnused, Office
  <2> QED BY <1>1, <1>10, <2>1 DEF DeleteUnused, StepsValidated
<1>11. CASE UNCHANGED onboardingVars
  BY <1>1, <1>11 DEF onboardingVars, StepsValidated
<1> QED
  BY <1>2, <1>3, <1>4, <1>5, <1>6, <1>7, <1>8, <1>9, <1>10, <1>11
     DEF OnboardingNext

(* The wizard and the company's records are of their types, and what a step *)
(* asks for stays valid on the later steps.                                 *)
THEOREM OnboardingSafe == OnboardingSpec => []OnboardingInv
BY OnboardingInvInit, OnboardingInvStep, PTL DEF OnboardingSpec

(* However one goes back and forth, what is reviewed has been validated     *)
(* (action_next_step and action_apply_and_start).                           *)
THEOREM ReviewedAnswersValid == OnboardingSpec => []ReviewedIsValid
<1>1. OnboardingInv => ReviewedIsValid
  BY StepNames DEF OnboardingInv, StepsValidated, ReviewedIsValid
<1> QED BY <1>1, OnboardingSafe, PTL

(* A code that is free is not taken: there is one more than can be taken.   *)
LEMMA FreeCodeIsFree ==
    ASSUME NEW taken \in SUBSET Codes, NEW k \in Nat \ {0}
    PROVE  FreeCode(taken, k) \notin taken
<1> DEFINE free == {c \in k..MaxCode + k : c \notin taken}
<1>1. free # {}
  <2> SUFFICES ASSUME k..MaxCode + k \subseteq taken PROVE FALSE
    OBVIOUS
  <2>1. IsFiniteSet(taken) /\ Cardinality(taken) \in Nat
        /\ Cardinality(taken) <= MaxCode
    BY CodesFinite
  <2>2. Cardinality(k..MaxCode + k) = MaxCode + 1
    BY FS_Interval, OnboardingAssumption
  <2>3. Cardinality(k..MaxCode + k) <= Cardinality(taken)
    BY <2>1, FS_Subset
  <2> QED BY <2>1, <2>2, <2>3, OnboardingAssumption
<1>2. free \in SUBSET Nat
  BY OnboardingAssumption
<1>3. \E x \in free : \A y \in free : x <= y
  BY <1>1, <1>2, LeastNumber
<1>4. FreeCode(taken, k) = CHOOSE x \in free : \A y \in free : x <= y
  BY DEF FreeCode, Min
<1>5. FreeCode(taken, k) \in free
  <2> HIDE DEF free
  <2> QED BY <1>3, <1>4
<1> QED BY <1>5

(* The codes of new bank journals are new, and as many as are asked for.    *)
LEMMA NewBanksAreNew ==
    ASSUME OnboardingTypeOK, NEW codes \in NewBanks
    PROVE  /\ IsFiniteSet(Range(codes))
           /\ Cardinality(Range(codes)) = wizard.banks
           /\ Range(codes) \intersect office.banks = {}
<1> DEFINE n == wizard.banks
           Before(i) == office.banks \union {codes[j] : j \in 1..i - 1}
<1>1. n \in Nat /\ office.banks \in SUBSET Codes
  BY WizardFields, OnboardingAssumption DEF OnboardingTypeOK, Office, Asked
<1>2. /\ codes \in [1..n -> Codes]
      /\ \A i \in 1..n :
            codes[i] = FreeCode(Before(i), Cardinality(office.banks) + i)
  BY DEF NewBanks
<1>3. Cardinality(office.banks) \in Nat
  BY <1>1, CodesFinite
<1>4. ASSUME NEW i \in 1..n PROVE codes[i] \notin Before(i)
  <2>1. Before(i) \in SUBSET Codes
    BY <1>1, <1>2
  <2>2. Cardinality(office.banks) + i \in Nat \ {0}
    BY <1>1, <1>3
  <2>3. FreeCode(Before(i), Cardinality(office.banks) + i) \notin Before(i)
    BY <2>1, <2>2, FreeCodeIsFree
  <2> QED BY <1>2, <2>3
<1>5. Range(codes) \intersect office.banks = {}
  BY <1>2, <1>4 DEF Range
<1>6. \A i, j \in 1..n : i < j => codes[i] # codes[j]
  BY <1>1, <1>4
<1>7. \A i, j \in 1..n : codes[i] = codes[j] => i = j
  BY <1>1, <1>6
<1>8. /\ codes \in Injection(1..n, Range(codes))
      /\ codes \in Surjection(1..n, Range(codes))
  BY <1>2, <1>7 DEF Injection, Surjection, Range, IsInjective
<1>9. IsFiniteSet(1..n) /\ Cardinality(1..n) = n
  <2>1. 1 = 0 + 1
    OBVIOUS
  <2>2. IsFiniteSet(0 + 1 .. n) /\ Cardinality(0 + 1 .. n) = IF 0 < n THEN n - 0 ELSE 0
    BY <1>1, SizeOfInterval
  <2> HIDE DEF n
  <2> QED BY <1>1, <2>1, <2>2
<1>10. /\ IsFiniteSet(Range(codes))
       /\ Cardinality(Range(codes)) = Cardinality(1..n)
  BY <1>8, <1>9, FS_Surjection
<1> QED BY <1>5, <1>9, <1>10

LEMMA BranchesMade ==
    ASSUME OnboardingTypeOK, NewBranches \intersect office.branches = {}
    PROVE  Cardinality(office.branches \union NewBranches) >= wizard.branches
<1> DEFINE c == Cardinality(office.branches)
<1>1. IsFiniteSet(office.branches) /\ c \in Nat
  BY CodesFinite DEF OnboardingTypeOK, Office
<1>2. wizard.branches \in Nat
  BY WizardFields, OnboardingAssumption DEF OnboardingTypeOK, Asked
<1> HIDE DEF c
<1>3. NewBranches = c + 1 .. wizard.branches
  BY DEF NewBranches, c
<1>4. /\ IsFiniteSet(NewBranches)
      /\ Cardinality(NewBranches)
           = IF c < wizard.branches THEN wizard.branches - c ELSE 0
  BY <1>1, <1>2, <1>3, SizeOfInterval
<1>5. office.branches \intersect NewBranches = {}
  OBVIOUS
<1>6. Cardinality(office.branches \union NewBranches)
        = c + Cardinality(NewBranches)
  BY <1>1, <1>4, <1>5, SizeOfUnion DEF c
<1> QED BY <1>1, <1>2, <1>4, <1>6

LEMMA AnswersMadeStep ==
    ASSUME OnboardingInv, ApplyAndStart, wizard'.result = "done"
    PROVE  /\ Cardinality(office'.banks)
                = Cardinality(office.banks) + wizard.banks
           /\ Cardinality(office'.branches) >= wizard.branches
<1>1. OnboardingTypeOK /\ office.banks \in SUBSET Codes /\ wizard \in Wizard
  BY DEF OnboardingInv, OnboardingTypeOK, Office
<1>2. Refusal \in {"none", "tax", "branch code"}
  BY DEF Refusal
<1>3. ASSUME wizard' = [wizard EXCEPT !.result = Refusal], Refusal # "none"
      PROVE  FALSE
  BY <1>1, <1>2, <1>3 DEF Wizard
<1>4. PICK codes \in NewBanks :
        /\ Refusal = "none"
        /\ office' = [banks |-> office.banks \union Range(codes),
                      branches |-> office.branches \union NewBranches,
                      tax |-> office.tax \/ wizard.vat # "none"]
  BY <1>3 DEF ApplyAndStart
<1>5. /\ office'.banks = office.banks \union Range(codes)
      /\ office'.branches = office.branches \union NewBranches
  BY <1>4
<1>6. NewBranches \intersect office.branches = {}
  BY <1>4 DEF Refusal
<1>7. IsFiniteSet(office.banks) /\ Cardinality(office.banks) \in Nat
  BY <1>1, CodesFinite
<1>8. /\ IsFiniteSet(Range(codes))
      /\ Cardinality(Range(codes)) = wizard.banks
      /\ office.banks \intersect Range(codes) = {}
  BY <1>1, NewBanksAreNew
<1>9. Cardinality(office.banks \union Range(codes))
        = Cardinality(office.banks) + wizard.banks
  BY <1>7, <1>8, SizeOfUnion
<1> QED BY <1>1, <1>5, <1>6, <1>9, BranchesMade

(* Once the engine is through (action_apply_and_start), the company has the *)
(* branches that were asked for and as many more bank journals.             *)
THEOREM AnswersBecomeRecords == OnboardingSpec => AnswersAreMade
<1>1. OnboardingInv /\ [OnboardingNext]_onboardingVars =>
        [wizard'.result = "done" /\ ApplyAndStart =>
           /\ Cardinality(office'.banks) = Cardinality(office.banks) + wizard.banks
           /\ Cardinality(office'.branches) >= wizard.branches]_onboardingVars
  BY AnswersMadeStep
<1> QED BY <1>1, OnboardingSafe, PTL DEF OnboardingSpec, AnswersAreMade

-----------------------------------------------------------------------------
(* Module Checkout *)

(* The references the bloc works with are of orders that were built. *)
PayloadsBuilt ==
    /\ bloc.payload # NoRef => bloc.payload \in DOMAIN built
    /\ bloc.order # NoRef => bloc.order \in DOMAIN built
    /\ bloc.job \in {"charge", "store"} => bloc.order # NoRef

InOrderOfWork ==
    /\ screen = "building" => bloc.job \in {"none", "build"}
    /\ screen = "paying" => bloc.job # "build"

(* From the building of the order on, as long as nothing fails, the cart is *)
(* in the order the bloc has in hand, and then in one that is stored.       *)
CartIsBuilt ==
    ~bloc.error =>
        /\ screen = "building" /\ bloc.job = "none" =>
              bloc.payload # NoRef /\ cart \subseteq built[bloc.payload]
        /\ screen = "paying" /\ bloc.job \in {"charge", "store"} =>
              cart \subseteq built[bloc.order]
        /\ screen = "paying" /\ bloc.job \in {"print", "none"} =>
              \E r \in stored : cart \subseteq built[r]

CheckoutInv == CheckoutTypeOK /\ PayloadsBuilt /\ InOrderOfWork /\ CartIsBuilt

(* The flags and the work of the bloc one by one. *)
LEMMA BlocFields ==
    ASSUME NEW b \in Bloc
    PROVE  /\ b.payload \in Refs \union {NoRef} /\ b.order \in Refs \union {NoRef}
           /\ b.paid \in BOOLEAN /\ b.error \in BOOLEAN
           /\ b.job \in {"none", "build", "charge", "store", "print"}
BY DEF Bloc

LEMMA FreshBloc ==
    /\ Fresh \in Bloc /\ Fresh.job = "none"
    /\ Fresh.payload = NoRef /\ Fresh.order = NoRef
BY DEF Fresh, Bloc

LEMMA CheckoutInvInit == CheckoutInit => CheckoutInv
<1> SUFFICES ASSUME CheckoutInit PROVE CheckoutInv
  OBVIOUS
<1>1. CheckoutTypeOK
  BY FreshBloc, CheckoutAssumption DEF CheckoutInit, CheckoutTypeOK, Screen
<1>2. PayloadsBuilt /\ InOrderOfWork /\ CartIsBuilt
  BY FreshBloc DEF CheckoutInit, PayloadsBuilt, InOrderOfWork, CartIsBuilt
<1> QED BY <1>1, <1>2 DEF CheckoutInv

(* An order built anew leaves the others as they are. *)
LEMMA BuiltAnew ==
    ASSUME CheckoutTypeOK, Len(built) < MaxRefs, built' = Append(built, cart)
    PROVE  LET r == Len(built) + 1 IN
           /\ built' \in Seq(SUBSET Items) /\ Len(built') <= MaxRefs
           /\ DOMAIN built \subseteq DOMAIN built'
           /\ r \in DOMAIN built' /\ r \in Refs /\ r # NoRef
           /\ \A q \in DOMAIN built : built'[q] = built[q]
           /\ built'[r] = cart
<1>1. /\ built \in Seq(SUBSET Items) /\ cart \in SUBSET Items
      /\ Len(built) \in Nat
  BY DEF CheckoutTypeOK
<1> QED BY <1>1, CheckoutAssumption DEF Refs, NoRef

LEMMA CheckoutInvStep ==
    CheckoutInv /\ [CheckoutNext]_checkoutVars => CheckoutInv'
<1> SUFFICES ASSUME CheckoutInv, [CheckoutNext]_checkoutVars
             PROVE  CheckoutInv'
  OBVIOUS
<1>1. CheckoutTypeOK /\ PayloadsBuilt /\ InOrderOfWork /\ CartIsBuilt
  BY DEF CheckoutInv
<1>2. bloc \in Bloc
  BY <1>1 DEF CheckoutTypeOK
<1> USE DEF CheckoutInv
<1>3. ASSUME NEW i \in Items, AddToCart(i) \/ RemoveFromCart(i)
      PROVE  CheckoutInv'
  BY <1>1, <1>3
     DEF AddToCart, RemoveFromCart, CheckoutTypeOK, PayloadsBuilt,
         InOrderOfWork, CartIsBuilt
<1>4. CASE OpenCheckout \/ LeaveScreen
  BY <1>1, <1>4
     DEF OpenCheckout, LeaveScreen, CheckoutTypeOK, PayloadsBuilt,
         InOrderOfWork, CartIsBuilt, Screen
<1>5. CASE PressPay
  <2>1. /\ bloc' \in Bloc /\ bloc'.job = "build"
        /\ bloc'.payload = bloc.payload /\ bloc'.order = bloc.order
    BY <1>2, <1>5 DEF PressPay, Bloc
  <2> QED
    BY <1>1, <1>5, <2>1
       DEF PressPay, CheckoutTypeOK, PayloadsBuilt, InOrderOfWork, CartIsBuilt,
           Screen
<1>6. CASE RebuildOrder
  <2>1. built' = Append(built, cart) /\ Len(built) < MaxRefs
    BY <1>6 DEF RebuildOrder
  <2>2. /\ bloc' \in Bloc /\ bloc'.payload = Len(built) + 1
        /\ bloc'.job = bloc.job /\ bloc'.order = bloc.order
    BY <1>1, <1>2, <1>6, <2>1, BuiltAnew DEF RebuildOrder, NewPayload, Bloc
  <2>3. CheckoutTypeOK'
    BY <1>1, <1>6, <2>1, <2>2, BuiltAnew DEF RebuildOrder, CheckoutTypeOK
  <2>4. PayloadsBuilt'
    BY <1>1, <2>1, <2>2, BuiltAnew DEF PayloadsBuilt
  <2>5. screen' = "open"
    BY <1>6 DEF RebuildOrder
  <2> QED BY <2>3, <2>4, <2>5 DEF InOrderOfWork, CartIsBuilt
<1>7. CASE BuildOrder
  <2>1. built' = Append(built, cart) /\ Len(built) < MaxRefs /\ cart' = cart
    BY <1>7 DEF BuildOrder
  <2>2. /\ bloc' \in Bloc /\ bloc'.payload = Len(built) + 1
        /\ bloc'.job = "none" /\ bloc'.order = bloc.order
    BY <1>1, <1>2, <1>7, <2>1, BuiltAnew DEF BuildOrder, NewPayload, Bloc
  <2>3. CheckoutTypeOK'
    BY <1>1, <1>7, <2>1, <2>2, BuiltAnew DEF BuildOrder, CheckoutTypeOK
  <2>4. PayloadsBuilt'
    BY <1>1, <2>1, <2>2, BuiltAnew DEF PayloadsBuilt
  <2>5. screen' = screen /\ screen # "paying"
    BY <1>1, <1>7 DEF BuildOrder, InOrderOfWork
  <2>6. InOrderOfWork' /\ CartIsBuilt'
    BY <1>1, <2>1, <2>2, <2>5, BuiltAnew DEF InOrderOfWork, CartIsBuilt
  <2> QED BY <2>3, <2>4, <2>6
<1>8. CASE Fail
  <2>1. /\ bloc' \in Bloc /\ bloc'.payload = bloc.payload
        /\ bloc'.job = "none" /\ bloc'.order = NoRef /\ bloc'.error = TRUE
    BY <1>2, <1>8 DEF Fail, Bloc
  <2> QED
    BY <1>1, <1>8, <2>1
       DEF Fail, CheckoutTypeOK, PayloadsBuilt, InOrderOfWork, CartIsBuilt
<1>9. CASE ProcessPayment
  <2>1. /\ cart' = cart /\ built' = built /\ stored' = stored
        /\ screen = "building" /\ screen' = "paying" /\ bloc.job = "none"
    BY <1>9 DEF ProcessPayment
  <2>2. CASE bloc.payload = NoRef
    <3>1. /\ bloc' \in Bloc /\ bloc'.payload = bloc.payload
          /\ bloc'.job = "none" /\ bloc'.order = bloc.order
          /\ bloc'.error = TRUE
      BY <1>2, <1>9, <2>1, <2>2 DEF ProcessPayment, Bloc
    <3> QED
      BY <1>1, <2>1, <3>1
         DEF CheckoutTypeOK, PayloadsBuilt, InOrderOfWork, CartIsBuilt, Screen
  <2>3. CASE bloc.payload # NoRef
    <3>1. /\ bloc' \in Bloc /\ bloc'.payload = bloc.payload
          /\ bloc'.job = "charge" /\ bloc'.order = bloc.payload
          /\ bloc'.error = bloc.error
      BY <1>2, <1>9, <2>3 DEF ProcessPayment, Bloc
    <3>2. CheckoutTypeOK' /\ PayloadsBuilt' /\ InOrderOfWork'
      BY <1>1, <2>1, <2>3, <3>1
         DEF CheckoutTypeOK, PayloadsBuilt, InOrderOfWork, Screen
    <3>3. CartIsBuilt'
      BY <1>1, <2>1, <2>3, <3>1 DEF CartIsBuilt
    <3> QED BY <3>2, <3>3
  <2> QED BY <2>2, <2>3
<1>10. CASE Resolve
  BY <1>1, <1>10
     DEF Resolve, CheckoutTypeOK, PayloadsBuilt, InOrderOfWork, CartIsBuilt,
         Screen
<1>11. CASE CollectPayment
  <2>1. /\ bloc' \in Bloc /\ bloc'.payload = bloc.payload
        /\ bloc'.job = "store" /\ bloc'.order = bloc.order
        /\ bloc'.error = bloc.error /\ bloc.job = "charge"
    BY <1>2, <1>11 DEF CollectPayment, Bloc
  <2> QED
    BY <1>1, <1>11, <2>1
       DEF CollectPayment, CheckoutTypeOK, PayloadsBuilt, InOrderOfWork,
           CartIsBuilt
<1>12. CASE StoreOrder
  <2>1. /\ bloc' \in Bloc /\ bloc'.payload = bloc.payload
        /\ bloc'.job = "print" /\ bloc'.order = bloc.order
        /\ bloc'.error = bloc.error /\ bloc.job = "store"
    BY <1>2, <1>12 DEF StoreOrder, Bloc
  <2>2. /\ cart' = cart /\ built' = built /\ screen' = screen
        /\ stored' = stored \union {bloc.order} /\ bloc.order \in DOMAIN built
    BY <1>1, <1>12, <2>1 DEF StoreOrder, PayloadsBuilt
  <2>3. CheckoutTypeOK' /\ PayloadsBuilt' /\ InOrderOfWork'
    BY <1>1, <2>1, <2>2 DEF CheckoutTypeOK, PayloadsBuilt, InOrderOfWork
  <2>4. CartIsBuilt'
    BY <1>1, <2>1, <2>2 DEF CartIsBuilt, InOrderOfWork
  <2> QED BY <2>3, <2>4
<1>13. CASE PrintReceipt
  <2>1. /\ bloc' \in Bloc /\ bloc'.payload = bloc.payload
        /\ bloc'.job = "none" /\ bloc'.order = NoRef
        /\ bloc'.error = bloc.error /\ bloc.job = "print"
    BY <1>2, <1>13 DEF PrintReceipt, Bloc
  <2> QED
    BY <1>1, <1>13, <2>1
       DEF PrintReceipt, CheckoutTypeOK, PayloadsBuilt, InOrderOfWork,
           CartIsBuilt
<1>14. CASE RestartTill
  BY <1>1, <1>14, FreshBloc
     DEF RestartTill, CheckoutTypeOK, PayloadsBuilt, InOrderOfWork,
         CartIsBuilt, Screen
<1>15. CASE UNCHANGED checkoutVars
  BY <1>1, <1>15
     DEF checkoutVars, CheckoutTypeOK, PayloadsBuilt, InOrderOfWork, CartIsBuilt
<1> QED
  BY <1>3, <1>4, <1>5, <1>6, <1>7, <1>8, <1>9, <1>10, <1>11, <1>12, <1>13,
     <1>14, <1>15
     DEF CheckoutNext

(* A till's data is of its types, and until something fails the cart is in  *)
(* the order that is being paid.                                            *)
THEOREM CheckoutSafe == CheckoutSpec => []CheckoutInv
BY CheckoutInvInit, CheckoutInvStep, PTL DEF CheckoutSpec

(* Without a failure, what the checkout screen takes out of the cart        *)
(* (checkout_screen.dart) is in an order stored on the till.                *)
THEOREM CleanSalesStored == CheckoutSpec => NoErrorNoLoss
<1>1. CheckoutInv /\ [CheckoutNext]_checkoutVars =>
        [screen = "paying" /\ bloc.job = "none" /\ ~bloc.error =>
           \A i \in cart \ cart' : \E r \in stored : i \in built[r]]_checkoutVars
  BY DEF CheckoutInv, CartIsBuilt
<1> QED BY <1>1, CheckoutSafe, PTL DEF CheckoutSpec, NoErrorNoLoss

-----------------------------------------------------------------------------
(* Module Papers *)

(* Employees are numbered in the order they were made. *)
StaffNumbered == \E n \in 0..MaxEmployees : DOMAIN staff = 1..n

PapersInv == PapersTypeOK /\ StaffNumbered

LEMMA StaffCount ==
    ASSUME NEW n \in Nat, DOMAIN staff = 1..n
    PROVE  Cardinality(DOMAIN staff) = n
BY FS_Interval

LEMMA PapersInvInit == PapersInit => PapersInv
<1> SUFFICES ASSUME PapersInit PROVE PapersInv
  OBVIOUS
<1>1. staff = <<>> /\ DOMAIN staff = {} /\ DOMAIN staff = 1..0
  BY DEF PapersInit
<1>2. company \in Company /\ hunter \in Hunter
  BY DEF PapersInit, Company, Hunter
<1> QED
  BY <1>1, <1>2, PapersAssumption DEF PapersInv, PapersTypeOK, StaffNumbered

(* What importing a row or a scan may find. *)
Findable(found, iqama) ==
    /\ found \subseteq Active
    /\ WithIqama(iqama) # {} => found = WithIqama(iqama)

(* A row or a scan writes one employee, or makes the next. *)
LEMMA UpsertInv ==
    ASSUME PapersInv, NEW found, NEW name \in Names,
           NEW iqama \in Iqamas \union {Unread},
           NEW pass \in Passports \union {Unread},
           Findable(found, iqama), Upsert(found, name, iqama, pass)
    PROVE  /\ PapersInv'
           /\ Twins(staff') \subseteq Twins(staff)
<1>1. /\ PapersTypeOK /\ UNCHANGED <<company, hunter>>
      /\ \A e \in DOMAIN staff : staff[e] \in Employee
  BY DEF PapersInv, PapersTypeOK, Upsert
<1>2. PICK n \in 0..MaxEmployees : DOMAIN staff = 1..n
  BY DEF PapersInv, StaffNumbered
<1>3. Cardinality(DOMAIN staff) = n /\ n \in Nat
  BY <1>2, StaffCount, PapersAssumption
<1>4. CASE found # {}
  <2> PICK e \in found :
         staff' = [staff EXCEPT ![e].name = name, ![e].iqama = Or(iqama, @),
                                ![e].passport = Or(pass, @)]
    BY <1>4 DEF Upsert
  <2>1. e \in DOMAIN staff /\ staff[e] \in Employee /\ staff[e].active
    BY <1>1 DEF Findable, Active
  <2>2. /\ DOMAIN staff' = DOMAIN staff
        /\ \A d \in DOMAIN staff : d # e => staff'[d] = staff[d]
        /\ staff'[e] = [staff[e] EXCEPT !.name = name, !.iqama = Or(iqama, @),
                                       !.passport = Or(pass, @)]
    BY <2>1
  <2>3. /\ Or(iqama, staff[e].iqama) \in Iqamas \union {Unread}
        /\ Or(pass, staff[e].passport) \in Passports \union {Unread}
    BY <2>1 DEF Or, Employee
  <2>4. /\ staff'[e] \in Employee /\ staff'[e].active = staff[e].active
        /\ staff'[e].iqama = Or(iqama, staff[e].iqama)
    BY <2>1, <2>2, <2>3 DEF Employee
  <2>5. PapersInv'
    BY <1>1, <1>2, <2>2, <2>4 DEF PapersInv, PapersTypeOK, StaffNumbered
  <2>6. ASSUME NEW pair \in Twins(staff') PROVE pair \in Twins(staff)
    <3>1. CASE e \notin pair \/ staff'[e].iqama = staff[e].iqama
      <4>1. /\ pair \in SUBSET DOMAIN staff /\ Cardinality(pair) = 2
            /\ \A d, f \in pair : /\ staff'[d].active /\ staff'[d].iqama # Unread
                                  /\ staff'[d].iqama = staff'[f].iqama
        BY <2>2 DEF Twins
      <4>2. \A d \in pair : /\ staff'[d].active = staff[d].active
                            /\ staff'[d].iqama = staff[d].iqama
        BY <2>2, <2>4, <3>1, <4>1
      <4> QED BY <4>1, <4>2 DEF Twins
    <3>2. CASE e \in pair /\ staff'[e].iqama # staff[e].iqama
      <4>1. staff'[e].iqama = iqama /\ iqama # Unread
        BY <2>4, <3>2 DEF Or
      <4>2. WithIqama(iqama) = {}
        BY <3>2, <4>1 DEF Findable, WithIqama
      <4>3. pair # {e}
        <5> SUFFICES ASSUME pair = {e} PROVE FALSE
          OBVIOUS
        <5>1. Cardinality({e}) = 2
          BY DEF Twins
        <5>2. Cardinality({e}) = 1
          BY FS_Singleton
        <5> QED BY <5>1, <5>2
      <4>4. PICK d \in pair : d # e
        BY <3>2, <4>3
      <4>5. /\ d \in DOMAIN staff' /\ staff'[d].active
            /\ staff'[d].iqama = staff'[e].iqama
        BY <3>2 DEF Twins
      <4> QED BY <2>2, <4>1, <4>2, <4>4, <4>5 DEF WithIqama, Active
    <3> QED BY <3>1, <3>2
  <2> QED BY <2>5, <2>6
<1>5. CASE found = {}
  <2> DEFINE new == [name |-> name, iqama |-> iqama, passport |-> pass,
                     active |-> TRUE]
  <2>1. /\ n < MaxEmployees
        /\ staff' = [e \in 1..n + 1 |-> IF e \in 1..n THEN staff[e] ELSE new]
    BY <1>2, <1>3, <1>5 DEF Upsert
  <2>2. new \in Employee /\ new.iqama = iqama
    BY DEF Employee
  <2> HIDE DEF new
  <2>3. /\ DOMAIN staff' = 1..n + 1 /\ staff'[n + 1] = new
        /\ \A e \in 1..n : staff'[e] = staff[e]
        /\ 1..n + 1 = 1..n \union {n + 1} /\ n + 1 \notin 1..n
    BY <1>3, <2>1
  <2>4. n + 1 \in 0..MaxEmployees /\ 1..n + 1 \subseteq 1..MaxEmployees
    BY <1>3, <2>1, PapersAssumption
  <2>5. PapersInv'
    BY <1>1, <1>2, <2>2, <2>3, <2>4 DEF PapersInv, PapersTypeOK, StaffNumbered
  <2>6. ASSUME NEW pair \in Twins(staff') PROVE pair \in Twins(staff)
    <3>1. CASE n + 1 \notin pair
      BY <1>2, <2>3, <3>1 DEF Twins
    <3>2. CASE n + 1 \in pair
      <4>1. pair # {n + 1}
        <5>1. Cardinality(pair) = 2
          BY DEF Twins
        <5>2. Cardinality({n + 1}) = 1
          BY FS_Singleton
        <5> QED BY <5>1, <5>2
      <4>2. PICK d \in pair : d # n + 1
        BY <3>2, <4>1
      <4>3. /\ d \in DOMAIN staff' /\ staff'[d].active /\ iqama # Unread
            /\ staff'[d].iqama = iqama
        BY <2>2, <2>3, <3>2 DEF Twins
      <4>4. d \in WithIqama(iqama)
        BY <1>2, <2>3, <4>2, <4>3 DEF WithIqama, Active
      <4> QED BY <1>5, <4>4 DEF Findable
    <3> QED BY <3>1, <3>2
  <2> QED BY <2>5, <2>6
<1> QED BY <1>4, <1>5

LEMMA ImportStaffInv ==
    ASSUME PapersInv, ImportStaff
    PROVE  /\ PapersInv'
           /\ Twins(staff') \subseteq Twins(staff)
<1> PICK name \in Names, iqama \in Iqamas \union {Unread} :
       \/ ImportRow(name, iqama)
       \/ \E pass \in Passports \union {Unread} : ScanDocument(name, iqama, pass)
  BY DEF ImportStaff
<1>1. CASE ImportRow(name, iqama)
  <2> DEFINE found == IF WithIqama(iqama) # {} THEN WithIqama(iqama)
                      ELSE WithName(name)
  <2>1. Findable(found, iqama)
    BY DEF Findable, WithIqama, WithName
  <2>2. Upsert(found, name, iqama, Unread)
    BY <1>1 DEF ImportRow
  <2> HIDE DEF found
  <2> QED BY <2>1, <2>2, UpsertInv
<1>2. ASSUME NEW pass \in Passports \union {Unread},
             ScanDocument(name, iqama, pass)
      PROVE  PapersInv' /\ Twins(staff') \subseteq Twins(staff)
  <2> DEFINE found == IF WithIqama(iqama) # {} THEN WithIqama(iqama)
                      ELSE WithPassport(pass)
  <2>1. Findable(found, iqama)
    BY DEF Findable, WithIqama, WithPassport
  <2>2. Upsert(found, name, iqama, pass)
    BY <1>2 DEF ScanDocument
  <2> HIDE DEF found
  <2> QED BY <2>1, <2>2, UpsertInv
<1> QED BY <1>1, <1>2

LEMMA PapersInvStep == PapersInv /\ [PapersNext]_papersVars => PapersInv'
<1> SUFFICES ASSUME PapersInv, [PapersNext]_papersVars PROVE PapersInv'
  OBVIOUS
<1>1. CASE ImportStaff
  BY <1>1, ImportStaffInv
<1>2. ASSUME NEW e \in DOMAIN staff, ArchiveEmployee(e) PROVE PapersInv'
  <2>1. staff[e] \in Employee
    BY DEF PapersInv, PapersTypeOK
  <2>2. /\ DOMAIN staff' = DOMAIN staff /\ UNCHANGED <<company, hunter>>
        /\ \A d \in DOMAIN staff : d # e => staff'[d] = staff[d]
        /\ staff'[e] = [staff[e] EXCEPT !.active = ~@]
    BY <1>2 DEF ArchiveEmployee
  <2>3. staff'[e] \in Employee
    BY <2>1, <2>2 DEF Employee
  <2> QED BY <2>2, <2>3 DEF PapersInv, PapersTypeOK, StaffNumbered
<1>3. ASSUME UNCHANGED staff, company' \in Company, hunter' \in Hunter
      PROVE  PapersInv'
  BY <1>3 DEF PapersInv, PapersTypeOK, StaffNumbered
<1>4. company \in Company /\ hunter \in Hunter
  BY DEF PapersInv, PapersTypeOK
<1>5. CASE UploadPaper \/ ClearDocumentInputs
  <2>1. company' \in Company
    BY <1>4, <1>5 DEF UploadPaper, ClearDocumentInputs, Company
  <2> QED BY <1>3, <1>4, <1>5, <2>1 DEF UploadPaper, ClearDocumentInputs
<1>6. ASSUME NEW vat \in Numbers \union {Unread},
             TriggerDocumentHunter(vat) \/ HuntAndExtract(vat)
      PROVE  PapersInv'
  <2>1. /\ Or(vat, company.vat) \in Numbers \union {Unread}
        /\ Or(vat, hunter.vat) \in Numbers \union {Unread}
    BY <1>4 DEF Or, Company, Hunter
  <2>2. CASE TriggerDocumentHunter(vat)
    <3>1. company' \in Company
      BY <1>4, <2>1, <2>2 DEF TriggerDocumentHunter, Extract, Company
    <3> QED BY <1>3, <1>4, <2>2, <3>1 DEF TriggerDocumentHunter
  <2>3. CASE HuntAndExtract(vat)
    <3>1. hunter' \in Hunter
      BY <1>4, <2>1, <2>3 DEF HuntAndExtract, Hunter
    <3> QED BY <1>3, <1>4, <2>3, <3>1 DEF HuntAndExtract
  <2> QED BY <1>6, <2>2, <2>3
<1>7. CASE OpenHunter \/ UploadToHunter \/ BackToUpload \/ ClearInputs
  <2>1. hunter' \in Hunter
    <3>1. CASE OpenHunter
      BY <3>1 DEF OpenHunter, Hunter
    <3>2. CASE UploadToHunter \/ ClearInputs
      BY <1>4, <3>2 DEF UploadToHunter, ClearInputs, Hunter
    <3>3. CASE BackToUpload
      BY <1>4, <3>3 DEF BackToUpload, Hunter
    <3> QED BY <1>7, <3>1, <3>2, <3>3
  <2> QED
    BY <1>3, <1>4, <1>7, <2>1
       DEF OpenHunter, UploadToHunter, BackToUpload, ClearInputs
<1>8. CASE ApplyAndProvision
  <2>1. /\ Or(hunter.vat, company.vat) \in Numbers \union {Unread}
        /\ Or(hunter.vat, company.param) \in Numbers \union {Unread}
    BY <1>4 DEF Or, Company, Hunter
  <2>2. company' \in Company
    BY <1>4, <1>8, <2>1 DEF ApplyAndProvision, Company
  <2>3. hunter' \in Hunter
    BY <1>4, <1>8 DEF ApplyAndProvision, Hunter
  <2> QED BY <1>3, <1>8, <2>2, <2>3 DEF ApplyAndProvision
<1>9. CASE UNCHANGED papersVars
  BY <1>3, <1>4, <1>9 DEF papersVars
<1> QED
  BY <1>1, <1>2, <1>5, <1>6, <1>7, <1>8, <1>9 DEF PapersNext

(* The staff, the company's data and the hunter are of their types, and     *)
(* employees are numbered one after the other.                              *)
THEOREM PapersSafe == PapersSpec => []PapersInv
BY PapersInvInit, PapersInvStep, PTL DEF PapersSpec

(* Rosters and scans (setup_journey.py) never give two employees of the     *)
(* list one residence permit, whoever was filed away or is a namesake.      *)
THEOREM NobodyHasATwin == PapersSpec => NoNewTwins
<1>1. PapersInv /\ [PapersNext]_papersVars =>
        [staff' # staff /\ ImportStaff =>
           Twins(staff') \subseteq Twins(staff)]_papersVars
  BY ImportStaffInv
<1> QED BY <1>1, PapersSafe, PTL DEF PapersSpec, NoNewTwins

-----------------------------------------------------------------------------
(* Module Reports *)

Money == Units(DOMAIN moves)

LEMMA UnitsOf ==
    ASSUME ReportsTypeOK, NEW list \in SUBSET DOMAIN moves
    PROVE  /\ Units(list) = {u \in Money : u[1] \in list}
           /\ \A u : u \in Units(list) <=>
                 /\ u = <<u[1], u[2]>>
                 /\ u[1] \in list /\ u[2] \in 1..Amount[u[1]]
BY DEF Units, Money

LEMMA UnitOf ==
    ASSUME ReportsTypeOK, NEW u \in Money
    PROVE  /\ u = <<u[1], u[2]>>
           /\ u[1] \in DOMAIN moves /\ u[2] \in 1..Amount[u[1]]
BY UnitsOf DEF Money

LEMMA MoveOf ==
    ASSUME ReportsTypeOK, NEW i \in DOMAIN moves
    PROVE  /\ i \in 1..MaxMoves /\ Amount[i] \in Nat \ {0}
           /\ moves[i] \in Move /\ moves[i].paid \in 0..Amount[i]
           /\ moves[i].day \in Days /\ moves[i].partner \in Parties
           /\ moves[i].kind \in MoveKinds
           /\ moves[i].kind[1] \in AccountTypes /\ moves[i].kind[2] \in AccountTypes
           /\ moves[i].kind[1] # moves[i].kind[2]
<1>1. moves[i] \in Move /\ moves[i].paid <= Amount[i]
  BY DEF ReportsTypeOK
<1>2. i \in 1..MaxMoves
  BY ReportsAssumption DEF ReportsTypeOK
<1>3. Amount[i] \in Nat \ {0}
  BY <1>2, ReportsAssumption
<1>4. /\ moves[i].kind \in MoveKinds /\ moves[i].day \in Days
      /\ moves[i].partner \in Parties /\ moves[i].paid \in Nat
  BY <1>1 DEF Move
<1>5. /\ moves[i].kind[1] \in AccountTypes /\ moves[i].kind[2] \in AccountTypes
      /\ moves[i].kind[1] # moves[i].kind[2]
  BY <1>4
     DEF MoveKinds, AccountTypes, Assets, Liabilities, Equity, Income, Expense,
         Unlisted
<1>6. moves[i].paid \in 0..Amount[i]
  BY <1>1, <1>3, <1>4
<1> QED BY <1>1, <1>2, <1>3, <1>4, <1>5, <1>6

LEMMA PostedIs ==
    ASSUME ReportsTypeOK, NEW from, NEW to
    PROVE  Posted(from, to) =
              {u \in Money : moves[u[1]].posted /\ moves[u[1]].day \in from..to}
BY UnitsOf, UnitOf DEF Posted

(* What is counted is finite. *)
LEMMA MoneyFinite == ReportsTypeOK => IsFiniteSet(Money)
<1> SUFFICES ASSUME ReportsTypeOK PROVE IsFiniteSet(Money)
  OBVIOUS
<1> DEFINE UnitsIn(i) == {i} \X (1..Amount[i])
           f == [i \in DOMAIN moves |-> UnitsIn(i)]
           T == {UnitsIn(i) : i \in DOMAIN moves}
<1>1. IsFiniteSet(DOMAIN moves)
  <2>1. Len(moves) \in Nat /\ DOMAIN moves = 1..Len(moves)
    BY DEF ReportsTypeOK
  <2> QED BY <2>1, FS_Interval
<1>2. IsFiniteSet(T)
  <2>1. f \in Surjection(DOMAIN moves, T)
    BY DEF Surjection
  <2> HIDE DEF f, T
  <2> QED BY <1>1, <2>1, FS_Surjection
<1>3. ASSUME NEW i \in DOMAIN moves PROVE IsFiniteSet(UnitsIn(i))
  <2>1. Amount[i] \in Nat
    BY MoveOf
  <2>2. IsFiniteSet({i})
    BY FS_Singleton
  <2>3. IsFiniteSet(1..Amount[i])
    BY <2>1, FS_Interval
  <2> QED BY <2>2, <2>3, FS_Product
<1>4. \A U \in T : IsFiniteSet(U)
  BY <1>3
<1>5. Money = UNION T
  BY DEF Money, Units
<1> HIDE DEF T
<1> QED BY <1>2, <1>4, <1>5, FS_UNION

LEMMA LinesFinite ==
    ASSUME ReportsTypeOK, NEW lines \in SUBSET Money, NEW types
    PROVE  /\ IsFiniteSet(lines)
           /\ Debit(lines, types) \in Nat /\ Credit(lines, types) \in Nat
<1>1. /\ IsFiniteSet({u \in lines : moves[u[1]].kind[1] \in types})
      /\ IsFiniteSet({u \in lines : moves[u[1]].kind[2] \in types})
      /\ IsFiniteSet(lines)
  BY MoneyFinite, FS_Subset
<1> QED BY <1>1, FS_CardinalityType DEF Debit, Credit

LEMMA BalanceIsInt ==
    ASSUME ReportsTypeOK, NEW lines \in SUBSET Money, NEW types
    PROVE  Balance(lines, types) \in Int
<1>1. Debit(lines, types) \in Nat /\ Credit(lines, types) \in Nat
  BY LinesFinite
<1> QED BY <1>1 DEF Balance

(* Lines of two kinds of accounts, or two sets of lines, add up. *)
LEMMA TypesAddUp ==
    ASSUME ReportsTypeOK, NEW lines \in SUBSET Money,
           NEW A, NEW B, A \intersect B = {}
    PROVE  /\ Debit(lines, A \union B) = Debit(lines, A) + Debit(lines, B)
           /\ Credit(lines, A \union B) = Credit(lines, A) + Credit(lines, B)
<1> DEFINE D(T) == {u \in lines : moves[u[1]].kind[1] \in T}
           C(T) == {u \in lines : moves[u[1]].kind[2] \in T}
<1>1. \A T : IsFiniteSet(D(T)) /\ IsFiniteSet(C(T))
  BY LinesFinite, FS_Subset
<1>2. /\ D(A \union B) = D(A) \union D(B) /\ D(A) \intersect D(B) = {}
      /\ C(A \union B) = C(A) \union C(B) /\ C(A) \intersect C(B) = {}
  OBVIOUS
<1>3. \A T : Debit(lines, T) = Cardinality(D(T)) /\ Credit(lines, T) = Cardinality(C(T))
  BY DEF Debit, Credit
<1> HIDE DEF D, C
<1>4. Cardinality(D(A) \union D(B)) = Cardinality(D(A)) + Cardinality(D(B))
  BY <1>1, <1>2, SizeOfUnion
<1>5. Cardinality(C(A) \union C(B)) = Cardinality(C(A)) + Cardinality(C(B))
  BY <1>1, <1>2, SizeOfUnion
<1> QED BY <1>2, <1>3, <1>4, <1>5

LEMMA LinesAddUp ==
    ASSUME ReportsTypeOK, NEW L \in SUBSET Money, NEW M \in SUBSET Money,
           L \intersect M = {}, NEW types
    PROVE  /\ Debit(L \union M, types) = Debit(L, types) + Debit(M, types)
           /\ Credit(L \union M, types) = Credit(L, types) + Credit(M, types)
<1> DEFINE D(K) == {u \in K : moves[u[1]].kind[1] \in types}
           C(K) == {u \in K : moves[u[1]].kind[2] \in types}
<1>1. /\ IsFiniteSet(D(L)) /\ IsFiniteSet(D(M))
      /\ IsFiniteSet(C(L)) /\ IsFiniteSet(C(M))
  BY LinesFinite, FS_Subset
<1>2. /\ D(L \union M) = D(L) \union D(M) /\ D(L) \intersect D(M) = {}
      /\ C(L \union M) = C(L) \union C(M) /\ C(L) \intersect C(M) = {}
  OBVIOUS
<1>3. \A K : Debit(K, types) = Cardinality(D(K)) /\ Credit(K, types) = Cardinality(C(K))
  BY DEF Debit, Credit
<1> HIDE DEF D, C
<1>4. Cardinality(D(L) \union D(M)) = Cardinality(D(L)) + Cardinality(D(M))
  BY <1>1, <1>2, SizeOfUnion
<1>5. Cardinality(C(L) \union C(M)) = Cardinality(C(L)) + Cardinality(C(M))
  BY <1>1, <1>2, SizeOfUnion
<1> QED BY <1>2, <1>3, <1>4, <1>5

(* A move is in balance: all its lines together are worth nothing. *)
LEMMA BooksBalance ==
    ASSUME ReportsTypeOK, NEW lines \in SUBSET Money
    PROVE  Balance(lines, Assets) + Balance(lines, Liabilities)
             + Balance(lines, Equity) + Balance(lines, Income)
             + Balance(lines, Expense) + Balance(lines, Unlisted) = 0
<1> DEFINE T2 == Assets \union Liabilities
           T3 == T2 \union Equity
           T4 == T3 \union Income
           T5 == T4 \union Expense
           T6 == T5 \union Unlisted
<1>1. /\ Assets \intersect Liabilities = {} /\ T2 \intersect Equity = {}
      /\ T3 \intersect Income = {} /\ T4 \intersect Expense = {}
      /\ T5 \intersect Unlisted = {}
  BY DEF Assets, Liabilities, Equity, Income, Expense, Unlisted
<1>2. T6 = AccountTypes
  BY DEF AccountTypes
<1> HIDE DEF T2, T3, T4, T5, T6
<1>3. /\ Debit(lines, T2) = Debit(lines, Assets) + Debit(lines, Liabilities)
      /\ Credit(lines, T2) = Credit(lines, Assets) + Credit(lines, Liabilities)
  BY <1>1, TypesAddUp DEF T2
<1>4. /\ Debit(lines, T3) = Debit(lines, T2) + Debit(lines, Equity)
      /\ Credit(lines, T3) = Credit(lines, T2) + Credit(lines, Equity)
  BY <1>1, TypesAddUp DEF T3
<1>5. /\ Debit(lines, T4) = Debit(lines, T3) + Debit(lines, Income)
      /\ Credit(lines, T4) = Credit(lines, T3) + Credit(lines, Income)
  BY <1>1, TypesAddUp DEF T4
<1>6. /\ Debit(lines, T5) = Debit(lines, T4) + Debit(lines, Expense)
      /\ Credit(lines, T5) = Credit(lines, T4) + Credit(lines, Expense)
  BY <1>1, TypesAddUp DEF T5
<1>7. /\ Debit(lines, T6) = Debit(lines, T5) + Debit(lines, Unlisted)
      /\ Credit(lines, T6) = Credit(lines, T5) + Credit(lines, Unlisted)
  BY <1>1, TypesAddUp DEF T6
<1>8. /\ {u \in lines : moves[u[1]].kind[1] \in AccountTypes} = lines
      /\ {u \in lines : moves[u[1]].kind[2] \in AccountTypes} = lines
  BY UnitOf, MoveOf
<1>9. Debit(lines, T6) = Credit(lines, T6)
  BY <1>2, <1>8 DEF Debit, Credit
<1>10. \A T : Debit(lines, T) \in Nat /\ Credit(lines, T) \in Nat
  BY LinesFinite
<1> QED BY <1>3, <1>4, <1>5, <1>6, <1>7, <1>9, <1>10 DEF Balance

LEMMA SheetGap == ReportsTypeOK => SheetGapIsProfit
<1> SUFFICES ASSUME ReportsTypeOK, NEW day \in Days
             PROVE  LET sheet == BalanceSheet(day) IN
                    sheet.asset + sheet.liability + sheet.equity
                      = Net(ProfitLoss(1, day)) - Balance(Posted(1, day), Unlisted)
  BY DEF SheetGapIsProfit
<1> DEFINE lines == Posted(1, day)
<1>1. lines \in SUBSET Money
  BY PostedIs
<1>2. /\ BalanceSheet(day).asset = Balance(lines, Assets)
      /\ BalanceSheet(day).liability = Balance(lines, Liabilities)
      /\ BalanceSheet(day).equity = Balance(lines, Equity)
  BY DEF BalanceSheet
<1>3. /\ ProfitLoss(1, day).revenue = -Balance(lines, Income)
      /\ ProfitLoss(1, day).expense = Balance(lines, Expense)
  BY DEF ProfitLoss
<1> HIDE DEF lines
<1>4. \A T : Balance(lines, T) \in Int
  BY <1>1, BalanceIsInt
<1> QED BY <1>1, <1>2, <1>3, <1>4, BooksBalance DEF Net, lines

(* An account that was not posted to has nothing on it. *)
LEMMA NotPostedTo ==
    ASSUME NEW lines, NEW t, t \notin TypesIn(lines)
    PROVE  Debit(lines, {t}) = 0 /\ Credit(lines, {t}) = 0
<1>1. /\ {u \in lines : moves[u[1]].kind[1] \in {t}} = {}
      /\ {u \in lines : moves[u[1]].kind[2] \in {t}} = {}
  BY DEF TypesIn
<1> QED BY <1>1, FS_EmptySet DEF Debit, Credit

LEMMA RowOnAccount ==
    ASSUME NEW to, NEW t
    PROVE  LET lines == Posted(1, to) IN
           /\ DOMAIN TrialBalance(to) = TypesIn(lines)
           /\ EntryOn(TrialBalance(to), t)
                = [debit |-> Debit(lines, {t}), credit |-> Credit(lines, {t})]
BY NotPostedTo DEF TrialBalance, EntryOn

LEMMA TrialBalancesDiffer == ReportsTypeOK => TrialBalancesAgree
<1> SUFFICES ASSUME ReportsTypeOK, NEW from \in Days, NEW to \in Days, from <= to
             PROVE  LET opening == TrialBalance(from - 1)
                        closing == TrialBalance(to)
                        lines == GeneralLedger(from, to)
                    IN  /\ DOMAIN closing = DOMAIN opening \union TypesIn(lines)
                        /\ \A t \in DOMAIN closing :
                              /\ closing[t].debit - EntryOn(opening, t).debit
                                   = Debit(lines, {t})
                              /\ closing[t].credit - EntryOn(opening, t).credit
                                   = Credit(lines, {t})
  BY DEF TrialBalancesAgree
<1> DEFINE before == Posted(1, from - 1)
           during == Posted(from, to)
           opening == TrialBalance(from - 1)
           closing == TrialBalance(to)
<1>1. from \in Nat /\ to \in Nat /\ 1 <= from
  BY ReportsAssumption DEF Days
<1>2. /\ before \in SUBSET Money /\ during \in SUBSET Money
      /\ before \intersect during = {} /\ Posted(1, to) = before \union during
  <2>1. \A u \in Money : moves[u[1]].day \in Nat
    BY UnitOf, MoveOf DEF Days
  <2> QED BY <1>1, <2>1, PostedIs
<1>3. /\ DOMAIN closing = TypesIn(before \union during)
      /\ DOMAIN opening = TypesIn(before)
      /\ GeneralLedger(from, to) = during
  BY <1>2, RowOnAccount DEF GeneralLedger
<1>4. \A t : /\ EntryOn(opening, t)
                  = [debit |-> Debit(before, {t}), credit |-> Credit(before, {t})]
             /\ EntryOn(closing, t)
                  = [debit |-> Debit(before \union during, {t}),
                     credit |-> Credit(before \union during, {t})]
  BY <1>2, RowOnAccount
<1>5. \A t \in DOMAIN closing : closing[t] = EntryOn(closing, t)
  BY DEF EntryOn
<1> HIDE DEF before, during, opening, closing
<1>6. TypesIn(before \union during) = TypesIn(before) \union TypesIn(during)
  BY DEF TypesIn
<1>7. ASSUME NEW t
      PROVE  /\ Debit(before \union during, {t}) - Debit(before, {t}) = Debit(during, {t})
             /\ Credit(before \union during, {t}) - Credit(before, {t})
                  = Credit(during, {t})
  <2>1. /\ Debit(before \union during, {t}) = Debit(before, {t}) + Debit(during, {t})
        /\ Credit(before \union during, {t})
             = Credit(before, {t}) + Credit(during, {t})
    BY <1>2, LinesAddUp
  <2>2. /\ Debit(before, {t}) \in Nat /\ Debit(during, {t}) \in Nat
        /\ Credit(before, {t}) \in Nat /\ Credit(during, {t}) \in Nat
    BY <1>2, LinesFinite
  <2> QED BY <2>1, <2>2
<1>8. ASSUME NEW t \in DOMAIN closing
      PROVE  /\ closing[t].debit - EntryOn(opening, t).debit = Debit(during, {t})
             /\ closing[t].credit - EntryOn(opening, t).credit = Credit(during, {t})
  <2>1. /\ EntryOn(opening, t)
              = [debit |-> Debit(before, {t}), credit |-> Credit(before, {t})]
        /\ closing[t] = [debit |-> Debit(before \union during, {t}),
                          credit |-> Credit(before \union during, {t})]
    BY <1>4, <1>5, Zenon
  <2>2. /\ EntryOn(opening, t).debit = Debit(before, {t})
        /\ EntryOn(opening, t).credit = Credit(before, {t})
        /\ closing[t].debit = Debit(before \union during, {t})
        /\ closing[t].credit = Credit(before \union during, {t})
    BY <2>1
  <2> QED BY <1>7, <2>2
<1> QED BY <1>3, <1>6, <1>8 DEF opening, closing

LEMMA Division ==
    ASSUME NEW n \in Int, NEW d \in Nat \ {0}
    PROVE  /\ n \div d \in Int /\ (n % d) \in 0..(d - 1)
           /\ n = (d * (n \div d)) + (n % d)
OBVIOUS

(* Rounding keeps the sign, and makes nothing of no more than a half. *)
LEMMA RoundedSign ==
    ASSUME NEW n \in Int, NEW d \in Nat \ {0}
    PROVE  /\ Rounded(n, d) > 0 => n > 0
           /\ Rounded(n, d) < 0 => n < 0
           /\ Rounded(n, d) = 0 => 2 * Size(n) <= d
<1> DEFINE q == n \div d
           r == n % d
           m == d * q
<1>1. /\ q \in Int /\ r \in Nat /\ r < d /\ m \in Int /\ n = m + r
  BY Division
<1>2. \/ Rounded(n, d) = q /\ 2 * r <= d
      \/ Rounded(n, d) = q + 1 /\ 2 * r >= d
  BY <1>1 DEF Rounded
<1>3. m = d * q
  OBVIOUS
<1> HIDE DEF q, r, m
<1>4. CASE q >= 1
  <2>1. m >= d
    BY <1>1, <1>3, <1>4
  <2> QED BY <1>1, <1>2, <1>4, <2>1
<1>5. CASE q = 0
  <2>1. m = 0
    BY <1>1, <1>3, <1>5
  <2> QED BY <1>1, <1>2, <1>5, <2>1 DEF Size
<1>6. CASE q = -1
  <2>1. m = -d
    BY <1>1, <1>3, <1>6
  <2> QED BY <1>1, <1>2, <1>6, <2>1 DEF Size
<1>7. CASE q <= -2
  <2>1. m <= -d
    BY <1>1, <1>3, <1>7
  <2> QED BY <1>1, <1>2, <1>7, <2>1
<1> QED BY <1>1, <1>4, <1>5, <1>6, <1>7

LEMMA PerCentSign ==
    ASSUME NEW x \in Int
    PROVE  /\ Precision * x \in Int
           /\ Precision * x > 0 => x > 0
           /\ Precision * x < 0 => x < 0
           /\ Size(Precision * x) = Precision * Size(x)
<1>1. Precision \in Nat \ {0}
  BY ReportsAssumption
<1>2. CASE x > 0
  <2>1. Precision * x > 0
    BY <1>1, <1>2
  <2> QED BY <1>1, <1>2, <2>1 DEF Size
<1>3. CASE x = 0
  BY <1>1, <1>3 DEF Size
<1>4. CASE x < 0
  <2>1. Precision * x < 0
    BY <1>1, <1>4
  <2> QED BY <1>1, <1>4, <2>1 DEF Size
<1> QED BY <1>2, <1>3, <1>4

LEMMA DeltaSign ==
    ASSUME NEW now \in Int, NEW before \in Int
    PROVE  /\ DeltaPct(now, before) > 0 => now > before
           /\ DeltaPct(now, before) < 0 => now < before
           /\ DeltaPct(now, before) = 0 =>
                 2 * Precision * Size(now - before) <= Size(before)
<1>1. Precision \in Nat \ {0}
  BY ReportsAssumption
<1>2. CASE before = 0
  <2>1. DeltaPct(now, before) = Growth(now)
    BY <1>2 DEF DeltaPct
  <2> QED BY <1>1, <1>2, <2>1 DEF Growth, Size
<1>3. CASE before # 0
  <2> DEFINE n == Precision * (now - before)
             d == Size(before)
  <2>1. d \in Nat \ {0}
    BY <1>3 DEF Size
  <2>2. DeltaPct(now, before) = Rounded(n, d)
    BY <1>3 DEF DeltaPct
  <2>3. /\ n \in Int /\ n > 0 => now - before > 0
        /\ n \in Int /\ n < 0 => now - before < 0
        /\ Size(n) = Precision * Size(now - before)
    BY PerCentSign
  <2>4. n \in Int /\ Size(now - before) \in Int
    BY PerCentSign DEF Size
  <2> HIDE DEF n, d
  <2>5. /\ Rounded(n, d) > 0 => n > 0
        /\ Rounded(n, d) < 0 => n < 0
        /\ Rounded(n, d) = 0 => 2 * Size(n) <= d
    BY <2>1, <2>4, RoundedSign
  <2>6. 2 * Size(n) = 2 * Precision * Size(now - before)
    BY <1>1, <2>3, <2>4
  <2> QED BY <2>2, <2>3, <2>4, <2>5, <2>6 DEF d
<1> QED BY <1>2, <1>3

LEMMA DeltaPoints == ReportsTypeOK => DeltaPointsRight
<1> SUFFICES ASSUME ReportsTypeOK, NEW month \in Days \ {1}
             PROVE  LET before == Net(ProfitLoss(month - 1, month - 1))
                        now == Net(ProfitLoss(month, month))
                    IN  /\ KpiSummary(month) > 0 => now > before
                        /\ KpiSummary(month) < 0 => now < before
                        /\ KpiSummary(month) = 0 =>
                              2 * Precision * Size(now - before) <= Size(before)
  BY DEF DeltaPointsRight
<1> DEFINE before == Net(ProfitLoss(month - 1, month - 1))
           now == Net(ProfitLoss(month, month))
<1>1. \A m : /\ Net(ProfitLoss(m, m)) \in Int
             /\ Net(PeriodTotals(m, m)) = Net(ProfitLoss(m, m))
  <2> TAKE m
  <2>1. PeriodTotals(m, m) = ProfitLoss(m, m)
    BY DEF PeriodTotals, ProfitLoss
  <2>2. Posted(m, m) \in SUBSET Money
    BY PostedIs
  <2>3. Balance(Posted(m, m), Income) \in Int /\ Balance(Posted(m, m), Expense) \in Int
    BY <2>2, BalanceIsInt
  <2> QED BY <2>1, <2>3 DEF Net, ProfitLoss
<1>2. /\ now \in Int /\ before \in Int
      /\ KpiSummary(month) = DeltaPct(now, before)
  BY <1>1 DEF KpiSummary
<1> HIDE DEF now, before
<1> QED BY <1>2, DeltaSign DEF now, before

-----------------------------------------------------------------------------
(* Agings *)

NameOf(u) == ShownAs[moves[u[1]].partner]

(* Report, sheet and dashboard look at the same lines, by the same limits.  *)
LEMMA OneAging ==
    ASSUME ReportsTypeOK, NEW to
    PROVE  /\ ReportLines(to) \in SUBSET Money
           /\ SheetLines(to) = ReportLines(to) /\ ChartLines = ReportLines(Today)
           /\ \A b, lines : InColumn(b, lines, to) = InBucket(b, lines, to)
           /\ \A b, lines :
                 {u \in lines : ChartBucket(Age(u, Today)) = b}
                   = InBucket(b, lines, Today)
<1>1. \A age : SheetColumn(age) = ReportBucket(age) /\ ChartBucket(age) = ReportBucket(age)
  BY DEF SheetColumn, ChartBucket, ReportBucket
<1> QED BY <1>1, PostedIs
        DEF ReportLines, SheetLines, ChartLines, InColumn, InBucket

(* Two sets of lines owe together what each owes. *)
LEMMA ResidualsAddUp ==
    ASSUME ReportsTypeOK, NEW L \in SUBSET Money, NEW M \in SUBSET Money,
           L \intersect M = {}
    PROVE  Residual(L \union M) = Residual(L) + Residual(M)
<1> DEFINE R == {"asset_receivable"}
<1>1. /\ Debit(L \union M, R) = Debit(L, R) + Debit(M, R)
      /\ Credit(L \union M, R) = Credit(L, R) + Credit(M, R)
  BY LinesAddUp
<1>2. /\ Debit(L, R) \in Nat /\ Debit(M, R) \in Nat
      /\ Credit(L, R) \in Nat /\ Credit(M, R) \in Nat
  BY LinesFinite
<1>3. \A K : Residual(K) = Debit(K, R) - Credit(K, R)
  BY DEF Residual, Balance
<1> QED BY <1>1, <1>2, <1>3

LEMMA ResidualOfNone == Residual({}) = 0
<1>1. Debit({}, {"asset_receivable"}) = 0 /\ Credit({}, {"asset_receivable"}) = 0
  BY FS_EmptySet DEF Debit, Credit
<1> QED BY <1>1 DEF Residual, Balance

(* The open lines of some bucket and of some of the names. *)
OfSome(S, b, to) == {u \in InBucket(b, ReportLines(to), to) : NameOf(u) \in S}

LEMMA OfSomeSplits ==
    ASSUME ReportsTypeOK, NEW b, NEW to, NEW S, NEW name \in S
    PROVE  Residual(OfSome(S, b, to))
             = Residual(InBucket(b, OfName(name, ReportLines(to)), to))
                 + Residual(OfSome(S \ {name}, b, to))
<1> DEFINE L == InBucket(b, OfName(name, ReportLines(to)), to)
           M == OfSome(S \ {name}, b, to)
<1>1. /\ L \in SUBSET Money /\ M \in SUBSET Money
      /\ L \intersect M = {} /\ OfSome(S, b, to) = L \union M
  BY OneAging DEF OfSome, InBucket, OfName, NameOf
<1> HIDE DEF L, M
<1>2. Residual(L \union M) = Residual(L) + Residual(M)
  BY <1>1, ResidualsAddUp
<1> QED BY <1>1, <1>2 DEF L, M

(* A row of the sheet. *)
LEMMA RowOfName ==
    ASSUME ReportsTypeOK, NEW to, NEW name \in NamesIn(ReportLines(to)), NEW b \in 1..4
    PROVE  AgingRows(to)[name][b]
             = Residual(InBucket(b, OfName(name, ReportLines(to)), to))
BY OneAging DEF AgingRows

LEMMA NamesFinite ==
    ASSUME ReportsTypeOK, NEW lines \in SUBSET Money
    PROVE  IsFiniteSet(NamesIn(lines))
<1> DEFINE f == [u \in lines |-> NameOf(u)]
<1>1. f \in Surjection(lines, NamesIn(lines))
  BY DEF Surjection, NamesIn, NameOf
<1>2. IsFiniteSet(lines)
  BY LinesFinite
<1> HIDE DEF f
<1> QED BY <1>1, <1>2, FS_Surjection

(* The total of a bucket is the sum of its rows, by induction on sets of    *)
(* names.                                                                   *)
LEMMA RowsAddUp ==
    ASSUME ReportsTypeOK, NEW b \in 1..4, NEW to
    PROVE  AgingTotals(to)[b] = Residual(InBucket(b, ReportLines(to), to))
<1> DEFINE Listed == NamesIn(ReportLines(to))
           Row(x) == AgingRows(to)[x][b]
           Sum(f) == [s \in SUBSET Listed |->
                        IF s = {} THEN 0
                        ELSE LET x == CHOOSE y \in s : TRUE
                             IN  Row(x) + f[s \ {x}]]
           sum == CHOOSE f : f = Sum(f)
           all == [s \in SUBSET Listed |-> Residual(OfSome(s, b, to))]
<1>1. AgingTotals(to)[b] = sum[Listed]
  <2>1. DOMAIN AgingRows(to) = Listed
    BY OneAging DEF AgingRows
  <2> QED BY <2>1 DEF AgingTotals, MapThenSumSet, MapThenFoldSet
<1>2. OfSome(Listed, b, to) = InBucket(b, ReportLines(to), to)
  BY DEF OfSome, InBucket, NamesIn, NameOf
<1>3. IsFiniteSet(Listed)
  BY OneAging, NamesFinite
<1>4. \A x \in Listed : Row(x) = Residual(InBucket(b, OfName(x, ReportLines(to)), to))
  BY RowOfName
<1> HIDE DEF Listed, Row
<1>5. ASSUME NEW s \in SUBSET Listed, s # {}
      PROVE  LET x == CHOOSE y \in s : TRUE IN
             /\ x \in s /\ s \ {x} \in SUBSET Listed
             /\ all[s] = Row(x) + all[s \ {x}]
  <2> DEFINE x == CHOOSE y \in s : TRUE
  <2>1. x \in s
    BY <1>5
  <2> HIDE DEF x
  <2>2. Residual(OfSome(s, b, to)) = Row(x) + Residual(OfSome(s \ {x}, b, to))
    BY <1>4, <2>1, OfSomeSplits
  <2> QED BY <2>1, <2>2 DEF x
<1>6. all[{}] = 0
  <2>1. OfSome({}, b, to) = {}
    BY DEF OfSome
  <2> QED BY <2>1, ResidualOfNone
<1>7. all = Sum(all)
  BY <1>5, <1>6
<1> HIDE DEF all
<1>8. sum = Sum(sum)
  BY <1>7
<1> HIDE DEF sum
<1>9. all[Listed] = sum[Listed]
  <2> DEFINE wrong == {s \in SUBSET Listed : all[s] # sum[s]}
  <2> SUFFICES ASSUME wrong # {} PROVE FALSE
    OBVIOUS
  <2>1. wrong \subseteq FiniteSubsetsOf(Listed)
    BY <1>3, FS_Subset DEF FiniteSubsetsOf
  <2>2. PICK s \in wrong : \A u \in wrong : ~(<<u, s>> \in StrictSubsetOrdering(Listed))
    BY <1>3, <2>1, WFMin, FS_StrictSubsetOrderingWellFounded
  <2>3. s # {}
    BY <1>6, <1>8
  <2> DEFINE x == CHOOSE y \in s : TRUE
  <2>4. x \in s /\ all[s] = Row(x) + all[s \ {x}]
    BY <1>5, <2>3
  <2>5. sum[s] = Row(x) + sum[s \ {x}]
    BY <1>8, <2>3
  <2> HIDE DEF x
  <2>6. s \ {x} \in wrong
    BY <2>4, <2>5
  <2>7. <<s \ {x}, s>> \in StrictSubsetOrdering(Listed)
    BY <2>4 DEF StrictSubsetOrdering
  <2> QED BY <2>2, <2>6, <2>7
<1> QED BY <1>1, <1>2, <1>9 DEF all

(* What is reconciled under some name, on invoices and on payments. *)
PaidDebits(name) ==
    {u \in Money : /\ u[2] <= moves[u[1]].paid /\ NameOf(u) = name
                   /\ moves[u[1]].kind[1] = "asset_receivable"}
PaidCredits(name) ==
    {u \in Money : /\ u[2] <= moves[u[1]].paid /\ NameOf(u) = name
                   /\ moves[u[1]].kind[2] = "asset_receivable"}

(* Of invoices as much is reconciled as of payments of the same partner,    *)
(* and so of the same name.                                                 *)
ReconciledInPairs ==
    /\ \A i \in DOMAIN moves : moves[i].paid > 0 => moves[i].posted
    /\ \A name : Cardinality(PaidDebits(name)) = Cardinality(PaidCredits(name))

ReportsInv == ReportsTypeOK /\ ReconciledInPairs

LEMMA ReportsInvInit == ReportsInit => ReportsInv
<1> SUFFICES ASSUME ReportsInit PROVE ReportsInv
  OBVIOUS
<1>1. moves = <<>> /\ DOMAIN moves = {} /\ Len(moves) = 0 /\ moves \in Seq(Move)
  BY DEF ReportsInit
<1>2. report \in Report
  BY DEF ReportsInit, Report
<1>3. Money = {}
  BY <1>1 DEF Money, Units
<1>4. \A name : PaidDebits(name) = {} /\ PaidCredits(name) = {}
  BY <1>3 DEF PaidDebits, PaidCredits
<1>5. ReconciledInPairs
  BY <1>1, <1>4 DEF ReconciledInPairs
<1> QED BY <1>1, <1>2, <1>5, ReportsAssumption DEF ReportsInv, ReportsTypeOK

(* Nothing changes of what is reconciled. *)
LEMMA PairsKept ==
    ASSUME ReportsTypeOK, ReportsTypeOK', ReconciledInPairs,
           DOMAIN moves \subseteq DOMAIN moves',
           \A i \in DOMAIN moves :
              /\ moves'[i].partner = moves[i].partner /\ moves'[i].kind = moves[i].kind
              /\ moves'[i].paid = moves[i].paid
              /\ moves[i].paid > 0 => moves'[i].posted,
           \A i \in DOMAIN moves' \ DOMAIN moves : moves'[i].paid = 0
    PROVE  ReconciledInPairs'
<1> DEFINE Paid == {u \in Money : u[2] <= moves[u[1]].paid}
<1>1. \A u : u \in Money <=>
         /\ u = <<u[1], u[2]>> /\ u[1] \in DOMAIN moves /\ u[2] \in 1..Amount[u[1]]
  BY UnitsOf DEF Money
<1>2. \A u : u \in Money' <=>
         /\ u = <<u[1], u[2]>> /\ u[1] \in DOMAIN moves' /\ u[2] \in 1..Amount[u[1]]
  BY DEF Money, Units
<1>3. Paid' = Paid
  BY <1>1, <1>2
<1>4. \A u \in Paid : /\ NameOf(u)' = NameOf(u)
                      /\ moves'[u[1]].kind = moves[u[1]].kind
  BY <1>1 DEF NameOf
<1>5. ASSUME NEW name
      PROVE  PaidDebits(name)' = PaidDebits(name) /\ PaidCredits(name)' = PaidCredits(name)
  <2>1. /\ PaidDebits(name) = {u \in Paid : /\ NameOf(u) = name
                                            /\ moves[u[1]].kind[1] = "asset_receivable"}
        /\ PaidCredits(name) = {u \in Paid : /\ NameOf(u) = name
                                             /\ moves[u[1]].kind[2] = "asset_receivable"}
    BY DEF PaidDebits, PaidCredits
  <2>2. /\ PaidDebits(name)' = {u \in Paid' : /\ NameOf(u)' = name
                                      /\ moves'[u[1]].kind[1] = "asset_receivable"}
        /\ PaidCredits(name)' = {u \in Paid' : /\ NameOf(u)' = name
                                      /\ moves'[u[1]].kind[2] = "asset_receivable"}
    BY DEF PaidDebits, PaidCredits
  <2> HIDE DEF Paid
  <2> QED BY <1>3, <1>4, <2>1, <2>2
<1>6. \A i \in DOMAIN moves' : moves'[i].paid > 0 => moves'[i].posted
  <2>1. \A i \in DOMAIN moves' \ DOMAIN moves : ~(moves'[i].paid > 0)
    OBVIOUS
  <2> QED BY <2>1
<1> QED BY <1>5, <1>6 DEF ReconciledInPairs

(* A move that is written keeps the rest of the list. *)
LEMMA MoveWritten ==
    ASSUME ReportsTypeOK, NEW i \in DOMAIN moves, NEW m \in Move, m.paid <= Amount[i],
           moves' = [moves EXCEPT ![i] = m], UNCHANGED report
    PROVE  /\ ReportsTypeOK' /\ DOMAIN moves' = DOMAIN moves /\ moves'[i] = m
           /\ \A j \in DOMAIN moves : j # i => moves'[j] = moves[j]
BY DEF ReportsTypeOK

(* The next sum units of a move. *)
LEMMA NextUnits ==
    ASSUME ReportsTypeOK, NEW i \in DOMAIN moves, NEW sum \in Nat,
           sum <= AmountResidual(i)
    PROVE  LET next == {i} \X (moves[i].paid + 1 .. moves[i].paid + sum) IN
           /\ next \subseteq Money
           /\ IsFiniteSet(next) /\ Cardinality(next) = sum
           /\ \A u \in Money : u \in next <=>
                 u[1] = i /\ u[2] > moves[i].paid /\ u[2] <= moves[i].paid + sum
<1> DEFINE I == moves[i].paid + 1 .. moves[i].paid + sum
           next == {i} \X I
<1>1. moves[i].paid \in Nat /\ Amount[i] \in Nat /\ moves[i].paid + sum <= Amount[i]
  BY MoveOf DEF AmountResidual
<1>2. IsFiniteSet({i}) /\ Cardinality({i}) = 1
  BY FS_Singleton
<1>3. IsFiniteSet(I) /\ Cardinality(I) = sum
  <2>1. moves[i].paid + sum \in Nat
    BY <1>1
  <2>2. /\ IsFiniteSet(I)
        /\ Cardinality(I) = IF moves[i].paid < moves[i].paid + sum
                               THEN moves[i].paid + sum - moves[i].paid ELSE 0
    BY <1>1, <2>1, SizeOfInterval
  <2> QED BY <1>1, <2>2
<1>4. \A u : u \in next <=> u = <<u[1], u[2]>> /\ u[1] = i /\ u[2] \in I
  OBVIOUS
<1>5. I \subseteq 1..Amount[i]
  BY <1>1
<1>6. next \subseteq Money
  BY <1>4, <1>5, UnitsOf DEF Money
<1>7. \A u \in Money : u \in next <=>
         u[1] = i /\ u[2] > moves[i].paid /\ u[2] <= moves[i].paid + sum
  <2>1. \A u \in Money : u[1] = i => u[2] \in Nat
    BY <1>1, UnitOf
  <2> QED BY <1>1, <1>4, <2>1, UnitOf
<1>8. IsFiniteSet(next) /\ Cardinality(next) = sum
  <2> HIDE DEF I
  <2>1. IsFiniteSet(next) /\ Cardinality(next) = Cardinality({i}) * Cardinality(I)
    BY <1>2, <1>3, FS_Product, Zenon
  <2>2. 1 * sum = sum
    OBVIOUS
  <2> QED BY <1>2, <1>3, <2>1, <2>2
<1> HIDE DEF next
<1> QED BY <1>6, <1>7, <1>8 DEF next

LEMMA ReconciledSum ==
    ASSUME ReportsTypeOK, NEW i \in DOMAIN moves, NEW j \in DOMAIN moves
    PROVE  LET sum == Min({AmountResidual(i), AmountResidual(j)}) IN
           /\ sum \in Nat
           /\ sum <= AmountResidual(i) /\ sum <= AmountResidual(j)
<1> DEFINE a == AmountResidual(i)
           b == AmountResidual(j)
<1>1. a \in Nat /\ b \in Nat
  BY MoveOf DEF AmountResidual
<1> HIDE DEF a, b
<1>2. \E x \in {a, b} : \A y \in {a, b} : x <= y
  BY <1>1
<1>3. Min({a, b}) = CHOOSE x \in {a, b} : \A y \in {a, b} : x <= y
  BY DEF Min
<1>4. Min({a, b}) \in {a, b} /\ \A y \in {a, b} : Min({a, b}) <= y
  BY <1>2, <1>3
<1> QED BY <1>1, <1>4 DEF a, b

LEMMA ReconcileInv ==
    ASSUME ReportsInv, NEW i \in DOMAIN moves, NEW j \in DOMAIN moves,
           Reconcile(i, j)
    PROVE  ReportsInv'
<1> DEFINE sum == Min({AmountResidual(i), AmountResidual(j)})
           nextI == {i} \X (moves[i].paid + 1 .. moves[i].paid + sum)
           nextJ == {j} \X (moves[j].paid + 1 .. moves[j].paid + sum)
<1>1. /\ ReportsTypeOK /\ ReconciledInPairs
      /\ moves[i].posted /\ moves[j].posted
      /\ moves[i].partner = moves[j].partner
      /\ moves[i].kind[1] = "asset_receivable"
      /\ moves[j].kind[2] = "asset_receivable" /\ UNCHANGED report
      /\ moves' = [moves EXCEPT ![i].paid = @ + sum, ![j].paid = @ + sum]
  BY DEF Reconcile, ReportsInv
<1>2. /\ moves[i].kind[2] # "asset_receivable" /\ moves[j].kind[1] # "asset_receivable"
      /\ i # j
  BY <1>1, MoveOf
<1>3. sum \in Nat /\ sum <= AmountResidual(i) /\ sum <= AmountResidual(j)
  BY <1>1, ReconciledSum
<1> HIDE DEF sum
<1>4. /\ nextI \subseteq Money /\ IsFiniteSet(nextI) /\ Cardinality(nextI) = sum
      /\ \A u \in Money : u \in nextI <=>
            u[1] = i /\ u[2] > moves[i].paid /\ u[2] <= moves[i].paid + sum
  BY <1>1, <1>3, NextUnits
<1>5. /\ nextJ \subseteq Money /\ IsFiniteSet(nextJ) /\ Cardinality(nextJ) = sum
      /\ \A u \in Money : u \in nextJ <=>
            u[1] = j /\ u[2] > moves[j].paid /\ u[2] <= moves[j].paid + sum
  BY <1>1, <1>3, NextUnits
<1> HIDE DEF nextI, nextJ
<1>6. /\ DOMAIN moves' = DOMAIN moves
      /\ \A k \in DOMAIN moves : k \notin {i, j} => moves'[k] = moves[k]
      /\ moves'[i] = [moves[i] EXCEPT !.paid = @ + sum]
      /\ moves'[j] = [moves[j] EXCEPT !.paid = @ + sum]
  BY <1>1, <1>2 DEF ReportsTypeOK
<1>7. ASSUME NEW k \in {i, j}
      PROVE  /\ moves'[k] \in Move /\ moves'[k].paid = moves[k].paid + sum
             /\ moves'[k].paid <= Amount[k]
             /\ moves'[k].posted = moves[k].posted
             /\ moves'[k].partner = moves[k].partner
             /\ moves'[k].kind = moves[k].kind
  <2>1. /\ moves'[k] = [moves[k] EXCEPT !.paid = @ + sum] /\ moves[k] \in Move
        /\ sum <= AmountResidual(k)
    BY <1>1, <1>3, <1>6, MoveOf
  <2>2. moves[k].paid + sum \in Nat /\ moves[k].paid + sum <= Amount[k]
    BY <1>1, <1>3, <2>1, MoveOf DEF AmountResidual
  <2> QED BY <2>1, <2>2 DEF Move
<1>8. ReportsTypeOK'
  <2>1. moves \in Seq(Move) /\ Len(moves) <= MaxMoves
    BY <1>1 DEF ReportsTypeOK
  <2>2. moves' = [moves EXCEPT ![i] = moves'[i], ![j] = moves'[j]]
    BY <1>1, <1>2, <1>6 DEF ReportsTypeOK
  <2>3. moves' \in Seq(Move) /\ Len(moves') = Len(moves)
    BY <2>1, <2>2, <1>7
  <2>4. \A k \in DOMAIN moves' : moves'[k].paid <= Amount[k]
    BY <1>1, <1>6, <1>7 DEF ReportsTypeOK
  <2> QED BY <1>1, <2>1, <2>3, <2>4 DEF ReportsTypeOK
<1>9. Money' = Money
  BY <1>6 DEF Money, Units
<1>10. \A u \in Money :
         /\ u[1] \in DOMAIN moves /\ u[2] \in Nat
         /\ NameOf(u)' = NameOf(u) /\ moves'[u[1]].kind = moves[u[1]].kind
         /\ moves'[u[1]].paid = IF u[1] \in {i, j} THEN moves[u[1]].paid + sum
                                ELSE moves[u[1]].paid
         /\ moves[u[1]].paid \in Nat
  <2>1. \A u \in Money : u[1] \in DOMAIN moves /\ u[2] \in Nat /\ moves[u[1]].paid \in Nat
    BY <1>1, UnitOf, MoveOf
  <2> QED BY <1>6, <1>7, <2>1 DEF NameOf
<1>11. ASSUME NEW name
       PROVE  (Cardinality(PaidDebits(name)) = Cardinality(PaidCredits(name)))'
  <2>1. Cardinality(PaidDebits(name)) = Cardinality(PaidCredits(name))
    BY <1>1 DEF ReconciledInPairs
  <2>2. CASE name # ShownAs[moves[i].partner]
    <3>1. /\ PaidDebits(name)' = PaidDebits(name)
          /\ PaidCredits(name)' = PaidCredits(name)
      BY <1>1, <1>9, <1>10, <2>2 DEF PaidDebits, PaidCredits, NameOf
    <3> QED BY <2>1, <3>1
  <2>3. CASE name = ShownAs[moves[i].partner]
    <3>1. \A u \in Money : /\ u[1] = i => NameOf(u) = name
                           /\ u[1] = j => NameOf(u) = name
      BY <1>1, <2>3 DEF NameOf
    <3>2. /\ PaidDebits(name)' = PaidDebits(name) \union nextI
          /\ PaidDebits(name) \intersect nextI = {}
      BY <1>1, <1>2, <1>3, <1>4, <1>9, <1>10, <3>1 DEF PaidDebits
    <3>3. /\ PaidCredits(name)' = PaidCredits(name) \union nextJ
          /\ PaidCredits(name) \intersect nextJ = {}
      BY <1>1, <1>2, <1>3, <1>5, <1>9, <1>10, <3>1 DEF PaidCredits
    <3>4. IsFiniteSet(PaidDebits(name)) /\ IsFiniteSet(PaidCredits(name))
      BY <1>1, MoneyFinite, FS_Subset DEF PaidDebits, PaidCredits
    <3>5. /\ Cardinality(PaidDebits(name) \union nextI)
               = Cardinality(PaidDebits(name)) + sum
          /\ Cardinality(PaidCredits(name) \union nextJ)
               = Cardinality(PaidCredits(name)) + sum
      BY <1>4, <1>5, <3>2, <3>3, <3>4, SizeOfUnion
    <3> QED BY <2>1, <3>2, <3>3, <3>5
  <2> QED BY <2>2, <2>3
<1>12. \A k \in DOMAIN moves' : moves'[k].paid > 0 => moves'[k].posted
  BY <1>1, <1>6, <1>7 DEF ReconciledInPairs
<1> QED BY <1>8, <1>11, <1>12 DEF ReportsInv, ReconciledInPairs

LEMMA ReportsInvStep == ReportsInv /\ [ReportsNext]_reportsVars => ReportsInv'
<1> SUFFICES ASSUME ReportsInv, [ReportsNext]_reportsVars PROVE ReportsInv'
  OBVIOUS
<1>1. ReportsTypeOK /\ ReconciledInPairs
  BY DEF ReportsInv
<1>2. CASE EnterMove
  <2> PICK day \in Days, kind \in MoveKinds, partner \in Parties :
         /\ Len(moves) < MaxMoves
         /\ moves' = Append(moves, [day |-> day, kind |-> kind, posted |-> FALSE,
                                  partner |-> partner, paid |-> 0])
    BY <1>2 DEF EnterMove
  <2> DEFINE m == [day |-> day, kind |-> kind, posted |-> FALSE,
                   partner |-> partner, paid |-> 0]
  <2>1. m \in Move /\ m.paid = 0
    BY DEF Move
  <2> HIDE DEF m
  <2>2. /\ moves \in Seq(Move) /\ Len(moves) \in Nat /\ Len(moves) < MaxMoves
        /\ moves' = Append(moves, m) /\ report' = report /\ report \in Report
    BY <1>1, <1>2 DEF EnterMove, ReportsTypeOK, m
  <2>3. /\ moves' \in Seq(Move) /\ Len(moves') = Len(moves) + 1
        /\ DOMAIN moves' = DOMAIN moves \union {Len(moves) + 1}
        /\ \A k \in DOMAIN moves : moves'[k] = moves[k]
        /\ moves'[Len(moves) + 1] = m
    BY <2>1, <2>2
  <2>4. ReportsTypeOK'
    <3>1. Amount[Len(moves) + 1] \in Nat \ {0} /\ Len(moves') <= MaxMoves
      BY <2>2, <2>3, ReportsAssumption
    <3>2. \A k \in DOMAIN moves' : moves'[k].paid <= Amount[k]
      BY <1>1, <2>1, <2>3, <3>1 DEF ReportsTypeOK
    <3> QED BY <2>2, <2>3, <3>1, <3>2 DEF ReportsTypeOK
  <2>5. ReconciledInPairs'
    <3>1. \A k \in DOMAIN moves : moves[k].paid > 0 => moves'[k].posted
      BY <1>1, <2>3 DEF ReconciledInPairs
    <3>2. \A k \in DOMAIN moves' \ DOMAIN moves : moves'[k].paid = 0
      BY <2>1, <2>3
    <3> QED BY <1>1, <2>3, <2>4, <3>1, <3>2, PairsKept
  <2> QED BY <2>4, <2>5 DEF ReportsInv
<1>3. ASSUME NEW i \in DOMAIN moves, PostMove(i) \/ ResetToDraft(i)
      PROVE  ReportsInv'
  <2>1. PICK posted \in BOOLEAN :
          /\ moves' = [moves EXCEPT ![i].posted = posted] /\ UNCHANGED report
          /\ moves[i].paid > 0 => posted
    <3>1. CASE PostMove(i)
      BY <3>1 DEF PostMove
    <3>2. CASE ResetToDraft(i)
      <4>1. ~(moves[i].paid > 0)
        BY <3>2 DEF ResetToDraft
      <4> QED BY <3>2, <4>1 DEF ResetToDraft
    <3> QED BY <1>3, <3>1, <3>2
  <2> DEFINE m == [moves[i] EXCEPT !.posted = posted]
  <2>2. moves[i] \in Move /\ moves[i].paid <= Amount[i]
    BY <1>1, MoveOf DEF ReportsTypeOK
  <2>3. /\ m \in Move /\ m.posted = posted /\ m.partner = moves[i].partner
        /\ m.kind = moves[i].kind /\ m.paid = moves[i].paid
    BY <2>2 DEF Move
  <2>4. moves' = [moves EXCEPT ![i] = m]
    BY <2>1
  <2> HIDE DEF m
  <2>5. /\ ReportsTypeOK' /\ DOMAIN moves' = DOMAIN moves /\ moves'[i] = m
        /\ \A j \in DOMAIN moves : j # i => moves'[j] = moves[j]
    BY <1>1, <2>1, <2>2, <2>3, <2>4, MoveWritten
  <2>6. \A k \in DOMAIN moves :
          /\ moves'[k].partner = moves[k].partner /\ moves'[k].kind = moves[k].kind
          /\ moves'[k].paid = moves[k].paid
          /\ moves[k].paid > 0 => moves'[k].posted
    BY <1>1, <2>1, <2>3, <2>5 DEF ReconciledInPairs
  <2>7. ReconciledInPairs'
    BY <1>1, <2>5, <2>6, PairsKept
  <2> QED BY <2>5, <2>7 DEF ReportsInv
<1>4. ASSUME NEW i \in DOMAIN moves, NEW j \in DOMAIN moves, Reconcile(i, j)
      PROVE  ReportsInv'
  BY <1>4, ReconcileInv
<1>5. ASSUME UNCHANGED moves, report' \in Report PROVE ReportsInv'
  <2>1. ReportsTypeOK'
    BY <1>1, <1>5 DEF ReportsTypeOK
  <2>2. ReconciledInPairs'
    BY <1>1, <1>5, <2>1, PairsKept DEF ReconciledInPairs
  <2> QED BY <2>1, <2>2 DEF ReportsInv
<1>6. CASE GenerateReport \/ ResetReport
  <2>1. report' \in Report
    <3>1. CASE GenerateReport
      BY <3>1 DEF GenerateReport, Report
    <3>2. CASE ResetReport
      BY <3>2 DEF ResetReport, Report
    <3> QED BY <1>6, <3>1, <3>2
  <2> QED BY <1>5, <1>6, <2>1 DEF GenerateReport, ResetReport
<1>7. CASE UNCHANGED reportsVars
  BY <1>1, <1>5, <1>7 DEF reportsVars, ReportsTypeOK
<1> QED BY <1>2, <1>3, <1>4, <1>6, <1>7 DEF ReportsNext

(* What is owed under a name is open: what is reconciled cancels out. *)
LEMMA OwedIsOpen ==
    ASSUME ReportsInv, NEW name
    PROVE  Residual(OfName(name, ReportLines(Today)))
             = Residual(OfName(name, Posted(1, Today)))
<1> DEFINE L == OfName(name, ReportLines(Today))
           A == OfName(name, Posted(1, Today))
           M == A \ L
           R == {"asset_receivable"}
<1>1. ReportsTypeOK /\ ReconciledInPairs
  BY DEF ReportsInv
<1>2. Posted(1, Today) = {u \in Money : moves[u[1]].posted}
  <2>1. \A u \in Money : moves[u[1]].day \in 1..Today
    BY <1>1, UnitOf, MoveOf DEF Days
  <2> QED BY <1>1, <2>1, PostedIs
<1>3. /\ L \in SUBSET Money /\ M \in SUBSET Money
      /\ L \intersect M = {} /\ A = L \union M
  BY <1>2 DEF OfName, ReportLines
<1>4. \A u \in Money : /\ u[2] \in Nat \ {0} /\ moves[u[1]].paid \in Nat
                       /\ u[1] \in DOMAIN moves
  BY <1>1, UnitOf, MoveOf
<1>5. \A u \in Money : u[2] <= moves[u[1]].paid => moves[u[1]].posted
  BY <1>1, <1>4 DEF ReconciledInPairs
<1>6. \A u : u \in M <=> /\ u \in Money /\ moves[u[1]].posted /\ NameOf(u) = name
                         /\ ~(IsReceivable(u[1]) /\ IsOpen(u))
  BY <1>2 DEF OfName, ReportLines, NameOf
<1> HIDE DEF M, L, A
<1>7. \A u \in Money : /\ moves[u[1]].kind[1] \in R => IsReceivable(u[1])
                       /\ moves[u[1]].kind[2] \in R => IsReceivable(u[1])
                       /\ ~IsOpen(u) <=> u[2] <= moves[u[1]].paid
  BY <1>4 DEF IsReceivable, IsOpen
<1>8. /\ {u \in M : moves[u[1]].kind[1] \in R} = PaidDebits(name)
      /\ {u \in M : moves[u[1]].kind[2] \in R} = PaidCredits(name)
  BY <1>5, <1>6, <1>7 DEF PaidDebits, PaidCredits
<1>9. Debit(M, R) = Credit(M, R)
  BY <1>1, <1>8 DEF ReconciledInPairs, Debit, Credit
<1>10. Residual(M) = 0
  <2>1. Debit(M, R) \in Nat
    BY <1>1, <1>3, LinesFinite
  <2> QED BY <1>9, <2>1 DEF Residual, Balance
<1>11. Residual(L \union M) = Residual(L) + Residual(M) /\ Residual(L) \in Int
  BY <1>1, <1>3, ResidualsAddUp, BalanceIsInt DEF Residual
<1>12. Residual(A) = Residual(L)
  BY <1>3, <1>10, <1>11
<1> QED BY <1>12 DEF L, A

LEMMA AgingsMatch == ReportsInv => AgingAgrees
<1> SUFFICES ASSUME ReportsInv PROVE AgingAgrees
  OBVIOUS
<1>1. ReportsTypeOK
  BY DEF ReportsInv
<1>2. ASSUME NEW to
      PROVE  /\ Aging(to).bucket
                  = [b \in 1..4 |-> Residual(InBucket(b, ReportLines(to), to))]
             /\ DOMAIN Aging(to).partner = NamesIn(ReportLines(to))
             /\ \A name \in NamesIn(ReportLines(to)) :
                   /\ Aging(to).partner[name].bucket
                        = [b \in 1..4 |->
                             Residual(InBucket(b, OfName(name, ReportLines(to)), to))]
                   /\ Aging(to).partner[name].total
                        = Residual(OfName(name, ReportLines(to)))
  BY DEF Aging
<1>3. ASSUME NEW day \in Days
      PROVE  /\ Aging(day).bucket = AgingTotals(day)
             /\ DOMAIN Aging(day).partner = DOMAIN AgingRows(day)
             /\ \A name \in DOMAIN AgingRows(day) :
                   Aging(day).partner[name].bucket = AgingRows(day)[name]
  <2>1. AgingTotals(day) = [b \in 1..4 |-> Residual(InBucket(b, ReportLines(day), day))]
    <3>1. AgingTotals(day) = [b \in 1..4 |-> AgingTotals(day)[b]]
      BY DEF AgingTotals
    <3> QED BY <1>1, <3>1, RowsAddUp
  <2>2. DOMAIN AgingRows(day) = NamesIn(ReportLines(day))
    BY <1>1, OneAging DEF AgingRows
  <2>3. ASSUME NEW name \in NamesIn(ReportLines(day))
        PROVE  AgingRows(day)[name]
                 = [b \in 1..4 |->
                      Residual(InBucket(b, OfName(name, ReportLines(day)), day))]
    <3>1. AgingRows(day)[name] = [b \in 1..4 |-> AgingRows(day)[name][b]]
      BY <1>1, OneAging DEF AgingRows
    <3> QED BY <1>1, <3>1, RowOfName
  <2> QED BY <1>2, <2>1, <2>2, <2>3
<1>4. AgingBuckets = Aging(Today).bucket
  <2>1. AgingBuckets
          = [b \in 1..4 |-> Residual(InBucket(b, ReportLines(Today), Today))]
    BY <1>1, OneAging DEF AgingBuckets
  <2> QED BY <1>2, <2>1
<1>5. NamesIn(ReportLines(Today)) \subseteq NamesIn(Posted(1, Today))
  BY DEF NamesIn, ReportLines
<1>6. ASSUME NEW name
      PROVE  Residual(OfName(name, Posted(1, Today)))
               = IF name \in DOMAIN Aging(Today).partner
                   THEN Aging(Today).partner[name].total ELSE 0
  <2>1. CASE name \in NamesIn(ReportLines(Today))
    BY <1>2, <2>1, OwedIsOpen
  <2>2. CASE name \notin NamesIn(ReportLines(Today))
    <3>1. OfName(name, ReportLines(Today)) = {}
      BY <2>2 DEF OfName, NamesIn
    <3>2. Residual(OfName(name, Posted(1, Today))) = 0
      BY <3>1, OwedIsOpen, ResidualOfNone
    <3> QED BY <1>2, <2>2, <3>2
  <2> QED BY <2>1, <2>2
<1> QED BY <1>2, <1>3, <1>4, <1>5, <1>6 DEF AgingAgrees

(* The moves are of their types, and reconciled in pairs. *)
THEOREM ReportsSafe == ReportsSpec => []ReportsInv
BY ReportsInvInit, ReportsInvStep, PTL DEF ReportsSpec

(* Balance sheet, result, trial balance and general ledger of the renderer  *)
(* (nexus_finance_report_renderer.py) agree, for any moves and any period.  *)
THEOREM ReportsConsistent == ReportsSpec => []ReportsAgree
<1>1. ReportsInv => ReportsAgree
  BY SheetGap, TrialBalancesDiffer DEF ReportsInv, ReportsAgree
<1> QED BY <1>1, ReportsSafe, PTL

(* The aging of the report, of the workbook and of the dashboard agree, by  *)
(* the limits each of them has, and today's is what is owed under each      *)
(* name, whoever share it and however much of a move is reconciled.         *)
THEOREM AgingsAreOne == ReportsSpec => []AgingAgrees
BY AgingsMatch, ReportsSafe, PTL

(* The arrows of the dashboard (_delta_pct) never point against the way the *)
(* result of the reports went, whatever is rounded, and vanish only for a   *)
(* change of no more than half a step.                                      *)
THEOREM ArrowsPointRight == ReportsSpec => []DeltaPointsRight
<1>1. ReportsInv => DeltaPointsRight
  BY DeltaPoints DEF ReportsInv
<1> QED BY <1>1, ReportsSafe, PTL

-----------------------------------------------------------------------------
(* Module Migrator *)

NoTwins(list) ==
    \A i, j \in DOMAIN list :
        i # j /\ list[i].kind = list[j].kind /\ list[i].code # Blank
        => list[i].code # list[j].code

(* What an import may make of the items. *)
SoundList(list) == list \in Seq(Item) /\ NoTwins(list)

MigratorInv ==
    /\ SoundList(items) /\ Len(items) <= MaxItems
    /\ migrator \in [state : {"upload", "preview", "imported"}, target : Targets]

LEMMA FileColumns ==
    ASSUME NEW file \in Files
    PROVE  /\ Len(file) \in Nat
           /\ \A n \in 1..Len(file) : file[n] \in Columns
<1> PICK n \in 1..MaxRows : file \in [1..n -> Columns]
  BY DEF Files
<1>1. n \in Nat
  BY MigratorAssumption
<1>2. file \in Seq(Columns)
  BY <1>1
<1> QED BY <1>2

(* A row that says enough is an item. *)
LEMMA RowIsItem ==
    ASSUME NEW kind \in Imported, NEW r \in Columns
    PROVE  LET said == RowOf(kind, r) IN
           /\ said.kind = kind
           /\ ~Skipped(said) => said \in Item
<1>1. /\ r.code \in ItemCodes \union {Blank} /\ r.barcode \in BarCodes \union {Blank}
      /\ r.name \in ItemNames \union {Blank}
  BY DEF Columns
<1>2. CASE kind = "products"
  <2>1. RowOf(kind, r) = ProductRow(r)
    BY <1>2 DEF RowOf
  <2> QED BY <1>1, <1>2, <2>1 DEF ProductRow, Skipped, Item, Imported
<1>3. CASE kind = "partners"
  <2>1. RowOf(kind, r) = PartnerRow(r)
    BY <1>3 DEF RowOf
  <2> QED BY <1>1, <1>3, <2>1 DEF PartnerRow, Skipped, Item, Imported
<1>4. CASE kind = "accounts"
  <2>1. RowOf(kind, r) = AccountRow(r)
    BY <1>4 DEF RowOf
  <2> QED BY <1>1, <1>4, <2>1 DEF AccountRow, Skipped, Item, Imported
<1> QED BY <1>2, <1>3, <1>4 DEF Imported

(* Codes are looked for first, and only among items of the kind. *)
LEMMA FoundByCode ==
    ASSUME NEW list, NEW said, said.kind \in Imported
    PROVE  LET found == FirstFound(list, said, Keys(said.kind))
               coded == With(list, said.kind, "code", said.code)
           IN  /\ coded # {} => found = coded
               /\ \A i \in found : i \in DOMAIN list /\ list[i].kind = said.kind
<1> DEFINE keys == Keys(said.kind)
           finds(key) == With(list, said.kind, key, said[key]) # {}
           first == CHOOSE n \in DOMAIN keys :
                       finds(keys[n]) /\ \A m \in 1..n - 1 : ~finds(keys[m])
<1>1. FirstFound(list, said, keys) =
        IF \E n \in DOMAIN keys : finds(keys[n])
          THEN With(list, said.kind, keys[first], said[keys[first]]) ELSE {}
  BY DEF FirstFound
<1>2. DOMAIN keys \in {1..1, 1..2, 1..3} /\ keys[1] = "code"
  BY DEF Keys, Imported
<1> HIDE DEF keys
<1>3. \A key : \A i \in With(list, said.kind, key, said[key]) :
        i \in DOMAIN list /\ list[i].kind = said.kind
  BY DEF With
<1>4. ASSUME finds("code") PROVE first = 1 /\ \E n \in DOMAIN keys : finds(keys[n])
  <2> HIDE DEF finds
  <2>1. 1 \in DOMAIN keys /\ finds(keys[1]) /\ \A m \in 1..1 - 1 : ~finds(keys[m])
    BY <1>2, <1>4
  <2>2. \A n \in DOMAIN keys :
          finds(keys[n]) /\ (\A m \in 1..n - 1 : ~finds(keys[m])) => n = 1
    BY <1>2, <1>4
  <2> QED BY <2>1, <2>2
<1> HIDE DEF first
<1>5. FirstFound(list, said, keys) # {} =>
        FirstFound(list, said, keys)
          = With(list, said.kind, keys[first], said[keys[first]])
  BY <1>1
<1> QED BY <1>1, <1>2, <1>3, <1>4, <1>5 DEF keys

(* A row keeps codes apart, whether it is written over an item or added. *)
LEMMA TakeRowSound ==
    ASSUME NEW list, SoundList(list), NEW said, said.kind \in Imported,
           ~Skipped(said) => said \in Item, NEW l \in TakeRow(list, said)
    PROVE  SoundList(l)
<1> DEFINE found == FirstFound(list, said, Keys(said.kind))
<1>1. list \in Seq(Item) /\ NoTwins(list)
  BY DEF SoundList
<1>2. CASE Skipped(said)
  BY <1>2 DEF TakeRow
<1>3. ASSUME ~Skipped(said), found = {} PROVE SoundList(l)
  <2>1. l = Append(list, said) /\ said \in Item
    BY <1>3 DEF TakeRow
  <2>2. \A i \in DOMAIN list :
          list[i].kind = said.kind /\ said.code # Blank => list[i].code # said.code
    BY <1>3, FoundByCode DEF With
  <2>3. /\ l \in Seq(Item) /\ Len(list) \in Nat
        /\ DOMAIN l = DOMAIN list \union {Len(list) + 1}
        /\ l[Len(list) + 1] = said /\ \A i \in DOMAIN list : l[i] = list[i]
    BY <1>1, <2>1
  <2>4. NoTwins(l)
    BY <1>1, <2>2, <2>3 DEF NoTwins
  <2> QED BY <2>3, <2>4 DEF SoundList
<1>4. ASSUME ~Skipped(said), found # {} PROVE SoundList(l)
  <2>1. PICK i \in found : l = [list EXCEPT ![i] = Overwrite(list[i], said)]
    BY <1>4 DEF TakeRow
  <2>2. i \in DOMAIN list /\ list[i].kind = said.kind
    BY FoundByCode
  <2>3. list[i] \in Item /\ said \in Item
    BY <1>1, <1>4, <2>2
  <2> DEFINE item == Overwrite(list[i], said)
  <2>4. /\ item \in Item /\ item.kind = list[i].kind
        /\ item.code = IF said.code = Blank THEN list[i].code ELSE said.code
    BY <2>3 DEF Overwrite, Item
  <2> HIDE DEF item
  <2>5. /\ l \in Seq(Item) /\ DOMAIN l = DOMAIN list /\ l[i] = item
        /\ \A j \in DOMAIN list : j # i => l[j] = list[j]
    BY <1>1, <2>1, <2>2, <2>4 DEF item
  <2>6. CASE item.code = list[i].code
    BY <1>1, <2>2, <2>4, <2>5, <2>6 DEF NoTwins, SoundList
  <2>7. CASE item.code # list[i].code
    <3>1. said.code # Blank /\ item.code = said.code
      BY <2>4, <2>7
    <3>2. With(list, said.kind, "code", said.code) = {}
      <4>1. i \notin With(list, said.kind, "code", said.code)
        BY <2>7, <3>1 DEF With
      <4> QED BY <4>1, FoundByCode
    <3>3. \A j \in DOMAIN list : list[j].kind = said.kind => list[j].code # said.code
      BY <3>1, <3>2 DEF With
    <3>4. NoTwins(l)
      BY <1>1, <2>2, <2>4, <2>5, <3>1, <3>3 DEF NoTwins
    <3> QED BY <2>5, <3>4 DEF SoundList
  <2> QED BY <2>6, <2>7
<1> QED BY <1>2, <1>3, <1>4

(* A file keeps codes apart: row by row, by induction on its length.        *)
LEMMA TakeFileSound ==
    ASSUME NEW list, SoundList(list), NEW kind \in Imported, NEW file \in Files,
           NEW l \in TakeFile(list, kind, file)
    PROVE  SoundList(l)
<1> DEFINE N == Len(file)
           Rows(S, n) ==
              UNION {{m \in TakeRow(before, RowOf(kind, file[n])) : ~Refused(m)} :
                       before \in S}
           Takes(f, k) == [n \in 0..k |-> IF n = 0 THEN {list}
                                          ELSE Rows(f[n - 1], n)]
           after == CHOOSE f : f = Takes(f, N)
<1>1. TakeFile(list, kind, file) = after[N]
  BY DEF TakeFile
<1>2. N \in Nat /\ \A n \in 1..N : file[n] \in Columns
  BY FileColumns
<1>3. ASSUME NEW n \in 1..N, NEW S, \A m \in S : SoundList(m), NEW m \in Rows(S, n)
      PROVE  SoundList(m)
  <2>1. PICK before \in S : m \in TakeRow(before, RowOf(kind, file[n]))
    OBVIOUS
  <2>2. /\ RowOf(kind, file[n]).kind \in Imported
        /\ ~Skipped(RowOf(kind, file[n])) => RowOf(kind, file[n]) \in Item
    BY <1>2, RowIsItem
  <2> QED BY <1>3, <2>1, <2>2, TakeRowSound
<1> HIDE DEF N, Rows
<1>4. \E f : f = Takes(f, N)
  <2> DEFINE lacking == {k \in 0..N : ~\E f : f = Takes(f, k)}
  <2> SUFFICES ASSUME ~\E f : f = Takes(f, N) PROVE FALSE
    OBVIOUS
  <2> HIDE DEF Takes
  <2>1. N \in lacking /\ lacking \in SUBSET Nat
    BY <1>2
  <2>2. \A m : m \in lacking <=> m \in 0..N /\ ~\E f : f = Takes(f, m)
    OBVIOUS
  <2> HIDE DEF lacking
  <2>3. PICK k \in lacking : \A m \in lacking : k <= m
    BY <2>1, LeastNumber
  <2>4. k \in 0..N /\ ~\E f : f = Takes(f, k)
    BY <2>3, <2>2
  <2> USE DEF Takes
  <2>5. CASE k = 0
    <3> DEFINE g == [n \in 0..0 |-> {list}]
    <3>1. g = Takes(g, 0)
      OBVIOUS
    <3> QED BY <2>4, <2>5, <3>1
  <2>6. CASE k # 0
    <3>1. k - 1 \in 0..N /\ k - 1 < k
      BY <1>2, <2>4, <2>6
    <3>2. PICK f : f = Takes(f, k - 1)
      <4> HIDE DEF Takes
      <4>1. k - 1 \notin lacking
        BY <1>2, <2>3, <2>4, <3>1
      <4> QED BY <2>2, <3>1, <4>1
    <3> DEFINE g == [n \in 0..k |-> IF n = k THEN Rows(f[k - 1], k) ELSE f[n]]
    <3>3. \A n \in 0..k - 1 : g[n] = f[n]
      BY <1>2, <2>4
    <3>4. \A n \in 0..k : g[n] = IF n = 0 THEN {list} ELSE Rows(g[n - 1], n)
      <4> TAKE n \in 0..k
      <4>1. CASE n = k
        BY <1>2, <2>4, <2>6, <3>3, <4>1
      <4>2. CASE n # k
        <5>1. n \in 0..k - 1
          BY <1>2, <2>4, <4>2
        <5>2. f[n] = IF n = 0 THEN {list} ELSE Rows(f[n - 1], n)
          BY <3>2, <5>1
        <5>3. n # 0 => n - 1 \in 0..k - 1
          BY <1>2, <2>4, <5>1
        <5> QED BY <3>3, <5>1, <5>2, <5>3
      <4> QED BY <4>1, <4>2
    <3>5. DOMAIN g = 0..k /\ g = [n \in 0..k |-> g[n]]
      OBVIOUS
    <3> HIDE DEF g
    <3>6. g = Takes(g, k)
      BY <3>4, <3>5
    <3> QED BY <2>4, <3>6
  <2> QED BY <2>5, <2>6
<1>5. after = Takes(after, N)
  BY <1>4
<1> HIDE DEF after
<1>6. \A n \in 0..N : \A m \in after[n] : SoundList(m)
  <2> DEFINE wrong == {n \in 0..N : \E m \in after[n] : ~SoundList(m)}
  <2> SUFFICES ASSUME wrong # {} PROVE FALSE
    OBVIOUS
  <2>1. wrong \in SUBSET Nat
    BY <1>2
  <2>2. PICK n \in wrong : \A k \in wrong : n <= k
    BY <2>1, LeastNumber
  <2>3. n \in 0..N /\ after[n] = IF n = 0 THEN {list} ELSE Rows(after[n - 1], n)
    BY <1>5, <2>2
  <2>4. n # 0
    BY <2>2, <2>3
  <2>5. n - 1 \in 0..N /\ n \in 1..N /\ n - 1 < n
    BY <1>2, <2>3, <2>4
  <2>6. \A m \in after[n - 1] : SoundList(m)
    BY <2>2, <2>5
  <2>7. \A m \in after[n] : SoundList(m)
    BY <1>3, <2>3, <2>4, <2>5, <2>6
  <2> QED BY <2>2, <2>7
<1> QED BY <1>1, <1>2, <1>6

LEMMA MigratorInvStep ==
    MigratorInv /\ [MigratorNext]_migratorVars => MigratorInv'
<1> SUFFICES ASSUME MigratorInv, [MigratorNext]_migratorVars PROVE MigratorInv'
  OBVIOUS
<1> USE DEF MigratorInv
<1>1. CASE AnalyzeAndPreview
  BY <1>1 DEF AnalyzeAndPreview
<1>2. CASE UploadAgain
  BY <1>2 DEF UploadAgain
<1>3. CASE ExecuteImport
  <2>1. PICK file \in Files :
          /\ items' \in TakeFile(items, migrator.target, file)
          /\ Len(items') <= MaxItems
    BY <1>3 DEF ExecuteImport
  <2>2. /\ migrator.target \in Imported
        /\ migrator' = [migrator EXCEPT !.state = "imported"]
    BY <1>3 DEF ExecuteImport
  <2>3. SoundList(items')
    BY <2>1, <2>2, TakeFileSound
  <2>4. SoundList(items)'
    BY <2>3 DEF SoundList, NoTwins
  <2> QED BY <2>1, <2>2, <2>4
<1>4. CASE UNCHANGED migratorVars
  BY <1>4 DEF migratorVars, SoundList, NoTwins
<1> QED BY <1>1, <1>2, <1>3, <1>4 DEF MigratorNext

LEMMA MigratorInvInit == MigratorInit => MigratorInv
<1> SUFFICES ASSUME MigratorInit PROVE MigratorInv
  OBVIOUS
<1>1. SoundList(items) /\ Len(items) = 0
  BY DEF MigratorInit, SoundList, NoTwins
<1>2. migrator \in [state : {"upload", "preview", "imported"}, target : Targets]
  BY DEF MigratorInit, Targets, Imported
<1> QED BY <1>1, <1>2, MigratorAssumption DEF MigratorInv

(* What is imported are items, whose codes are kept apart. *)
THEOREM MigratorSafe == MigratorSpec => []MigratorInv
BY MigratorInvInit, MigratorInvStep, PTL DEF MigratorSpec

(* However files overlap, name things alike and come again, the migrator    *)
(* (nexus_universal_migrator.py) makes no second item of a kind with the same code.   *)
THEOREM ImportsKeepCodesApart == MigratorSpec => []NoTwinsImported
<1>1. MigratorInv => NoTwinsImported
  BY DEF MigratorInv, SoundList, NoTwins, NoTwinsImported
<1> QED BY <1>1, MigratorSafe, PTL

-----------------------------------------------------------------------------
(* Module Billing *)

LEMMA BillingTypesInit == BillingInit => BillingTypeOK
<1> SUFFICES ASSUME BillingInit PROVE BillingTypeOK
  OBVIOUS
<1>1. /\ stripe = "none" /\ events = {} /\ billed = 0
      /\ sub = [state |-> "trialing", linked |-> FALSE, late |-> FALSE,
                period |-> "unset"]
      /\ tenant \in {"active", "draft"} /\ named \in BOOLEAN
  BY DEF BillingInit
<1>2. sub \in Subscription
  BY <1>1 DEF Subscription, SubStates
<1> QED
  BY <1>1, <1>2, BillingAssumption
     DEF BillingTypeOK, StripeStatus, TenantStates

(* Writing the state of the tenant. *)
LEMMA SetTenantTypes ==
    ASSUME BillingTypeOK, NEW state \in TenantStates, SetTenant(state)
    PROVE  tenant' \in TenantStates /\ named' \in BOOLEAN
BY DEF BillingTypeOK, SetTenant, Dns

(* Writing the subscription. *)
LEMMA SubWritten ==
    ASSUME BillingTypeOK
    PROVE  /\ \A state \in SubStates : [sub EXCEPT !.state = state] \in Subscription
           /\ \A state \in SubStates, period \in {"unset", "ahead", "passed"} :
                 [sub EXCEPT !.state = state, !.period = period] \in Subscription
           /\ \A state \in SubStates :
                 [sub EXCEPT !.linked = TRUE, !.state = state] \in Subscription
           /\ \A late \in BOOLEAN : [sub EXCEPT !.late = late] \in Subscription
           /\ \A period \in {"unset", "ahead", "passed"} :
                 [sub EXCEPT !.period = period] \in Subscription
           /\ sub.state \in SubStates /\ sub.period \in {"unset", "ahead", "passed"}
<1>1. sub \in Subscription
  BY DEF BillingTypeOK
<1>2. sub.state \in SubStates /\ sub.period \in {"unset", "ahead", "passed"}
  BY <1>1 DEF Subscription
<1>3. \A state \in SubStates : [sub EXCEPT !.state = state] \in Subscription
  BY <1>1 DEF Subscription
<1>4. \A state \in SubStates, period \in {"unset", "ahead", "passed"} :
        [sub EXCEPT !.state = state, !.period = period] \in Subscription
  BY <1>1 DEF Subscription
<1>5. \A state \in SubStates :
        [sub EXCEPT !.linked = TRUE, !.state = state] \in Subscription
  BY <1>1 DEF Subscription
<1>6. \A late \in BOOLEAN : [sub EXCEPT !.late = late] \in Subscription
  BY <1>1 DEF Subscription
<1>7. \A period \in {"unset", "ahead", "passed"} :
        [sub EXCEPT !.period = period] \in Subscription
  BY <1>1 DEF Subscription
<1> QED BY <1>2, <1>3, <1>4, <1>5, <1>6, <1>7

LEMMA BillingTypesStep ==
    BillingTypeOK /\ [BillingNext]_billingVars => BillingTypeOK'
<1> SUFFICES ASSUME BillingTypeOK, [BillingNext]_billingVars PROVE BillingTypeOK'
  OBVIOUS
<1>1. /\ stripe \in StripeStatus /\ events \subseteq EventTypes
      /\ sub \in Subscription /\ tenant \in TenantStates
      /\ billed \in 0 .. MaxBilled /\ named \in BOOLEAN
  BY DEF BillingTypeOK
<1>2. ASSUME stripe' \in StripeStatus, events' \subseteq EventTypes,
             sub' \in Subscription, tenant' \in TenantStates,
             billed' \in 0 .. MaxBilled, named' \in BOOLEAN
      PROVE  BillingTypeOK'
  BY <1>2 DEF BillingTypeOK
<1>3. {"active", "cancelled", "suspended"} \subseteq TenantStates
  BY DEF TenantStates
<1>4. {"active", "past_due", "cancelled"} \subseteq SubStates
  BY DEF SubStates
<1>5. CASE PayAtStripe \/ MissPayment \/ CancelAtStripe
  BY <1>1, <1>2, <1>5
     DEF PayAtStripe, MissPayment, CancelAtStripe, StripeStatus, EventTypes
<1>6. ASSUME NEW e \in EventTypes, GiveUpEvent(e) PROVE BillingTypeOK'
  BY <1>1, <1>2, <1>6 DEF GiveUpEvent
<1>7. CASE DeliverCheckout \/ DeliverFailed
  <2>1. CASE DeliverCheckout
    BY <1>1, <1>2, <1>4, <2>1, SubWritten DEF DeliverCheckout, Acknowledge
  <2>2. CASE DeliverFailed
    BY <1>1, <1>2, <1>4, <2>2, SubWritten DEF DeliverFailed, Acknowledge
  <2> QED BY <1>7, <2>1, <2>2
<1>8. CASE DeliverDeleted
  <2>1. CASE sub.linked
    BY <1>1, <1>2, <1>3, <1>4, <1>8, <2>1, SubWritten, SetTenantTypes
       DEF DeliverDeleted, CancelledSub, Acknowledge
  <2>2. CASE ~sub.linked
    BY <1>1, <1>2, <1>8, <2>2 DEF DeliverDeleted, Acknowledge
  <2> QED BY <2>1, <2>2
<1>9. ASSUME NEW e \in {"paid", "succeeded"}, DeliverPaid(e) \/ PaidWithoutPeriod(e)
      PROVE  BillingTypeOK'
  <2>1. CASE DeliverPaid(e)
    <3>1. billed + 1 \in 0..MaxBilled
      BY <1>1, <2>1, BillingAssumption DEF DeliverPaid
    <3>2. events' \subseteq EventTypes /\ stripe' = stripe
      BY <1>1, <2>1 DEF DeliverPaid, Acknowledge
    <3>3. CASE sub.linked
      BY <1>1, <1>2, <1>3, <1>4, <2>1, <3>1, <3>2, <3>3, SubWritten, SetTenantTypes
         DEF DeliverPaid
    <3>4. CASE ~sub.linked
      BY <1>1, <1>2, <2>1, <3>2, <3>4 DEF DeliverPaid
    <3> QED BY <3>3, <3>4
  <2>2. CASE PaidWithoutPeriod(e)
    BY <1>1, <1>2, <2>2 DEF PaidWithoutPeriod, Dns
  <2> QED BY <1>9, <2>1, <2>2
<1>10. CASE SyncFromStripe
  <2>1. StateMap \in SubStates
    BY <1>4, SubWritten DEF StateMap
  <2>2. sub' \in Subscription
    BY <1>10, <2>1, SubWritten DEF SyncFromStripe
  <2>3. tenant' \in TenantStates /\ named' \in BOOLEAN
    BY <1>1, <1>3, <1>10, SetTenantTypes DEF SyncFromStripe
  <2> QED BY <1>1, <1>2, <1>10, <2>2, <2>3 DEF SyncFromStripe
<1>11. CASE CheckSubscriptions
  BY <1>1, <1>2, <1>3, <1>11, SetTenantTypes DEF CheckSubscriptions
<1>12. CASE TrialExpiry
  <2>1. sub' \in Subscription
    BY <1>4, <1>12, SubWritten DEF TrialExpiry
  <2>2. tenant' \in TenantStates /\ named' \in BOOLEAN
    BY <1>1, <1>3, <1>12, SetTenantTypes DEF TrialExpiry
  <2> QED BY <1>1, <1>2, <1>12, <2>1, <2>2 DEF TrialExpiry
<1>13. CASE DayPasses \/ EditDates
  <2>1. sub' \in Subscription
    <3>1. CASE DayPasses
      BY <3>1, SubWritten DEF DayPasses
    <3>2. CASE EditDates
      BY <3>2, SubWritten DEF EditDates
    <3> QED BY <1>13, <3>1, <3>2
  <2> QED BY <1>1, <1>2, <1>13, <2>1 DEF DayPasses, EditDates
<1>14. CASE ActivateDraft \/ SuspendTenant \/ CancelTenant
  <2>1. tenant' \in TenantStates /\ named' \in BOOLEAN
    BY <1>3, <1>14, SetTenantTypes DEF ActivateDraft, SuspendTenant, CancelTenant
  <2> QED
    BY <1>1, <1>2, <1>14, <2>1 DEF ActivateDraft, SuspendTenant, CancelTenant
<1>15. CASE CancelSubscription
  BY <1>1, <1>2, <1>3, <1>4, <1>15, SubWritten, SetTenantTypes
     DEF CancelSubscription, CancelledSub
<1>16. CASE UNCHANGED billingVars
  BY <1>1, <1>2, <1>16 DEF billingVars
<1> QED
  BY <1>5, <1>6, <1>7, <1>8, <1>9, <1>10, <1>11, <1>12, <1>13, <1>14, <1>15,
     <1>16
     DEF BillingNext

THEOREM BillingTypes == BillingSpec => []BillingTypeOK
BY BillingTypesInit, BillingTypesStep, PTL DEF BillingSpec

-----------------------------------------------------------------------------
(* The back office *)

LEMMA DeskStep == [Next]_vars => UNCHANGED desk
BY DEF Next, vars

(* At its desk each component takes its own steps, and rests at others. *)
LEMMA DeskSteps ==
    [Next]_vars =>
        /\ [QueueNext]_queueVars /\ [CheckoutNext]_checkoutVars
        /\ [BridgeNext]_bridgeVars /\ [JourneyNext]_journeyVars
        /\ [PapersNext]_papersVars /\ [OnboardingNext]_onboardingVars
        /\ [ReportsNext]_reportsVars /\ [BillingNext]_billingVars
        /\ [MigratorNext]_migratorVars
<1> SUFFICES ASSUME [Next]_vars
             PROVE  /\ [QueueNext]_queueVars /\ [CheckoutNext]_checkoutVars
                    /\ [BridgeNext]_bridgeVars /\ [JourneyNext]_journeyVars
                    /\ [PapersNext]_papersVars /\ [OnboardingNext]_onboardingVars
                    /\ [ReportsNext]_reportsVars /\ [BillingNext]_billingVars
                    /\ [MigratorNext]_migratorVars
  OBVIOUS
<1>1. CASE Next
  BY <1>1 DEF Next
<1>2. CASE UNCHANGED vars
  BY <1>2 DEF vars
<1> QED BY <1>1, <1>2

(* Each component behaves as its own module says: what is proved of a       *)
(* component holds of the back office.                                      *)
THEOREM DesksImplementComponents ==
    Spec => /\ QueueSpec /\ CheckoutSpec /\ BridgeSpec /\ JourneySpec
            /\ PapersSpec /\ OnboardingSpec /\ ReportsSpec /\ BillingSpec
            /\ MigratorSpec
<1>1. Init => /\ QueueInit /\ CheckoutInit /\ BridgeInit /\ JourneyInit
              /\ PapersInit /\ OnboardingInit /\ ReportsInit /\ BillingInit
              /\ MigratorInit
  BY DEF Init
<1> QED
  BY <1>1, DeskSteps, PTL
     DEF Spec, QueueSpec, CheckoutSpec, BridgeSpec, JourneySpec, PapersSpec,
         OnboardingSpec, ReportsSpec, BillingSpec, MigratorSpec

(* Every variable of the back office has its type. *)
THEOREM BackOfficeTypes == Spec => []BackOfficeTypeOK
<1>1. Spec => [](desk \in Desks)
  <2>1. Init => desk \in Desks
    BY DEF Init
  <2>2. desk \in Desks /\ [Next]_vars => (desk \in Desks)'
    BY DeskStep
  <2> QED BY <2>1, <2>2, PTL DEF Spec
<1>2. /\ BridgeInv => BridgeTypeOK
      /\ JourneyInv => JourneyTypeOK
      /\ CheckoutInv => CheckoutTypeOK
      /\ PapersInv => PapersTypeOK
      /\ OnboardingInv => OnboardingTypeOK
      /\ ReportsInv => ReportsTypeOK
  BY DEF BridgeInv, JourneyInv, CheckoutInv, PapersInv, OnboardingInv, ReportsInv
<1>3. MigratorInv => MigratorTypeOK
  BY DEF MigratorInv, SoundList, MigratorTypeOK
<1>4. desk \in Desks /\ QueueTypeOK /\ CheckoutTypeOK /\ BridgeTypeOK
      /\ JourneyTypeOK /\ PapersTypeOK /\ OnboardingTypeOK /\ ReportsTypeOK
      /\ BillingTypeOK /\ MigratorTypeOK => BackOfficeTypeOK
  BY DEF BackOfficeTypeOK
<1> QED
  BY <1>1, <1>2, <1>3, <1>4, DesksImplementComponents, QueueTypes, CheckoutSafe,
     BridgeSafe, JourneySafe, PapersSafe, OnboardingSafe, ReportsSafe,
     BillingTypes, MigratorSafe, PTL

(* The invariants of the components, as the back office is checked for. *)
THEOREM BackOfficeSafe ==
    Spec => [](/\ SyncedIsInCore /\ DrainTakesPending /\ PushedOrQueued
               /\ LiveIsComplete /\ SyncedWasTold /\ ReviewedIsValid
               /\ ReportsAgree /\ AgingAgrees /\ DeltaPointsRight
               /\ NoTwinsImported)
BY DesksImplementComponents, SyncedInvoicesInCore, DrainsTakePending,
   NothingForgotten, LiveJourneysComplete, SyncedStepsTold, ReviewedAnswersValid,
   ReportsConsistent, AgingsAreOne, ArrowsPointRight, ImportsKeepCodesApart, PTL

(* And what no step of theirs ever does. *)
THEOREM BackOfficeSteps == Spec => NoErrorNoLoss /\ NoNewTwins /\ AnswersAreMade
BY DesksImplementComponents, CleanSalesStored, NobodyHasATwin,
   AnswersBecomeRecords, PTL

=============================================================================
