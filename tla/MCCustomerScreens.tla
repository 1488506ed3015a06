------------------------- MODULE MCCustomerScreens --------------------------
(***************************************************************************)
(* One model-checking run over the parts of the application a customer     *)
(* uses, and over an owner's purchase of a plan, with the backend handlers *)
(* behind them. They share no variable; `following` says which of them a   *)
(* behaviour follows, and the others stay in one of their initial states.  *)
(* A variable that two parts name alike carries the part's name here. A    *)
(* part whose hazards need different bounds is there twice.                *)
(***************************************************************************)
EXTENDS Naturals, Sequences, FiniteSets

CONSTANTS
  None, Calls, Asks, Codes, Customers, Forms, Grants, Identifiers, MaxAsks,
  MaxCases, MaxEdits, MaxNumbers, Officers, OrderTopics, Paths, Payments,
  People, Places, PlainTopics, Plans, Plants, Sessions, Staff,
  TypedAddresses, Wants, Wishes,
  \* of one part or of some of them
  OrderPlaces, AssistedPlaces, QuoteCalls, DecisionWants, ListedPlaces,
  Applicants, OwnForms, Lengths, Allowances, Grades, Quantities, Capacities,
  Intervals, Starts, PlanPlants, PlanOrders, AgainPlants, AgainHandlers,
  \* bounds: requests and touches of each part
  MaxOrders, MaxPrepared, MaxQuoteTouches, MaxDecisions, MaxListingTouches,
  MaxOwnerTouches, MaxFormTouches, MaxKycPresses, MaxLoads, MaxSaved,
  MaxPlannerPresses, MaxAttempts, MaxCodes, MaxDeletionPresses, MaxTries,
  MaxHooks, MaxAgainHooks

\* None is nothing of what it stands beside; calls and payment orders are counted;
\* the planner's form has something to choose.
NoneAssumption ==
  /\ None \notin Sessions /\ None \notin Wishes /\ None \notin Places
  /\ None \notin PlanOrders /\ None # "google" /\ None # "PAID"
CountAssumption == IsFiniteSet(Calls) /\ IsFiniteSet(PlanOrders)
PlannerAssumption ==
  /\ Quantities \in SUBSET Nat /\ Capacities \in SUBSET (Nat \ {0}) /\ MaxLoads \in Nat
  /\ Quantities # {} /\ Capacities # {} /\ Starts # {} /\ Intervals # {}
ASSUME ScreensAssumption == NoneAssumption /\ CountAssumption /\ PlannerAssumption

VARIABLES
  following,
  \* OrderForm (an order with its place)
  orderAssistant, orderAddress, orderCoords, orderSuggestions, orderPending,
  orderAsked, orderResolving, orderPicked, orderSubmitting, orderPrepared,
  orderPlaced, orderRequest, orderIntent, orderCreated, orderReviewed,
  orderEdits,
  \* OrderForm (an order prepared with the assistant)
  assistedAssistant, assistedAddress, assistedCoords, assistedSuggestions,
  assistedPending, assistedAsked, assistedResolving, assistedPicked,
  assistedSubmitting, assistedPrepared, assistedPlaced, assistedRequest,
  assistedIntent, assistedCreated, assistedReviewed, assistedEdits,
  \* Quotations (what is wanted changes)
  quoteWanted, quoteComparing, quoteResults, quoteRequesting, quotePlantOf,
  quoteActive, quoteBusy, quoteDeciding, quoteCalls, quoteTouches,
  quoteRequest, quoteSequence, quoteQuote, quoteOrdered,
  \* Quotations (answers and decisions at the same time)
  decideWanted, decideComparing, decideResults, decideRequesting,
  decidePlantOf, decideActive, decideBusy, decideDeciding, decideCalls,
  decideTouches, decideRequest, decideSequence, decideQuote, decideOrdered,
  \* PlantListing (applications and requests for a place)
  listingDiscovering, listingCards, listingRequesting, listingCalls,
  listingTouches, listingListing, listingPlants, listingOwner,
  listingAccounts,
  \* PlantListing (who owns a plant of a place)
  ownDiscovering, ownCards, ownRequesting, ownCalls, ownTouches, ownListing,
  ownPlants, ownOwner, ownAccounts,
  \* OnboardingForm
  ownerDetails, query, searches, places, formAddress, pin, googlePlaceId,
  locationSource, locating, formSubmitting, requestId, formPending,
  formTouches,
  \* SupportDesk
  category, orderId, script, more, resolved, reply, supportBusy, rid,
  selected, detail, draft, replying, cases, ask, asks,
  \* SupportWidget
  hydrating, user, path, publicHelpOpen, customerHelpOpen, publicFlow,
  customerFlow, details, openedFor,
  \* CustomerKyc
  kyc, account, consent, kycCalls, kycShown, latest, profile, kycPhase, me,
  synced, kycPresses,
  \* PourPlanning
  page, opened, shape, side, depth, allowance, grade, saved, stored, writes,
  early, pourOrdered, form, pourBusy, call, plans, removing, structure, dims,
  booking, pourPresses,
  \* AccountDeletion
  rows, deletionActive, attempts, issued, deletionCalls, token,
  deletionShown, confirm, identifier, deletionCode, deletionPhase,
  deletionBusy, deletionPresses,
  \* PlanCheckout (one payment)
  planOrder, planEvents, planGrants, planUses, planHandlers, planDied,
  planPlant, planPlan, planCode, planQuote, planQuoting, planActivating,
  planPaymentOrder, planPaymentStatus, planPoll, planAsked, planEdits,
  planHooks,
  \* PlanCheckout (a second payment after the first)
  againOrder, againEvents, againGrants, againUses, againHandlers, againDied,
  againPlant, againPlan, againCode, againQuote, againQuoting,
  againActivating, againPaymentOrder, againPaymentStatus, againPoll,
  againAsked, againEdits, againHooks

FirstWant == CHOOSE w \in Wants : TRUE

Order == INSTANCE OrderForm WITH
  Typed <- TypedAddresses, Places <- OrderPlaces, MaxRequests <- MaxOrders,
  assistant <- orderAssistant, address <- orderAddress,
  coords <- orderCoords, suggestions <- orderSuggestions,
  pending <- orderPending, asked <- orderAsked, resolving <- orderResolving,
  picked <- orderPicked, submitting <- orderSubmitting,
  prepared <- orderPrepared, placed <- orderPlaced, request <- orderRequest,
  intent <- orderIntent, created <- orderCreated, reviewed <- orderReviewed,
  edits <- orderEdits
Assisted == INSTANCE OrderForm WITH
  Typed <- TypedAddresses, Places <- AssistedPlaces,
  MaxRequests <- MaxPrepared,
  assistant <- assistedAssistant, address <- assistedAddress,
  coords <- assistedCoords, suggestions <- assistedSuggestions,
  pending <- assistedPending, asked <- assistedAsked,
  resolving <- assistedResolving, picked <- assistedPicked,
  submitting <- assistedSubmitting, prepared <- assistedPrepared,
  placed <- assistedPlaced, request <- assistedRequest,
  intent <- assistedIntent, created <- assistedCreated,
  reviewed <- assistedReviewed, edits <- assistedEdits
Quoting == INSTANCE Quotations WITH
  Requests <- Wishes, Calls <- QuoteCalls, MaxTouches <- MaxQuoteTouches,
  wanted <- quoteWanted, comparing <- quoteComparing, results <- quoteResults,
  requesting <- quoteRequesting, plantOf <- quotePlantOf,
  active <- quoteActive, busy <- quoteBusy, deciding <- quoteDeciding,
  calls <- quoteCalls, touches <- quoteTouches, request <- quoteRequest,
  sequence <- quoteSequence, quote <- quoteQuote, ordered <- quoteOrdered
Deciding == INSTANCE Quotations WITH
  Requests <- Wishes, Wants <- DecisionWants, MaxTouches <- MaxDecisions,
  wanted <- decideWanted, comparing <- decideComparing,
  results <- decideResults, requesting <- decideRequesting,
  plantOf <- decidePlantOf, active <- decideActive, busy <- decideBusy,
  deciding <- decideDeciding, calls <- decideCalls, touches <- decideTouches,
  request <- decideRequest, sequence <- decideSequence, quote <- decideQuote,
  ordered <- decideOrdered
Listing == INSTANCE PlantListing WITH
  Places <- ListedPlaces, People <- Applicants,
  MaxTouches <- MaxListingTouches,
  discovering <- listingDiscovering, cards <- listingCards,
  requesting <- listingRequesting, calls <- listingCalls,
  touches <- listingTouches, listing <- listingListing,
  plants <- listingPlants, owner <- listingOwner, accounts <- listingAccounts
Owning == INSTANCE PlantListing WITH
  Places <- ListedPlaces, Forms <- OwnForms, MaxTouches <- MaxOwnerTouches,
  discovering <- ownDiscovering, cards <- ownCards,
  requesting <- ownRequesting, calls <- ownCalls, touches <- ownTouches,
  listing <- ownListing, plants <- ownPlants, owner <- ownOwner,
  accounts <- ownAccounts
Onboarding == INSTANCE OnboardingForm WITH
  MaxTouches <- MaxFormTouches, address <- formAddress, submitting <- formSubmitting,
  pending <- formPending, touches <- formTouches
Support == INSTANCE SupportDesk WITH
  busy <- supportBusy
Widget == INSTANCE SupportWidget
Kyc == INSTANCE CustomerKyc WITH
  MaxPresses <- MaxKycPresses, calls <- kycCalls, shown <- kycShown,
  phase <- kycPhase, presses <- kycPresses
Planning == INSTANCE PourPlanning WITH
  MaxPresses <- MaxPlannerPresses, ordered <- pourOrdered, busy <- pourBusy, presses <- pourPresses
Deletion == INSTANCE AccountDeletion WITH
  MaxPresses <- MaxDeletionPresses, active <- deletionActive,
  calls <- deletionCalls, shown <- deletionShown, code <- deletionCode,
  phase <- deletionPhase, busy <- deletionBusy, presses <- deletionPresses
Plan == INSTANCE PlanCheckout WITH
  Plants <- PlanPlants, Orders <- PlanOrders, Handlers <- Calls, order <- planOrder, events <- planEvents,
  grants <- planGrants, uses <- planUses, handlers <- planHandlers,
  died <- planDied, plant <- planPlant, plan <- planPlan, code <- planCode,
  quote <- planQuote, quoting <- planQuoting, activating <- planActivating,
  paymentOrder <- planPaymentOrder, paymentStatus <- planPaymentStatus,
  poll <- planPoll, asked <- planAsked, edits <- planEdits,
  hooks <- planHooks
Again == INSTANCE PlanCheckout WITH
  Plants <- AgainPlants, Orders <- Payments, MaxHooks <- MaxAgainHooks,
  Handlers <- AgainHandlers, order <- againOrder,
  events <- againEvents, grants <- againGrants, uses <- againUses,
  handlers <- againHandlers, died <- againDied, plant <- againPlant,
  plan <- againPlan, code <- againCode, quote <- againQuote,
  quoting <- againQuoting, activating <- againActivating,
  paymentOrder <- againPaymentOrder, paymentStatus <- againPaymentStatus,
  poll <- againPoll, asked <- againAsked, edits <- againEdits,
  hooks <- againHooks

orderVars ==
  <<orderAssistant, orderAddress, orderCoords, orderSuggestions,
  orderPending, orderAsked, orderResolving, orderPicked, orderSubmitting,
  orderPrepared, orderPlaced, orderRequest, orderIntent, orderCreated,
  orderReviewed, orderEdits>>
assistedVars ==
  <<assistedAssistant, assistedAddress, assistedCoords, assistedSuggestions,
  assistedPending, assistedAsked, assistedResolving, assistedPicked,
  assistedSubmitting, assistedPrepared, assistedPlaced, assistedRequest,
  assistedIntent, assistedCreated, assistedReviewed, assistedEdits>>
quotationsVars ==
  <<quoteWanted, quoteComparing, quoteResults, quoteRequesting, quotePlantOf,
  quoteActive, quoteBusy, quoteDeciding, quoteCalls, quoteTouches,
  quoteRequest, quoteSequence, quoteQuote, quoteOrdered>>
decisionsVars ==
  <<decideWanted, decideComparing, decideResults, decideRequesting,
  decidePlantOf, decideActive, decideBusy, decideDeciding, decideCalls,
  decideTouches, decideRequest, decideSequence, decideQuote, decideOrdered>>
listingVars ==
  <<listingDiscovering, listingCards, listingRequesting, listingCalls,
  listingTouches, listingListing, listingPlants, listingOwner,
  listingAccounts>>
ownershipVars ==
  <<ownDiscovering, ownCards, ownRequesting, ownCalls, ownTouches,
  ownListing, ownPlants, ownOwner, ownAccounts>>
onboardingVars ==
  <<ownerDetails, query, searches, places, formAddress, pin, googlePlaceId,
  locationSource, locating, formSubmitting, requestId, formPending,
  formTouches>>
supportVars ==
  <<category, orderId, script, more, resolved, reply, supportBusy, rid,
  selected, detail, draft, replying, cases, ask, asks>>
widgetVars ==
  <<hydrating, user, path, publicHelpOpen, customerHelpOpen, publicFlow,
  customerFlow, details, openedFor>>
kycVars ==
  <<kyc, account, consent, kycCalls, kycShown, latest, profile, kycPhase, me,
  synced, kycPresses>>
planningVars ==
  <<page, opened, shape, side, depth, allowance, grade, saved, stored,
  writes, early, pourOrdered, form, pourBusy, call, plans, removing,
  structure, dims, booking, pourPresses>>
deletionVars ==
  <<rows, deletionActive, attempts, issued, deletionCalls, token,
  deletionShown, confirm, identifier, deletionCode, deletionPhase,
  deletionBusy, deletionPresses>>
planVars ==
  <<planOrder, planEvents, planGrants, planUses, planHandlers, planDied,
  planPlant, planPlan, planCode, planQuote, planQuoting, planActivating,
  planPaymentOrder, planPaymentStatus, planPoll, planAsked, planEdits,
  planHooks>>
againVars ==
  <<againOrder, againEvents, againGrants, againUses, againHandlers,
  againDied, againPlant, againPlan, againCode, againQuote, againQuoting,
  againActivating, againPaymentOrder, againPaymentStatus, againPoll,
  againAsked, againEdits, againHooks>>

parts ==
  <<orderVars, assistedVars, quotationsVars, decisionsVars, listingVars,
  ownershipVars, onboardingVars, supportVars, widgetVars, kycVars,
  planningVars, deletionVars, planVars, againVars>>
allVars == <<following, parts>>

Init ==
  /\ following \in {"order", "assisted", "quotations", "decisions", "listing",
       "ownership", "onboarding", "support", "widget", "kyc", "planning",
       "deletion", "plan", "again"}
  /\ Order!Init /\ (following # "order" => ~orderAssistant /\ orderAddress = None)
  /\ Assisted!Init /\ (following # "assisted" => ~assistedAssistant /\ assistedAddress = None)
  /\ Quoting!Init /\ (following # "quotations" => quoteWanted = FirstWant)
  /\ Deciding!Init
  /\ Listing!Init
  /\ Owning!Init
  /\ Onboarding!Init
  /\ Support!Init
  /\ Widget!Init
  /\ Kyc!Init /\ (following # "kyc" => kyc.status = "NOT_STARTED")
  /\ Planning!Init /\ (following # "planning" => page = "tools" /\ stored = <<>>)
  /\ Deletion!Init /\ (following # "deletion" => ~token)
  /\ Plan!Init
  /\ Again!Init

\* One part moves, the others wait.
Only(part, rest) == following = part /\ UNCHANGED <<following, rest>>

Next ==
  \/ Only("order",
          <<assistedVars, quotationsVars, decisionsVars, listingVars,
          ownershipVars, onboardingVars, supportVars, widgetVars, kycVars,
          planningVars, deletionVars, planVars, againVars>>) /\ Order!Next
  \/ Only("assisted",
          <<orderVars, quotationsVars, decisionsVars, listingVars,
          ownershipVars, onboardingVars, supportVars, widgetVars, kycVars,
          planningVars, deletionVars, planVars, againVars>>) /\ Assisted!Next
  \/ Only("quotations",
          <<orderVars, assistedVars, decisionsVars, listingVars,
          ownershipVars, onboardingVars, supportVars, widgetVars, kycVars,
          planningVars, deletionVars, planVars, againVars>>) /\ Quoting!Next
  \/ Only("decisions",
          <<orderVars, assistedVars, quotationsVars, listingVars,
          ownershipVars, onboardingVars, supportVars, widgetVars, kycVars,
          planningVars, deletionVars, planVars, againVars>>) /\ Deciding!Next
  \/ Only("listing",
          <<orderVars, assistedVars, quotationsVars, decisionsVars,
          ownershipVars, onboardingVars, supportVars, widgetVars, kycVars,
          planningVars, deletionVars, planVars, againVars>>) /\ Listing!Next
  \/ Only("ownership",
          <<orderVars, assistedVars, quotationsVars, decisionsVars,
          listingVars, onboardingVars, supportVars, widgetVars, kycVars,
          planningVars, deletionVars, planVars, againVars>>) /\ Owning!Next
  \/ Only("onboarding",
          <<orderVars, assistedVars, quotationsVars, decisionsVars,
          listingVars, ownershipVars, supportVars, widgetVars, kycVars,
          planningVars, deletionVars, planVars, againVars>>) /\ Onboarding!Next
  \/ Only("support",
          <<orderVars, assistedVars, quotationsVars, decisionsVars,
          listingVars, ownershipVars, onboardingVars, widgetVars, kycVars,
          planningVars, deletionVars, planVars, againVars>>) /\ Support!Next
  \/ Only("widget",
          <<orderVars, assistedVars, quotationsVars, decisionsVars,
          listingVars, ownershipVars, onboardingVars, supportVars, kycVars,
          planningVars, deletionVars, planVars, againVars>>) /\ Widget!Next
  \/ Only("kyc",
          <<orderVars, assistedVars, quotationsVars, decisionsVars,
          listingVars, ownershipVars, onboardingVars, supportVars,
          widgetVars, planningVars, deletionVars, planVars, againVars>>) /\ Kyc!Next
  \/ Only("planning",
          <<orderVars, assistedVars, quotationsVars, decisionsVars,
          listingVars, ownershipVars, onboardingVars, supportVars,
          widgetVars, kycVars, deletionVars, planVars, againVars>>) /\ Planning!Next
  \/ Only("deletion",
          <<orderVars, assistedVars, quotationsVars, decisionsVars,
          listingVars, ownershipVars, onboardingVars, supportVars,
          widgetVars, kycVars, planningVars, planVars, againVars>>) /\ Deletion!Next
  \/ Only("plan",
          <<orderVars, assistedVars, quotationsVars, decisionsVars,
          listingVars, ownershipVars, onboardingVars, supportVars,
          widgetVars, kycVars, planningVars, deletionVars, againVars>>) /\ Plan!Next
  \/ Only("again",
          <<orderVars, assistedVars, quotationsVars, decisionsVars,
          listingVars, ownershipVars, onboardingVars, supportVars,
          widgetVars, kycVars, planningVars, deletionVars, planVars>>) /\ Again!Next

Spec == Init /\ [][Next]_allVars

-----------------------------------------------------------------------------
\* What was asked for once is recorded once, whatever is pressed, retried or answered
\* twice: one order for what the assistant prepared, one support case for a request,
\* one answer and one order for a quotation, one plant for a place, one deletion
\* request for a confirmation, one entitlement for a payment.
OneRecordPerRequest ==
  /\ Assisted!AssistedOrderOnce /\ Support!OneCasePerRequest /\ Deciding!OneAnswerPerRequest
  /\ Listing!OnePlantPerPlace /\ Deletion!RecordedAsAsked
  /\ Plan!OneGrantPerPayment

\* What is kept is what the person saw and settled on: coordinates are sent with the
\* address they are of, an order exists for the quotations accepted, a plan is stored
\* as it was shown, a pin is that of its place, and a payment that is shown as
\* received was received.
KeptIsWhatWasSettled ==
  /\ Order!PinnedAddress /\ Deciding!OrderOnAcceptance /\ Planning!KeptAsShown
  /\ Onboarding!PinOfItsPlace /\ Again!ShownPaidIsPaid

\* A help panel belongs to the user and the screen it was opened on.
PanelBoundary == Widget!PanelBoundary

\* Rights are given with what they rest on: an assignment leaves a plant its owner,
\* and an identity is verified with the name that was proven.
RightsWithTheirGround == Owning!AssignmentKeepsOwner /\ Kyc!VerifiedWithIdentity
=============================================================================
