--------------------------- MODULE OnboardingForm ---------------------------
(***************************************************************************)
(* The form with which a plant owner applies to be listed                  *)
(* (frontend/app/plant-onboarding.tsx).  The plant's place is marked by a  *)
(* search, by the phone's position or kept under an edited address; the    *)
(* answers of searches and of the position arrive while the form is being  *)
(* edited.  What becomes of an application is the module PlantListing.     *)
(***************************************************************************)
EXTENDS Naturals, FiniteSets

CONSTANTS
  None,
  Places,         \* bound: the places a search can find
  MaxTouches      \* bound: searches, edits and submissions

Here == "here"    \* where the phone is
Typed == "typed"  \* an address somebody typed

VARIABLES
  ownerDetails,     \* the owner and plant fields pass validation
  query,            \* what the search field holds is long enough to search for
  searches,         \* searches whose answers are awaited
  places,           \* the results listed
  address, pin,     \* the address, and the place lat and lng are of
  googlePlaceId, locationSource,
  locating,         \* None, or whether the address was blank when it began
  submitting,       \* the application sent, or None
  requestId,        \* the success page's request, or None
  pending,          \* the backend's PENDING application under this email
  touches

marks == <<address, pin, googlePlaceId, locationSource>>
finding == <<query, searches, places>>
vars == <<ownerDetails, finding, marks, locating, submitting, requestId, pending, touches>>

Blank ==
  /\ ownerDetails = FALSE /\ query = FALSE /\ searches = 0 /\ places = {}
  /\ address = None /\ pin = None /\ googlePlaceId = None /\ locationSource = None
  /\ locating = None /\ submitting = None /\ requestId = None

Init == Blank /\ pending = None /\ touches = 0

Touch == touches < MaxTouches /\ touches' = touches + 1
OnForm == requestId = None
LocationMarked == pin # None /\ address # None

-----------------------------------------------------------------------------
EditOwner ==
  /\ OnForm /\ ~ownerDetails /\ ownerDetails' = TRUE
  /\ UNCHANGED <<finding, marks, locating, submitting, requestId, pending, touches>>

\* Typing into the search field takes the results away, not their requests.
EditQuery ==
  /\ OnForm /\ query' \in BOOLEAN /\ places' = {}
  /\ UNCHANGED <<ownerDetails, searches, marks, locating, submitting, requestId, pending, touches>>

\* The button waits for the answer; the keyboard's search key does not.
SearchPlaces ==
  /\ OnForm /\ query /\ Touch /\ searches' = searches + 1
  /\ UNCHANGED <<ownerDetails, query, places, marks, locating, submitting, requestId, pending>>

\* An answer lists what it found, whatever has been typed or chosen since.
Searched ==
  /\ searches > 0 /\ searches' = searches - 1
  /\ \/ places' \in SUBSET Places
     \/ UNCHANGED places
  /\ UNCHANGED <<ownerDetails, query, marks, locating, submitting, requestId, pending, touches>>

\* The place's name becomes the query; the results are folded.
Chosen(p) ==
  /\ googlePlaceId' = p /\ pin' = p /\ address' = p /\ locationSource' = "google"
  /\ query' = TRUE /\ places' = {}

ChoosePlace(p) ==
  /\ OnForm /\ p \in places /\ Chosen(p)
  /\ UNCHANGED <<ownerDetails, searches, locating, submitting, requestId, pending, touches>>

-----------------------------------------------------------------------------
UseCurrentLocation ==
  /\ OnForm /\ locating = None /\ Touch
  /\ locating' = IF address = None THEN "blank" ELSE "written"
  /\ UNCHANGED <<ownerDetails, finding, marks, submitting, requestId, pending>>

\* Mutant: the position is marked under the place that was chosen before.
MarkedKeepingPlace == UNCHANGED googlePlaceId

MarkedPlace == googlePlaceId' = None

\* Permission refused or no position; or a position, whose address may be
\* unknown: then the one written stays, or its coordinates stand for it.
Located ==
  /\ locating # None /\ locating' = None
  /\ \/ UNCHANGED marks
     \/ /\ pin' = Here /\ MarkedPlace /\ locationSource' = "current"
        /\ \/ address' = Here
           \/ address' = IF locating = "blank" THEN Here ELSE address
  /\ UNCHANGED <<ownerDetails, finding, submitting, requestId, pending, touches>>

\* An edit of a marked place's address makes it "manual"; the place's id stays
\* until the edited address is confirmed.
EditAddress ==
  /\ OnForm /\ Touch /\ address' \in {None, Typed}
  /\ locationSource' = IF locationSource = None THEN None ELSE "manual"
  /\ UNCHANGED <<ownerDetails, finding, pin, googlePlaceId, locating, submitting, requestId, pending>>

ApplyManualAddress ==
  /\ OnForm /\ LocationMarked /\ locationSource = "manual" /\ googlePlaceId' = None
  /\ UNCHANGED <<ownerDetails, finding, address, pin, locationSource, locating, submitting,
                 requestId, pending, touches>>

-----------------------------------------------------------------------------
Submit ==
  /\ OnForm /\ submitting = None /\ ownerDetails /\ LocationMarked /\ Touch
  /\ submitting' = [address |-> address, pin |-> pin, place |-> googlePlaceId]
  /\ UNCHANGED <<ownerDetails, finding, marks, locating, requestId, pending>>

\* A second application under the same email is answered with the first.
Recorded == pending' = IF pending = None THEN submitting ELSE pending

SubmitAnswered ==
  /\ submitting # None /\ submitting' = None /\ Recorded /\ requestId' = pending'
  /\ UNCHANGED <<ownerDetails, finding, marks, locating, touches>>

\* Refused, lost on the way, or recorded with the answer lost.
SubmitFailed ==
  /\ submitting # None /\ submitting' = None
  /\ \/ UNCHANGED pending
     \/ Recorded
  /\ UNCHANGED <<ownerDetails, finding, marks, locating, requestId, touches>>

\* Leaving loses the form; an application that is on its way may still arrive.
Back ==
  /\ \/ UNCHANGED pending
     \/ submitting # None /\ Recorded
  /\ ownerDetails' = FALSE /\ query' = FALSE /\ searches' = 0 /\ places' = {}
  /\ address' = None /\ pin' = None /\ googlePlaceId' = None /\ locationSource' = None
  /\ locating' = None /\ submitting' = None /\ requestId' = None
  /\ UNCHANGED touches

Next ==
  \/ EditOwner \/ EditQuery \/ SearchPlaces \/ Searched \/ (\E p \in Places : ChoosePlace(p))
  \/ UseCurrentLocation \/ Located \/ EditAddress \/ ApplyManualAddress
  \/ Submit \/ SubmitAnswered \/ SubmitFailed \/ Back

Spec == Init /\ [][Next]_vars

-----------------------------------------------------------------------------
\* The coordinates are those of the place whose Google id goes with them, and
\* what the form calls a Google result is one, address included: in the form,
\* on its way and in the application the authority reviews.
PinOfItsPlace ==
  /\ googlePlaceId # None => pin = googlePlaceId
  /\ locationSource = "google" => googlePlaceId # None /\ address = googlePlaceId
  /\ \A a \in {submitting, pending} \ {None} : a.place # None => a.pin = a.place
=============================================================================
