-------------------------- MODULE MCMobileScreens ---------------------------
(***************************************************************************)
(* One model-checking run over parts of the mobile application, each with  *)
(* its calls answered late, refused or out of order: the reading hook      *)
(* (UseGet, extended here), the session (MobileSession), the login screen  *)
(* (LoginFlow), looking for plants nearby (NearbyPlants), and the screens  *)
(* of a delivery, the customer's and the driver's (DeliveryScreens). They  *)
(* share no variable; `following` says which of them a behaviour follows,  *)
(* and the others stay in one of their initial states. A variable that two *)
(* parts name alike carries the part's name here.                          *)
(***************************************************************************)
EXTENDS UseGet, FiniteSets

CONSTANTS
  Tokens, Saved, Logins, Refreshes, Mobiles, Emails, Slots, MaxCodes, Calls,
  ReceiverForms, SitePhotos, DriverRequests, MaxDriverPresses, \* of the driver's screens
  k3

VARIABLES
  following,
  \* MobileSession
  stored, token, user, hydrating, flow, valid, issued, registering, device,
  crossed, left,
  \* LoginFlow
  mode, phase, mobile, plantEmail, identifier, code, loading, otpVisual,
  countdown, play, last, call, me, gone, dropped,
  \* NearbyPlants
  nearAt, forced, canAskAgain, dialog, permission, cached, userLocation,
  locating, locationStatus,
  \* DeliveryScreens (a customer follows two loads)
  customerOrder, customerLoad, customerAt, customerPod, customerCalls,
  customerPresses, customerPage, customerHomeShown, customerTripShown,
  customerBusy, customerForm, customerPhoto, customerSigned,
  customerSubmitting, customerErr, customerWatching, customerOffered,
  customerData, customerSelected, customerPoll, customerAnswer,
  customerSubmitted,
  \* DeliveryScreens (a driver delivers one)
  driverOrder, driverLoad, driverAt, driverPod, driverCalls, driverPresses,
  driverPage, driverHomeShown, driverTripShown, driverBusy, driverForm,
  driverPhoto, driverSigned, driverSubmitting, driverErr, driverWatching,
  driverOffered, driverData, driverSelected, driverPoll, driverAnswer,
  driverSubmitted

\* k3 is another person's token.
MCOwner == [t \in Tokens |-> IF t = k3 THEN "B" ELSE "A"]

Session == INSTANCE MobileSession WITH
  Owner <- MCOwner
Login == INSTANCE LoginFlow
Nearby == INSTANCE NearbyPlants WITH
  Runs <- {"mount", "refresh", "retry"}, FirstRun <- "mount", at <- nearAt
Watching == INSTANCE DeliveryScreens WITH
  NLoads <- 2, Mine <- None, Watched <- TRUE, Forms <- {}, Photos <- {},
  MaxFixes <- 1, MaxPresses <- 5, order <- customerOrder,
  load <- customerLoad, at <- customerAt, pod <- customerPod,
  calls <- customerCalls, presses <- customerPresses, page <- customerPage,
  homeShown <- customerHomeShown, tripShown <- customerTripShown,
  busy <- customerBusy, form <- customerForm, photo <- customerPhoto,
  signed <- customerSigned, submitting <- customerSubmitting,
  err <- customerErr, watching <- customerWatching,
  offered <- customerOffered, data <- customerData,
  selected <- customerSelected, poll <- customerPoll,
  answer <- customerAnswer, submitted <- customerSubmitted
Delivering == INSTANCE DeliveryScreens WITH
  NLoads <- 1, Mine <- 1, Watched <- FALSE, Forms <- ReceiverForms,
  Photos <- SitePhotos, Calls <- DriverRequests, MaxFixes <- 0,
  MaxPresses <- MaxDriverPresses,
  order <- driverOrder, load <- driverLoad, at <- driverAt, pod <- driverPod,
  calls <- driverCalls, presses <- driverPresses, page <- driverPage,
  homeShown <- driverHomeShown, tripShown <- driverTripShown,
  busy <- driverBusy, form <- driverForm, photo <- driverPhoto,
  signed <- driverSigned, submitting <- driverSubmitting, err <- driverErr,
  watching <- driverWatching, offered <- driverOffered, data <- driverData,
  selected <- driverSelected, poll <- driverPoll, answer <- driverAnswer,
  submitted <- driverSubmitted

sessionVars ==
  <<stored, token, user, hydrating, flow, valid, issued, registering, device,
  crossed, left>>
loginVars ==
  <<mode, phase, mobile, plantEmail, identifier, code, loading, otpVisual,
  countdown, play, last, call, me, gone, dropped>>
nearbyVars ==
  <<nearAt, forced, canAskAgain, dialog, permission, cached, userLocation,
  locating, locationStatus>>
customerVars ==
  <<customerOrder, customerLoad, customerAt, customerPod, customerCalls,
  customerPresses, customerPage, customerHomeShown, customerTripShown,
  customerBusy, customerForm, customerPhoto, customerSigned,
  customerSubmitting, customerErr, customerWatching, customerOffered,
  customerData, customerSelected, customerPoll, customerAnswer,
  customerSubmitted>>
driverVars ==
  <<driverOrder, driverLoad, driverAt, driverPod, driverCalls, driverPresses,
  driverPage, driverHomeShown, driverTripShown, driverBusy, driverForm,
  driverPhoto, driverSigned, driverSubmitting, driverErr, driverWatching,
  driverOffered, driverData, driverSelected, driverPoll, driverAnswer,
  driverSubmitted>>

parts ==
  <<vars, sessionVars, loginVars, nearbyVars, customerVars, driverVars>>
allVars == <<following, parts>>

ScreensInit ==
  /\ following \in {"data", "session", "login", "nearby", "customer", "driver"}
  /\ Init /\ (following # "data" => key = None)
  /\ Session!Init /\ (following # "session" => stored = None /\ valid = {})
  /\ Login!Init
  /\ Nearby!Init /\ (following # "nearby" => permission = "ask" /\ ~cached)
  /\ Watching!Init
  /\ Delivering!Init

\* One part moves, the others wait.
Only(part, rest) == following = part /\ UNCHANGED <<following, rest>>

ScreensNext ==
  \/ Only("data", <<sessionVars, loginVars, nearbyVars, customerVars, driverVars>>) /\ Next
  \/ Only("session",
          <<vars, loginVars, nearbyVars, customerVars, driverVars>>) /\ Session!Next
  \/ Only("login",
          <<vars, sessionVars, nearbyVars, customerVars, driverVars>>) /\ Login!Next
  \/ Only("nearby",
          <<vars, sessionVars, loginVars, customerVars, driverVars>>) /\ Nearby!Next
  \/ Only("customer",
          <<vars, sessionVars, loginVars, nearbyVars, driverVars>>) /\ Watching!Next
  \/ Only("driver",
          <<vars, sessionVars, loginVars, nearbyVars, customerVars>>) /\ Delivering!Next

\* The fairness of each module, where it is followed.
ScreensFairness ==
  /\ WF_vars(following = "data" /\ RunEffect)
  /\ \A n \in Ids : /\ WF_vars(following = "data" /\ Answer(n))
                    /\ WF_vars(following = "data" /\ Land(n))
  /\ WF_nearbyVars(following = "nearby" /\ \E granted \in BOOLEAN : Nearby!Settle(granted))
  /\ \A r \in {"mount", "refresh", "retry"} :
       /\ WF_nearbyVars(following = "nearby" /\ Nearby!Proceeds(r))
       /\ WF_nearbyVars(following = "nearby" /\ Nearby!TimedOut(r))
  /\ WF_customerVars(following = "customer" /\ Watching!Tick)
  /\ SF_customerVars(following = "customer" /\ Watching!TrackOrder)
  /\ SF_customerVars(following = "customer" /\ Watching!TrackLoaded)

ScreensSpec == ScreensInit /\ [][ScreensNext]_allVars /\ ScreensFairness

-----------------------------------------------------------------------------
\* The three records of who is signed in agree (MobileSession).
SessionConsistent == Session!SessionConsistent

\* At rest, pushes go to the user signed in, or to nobody (MobileSession).
PushFollowsSession == Session!PushFollowsSession

\* A complete code that is shown is on its way (LoginFlow).
CodeOnItsWay == Login!CodeOnItsWay

\* A proof of delivery holds what the receiver had signed for when it was submitted
\* (DeliveryScreens).
PodAsSubmitted == Delivering!PodAsSubmitted

\* Looking for the customer's position ends (NearbyPlants), and a delivery is seen on
\* the screen that follows it (DeliveryScreens): no lost answer, replaced dialog or
\* load in between leaves a person waiting.
WaitsEnd == Nearby!LocatingEnds /\ Watching!DeliveryIsSeen
=============================================================================
