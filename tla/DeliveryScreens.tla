--------------------------- MODULE DeliveryScreens ---------------------------
(***************************************************************************)
(* One order of several mixer loads as its driver and its customer see it: *)
(* the driver's home, trip and POD screens (frontend/app/driver/index.tsx, *)
(* trip/[id].tsx, pod/[id].tsx) and the customer's home and live tracking  *)
(* (customer/index.tsx, track/[id].tsx).  The backend's handlers are one   *)
(* step each here; their inner steps are LoadFulfilment's.  Every POST may *)
(* be processed although the screen has given it up, and a submission goes *)
(* on when its screen is left.                                             *)
(***************************************************************************)
EXTENDS Naturals, FiniteSets

CONSTANTS
  None,
  NLoads,                 \* the order's loads, by number
  Mine,                   \* the load whose driver's phone is followed, or None
  Watched,                \* whether the customer's is
  Forms, Photos,          \* what a receiver signs for; pictures of the site
  Calls,
  MaxFixes, MaxPresses    \* bounds: positions recorded; buttons that send

Loads == 1..NLoads

VARIABLES
  order, load, at,        \* their statuses; the number of each mixer's latest position, 0: none
  pod,                    \* the proof of delivery of this driver's load, or None
  calls, presses,
  page, homeShown, tripShown, busy, form, photo, signed, submitting, err,   \* the driver's
  watching, offered, data, selected, poll, answer,                              \* the customer's
  submitted               \* ghost: what the receiver had signed for at a press of Submit

server == <<order, load, at, pod>>
podScreen == <<form, photo, signed, submitting, err>>
driver == <<page, homeShown, tripShown, busy, podScreen>>
customer == <<watching, offered, data, selected, poll, answer>>
vars == <<server, calls, presses, driver, customer, submitted>>

Stages == <<"DISPATCHED", "EN_ROUTE", "ARRIVED", "UNLOADING", "DELIVERED">>
OnTheRoad == {"EN_ROUTE", "ARRIVED", "UNLOADING"}
ActiveLoads(loads) == {l \in Loads : loads[l] \in OnTheRoad \cup {"DISPATCHED"}}

\* The driver's trip, there since the load was prepared.
Trip == IF load[Mine] = "READY" THEN "ASSIGNED" ELSE load[Mine]

Free == [does |-> "", pc |-> "free", live |-> FALSE, form |-> None, photo |-> None]

Init ==
  /\ order = "SCHEDULED" /\ load = [l \in Loads |-> "READY"] /\ at = [l \in Loads |-> 0] /\ pod = None
  /\ calls = [c \in Calls |-> Free] /\ presses = 0
  /\ page = "home" /\ homeShown = None /\ tripShown = None /\ busy = FALSE
  /\ form = None /\ photo = None /\ signed = FALSE /\ submitting = FALSE /\ err = None
  /\ watching = FALSE /\ offered = FALSE /\ data = None /\ selected = None /\ poll = "none" /\ answer = None
  /\ submitted = {}

-----------------------------------------------------------------------------
(* The office, and the drivers of the other loads. *)
MoveTo(l, stage) ==
  /\ load' = [load EXCEPT ![l] = stage]
  /\ order' = IF \A m \in Loads : load'[m] = "DELIVERED" THEN "DELIVERED" ELSE "DISPATCHED"

DispatchLoad(l) ==
  /\ load[l] = "READY" /\ MoveTo(l, "DISPATCHED")
  /\ UNCHANGED <<at, pod, calls, presses, driver, customer, submitted>>

OtherDriver(l) ==
  /\ l # Mine
  /\ \E i \in 1..4 : load[l] = Stages[i] /\ MoveTo(l, Stages[i + 1])
  /\ UNCHANGED <<at, pod, calls, presses, driver, customer, submitted>>

\* A mixer's position, accepted from the start of its trip until its delivery.
PostLocation(l) ==
  LET fixes == CHOOSE n \in 0..MaxFixes : (\E m \in Loads : at[m] = n) /\ \A m \in Loads : at[m] <= n IN
  /\ load[l] \in OnTheRoad /\ fixes < MaxFixes
  /\ at' = [at EXCEPT ![l] = fixes + 1]
  /\ UNCHANGED <<order, load, pod, calls, presses, driver, customer, submitted>>

-----------------------------------------------------------------------------
(* The driver's home and trip. *)
HomeLoaded ==
  /\ page = "home" /\ Mine # None
  /\ homeShown' = IF Trip = "DELIVERED" THEN None ELSE Trip
  /\ UNCHANGED <<server, calls, presses, page, tripShown, busy, podScreen, customer, submitted>>

OpenTrip ==
  /\ page = "home" /\ homeShown # None
  /\ page' = "trip" /\ tripShown' = None /\ busy' = FALSE
  /\ UNCHANGED <<server, calls, presses, homeShown, podScreen, customer, submitted>>

\* On opening the screen and after each accepted action.
TripLoaded ==
  /\ page = "trip" /\ tripShown' = Trip
  /\ UNCHANGED <<server, calls, presses, page, homeShown, busy, podScreen, customer, submitted>>

\* The calls of a screen that is left end without it.
Leave == calls' = [c \in Calls |-> [calls[c] EXCEPT !.live = FALSE]]

BackHome ==
  /\ page = "trip" /\ page' = "home" /\ Leave
  /\ UNCHANGED <<server, presses, homeShown, tripShown, busy, podScreen, customer, submitted>>

Step(status) ==
  CASE status \in {"ASSIGNED", "DISPATCHED"} -> "start"
    [] status = "EN_ROUTE" -> "arrive" [] status = "ARRIVED" -> "unload" [] OTHER -> None

Press(k) ==
  /\ presses < MaxPresses /\ presses' = presses + 1
  /\ \E c \in Calls : calls[c] = Free /\ calls' = [calls EXCEPT ![c] = k]

Advance ==
  /\ page = "trip" /\ ~busy /\ Step(tripShown) # None /\ busy' = TRUE
  /\ Press([Free EXCEPT !.does = Step(tripShown), !.pc = "sent", !.live = TRUE])
  /\ UNCHANGED <<server, page, homeShown, tripShown, podScreen, customer, submitted>>

\* Answered, refused or given up: the screen, when it is still there, reloads
\* after a success only.
AdvanceAnswered(c, ok) ==
  LET k == calls[c] IN
  /\ k.does \in {"start", "arrive", "unload"} /\ k.live /\ (ok => k.pc = "ok")
  /\ busy' = FALSE /\ tripShown' = IF ok THEN Trip ELSE tripShown
  /\ calls' = [calls EXCEPT ![c] = IF k.pc = "sent" THEN [k EXCEPT !.live = FALSE] ELSE Free]
  /\ UNCHANGED <<server, presses, page, homeShown, podScreen, customer, submitted>>

-----------------------------------------------------------------------------
(* The POD screen. *)
OpenPod ==
  /\ page = "trip" /\ tripShown = "UNLOADING"
  /\ page' = "pod" /\ form' = None /\ photo' = None /\ signed' = FALSE /\ submitting' = FALSE /\ err' = None
  /\ UNCHANGED <<server, calls, presses, homeShown, tripShown, busy, customer, submitted>>

ClosePod ==
  /\ page = "pod" /\ page' = "trip" /\ Leave
  /\ UNCHANGED <<server, presses, homeShown, tripShown, busy, podScreen, customer, submitted>>

\* The fields stay open while a submission is on its way, and the signature stays
\* when what was signed for is edited.
TypeForm(f) ==
  /\ page = "pod" /\ form' = f
  /\ UNCHANGED <<server, calls, presses, page, homeShown, tripShown, busy, photo, signed, submitting, err,
                 customer, submitted>>

PickImage(p) ==
  /\ page = "pod" /\ photo = None /\ photo' = p
  /\ UNCHANGED <<server, calls, presses, page, homeShown, tripShown, busy, form, signed, submitting, err,
                 customer, submitted>>

RemovePhoto ==
  /\ page = "pod" /\ photo # None /\ photo' = None
  /\ UNCHANGED <<server, calls, presses, page, homeShown, tripShown, busy, form, signed, submitting, err,
                 customer, submitted>>

Sign ==
  /\ page = "pod" /\ signed' = ~signed
  /\ UNCHANGED <<server, calls, presses, page, homeShown, tripShown, busy, form, photo, submitting, err,
                 customer, submitted>>

Submit ==
  /\ page = "pod" /\ ~submitting /\ form # None /\ photo # None /\ signed
  /\ submitting' = TRUE /\ err' = None /\ submitted' = submitted \cup {<<form, photo>>}
  /\ Press([does |-> "submit", pc |-> "uploading", live |-> TRUE, form |-> form, photo |-> photo])
  /\ UNCHANGED <<server, page, homeShown, tripShown, busy, form, photo, signed, customer>>

\* Mutant: what is posted is what the fields hold when the upload has ended.
HeldNow(k) == [k EXCEPT !.form = IF form = None THEN k.form ELSE form]

\* What is posted is what the fields held when Submit was pressed.
Held(k) == k

UploadEnds(c) ==
  /\ calls[c].pc = "uploaded"
  /\ calls' = [calls EXCEPT ![c] = [Held(calls[c]) EXCEPT !.pc = "posting"]]
  /\ UNCHANGED <<server, presses, driver, customer, submitted>>

\* A submission that succeeded goes to the driver's home from any screen.
SubmitSucceeds(c) ==
  /\ calls[c].does = "submit" /\ calls[c].pc = "ok"
  /\ page' = "home" /\ homeShown' = None /\ submitting' = FALSE
  /\ calls' = [d \in Calls |-> IF d = c THEN Free ELSE [calls[d] EXCEPT !.live = FALSE]]
  /\ UNCHANGED <<server, presses, tripShown, busy, form, photo, signed, err, customer, submitted>>

\* It failed, or the screen gave it up at the upload or at the POD itself.
SubmitFails(c) ==
  LET k == calls[c] IN
  /\ k.does = "submit" /\ k.live /\ k.pc \notin {"ok", "uploaded"}
  /\ submitting' = FALSE
  /\ err' = IF k.pc \in {"uploading", "not uploaded"} THEN "upload failed, not marked complete" ELSE "failed"
  /\ calls' = [calls EXCEPT ![c] = IF k.pc = "posting" THEN [k EXCEPT !.live = FALSE] ELSE Free]
  /\ UNCHANGED <<server, presses, page, homeShown, tripShown, busy, form, photo, signed, customer, submitted>>

Ended(c) ==
  /\ ~calls[c].live /\ calls[c].pc \in {"refused", "not uploaded"}
       \cup IF calls[c].does = "submit" THEN {} ELSE {"ok"}
  /\ calls' = [calls EXCEPT ![c] = Free] /\ UNCHANGED <<server, presses, driver, customer, submitted>>

-----------------------------------------------------------------------------
(* The backend. *)
To(c, pc) == calls' = [calls EXCEPT ![c].pc = pc]

From(step) == CASE step = "start" -> 1 [] step = "arrive" -> 2 [] step = "unload" -> 3

AdvanceTrip(c) ==
  LET i == From(calls[c].does) IN
  /\ calls[c].pc = "sent" /\ calls[c].does \in {"start", "arrive", "unload"}
  /\ IF load[Mine] = Stages[i] THEN MoveTo(Mine, Stages[i + 1]) /\ To(c, "ok")
     ELSE To(c, IF load[Mine] = Stages[i + 1] THEN "ok" ELSE "refused") /\ UNCHANGED <<order, load>>
  /\ UNCHANGED <<at, pod, presses, driver, customer, submitted>>

\* A photo is accepted only for a trip that is still under way.
UploadPhoto(c) ==
  /\ calls[c].pc = "uploading"
  /\ To(c, IF load[Mine] \in {"ARRIVED", "UNLOADING"} THEN "uploaded" ELSE "not uploaded")
  /\ UNCHANGED <<server, presses, driver, customer, submitted>>

\* Every upload has a path of its own, so no second submission is the same POD.
SubmitPod(c) ==
  LET k == calls[c] IN
  /\ k.pc = "posting"
  /\ IF load[Mine] \in {"ARRIVED", "UNLOADING"}
       THEN /\ pod' = [form |-> k.form, photo |-> k.photo] /\ MoveTo(Mine, "DELIVERED") /\ To(c, "ok")
       ELSE To(c, "refused") /\ UNCHANGED <<pod, load, order>>
  /\ UNCHANGED <<at, presses, driver, customer, submitted>>

-----------------------------------------------------------------------------
(* The customer's home and live tracking. *)
CustomerHomeLoaded ==
  /\ Watched /\ ~watching /\ offered' = (order # "DELIVERED")
  /\ UNCHANGED <<server, calls, presses, driver, watching, data, selected, poll, answer, submitted>>

OpenTracking ==
  /\ ~watching /\ offered
  /\ watching' = TRUE /\ data' = None /\ selected' = None /\ poll' = "asked" /\ answer' = None
  /\ UNCHANGED <<server, calls, presses, driver, offered, submitted>>

CloseTracking ==
  /\ watching /\ watching' = FALSE /\ data' = None /\ selected' = None /\ poll' = "none" /\ answer' = None
  /\ UNCHANGED <<server, calls, presses, driver, offered, submitted>>

TrackOrder ==
  LET active == ActiveLoads(load) # {} \/ order = "DISPATCHED"
      heard == {l \in Loads : at[l] > 0} IN
  /\ poll = "asked"
  /\ poll' = "answered"
  /\ answer' = [active |-> active, status |-> order, loads |-> load, heard |-> heard,
                latest |-> IF active /\ heard # {} THEN CHOOSE l \in heard : \A m \in Loads : at[m] <= at[l]
                         ELSE None]
  /\ UNCHANGED <<server, calls, presses, driver, watching, offered, data, selected, submitted>>

First(loads) == CHOOSE l \in loads : \A m \in loads : l <= m

\* The effect keeps the customer's choice while that load is under way.
Choice(active) == IF active = {} \/ selected \in active THEN selected ELSE First(active)

\* The newest request only, and before the next tick, which would abort it.
TrackLoaded ==
  /\ poll = "answered" /\ poll' = "none" /\ answer' = None
  /\ data' = answer /\ selected' = Choice(ActiveLoads(answer.loads))
  /\ UNCHANGED <<server, calls, presses, driver, watching, offered, submitted>>

TrackFails ==
  /\ poll # "none" /\ poll' = "none" /\ answer' = None
  /\ UNCHANGED <<server, calls, presses, driver, watching, offered, data, selected, submitted>>

\* Shown when the first request failed.
Retry ==
  /\ watching /\ data = None /\ poll = "none" /\ poll' = "asked"
  /\ UNCHANGED <<server, calls, presses, driver, watching, offered, data, selected, answer, submitted>>

\* Mutant: polling follows the loads under way instead of the order.
Moving == data # None /\ ActiveLoads(data.loads) # {}

Polling == data # None /\ data.active

Tick ==
  /\ watching /\ Polling /\ poll' = "asked" /\ answer' = None
  /\ UNCHANGED <<server, calls, presses, driver, watching, offered, data, selected, submitted>>

SelectLoad(l) ==
  /\ watching /\ data # None /\ Cardinality(ActiveLoads(data.loads)) > 1 /\ l \in ActiveLoads(data.loads)
  /\ selected' = l
  /\ UNCHANGED <<server, calls, presses, driver, watching, offered, data, poll, answer, submitted>>

\* The load the screen names, and the mixer whose position and time of arrival it shows.
Named ==
  IF data = None \/ ActiveLoads(data.loads) = {} THEN None
  ELSE IF selected \in ActiveLoads(data.loads) THEN selected ELSE First(ActiveLoads(data.loads))
Mixer == IF Named # None /\ Named \in data.heard THEN Named ELSE IF data = None THEN None ELSE data.latest

Next ==
  \/ HomeLoaded \/ OpenTrip \/ TripLoaded \/ BackHome \/ Advance \/ OpenPod \/ ClosePod
  \/ RemovePhoto \/ Sign \/ Submit \/ (\E f \in Forms : TypeForm(f)) \/ (\E p \in Photos : PickImage(p))
  \/ CustomerHomeLoaded \/ OpenTracking \/ CloseTracking \/ TrackOrder \/ TrackLoaded \/ TrackFails \/ Retry \/ Tick
  \/ \E l \in Loads : DispatchLoad(l) \/ OtherDriver(l) \/ PostLocation(l) \/ SelectLoad(l)
  \/ \E c \in Calls :
       \/ AdvanceAnswered(c, TRUE) \/ AdvanceAnswered(c, FALSE) \/ UploadEnds(c) \/ SubmitSucceeds(c)
       \/ SubmitFails(c) \/ Ended(c) \/ AdvanceTrip(c) \/ UploadPhoto(c) \/ SubmitPod(c)

\* The timer ticks while the screen is there, and requests get through and their
\* answers arrive before the next tick again and again.
Fairness == WF_vars(Tick) /\ SF_vars(TrackOrder) /\ SF_vars(TrackLoaded)

Spec == Init /\ [][Next]_vars /\ Fairness

-----------------------------------------------------------------------------
\* The proof of delivery of a load is what the receiver had signed for when the
\* driver pressed Submit, whatever was edited while the photo was uploaded and
\* whichever of several submissions came through.
PodAsSubmitted == pod # None => <<pod.form, pod.photo>> \in submitted

\* A customer who follows an active delivery sees its end, also when the loads
\* come one after another with nothing on the road between them.
DeliveryIsSeen ==
  (watching /\ Polling /\ order = "DELIVERED") ~> (~watching \/ (data # None /\ data.status = "DELIVERED"))

\* The position shown under a load's name is that load's mixer's.
ShownMixerIsNamed == Named # None => Mixer \in {None, Named}

\* "Site photo upload failed. Delivery was not marked complete."
FailedMeansUndelivered == err = "upload failed, not marked complete" => load[Mine] # "DELIVERED"
=============================================================================
