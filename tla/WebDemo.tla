------------------------------- MODULE WebDemo -------------------------------
(***************************************************************************)
(* The web demonstration (src/App.tsx and its components): one page whose  *)
(* state is in App, with a view for each role and three modal windows that *)
(* cover the page.  Nothing is sent anywhere; what makes it hard is state  *)
(* that outlives what it was made for: a form that keeps the values of the *)
(* order it was opened for before, an interval that moves a truck, a       *)
(* batching timer that fires after its view is gone.                       *)
(*                                                                         *)
(* Of the forms' values the model keeps where they come from; prices,      *)
(* names, gauges and the planner's arithmetic are data.                    *)
(***************************************************************************)
EXTENDS Sequences, SequencesExt

CONSTANTS
  None,
  Mock,     \* the orders of mockData a behaviour follows, in their order; the others stay
  New,      \* bound: the orders that may be created
  Roles,    \* bound: the roles switched to
  Stages,   \* bound: the stages pressed
  MaxProofs \* bound: proofs submitted

Ids == ToSet(Mock) \cup New

\* mockData: ord-101 is on the road, ord-102 is mixed, ord-103 has its proof.
MockStatus(o) ==
  CASE o = "ord-101" -> "DISPATCHED"
    [] o = "ord-102" -> "BATCHING"
    [] o = "ord-103" -> "DELIVERED"
    [] OTHER -> "CONFIRMED"

VARIABLES
  currentRole, tab,
  orders, status,
  pod,        \* order -> the values of its proof, or None
  telemetry,  \* order -> how far its truck is
  selected,   \* CustomerView's selectedOrderId
  tracker,    \* LiveTracker: mounted, its interval running
  booking,    \* the order modal is open
  bookingForm,\* what its volume field holds
  challan,    \* the order of the challan modal, or None
  podOrder,   \* the order of the proof modal, or None
  form,       \* the proof modal's fields, which stay when it closes
  edited,     \* ghost: a field was changed since the modal was opened
  proofs,     \* proofs submitted
  batching,
  cycles      \* batching timers: those of the view on the page, and orphans

page == <<currentRole, tab, selected, tracker>>
data == <<orders, status, pod, telemetry>>
proof == <<podOrder, form, edited, proofs>>
timers == <<batching, cycles>>
vars == <<page, data, booking, bookingForm, challan, proof, timers>>

Covered == booking \/ challan # None \/ podOrder # None

\* The order the customer's view shows.
Active(sel) == IF sel \in ToSet(orders) THEN sel ELSE orders[1]

Preset == [quantity |-> <<None, "preset">>, rest |-> <<None, "preset">>]

\* The effect's interval runs while the order on display is on the road.
Interval(o, st) == st[o] = "DISPATCHED"

Off == [on |-> FALSE, moving |-> FALSE]
Mounted(o, st) == [on |-> TRUE, moving |-> Interval(o, st)]

\* Mutant: the effect runs when the tracker is mounted, and never again.
TrackOnce(o, st) == tracker

\* The tracker is one component for every order: it keeps its figures, and its
\* effect runs again when the status it sees is another one.
Track(o, st) == IF tracker.on THEN [tracker EXCEPT !.moving = Interval(o, st)] ELSE tracker

Init ==
  /\ currentRole = "customer" /\ tab = "orders"
  /\ orders = Mock
  /\ status = [o \in Ids |-> MockStatus(o)]
  /\ pod = [o \in Ids |-> IF o = "ord-103" THEN [quantity |-> <<o, "signed">>, rest |-> <<o, "signed">>]
                                           ELSE None]
  /\ telemetry = [o \in Ids |-> IF o = "ord-101" THEN "way" ELSE "none"]
  /\ selected = Mock[1] /\ tracker = Mounted(Mock[1], status)
  /\ booking = FALSE /\ bookingForm = "whole" /\ challan = None
  /\ podOrder = None /\ form = Preset /\ edited = FALSE
  /\ proofs = 0 /\ batching = FALSE /\ cycles = [here |-> None, orphans |-> {}]

-----------------------------------------------------------------------------
(* Views. *)

\* Leaving the plant's view leaves its timer running, without the view.
Abandoned ==
  IF cycles.here = None THEN cycles
  ELSE [here |-> None, orphans |-> cycles.orphans \cup {cycles.here}]

\* Navbar.  A view that comes onto the page starts with its initial state.
SelectRole(r) ==
  /\ ~Covered /\ r # currentRole /\ currentRole' = r
  /\ tab' = "orders" /\ selected' = orders[1]
  /\ tracker' = IF r = "customer" THEN Mounted(orders[1], status) ELSE Off
  /\ batching' = FALSE /\ cycles' = Abandoned
  /\ UNCHANGED <<data, booking, bookingForm, challan, proof>>

\* CustomerView's tabs.
SelectTab(t) ==
  /\ ~Covered /\ currentRole = "customer" /\ t # tab /\ tab' = t
  /\ tracker' = IF t = "orders" THEN Mounted(Active(selected), status) ELSE Off
  /\ UNCHANGED <<currentRole, selected, data, booking, bookingForm, challan, proof, timers>>

\* CustomerView's list.
SelectOrder(o) ==
  /\ ~Covered /\ tracker.on /\ o \in ToSet(orders) /\ selected' = o
  /\ tracker' = Track(o, status)
  /\ UNCHANGED <<currentRole, tab, data, booking, bookingForm, challan, proof, timers>>

-----------------------------------------------------------------------------
(* Orders. *)

\* handleUpdateOrderStatus.
SetStatus(o, s) ==
  /\ status' = [status EXCEPT ![o] = s]
  /\ telemetry' = [telemetry EXCEPT ![o] =
       IF @ = "none" THEN @
       ELSE IF s = "DISPATCHED" THEN "half"
       ELSE IF s \in {"ON_SITE", "POURING", "DELIVERED"} THEN "site" ELSE @]
  /\ tracker' = Track(Active(selected), status')
  /\ UNCHANGED <<orders, pod>>

\* LiveTracker's stages are buttons, whatever the order's status is, and so is
\* the simulated arrival.
PressStage(s) ==
  /\ ~Covered /\ tracker.on
  /\ SetStatus(Active(selected), s)
  /\ UNCHANGED <<currentRole, tab, selected, booking, bookingForm, challan, proof, timers>>

\* The trip DriverView shows: the newest order that is not delivered.
Trip ==
  LET open == SelectSeq(orders, LAMBDA o : status[o] # "DELIVERED")
  IN IF open = <<>> THEN orders[1] ELSE open[1]

\* DriverView's stepper.
AdvanceTrip(s) ==
  /\ ~Covered /\ currentRole = "driver" 
  /\ SetStatus(Trip, s)
  /\ UNCHANGED <<currentRole, tab, selected, booking, bookingForm, challan, proof, timers>>

\* PlantOperationsView: batching is simulated by a timer.  Bound: one orphan
\* timer of an order.
StartBatchingCycle(o) ==
  /\ ~Covered /\ currentRole = "plant_owner"
  /\ o \in ToSet(orders) /\ status[o] = "CONFIRMED" /\ ~batching
  /\ o \notin cycles.orphans
  /\ batching' = TRUE /\ cycles' = [cycles EXCEPT !.here = o]
  /\ SetStatus(o, "BATCHING")
  /\ UNCHANGED <<currentRole, tab, selected, booking, bookingForm, challan, proof>>

\* The timer dispatches the order whatever became of it, under any window.
CycleEnds(o) ==
  /\ \/ o = cycles.here /\ cycles' = [cycles EXCEPT !.here = None] /\ batching' = FALSE
     \/ /\ o \in cycles.orphans
        /\ cycles' = [cycles EXCEPT !.orphans = @ \ {o}] /\ UNCHANGED batching
  /\ SetStatus(o, "DISPATCHED")
  /\ UNCHANGED <<currentRole, tab, selected, booking, bookingForm, challan, proof>>

-----------------------------------------------------------------------------
(* The order modal. *)

\* The requisition buttons of the navigation bar and of CustomerView open it with
\* no data: its fields keep what they held.
OpenNewOrder ==
  /\ ~Covered /\ booking' = TRUE
  /\ UNCHANGED <<page, data, bookingForm, challan, proof, timers>>

\* PourPlanner: the planned volume, whole or not, fills the field.
ApplyCalculation ==
  /\ ~Covered /\ currentRole = "customer" /\ tab = "planner"
  /\ booking' = TRUE /\ bookingForm' \in {"whole", "fraction"}
  /\ tab' = "orders" /\ tracker' = Mounted(Active(selected), status)
  /\ UNCHANGED <<currentRole, selected, data, challan, proof, timers>>

\* Typing in the field makes its volume whole.
TypeVolume ==
  /\ booking /\ bookingForm # "whole" /\ bookingForm' = "whole"
  /\ UNCHANGED <<page, data, booking, challan, proof, timers>>

CloseBooking ==
  /\ booking /\ booking' = FALSE
  /\ UNCHANGED <<page, data, bookingForm, challan, proof, timers>>

\* The browser refuses a fraction in a field whose step is 1.
CreateOrder(o) ==
  /\ booking /\ bookingForm = "whole" /\ o \in New \ ToSet(orders)
  /\ booking' = FALSE
  /\ orders' = <<o>> \o orders
  /\ status' = [status EXCEPT ![o] = "CONFIRMED"]
  /\ telemetry' = [telemetry EXCEPT ![o] = "start"]
  /\ UNCHANGED <<page, pod, bookingForm, challan, proof, timers>>

-----------------------------------------------------------------------------
(* The challan and the proof of delivery. *)

Clickable(o) ==
  \/ tracker.on /\ o \in ToSet(orders)
  \/ currentRole = "driver" /\ o = Trip

OpenChallan(o) ==
  /\ ~Covered /\ (Clickable(o) \/ (currentRole = "plant_owner" /\ o \in ToSet(orders)))
  /\ challan' = o /\ UNCHANGED <<page, data, booking, bookingForm, proof, timers>>

CloseChallan ==
  /\ challan # None /\ challan' = None
  /\ UNCHANGED <<page, data, booking, bookingForm, proof, timers>>

\* Mutant: the effect fills the fields of a signed proof only.
FilledSigned(o) == IF pod[o] # None THEN pod[o] ELSE form

\* Mutant: the effect looks at the order only.
FilledOrdered(o) == [form EXCEPT !.quantity = <<o, "ordered">>]

\* The modal's effect on its order: a signed proof fills every field, another
\* order only the volume; the others keep what they held.
Filled(o) ==
  IF pod[o] # None THEN pod[o] ELSE [form EXCEPT !.quantity = <<o, "ordered">>]

OpenPod(o) ==
  /\ ~Covered /\ Clickable(o) /\ podOrder' = o
  /\ form' = Filled(o) /\ edited' = FALSE
  /\ UNCHANGED <<page, data, booking, bookingForm, challan, proofs, timers>>

EditPod(f) ==
  /\ podOrder # None /\ form[f] # <<podOrder, "typed">>
  /\ form' = [form EXCEPT ![f] = <<podOrder, "typed">>] /\ edited' = TRUE
  /\ UNCHANGED <<page, data, booking, bookingForm, challan, podOrder, proofs, timers>>

ClosePod ==
  /\ podOrder # None /\ podOrder' = None /\ edited' = FALSE /\ UNCHANGED proofs
  /\ UNCHANGED <<page, data, booking, bookingForm, challan, form, timers>>

\* handleSubmitPOD, then the modal closes.
SubmitPod ==
  /\ podOrder # None /\ podOrder' = None /\ edited' = FALSE
  /\ proofs < MaxProofs /\ proofs' = proofs + 1
  /\ pod' = [pod EXCEPT ![podOrder] = form]
  /\ status' = [status EXCEPT ![podOrder] = "DELIVERED"]
  /\ tracker' = Track(Active(selected), status')
  /\ UNCHANGED <<currentRole, tab, selected, orders, telemetry, booking, bookingForm,
                 challan, form, timers>>

Next ==
  \/ \E r \in Roles : SelectRole(r)
  \/ \E t \in {"orders", "planner"} : SelectTab(t)
  \/ (\E s \in Stages : PressStage(s)) \/ \E s \in {"DISPATCHED", "ON_SITE"} : AdvanceTrip(s)
  \/ \E o \in Ids : \/ SelectOrder(o) \/ StartBatchingCycle(o) \/ CycleEnds(o)
                    \/ CreateOrder(o) \/ OpenChallan(o) \/ OpenPod(o)
  \/ OpenNewOrder \/ ApplyCalculation \/ TypeVolume \/ CloseBooking
  \/ CloseChallan \/ (\E f \in {"quantity", "rest"} : EditPod(f)) \/ ClosePod \/ SubmitPod

Spec == Init /\ [][Next]_vars

-----------------------------------------------------------------------------
\* The volume that a proof records was ordered, typed or signed for that order:
\* the modal, which keeps its fields, brings none from the order before.
VolumeOfItsOrder == \A o \in Ids : pod[o] # None => pod[o].quantity[1] = o

\* Confirming a signed proof without touching a field leaves it as it was signed,
\* though other orders' proofs went through the same fields in between.
Unedited == podOrder # None /\ ~edited /\ pod[podOrder] # None
SignedProofStands == [][Unedited => UNCHANGED pod]_vars

\* The truck on the customer's page moves by itself exactly while the order shown
\* is on the road, whoever changed its status: the customer, the driver, a proof
\* of delivery or a batching timer.
MovesOnTheRoad == tracker.on => (tracker.moving <=> status[Active(selected)] = "DISPATCHED")
=============================================================================
