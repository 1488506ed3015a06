--------------------------- MODULE LoadFulfilment ---------------------------
(***************************************************************************)
(* One produced order carried to the site in several mixer loads: planning, *)
(* assignment, preparation, gate pass and dispatch (backend/routers/loads.py), *)
(* the driver's trip and proof of delivery (backend/routers/driver.py), the *)
(* reconciliation of the parent order (backend/delivery_service.py), its   *)
(* status transitions (backend/order_service.py) and its cancellation by   *)
(* the customer (backend/routers/customer.py).                             *)
(*                                                                         *)
(* A call is one request being served.  Its pc names the MongoDB call that *)
(* comes next; what it read before is in its record and may be out of date. *)
(* A request whose first read makes it return at once is not a step.       *)
(***************************************************************************)
EXTENDS Integers, Sequences, FiniteSets, Functions, OrderStates

CONSTANTS
  Loads, Vehicles, Drivers,
  Calls,            \* requests served at the same time
  Requests,         \* the kinds of request that are made
  Pairs,            \* the mixers and drivers planners put together
  Prepared,         \* loads that are ready to dispatch when the behaviour begins
  NoLoad, NoVehicle, NoDriver,
  Quantity,         \* quantity_m3 of each load, in hundredths of the order unit
  Ordered,          \* orders.quantity
  Produced,         \* sum of the production batches; production is over
  PodQuantities,    \* delivered quantities a driver may report
  Faults            \* which of "crash" and "database" may happen, once

ASSUME LoadAssumption ==
  /\ NoLoad \notin Loads /\ NoVehicle \notin Vehicles /\ NoDriver \notin Drivers
  /\ IsFiniteSet(Loads) /\ Quantity \in [Loads -> Nat \ {0}]
  /\ Ordered \in Nat \ {0} /\ Produced \in Nat
  /\ PodQuantities \subseteq Nat \ {0}
  /\ Faults \subseteq {"crash", "database"}
  /\ Pairs \subseteq Vehicles \X Drivers /\ Prepared \subseteq Loads
  /\ SumFunctionOnSet(Quantity, Prepared) <= Ordered

VARIABLES
  status,    \* orders.status
  counted,   \* orders.delivered_quantity, as the PODs it is the sum of
  finals,    \* ghost: DELIVERED rows written to the history (saturates at 2)
  load,      \* order_loads
  trip,      \* driver_trips by load (unique_driver_trip_per_load)
  challan,   \* loads with a challan (unique_challan_per_load)
  gatePass,  \* loads with a gate pass (unique load_id)
  mixer,     \* vehicles
  pod,       \* proof_of_delivery by trip: the delivered quantity, 0 for none
  calls,     \* the requests being served
  fault,     \* ghost: the fault that has happened, or "none"
  undone     \* ghost: loads whose proof of delivery has been taken back

order == <<status, counted, finals>>
papers == <<challan, gatePass>>
ghosts == <<fault, undone>>
vars == <<status, counted, finals, load, trip, challan, gatePass, mixer, pod, calls, fault, undone>>

-----------------------------------------------------------------------------
(* Documents.                                                              *)

LoadStates == {"ABSENT", "PLANNED", "ASSIGNED", "READY_TO_DISPATCH", "DISPATCHED",
               "EN_ROUTE", "ARRIVED", "UNLOADING", "DELIVERED", "CANCELLED", "DELETED"}
TripStates == {"NONE", "ASSIGNED", "DISPATCHED", "EN_ROUTE", "ARRIVED", "UNLOADING",
               "POD_FINALIZING", "DELIVERED"}

\* Statuses the code compares with but writes to no load or trip of a load
\* (DECLINED, ACCEPTED, LOADING, POD_PENDING) are left out.
TERMINAL_LOADS == {"DELIVERED", "CANCELLED"}
Assignable == {"PLANNED", "ASSIGNED"}
ACTIVE_TRIP_STATUSES == TripStates \ {"NONE", "DELIVERED"}
Preparable == {"PRODUCTION_COMPLETE", "TM_ASSIGNED", "DRIVER_ASSIGNED",
               "READY_TO_DISPATCH", "DISPATCHED"}
PodStates == {"UNLOADING", "ARRIVED"}
OnRoad == {"DISPATCHED", "EN_ROUTE", "ARRIVED", "UNLOADING", "DELIVERED"}

AbsentLoad == [status |-> "ABSENT", vehicle |-> NoVehicle, driver |-> NoDriver]
NoTrip == [status |-> "NONE", vehicle |-> NoVehicle, driver |-> NoDriver]

\* STEP_MAP: the trip statuses a driver's step starts from, and where it leads.
Steps == {"start", "arrive", "unload"}
StepFrom == [s \in Steps |-> CASE s = "start" -> {"DISPATCHED", "ASSIGNED"}
                               [] s = "arrive" -> {"EN_ROUTE"}
                               [] OTHER -> {"ARRIVED"}]
StepTo == [s \in Steps |-> CASE s = "start" -> "EN_ROUTE"
                             [] s = "arrive" -> "ARRIVED"
                             [] OTHER -> "UNLOADING"]

Exists == {l \in Loads : load[l].status \notin {"ABSENT", "DELETED"}}
Live == {l \in Exists : load[l].status # "CANCELLED"}
Committed == {l \in Live : load[l].status \notin Assignable}

Planned == SumFunctionOnSet(Quantity, Live)
Total(pods) == SumFunctionOnSet(pods, Loads)

\* delivered >= 98 % of the ordered quantity
Enough(pods) == 100 * Total(pods) >= 98 * Ordered

-----------------------------------------------------------------------------
(* Requests.                                                               *)

\* l, vehicle, driver, quantity: the request's arguments; seenLoad, seenOrder,
\* seenTrip, seenPods: what it has read; step: of the driver; todo: transitions
\* still to make; put: whether it made the load DELIVERED.
Idle == [pc |-> "idle", l |-> NoLoad, vehicle |-> NoVehicle, driver |-> NoDriver,
         quantity |-> 0, seenLoad |-> AbsentLoad, seenOrder |-> "NONE", seenTrip |-> "NONE",
         seenPods |-> [l \in Loads |-> 0], step |-> "start", todo |-> <<>>, put |-> FALSE]

\* No two prepared loads share a mixer or a driver.
Crews == {crew \in [Prepared -> Pairs] :
            \A l, o \in Prepared : l # o => /\ crew[l][1] # crew[o][1]
                                            /\ crew[l][2] # crew[o][2]}

\* The prepared loads have a trip and a challan and lack a gate pass.
Init ==
  \E crew \in Crews :
    LET as(s, l) == [status |-> s, vehicle |-> crew[l][1], driver |-> crew[l][2]]
        on(v) == {l \in Prepared : crew[l][1] = v} IN
    /\ status = IF Prepared = {} THEN "PRODUCTION_COMPLETE" ELSE "READY_TO_DISPATCH"
    /\ counted = [l \in Loads |-> 0]
    /\ finals = 0
    /\ load = [l \in Loads |-> IF l \in Prepared THEN as("READY_TO_DISPATCH", l) ELSE AbsentLoad]
    /\ trip = [l \in Loads |-> IF l \in Prepared THEN as("ASSIGNED", l) ELSE NoTrip]
    /\ challan = Prepared /\ gatePass = {}
    /\ mixer = [v \in Vehicles |->
         IF on(v) = {} THEN [status |-> "available", load |-> NoLoad]
         ELSE [status |-> "loading", load |-> CHOOSE l \in on(v) : TRUE]]
    /\ pod = [l \in Loads |-> 0]
    /\ calls = [c \in Calls |-> Idle]
    /\ fault = "none" /\ undone = {}

At(c, pc) == calls[c].pc = pc
Become(c, r) == calls' = [calls EXCEPT ![c] = r]
Goto(c, pc) == Become(c, [calls[c] EXCEPT !.pc = pc])
End(c) == Become(c, Idle)
\* Go on if the check passes, otherwise raise.
Check(c, ok, pc) == IF ok THEN Goto(c, pc) ELSE End(c)

Data == <<status, counted, finals, load, trip, challan, gatePass, mixer, pod, fault, undone>>

SetLoad(l, s) == load' = [load EXCEPT ![l].status = s]
SetTrip(l, s) == trip' = [trip EXCEPT ![l].status = s]

-----------------------------------------------------------------------------
(* Planning: create_order_load, assign_load, cancel_load.                  *)

StartCreate(c, l, p) ==
  /\ "create" \in Requests
  /\ At(c, "idle")
  /\ load[l].status = "ABSENT"
  /\ \A d \in Calls : calls[d].l # l
  /\ status \notin TERMINAL
  /\ Become(c, [Idle EXCEPT !.pc = "planned", !.l = l, !.vehicle = p[1], !.driver = p[2]])
  /\ UNCHANGED Data

CheckPlanned(c) ==
  /\ At(c, "planned")
  /\ Check(c, Planned + Quantity[calls[c].l] <= Ordered,
           IF calls[c].vehicle = NoVehicle THEN "insert" ELSE "validate")
  /\ UNCHANGED Data

StartAssign(c, l, p) ==
  /\ "assign" \in Requests
  /\ At(c, "idle")
  /\ load[l].status \in Assignable
  /\ Become(c, [Idle EXCEPT !.pc = "validate", !.l = l, !.vehicle = p[1], !.driver = p[2]])
  /\ UNCHANGED Data

\* _validate_assignment: the mixer has no other load under way.
ValidateAssignment(c) ==
  LET l == calls[c].l IN
  /\ At(c, "validate")
  /\ Check(c, \A o \in Exists \ {l} : load[o].vehicle = calls[c].vehicle
                                        => load[o].status \in TERMINAL_LOADS,
           IF load[l].status = "ABSENT" THEN "insert" ELSE "assign")
  /\ UNCHANGED Data

InsertLoad(c) ==
  /\ At(c, "insert")
  /\ load' = [load EXCEPT ![calls[c].l] =
       [status |-> IF calls[c].vehicle = NoVehicle THEN "PLANNED" ELSE "ASSIGNED",
        vehicle |-> calls[c].vehicle, driver |-> calls[c].driver]]
  /\ Goto(c, "recount")
  /\ UNCHANGED <<order, trip, papers, mixer, pod, ghosts>>

\* Mutant: the recount is skipped.
RecountNever(c) ==
  /\ At(c, "recount")
  /\ End(c)
  /\ UNCHANGED Data

\* The sum is taken again after the insert: a load too many is removed.
Recount(c) ==
  /\ At(c, "recount")
  /\ Check(c, Planned > Ordered, "delete")
  /\ UNCHANGED Data

DeleteLoad(c) ==
  /\ At(c, "delete")
  /\ SetLoad(calls[c].l, "DELETED")
  /\ End(c)
  /\ UNCHANGED <<order, trip, papers, mixer, pod, ghosts>>

AssignLoad(c) ==
  LET l == calls[c].l IN
  /\ At(c, "assign")
  /\ load' = IF load[l].status \in Assignable
             THEN [load EXCEPT ![l] = [status |-> "ASSIGNED", vehicle |-> calls[c].vehicle,
                                       driver |-> calls[c].driver]]
             ELSE load
  /\ End(c)
  /\ UNCHANGED <<order, trip, papers, mixer, pod, ghosts>>

StartCancelLoad(c, l) ==
  /\ "cancelLoad" \in Requests
  /\ At(c, "idle")
  /\ load[l].status \in Assignable
  /\ Become(c, [Idle EXCEPT !.pc = "cancelLoad", !.l = l])
  /\ UNCHANGED Data

CancelLoad(c) ==
  LET l == calls[c].l IN
  /\ At(c, "cancelLoad")
  /\ IF load[l].status \in Assignable THEN SetLoad(l, "CANCELLED") ELSE UNCHANGED load
  /\ End(c)
  /\ UNCHANGED <<order, trip, papers, mixer, pod, ghosts>>

-----------------------------------------------------------------------------
(* transition_order, for a sequence of targets.                            *)

\* Cancelling an order goes on to its loads; every other caller returns.
Transit(c, r, todo) ==
  Become(c, IF todo # <<>> THEN [r EXCEPT !.pc = "transit", !.todo = todo]
            ELSE IF r.todo = <<"CANCELLED">> THEN [r EXCEPT !.pc = "cancelLoads"]
            ELSE Idle)

\* The order is there already, may move there, or the transition raises.
ReadOrder(c) ==
  LET target == Head(calls[c].todo) IN
  /\ At(c, "transit")
  /\ IF status = target THEN Transit(c, calls[c], Tail(calls[c].todo))
     ELSE IF can_transition(status, target)
     THEN Become(c, [calls[c] EXCEPT !.pc = "swap", !.seenOrder = status])
     ELSE End(c)
  /\ UNCHANGED Data

\* Mutant: the update does not compare the status it was decided from.
SwapStatusBlind(c) ==
  /\ At(c, "swap")
  /\ status' = Head(calls[c].todo)
  /\ Transit(c, calls[c], Tail(calls[c].todo))
  /\ UNCHANGED <<counted, finals, load, trip, papers, mixer, pod, ghosts>>

SwapStatus(c) ==
  /\ At(c, "swap")
  /\ IF status = calls[c].seenOrder
     THEN status' = Head(calls[c].todo) /\ Transit(c, calls[c], Tail(calls[c].todo))
     ELSE UNCHANGED status /\ Goto(c, "reread")
  /\ UNCHANGED <<counted, finals, load, trip, papers, mixer, pod, ghosts>>

\* Lost the race: fine if somebody else got there, otherwise raise.
RereadOrder(c) ==
  /\ At(c, "reread")
  /\ IF status = Head(calls[c].todo) THEN Transit(c, calls[c], Tail(calls[c].todo)) ELSE End(c)
  /\ UNCHANGED Data

\* The customer's cancel: no load may be prepared when it starts.
StartCancelOrder(c) ==
  /\ "cancelOrder" \in Requests
  /\ At(c, "idle")
  /\ Committed = {}
  /\ Transit(c, Idle, <<"CANCELLED">>)
  /\ UNCHANGED Data

CancelLoads(c) ==
  /\ At(c, "cancelLoads")
  /\ load' = [l \in Loads |-> IF load[l].status \in Assignable
                              THEN [load[l] EXCEPT !.status = "CANCELLED"] ELSE load[l]]
  /\ End(c)
  /\ UNCHANGED <<order, trip, papers, mixer, pod, ghosts>>

-----------------------------------------------------------------------------
(* prepare_load.                                                           *)

StartPrepare(c, l) ==
  /\ "prepare" \in Requests
  /\ At(c, "idle")
  /\ load[l].status = "ASSIGNED"
  /\ Become(c, [Idle EXCEPT !.pc = "preparable", !.l = l, !.seenLoad = load[l]])
  /\ UNCHANGED Data

CheckPreparable(c) ==
  /\ At(c, "preparable")
  /\ Become(c, IF status \in Preparable
               THEN [calls[c] EXCEPT !.pc = "produced", !.seenOrder = status] ELSE Idle)
  /\ UNCHANGED Data

\* The loads under way and this one must not exceed 102 % of what was produced.
CheckProduced(c) ==
  LET l == calls[c].l IN
  /\ At(c, "produced")
  /\ Check(c, 100 * (SumFunctionOnSet(Quantity, Committed \ {l}) + Quantity[l]) <= 102 * Produced,
           "free")
  /\ UNCHANGED Data

CheckMixer(c) ==
  LET v == calls[c].seenLoad.vehicle IN
  /\ At(c, "free")
  /\ Check(c, mixer[v].status \in {"available", "loading"} \/ mixer[v].load = calls[c].l, "driver")
  /\ UNCHANGED Data

CheckDriver(c) ==
  /\ At(c, "driver")
  /\ Check(c, \A o \in Loads \ {calls[c].l} :
                trip[o].driver = calls[c].seenLoad.driver => trip[o].status \notin ACTIVE_TRIP_STATUSES,
           "findTrip")
  /\ UNCHANGED Data

FindTrip(c) ==
  /\ At(c, "findTrip")
  /\ Goto(c, IF trip[calls[c].l] = NoTrip THEN "trip" ELSE "findChallan")
  /\ UNCHANGED Data

\* The unique index makes the second insert for a load raise.
InsertTrip(c) ==
  LET l == calls[c].l  seen == calls[c].seenLoad IN
  /\ At(c, "trip")
  /\ IF trip[l] = NoTrip
     THEN /\ trip' = [trip EXCEPT ![l] = [status |-> "ASSIGNED", vehicle |-> seen.vehicle,
                                          driver |-> seen.driver]]
          /\ Goto(c, "findChallan")
     ELSE UNCHANGED trip /\ End(c)
  /\ UNCHANGED <<order, load, papers, mixer, pod, ghosts>>

FindChallan(c) ==
  /\ At(c, "findChallan")
  /\ Goto(c, IF calls[c].l \in challan THEN "mixer" ELSE "challan")
  /\ UNCHANGED Data

InsertChallan(c) ==
  /\ At(c, "challan")
  /\ challan' = challan \union {calls[c].l}
  /\ Check(c, calls[c].l \notin challan, "mixer")
  /\ UNCHANGED <<order, load, trip, gatePass, mixer, pod, ghosts>>

TakeMixer(c) ==
  /\ At(c, "mixer")
  /\ mixer' = [mixer EXCEPT ![calls[c].seenLoad.vehicle] = [status |-> "loading", load |-> calls[c].l]]
  /\ Goto(c, "ready")
  /\ UNCHANGED <<order, load, trip, papers, pod, ghosts>>

\* The transitions that lead the order seen at the start to READY_TO_DISPATCH.
ToReady(s) ==
  CASE s = "PRODUCTION_COMPLETE" -> <<"TM_ASSIGNED", "DRIVER_ASSIGNED", "READY_TO_DISPATCH">>
    [] s = "TM_ASSIGNED" -> <<"DRIVER_ASSIGNED", "READY_TO_DISPATCH">>
    [] s = "DRIVER_ASSIGNED" -> <<"READY_TO_DISPATCH">>
    [] OTHER -> <<>>

ClaimReady(c) ==
  LET l == calls[c].l IN
  /\ At(c, "ready")
  /\ IF load[l].status = "ASSIGNED"
     THEN SetLoad(l, "READY_TO_DISPATCH") /\ Transit(c, calls[c], ToReady(calls[c].seenOrder))
     ELSE UNCHANGED load /\ End(c)
  /\ UNCHANGED <<order, trip, papers, mixer, pod, ghosts>>

-----------------------------------------------------------------------------
(* create_gate_pass and dispatch_load.                                     *)

StartGatePass(c, l) ==
  /\ "gatePass" \in Requests
  /\ At(c, "idle")
  /\ load[l].status \in OnRoad \union {"READY_TO_DISPATCH"}
  /\ l \notin gatePass
  /\ Become(c, [Idle EXCEPT !.pc = "gatePass", !.l = l])
  /\ UNCHANGED Data

IssueGatePass(c) ==
  /\ At(c, "gatePass")
  /\ gatePass' = gatePass \union {calls[c].l}
  /\ End(c)
  /\ UNCHANGED <<order, load, trip, challan, mixer, pod, ghosts>>

StartDispatch(c, l) ==
  /\ "dispatch" \in Requests
  /\ At(c, "idle")
  /\ load[l].status = "READY_TO_DISPATCH"
  /\ Become(c, [Idle EXCEPT !.pc = "dispatchable", !.l = l, !.seenLoad = load[l]])
  /\ UNCHANGED Data

CheckDispatchable(c) ==
  /\ At(c, "dispatchable")
  /\ Become(c, IF status \in {"READY_TO_DISPATCH", "DISPATCHED"}
               THEN [calls[c] EXCEPT !.pc = "papers", !.seenOrder = status] ELSE Idle)
  /\ UNCHANGED Data

\* Trip, challan and gate pass are never taken away: one read stands for three.
CheckPapers(c) ==
  LET l == calls[c].l IN
  /\ At(c, "papers")
  /\ Check(c, trip[l] # NoTrip /\ trip[l].driver = calls[c].seenLoad.driver
              /\ l \in challan \intersect gatePass,
           "dispatch")
  /\ UNCHANGED Data

ClaimDispatch(c) ==
  LET l == calls[c].l IN
  /\ At(c, "dispatch")
  /\ IF load[l].status = "READY_TO_DISPATCH" THEN SetLoad(l, "DISPATCHED") /\ Goto(c, "dispatchTrip")
     ELSE UNCHANGED load /\ End(c)
  /\ UNCHANGED <<order, trip, papers, mixer, pod, ghosts>>

\* Written whatever the driver has done meanwhile.
DispatchTrip(c) ==
  /\ At(c, "dispatchTrip")
  /\ SetTrip(calls[c].l, "DISPATCHED")
  /\ Goto(c, "dispatchMixer")
  /\ UNCHANGED <<order, load, papers, mixer, pod, ghosts>>

DispatchMixer(c) ==
  LET v == calls[c].seenLoad.vehicle IN
  /\ At(c, "dispatchMixer")
  /\ mixer' = IF mixer[v].load = calls[c].l THEN [mixer EXCEPT ![v].status = "dispatched"] ELSE mixer
  /\ Transit(c, calls[c], IF calls[c].seenOrder = "READY_TO_DISPATCH" THEN <<"DISPATCHED">> ELSE <<>>)
  /\ UNCHANGED <<order, load, trip, papers, pod, ghosts>>

-----------------------------------------------------------------------------
(* The driver's steps: _advance.                                           *)

StartAdvance(c, l, s) ==
  /\ s \in Requests
  /\ At(c, "idle")
  /\ trip[l].status \in StepFrom[s]
  /\ Become(c, [Idle EXCEPT !.pc = "myLoad", !.l = l, !.step = s, !.seenTrip = trip[l].status])
  /\ UNCHANGED Data

\* The load must still be this driver's.
ReadMyLoad(c) ==
  LET l == calls[c].l IN
  /\ At(c, "myLoad")
  /\ Become(c, IF load[l].driver = trip[l].driver
               THEN [calls[c] EXCEPT !.pc = "step", !.seenLoad = load[l]] ELSE Idle)
  /\ UNCHANGED Data

StepTrip(c) ==
  LET l == calls[c].l  s == calls[c].step IN
  /\ At(c, "step")
  /\ IF trip[l].status \in StepFrom[s] THEN SetTrip(l, StepTo[s]) /\ Goto(c, "stepLoad")
     ELSE UNCHANGED trip /\ End(c)
  /\ UNCHANGED <<order, load, papers, mixer, pod, ghosts>>

\* The load moves from the status the trip was read with ...
StepLoad(c) ==
  LET l == calls[c].l  s == calls[c].step IN
  /\ At(c, "stepLoad")
  /\ IF load[l].status = calls[c].seenTrip /\ load[l].driver = trip[l].driver
     THEN SetLoad(l, StepTo[s]) /\ End(c)
     ELSE UNCHANGED load /\ Goto(c, IF s = "start" /\ calls[c].seenLoad.status = "DISPATCHED"
                                    THEN "startLoad" ELSE "undoTrip")
  /\ UNCHANGED <<order, trip, papers, mixer, pod, ghosts>>

\* ... or, on start, from DISPATCHED.
StartLoad(c) ==
  LET l == calls[c].l IN
  /\ At(c, "startLoad")
  /\ IF load[l].status = "DISPATCHED" /\ load[l].driver = trip[l].driver
     THEN SetLoad(l, "EN_ROUTE") /\ End(c)
     ELSE UNCHANGED load /\ Goto(c, "undoTrip")
  /\ UNCHANGED <<order, trip, papers, mixer, pod, ghosts>>

UndoTrip(c) ==
  LET l == calls[c].l IN
  /\ At(c, "undoTrip")
  /\ IF trip[l].status = StepTo[calls[c].step] THEN SetTrip(l, calls[c].seenTrip) ELSE UNCHANGED trip
  /\ Goto(c, "undoLoad")
  /\ UNCHANGED <<order, load, papers, mixer, pod, ghosts>>

\* Mutant: the load is put back whatever it has become.
UndoLoadBlind(c) ==
  /\ At(c, "undoLoad")
  /\ SetLoad(calls[c].l, calls[c].seenLoad.status)
  /\ End(c)
  /\ UNCHANGED <<order, trip, papers, mixer, pod, ghosts>>

UndoLoad(c) ==
  LET l == calls[c].l IN
  /\ At(c, "undoLoad")
  /\ IF load[l].status = StepTo[calls[c].step] THEN SetLoad(l, calls[c].seenLoad.status)
     ELSE UNCHANGED load
  /\ End(c)
  /\ UNCHANGED <<order, trip, papers, mixer, pod, ghosts>>

-----------------------------------------------------------------------------
(* Proof of delivery: submit_pod.                                          *)

\* At most 110 % of the load may be reported as delivered.
StartPod(c, l, q) ==
  /\ "pod" \in Requests
  /\ At(c, "idle")
  /\ trip[l].status \in PodStates
  /\ 100 * q <= 110 * Quantity[l]
  /\ Become(c, [Idle EXCEPT !.pc = "podLoad", !.l = l, !.quantity = q, !.seenTrip = trip[l].status])
  /\ UNCHANGED Data

ReadPodLoad(c) ==
  LET l == calls[c].l IN
  /\ At(c, "podLoad")
  /\ Become(c, IF load[l].driver = trip[l].driver
               THEN [calls[c] EXCEPT !.pc = "podClaim", !.seenLoad = load[l]] ELSE Idle)
  /\ UNCHANGED Data

ClaimPod(c) ==
  LET l == calls[c].l IN
  /\ At(c, "podClaim")
  /\ IF trip[l].status \in PodStates THEN SetTrip(l, "POD_FINALIZING") /\ Goto(c, "podInsert")
     ELSE UNCHANGED trip /\ End(c)
  /\ UNCHANGED <<order, load, papers, mixer, pod, ghosts>>

\* A second POD for the trip is a duplicate key: the claim is given back.
InsertPod(c) ==
  LET l == calls[c].l IN
  /\ At(c, "podInsert")
  /\ pod' = IF pod[l] = 0 THEN [pod EXCEPT ![l] = calls[c].quantity] ELSE pod
  /\ Goto(c, IF pod[l] = 0 THEN "podPut" ELSE "undoClaim")
  /\ UNCHANGED <<order, load, trip, papers, mixer, ghosts>>

DeliverLoad(c) ==
  LET l == calls[c].l IN
  /\ At(c, "podPut")
  /\ IF load[l].status \in PodStates /\ load[l].driver = trip[l].driver
     THEN SetLoad(l, "DELIVERED") /\ Become(c, [calls[c] EXCEPT !.pc = "sum", !.put = TRUE])
     ELSE UNCHANGED load /\ Goto(c, "undoPod")
  /\ UNCHANGED <<order, trip, papers, mixer, pod, ghosts>>

\* The reconciliation failed: the POD, the claim and the load are undone in turn.
\* Mutant: the POD stays on file.
UndoPodNever(c) ==
  /\ At(c, "undoPod")
  /\ Goto(c, "undoClaim")
  /\ UNCHANGED Data

UndoPod(c) ==
  /\ At(c, "undoPod")
  /\ pod' = [pod EXCEPT ![calls[c].l] = 0]
  /\ undone' = undone \union {calls[c].l}
  /\ Goto(c, "undoClaim")
  /\ UNCHANGED <<order, load, trip, papers, mixer, fault>>

UndoClaim(c) ==
  LET l == calls[c].l IN
  /\ At(c, "undoClaim")
  /\ IF trip[l].status = "POD_FINALIZING" THEN SetTrip(l, calls[c].seenTrip) ELSE UNCHANGED trip
  /\ Check(c, calls[c].put, "undoPut")
  /\ UNCHANGED <<order, load, papers, mixer, pod, ghosts>>

\* delivered_at tells this call's delivery from anybody else's.
UndoDelivery(c) ==
  LET l == calls[c].l IN
  /\ At(c, "undoPut")
  /\ IF load[l].status = "DELIVERED" THEN SetLoad(l, calls[c].seenLoad.status) ELSE UNCHANGED load
  /\ End(c)
  /\ UNCHANGED <<order, trip, papers, mixer, pod, ghosts>>

FinishTrip(c) ==
  LET l == calls[c].l IN
  /\ At(c, "finishTrip")
  /\ IF trip[l].status = "POD_FINALIZING" THEN SetTrip(l, "DELIVERED") /\ Goto(c, "freeMixer")
     ELSE UNCHANGED trip /\ End(c)
  /\ UNCHANGED <<order, load, papers, mixer, pod, ghosts>>

FreeMixer(c) ==
  LET v == trip[calls[c].l].vehicle IN
  /\ At(c, "freeMixer")
  /\ mixer' = IF mixer[v].load = calls[c].l
              THEN [mixer EXCEPT ![v] = [status |-> "available", load |-> NoLoad]] ELSE mixer
  /\ End(c)
  /\ UNCHANGED <<order, load, trip, papers, pod, ghosts>>

-----------------------------------------------------------------------------
(* reconcile_parent_delivery.                                              *)

\* Mutant: the delivered quantity is carried forward from the order.
ReadPodsIncremental(c) ==
  LET l == calls[c].l IN
  /\ At(c, "sum")
  /\ Become(c, [calls[c] EXCEPT !.pc = "storeSum",
                                !.seenPods = [counted EXCEPT ![l] = calls[c].quantity]])
  /\ UNCHANGED Data

ReadPods(c) ==
  /\ At(c, "sum")
  /\ Become(c, [calls[c] EXCEPT !.pc = "storeSum", !.seenPods = pod])
  /\ UNCHANGED Data

\* Written without comparing: a slower call overwrites a later sum.
StoreSum(c) ==
  /\ At(c, "storeSum")
  /\ counted' = calls[c].seenPods
  /\ Goto(c, "remaining")
  /\ UNCHANGED <<status, finals, load, trip, papers, mixer, pod, ghosts>>

\* Unfinished loads, or too little delivered: the order stays as it is.
CheckRemaining(c) ==
  /\ At(c, "remaining")
  /\ Goto(c, IF (\E l \in Exists : load[l].status \notin TERMINAL_LOADS) \/ ~Enough(calls[c].seenPods)
             THEN "finishTrip" ELSE "latest")
  /\ UNCHANGED Data

ReadLatest(c) ==
  /\ At(c, "latest")
  /\ Goto(c, IF status = "DELIVERED" THEN "finishTrip"
             ELSE IF status = "DISPATCHED" THEN "finalize" ELSE "undoPod")
  /\ UNCHANGED Data

\* Mutant: the final update does not compare the status.
FinalizeBlind(c) ==
  /\ At(c, "finalize")
  /\ status' = "DELIVERED" /\ counted' = calls[c].seenPods
  /\ Goto(c, "history")
  /\ UNCHANGED <<finals, load, trip, papers, mixer, pod, ghosts>>

\* DELIVERED is final, so a caller that lost the race finds it so.
FinalizeOrder(c) ==
  /\ At(c, "finalize")
  /\ IF status = "DISPATCHED"
     THEN status' = "DELIVERED" /\ counted' = calls[c].seenPods /\ Goto(c, "history")
     ELSE UNCHANGED <<status, counted>> /\ Goto(c, IF status = "DELIVERED" THEN "finishTrip" ELSE "undoPod")
  /\ UNCHANGED <<finals, load, trip, papers, mixer, pod, ghosts>>

\* The history row, the audit entry, the notification and the SMS.
RecordFinal(c) ==
  /\ At(c, "history")
  /\ finals' = IF finals < 2 THEN finals + 1 ELSE finals
  /\ Goto(c, "finishTrip")
  /\ UNCHANGED <<status, counted, load, trip, papers, mixer, pod, ghosts>>

-----------------------------------------------------------------------------
(* Faults: one call dies, or one database call raises inside a try block.  *)

Crash(c) ==
  /\ "crash" \in Faults /\ fault = "none"
  /\ ~At(c, "idle")
  /\ End(c)
  /\ fault' = "crash"
  /\ UNCHANGED <<order, load, trip, papers, mixer, pod, undone>>

DatabaseError(c) ==
  /\ "database" \in Faults /\ fault = "none"
  /\ \/ /\ calls[c].pc \in {"podPut", "sum", "storeSum", "remaining", "latest", "finalize", "history"}
        /\ Goto(c, "undoPod")
     \/ /\ calls[c].pc \in {"stepLoad", "startLoad"}
        /\ Goto(c, "undoTrip")
  /\ fault' = "database"
  /\ UNCHANGED <<order, load, trip, papers, mixer, pod, undone>>

-----------------------------------------------------------------------------
Plan(c) == \/ CheckPlanned(c) \/ ValidateAssignment(c) \/ InsertLoad(c) \/ Recount(c)
           \/ DeleteLoad(c) \/ AssignLoad(c) \/ CancelLoad(c) \/ CancelLoads(c)

Transition(c) == ReadOrder(c) \/ SwapStatus(c) \/ RereadOrder(c)

Prepare(c) == \/ CheckPreparable(c) \/ CheckProduced(c) \/ CheckMixer(c) \/ CheckDriver(c)
              \/ FindTrip(c) \/ InsertTrip(c) \/ FindChallan(c) \/ InsertChallan(c)
              \/ TakeMixer(c) \/ ClaimReady(c)

Dispatch(c) == \/ IssueGatePass(c) \/ CheckDispatchable(c) \/ CheckPapers(c)
               \/ ClaimDispatch(c) \/ DispatchTrip(c) \/ DispatchMixer(c)

Advance(c) == \/ ReadMyLoad(c) \/ StepTrip(c) \/ StepLoad(c) \/ StartLoad(c)
              \/ UndoTrip(c) \/ UndoLoad(c)

SubmitPod(c) == \/ ReadPodLoad(c) \/ ClaimPod(c) \/ InsertPod(c) \/ DeliverLoad(c)
                \/ UndoPod(c) \/ UndoClaim(c) \/ UndoDelivery(c)
                \/ FinishTrip(c) \/ FreeMixer(c)

Reconcile(c) == \/ ReadPods(c) \/ StoreSum(c) \/ CheckRemaining(c) \/ ReadLatest(c)
                \/ FinalizeOrder(c) \/ RecordFinal(c)

Request(c) ==
  \/ StartCancelOrder(c)
  \/ \E l \in Loads :
       \/ StartCreate(c, l, <<NoVehicle, NoDriver>>)
       \/ \E p \in Pairs : StartCreate(c, l, p) \/ StartAssign(c, l, p)
       \/ StartCancelLoad(c, l) \/ StartPrepare(c, l) \/ StartGatePass(c, l) \/ StartDispatch(c, l)
       \/ \E s \in Steps : StartAdvance(c, l, s)
       \/ \E q \in PodQuantities : StartPod(c, l, q)

Serve(c) == \/ Plan(c) \/ Transition(c) \/ Prepare(c) \/ Dispatch(c) \/ Advance(c)
            \/ SubmitPod(c) \/ Reconcile(c)

Next == \E c \in Calls : Request(c) \/ Serve(c) \/ Crash(c) \/ DatabaseError(c)

Spec == Init /\ [][Next]_vars

-----------------------------------------------------------------------------
(* Properties.                                                             *)

LoadDocs == [status : LoadStates, vehicle : Vehicles \union {NoVehicle},
             driver : Drivers \union {NoDriver}]
TripDocs == [status : TripStates, vehicle : Vehicles \union {NoVehicle},
             driver : Drivers \union {NoDriver}]
\* What a request does next.
PCs ==
  {"idle",
   "planned", "validate", "insert", "recount", "delete", "assign", "cancelLoad",
   "transit", "swap", "reread", "cancelLoads",
   "preparable", "produced", "free", "driver", "findTrip", "trip", "findChallan",
   "challan", "mixer", "ready",
   "gatePass", "dispatchable", "papers", "dispatch", "dispatchTrip", "dispatchMixer",
   "myLoad", "step", "stepLoad", "startLoad", "undoTrip", "undoLoad",
   "podLoad", "podClaim", "podInsert", "podPut", "undoPod", "undoClaim", "undoPut",
   "sum", "storeSum", "remaining", "latest", "finalize", "history",
   "finishTrip", "freeMixer"}
CallStates ==
  [pc : PCs, l : Loads \union {NoLoad}, vehicle : Vehicles \union {NoVehicle},
   driver : Drivers \union {NoDriver}, quantity : Nat, seenLoad : LoadDocs,
   seenOrder : Statuses \union {"NONE"}, seenTrip : TripStates, seenPods : [Loads -> Nat],
   step : Steps, todo : Seq(Statuses), put : BOOLEAN]

\* The documents have their shape, and a mixer is available exactly if it carries
\* no load (vehicles.status and current_load_id are written together).
TypeOK ==
  /\ status \in Statuses /\ counted \in [Loads -> Nat] /\ finals \in 0..2
  /\ load \in [Loads -> LoadDocs] /\ trip \in [Loads -> TripDocs]
  /\ challan \subseteq Loads /\ gatePass \subseteq Loads
  /\ mixer \in [Vehicles -> [status : {"available", "loading", "dispatched"},
                              load : Loads \union {NoLoad}]]
  /\ \A v \in Vehicles : mixer[v].status = "available" <=> mixer[v].load = NoLoad
  /\ pod \in [Loads -> Nat]
  /\ calls \in [Calls -> CallStates]
  /\ fault \in {"none", "crash", "database"} /\ undone \subseteq Loads

Quiet == \A c \in Calls : At(c, "idle")

\* The order's status moves only along the table, or from DISPATCHED to DELIVERED
\* when its loads are delivered, whatever stale status a request has read.
OrderMovesAlongTable ==
  [][status' # status => \/ can_transition(status, status')
                         \/ status = "DISPATCHED" /\ status' = "DELIVERED"]_vars

\* Loads whose creation is still being checked against the order.
Tentative == {calls[c].l : c \in {d \in Calls : calls[d].pc \in {"recount", "delete"}}}

\* Concurrent planners never leave more planned than was ordered.
PlannedWithinOrder ==
  fault # "crash" => SumFunctionOnSet(Quantity, Live \ Tentative) <= Ordered

\* Whatever raced, a load is DELIVERED exactly if its proof of delivery is on file
\* once the requests are over ("DELIVERED (via POD)", PRD.md:160), unless a proof was
\* taken back: a driver's step that overlapped it may then restore DELIVERED.
PodMatchesLoad ==
  Quiet /\ fault # "crash" =>
    \A l \in Exists \ undone : pod[l] # 0 <=> load[l].status = "DELIVERED"

\* A request that raises gives back what it took: no proof of delivery is on file
\* for a load still under way and no trip is left claimed, so the driver can retry.
FailedPodCanBeRetried ==
  Quiet /\ fault # "crash" =>
    /\ \A l \in Exists : pod[l] # 0 => load[l].status = "DELIVERED"
    /\ \A l \in Loads : trip[l].status # "POD_FINALIZING"

\* The delivery of an order is recorded once, however many loads finish together.
FinalizedOnce == finals <= 1

\* No last delivery is missed: when every load is delivered, with its proof on file,
\* and enough arrived, the order is DELIVERED once the requests are over.
NoMissedFinalization ==
  Quiet /\ fault = "none" /\ Enough(pod)
    /\ (\A l \in Exists : load[l].status \in TERMINAL_LOADS)
    /\ (\A l \in Exists : load[l].status = "DELIVERED" => pod[l] # 0)
    => status = "DELIVERED"

\* No load is on the road without a gate pass (loads.py:386-387).
GatePassBeforeRoad == \A l \in Loads : load[l].status \in OnRoad => l \in gatePass

\* A driver has one active trip (loads.py:118-119).
OneActiveTrip ==
  \A l, o \in Loads :
    trip[l].status \in ACTIVE_TRIP_STATUSES /\ trip[o].status \in ACTIVE_TRIP_STATUSES
      /\ trip[l].driver = trip[o].driver => l = o

\* The delivered quantity of a finished order is what its PODs add up to
\* (delivery_service.py:3-6).
DeliveredQuantityFinal ==
  Quiet /\ status = "DELIVERED" => Total(counted) = Total(pod)
=============================================================================
