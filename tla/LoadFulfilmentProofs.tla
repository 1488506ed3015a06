------------------------ MODULE LoadFulfilmentProofs ------------------------
(***************************************************************************)
(* Theorems about LoadFulfilment for every number of loads, mixers,        *)
(* drivers and concurrent requests, every quantity and every combination   *)
(* of faults: the order and its table; then the deliveries and the         *)
(* planning: a load and its proof of delivery agree, a failed proof can be *)
(* submitted again, the last delivery of an order is not missed, and       *)
(* concurrent planners never leave more planned than was ordered.          *)
(***************************************************************************)
EXTENDS LoadFulfilment, SequenceTheorems, FiniteSetTheorems, WellFoundedInduction, TLAPS

Transiting == {"transit", "swap", "reread"}
OrderPCs == Transiting \union {"idle", "cancelLoads"}

\* A request's record: only transitions of the order go without a load, there is a
\* target to go to, and a compare-and-set is decided by the table.
CallOK(r) ==
  /\ r \in CallStates
  /\ r.pc \notin OrderPCs => r.l \in Loads
  /\ r.pc \in Transiting => r.todo # <<>>
  /\ r.pc = "swap" => r.seenOrder \in Statuses /\ can_transition(r.seenOrder, Head(r.todo))

\* DELIVERED is recorded by the one request that made the order so.
FinalInv ==
  /\ finals \in {0, 1}
  /\ status # "DELIVERED" => finals = 0
  /\ \A c \in Calls : At(c, "history") => /\ status = "DELIVERED" /\ finals = 0
                                          /\ \A d \in Calls : At(d, "history") => d = c

\* The documents are well-typed, whatever the requests are doing.
DataOK ==
  /\ status \in Statuses /\ counted \in [Loads -> Nat] /\ finals \in 0..2
  /\ load \in [Loads -> LoadDocs] /\ trip \in [Loads -> TripDocs]
  /\ challan \subseteq Loads /\ gatePass \subseteq Loads
  /\ mixer \in [Vehicles -> [status : {"available", "loading", "dispatched"},
                              load : Loads \union {NoLoad}]]
  /\ \A v \in Vehicles : mixer[v].status = "available" <=> mixer[v].load = NoLoad
  /\ pod \in [Loads -> Nat]
  /\ fault \in {"none", "crash", "database"} /\ undone \subseteq Loads

IInv == TypeOK /\ (\A c \in Calls : CallOK(calls[c])) /\ FinalInv

\* A step after which the request does not have a DELIVERED row to write.
Ordinary(c) == \E r : CallOK(r) /\ r.pc # "history" /\ calls' = [calls EXCEPT ![c] = r]

-----------------------------------------------------------------------------
(* How a request goes on.                                                  *)

\* A request that is not being served has a record of the right shape.
LEMMA IdleOK == CallOK(Idle) /\ Idle.pc = "idle" /\ Idle.l = NoLoad /\ Idle.todo = <<>>
  BY DEF CallOK, Idle, CallStates, PCs, OrderPCs, Transiting, LoadDocs, AbsentLoad, LoadStates,
         TripStates, Steps

\* Ending a request is a plain step.
LEMMA EndOrdinary == ASSUME NEW c \in Calls, End(c) PROVE Ordinary(c)
  BY IdleOK DEF End, Become, Ordinary

\* Going on to the next database call is a plain step.
LEMMA GotoOrdinary ==
  ASSUME NEW c \in Calls, CallOK(calls[c]), calls[c].pc \notin OrderPCs,
         NEW p \in PCs \ (Transiting \union {"history"}), Goto(c, p)
  PROVE  Ordinary(c)
<1> DEFINE r == [calls[c] EXCEPT !.pc = p]
<1>1. r \in CallStates /\ r.pc = p /\ r.l = calls[c].l
  BY DEF CallOK, CallStates
<1> QED
  BY <1>1 DEF CallOK, Ordinary, Goto, Become, OrderPCs, Transiting

\* So is going on to the transitions still to make.
LEMMA TransitOrdinary ==
  ASSUME NEW c \in Calls, NEW r, CallOK(r), NEW todo \in Seq(Statuses), Transit(c, r, todo)
  PROVE  Ordinary(c)
<1>0. r \in CallStates /\ "transit" \in PCs /\ "cancelLoads" \in PCs
  BY DEF CallOK, PCs
<1>1. CASE todo # <<>>
  <2> DEFINE s == [r EXCEPT !.pc = "transit", !.todo = todo]
  <2>1. s \in CallStates /\ s.pc = "transit" /\ s.todo = todo
    BY <1>0 DEF CallStates
  <2>2. CallOK(s)
    BY <1>1, <2>1 DEF CallOK, OrderPCs, Transiting
  <2> QED
    BY <1>1, <2>1, <2>2 DEF Ordinary, Transit, Become
<1>2. CASE todo = <<>> /\ r.todo = <<"CANCELLED">>
  <2> DEFINE s == [r EXCEPT !.pc = "cancelLoads"]
  <2>1. s \in CallStates /\ s.pc = "cancelLoads"
    BY <1>0 DEF CallStates
  <2>2. CallOK(s)
    BY <2>1 DEF CallOK, OrderPCs, Transiting
  <2> QED
    BY <1>2, <2>1, <2>2 DEF Ordinary, Transit, Become
<1>3. CASE todo = <<>> /\ r.todo # <<"CANCELLED">>
  BY <1>3, IdleOK DEF Ordinary, Transit, Become
<1> QED
  BY <1>1, <1>2, <1>3

\* After a plain step every request's record is in order.
LEMMA OrdinaryCalls ==
  ASSUME IInv, NEW c \in Calls, Ordinary(c)
  PROVE  /\ calls' \in [Calls -> CallStates]
         /\ \A d \in Calls : CallOK(calls'[d])
         /\ \A d \in Calls : At(d, "history")' => d # c /\ At(d, "history")
<1>1. PICK r : CallOK(r) /\ r.pc # "history" /\ calls' = [calls EXCEPT ![c] = r]
  BY DEF Ordinary
<1>2. r \in CallStates /\ calls \in [Calls -> CallStates]
  BY <1>1 DEF CallOK, IInv, TypeOK
<1> QED
  BY <1>1, <1>2 DEF IInv, At

\* The delivery stays recorded once as long as DELIVERED is left alone.
LEMMA OrdinaryFinal ==
  ASSUME IInv, NEW c \in Calls, Ordinary(c), UNCHANGED finals,
         status # "DELIVERED" => finals = 0, status = "DELIVERED" => status' = "DELIVERED"
  PROVE  FinalInv'
  BY OrdinaryCalls DEF IInv, FinalInv, At

-----------------------------------------------------------------------------
(* What the requests write keeps the documents well-typed.                 *)

\* The type invariant is about the documents and the requests.
LEMMA TypeParts == IInv => DataOK /\ calls \in [Calls -> CallStates]
  BY DEF IInv, TypeOK, DataOK

\* A request that only reads leaves the documents alone.
LEMMA ReadsKeepData == ASSUME DataOK, UNCHANGED Data PROVE DataOK'
  BY DEF DataOK, Data

\* A load's status may be set to any other.
LEMMA SetLoadOK ==
  ASSUME DataOK, NEW l, NEW s \in LoadStates, SetLoad(l, s) \/ UNCHANGED load,
         UNCHANGED <<order, trip, papers, mixer, pod, ghosts>>
  PROVE  DataOK'
<1>0. load \in [Loads -> LoadDocs]
  BY DEF DataOK
<1>1. load' \in [Loads -> LoadDocs]
  BY <1>0 DEF SetLoad, LoadDocs
<1> QED
  BY <1>1 DEF DataOK, order, papers, ghosts

\* So may a trip's.
LEMMA SetTripOK ==
  ASSUME DataOK, NEW l, NEW s \in TripStates, SetTrip(l, s) \/ UNCHANGED trip,
         UNCHANGED <<order, load, papers, mixer, pod, ghosts>>
  PROVE  DataOK'
<1>0. trip \in [Loads -> TripDocs]
  BY DEF DataOK
<1>1. trip' \in [Loads -> TripDocs]
  BY <1>0 DEF SetTrip, TripDocs
<1> QED
  BY <1>1 DEF DataOK, order, papers, ghosts

\* The names of the steps and statuses in use.
LEMMA Names ==
  /\ {"DELETED", "CANCELLED", "READY_TO_DISPATCH", "DISPATCHED", "EN_ROUTE", "DELIVERED",
      "PLANNED", "ASSIGNED"} \subseteq LoadStates
  /\ {"ASSIGNED", "DISPATCHED", "POD_FINALIZING", "DELIVERED"} \subseteq TripStates
  /\ \A s \in Steps : StepTo[s] \in LoadStates \intersect TripStates
  /\ \A x \in {"transit", "swap", "reread", "idle", "cancelLoads"} : x \in OrderPCs
  BY DEF LoadStates, TripStates, Steps, StepTo, OrderPCs, Transiting

-----------------------------------------------------------------------------
(* Planning.                                                               *)

\* No planning step breaks the documents or delivers the order.
LEMMA PlanSteps ==
  ASSUME IInv, NEW c \in Calls, Plan(c)
  PROVE  Ordinary(c) /\ DataOK' /\ UNCHANGED <<status, finals>>
<1>1. DataOK /\ CallOK(calls[c]) /\ calls[c] \in CallStates
  BY TypeParts DEF IInv, CallOK
<1>2. {"planned", "validate", "insert", "recount", "delete", "assign"} \subseteq
        PCs \ (Transiting \union {"history"})
  BY DEF PCs, Transiting
<1>3. CASE CheckPlanned(c)
  BY <1>1, <1>2, <1>3, GotoOrdinary, EndOrdinary, ReadsKeepData
     DEF CheckPlanned, Check, At, OrderPCs, Transiting, Data
<1>4. CASE ValidateAssignment(c)
  BY <1>1, <1>2, <1>4, GotoOrdinary, EndOrdinary, ReadsKeepData
     DEF ValidateAssignment, Check, At, OrderPCs, Transiting, Data
<1>5. CASE InsertLoad(c)
  <2>1. Ordinary(c)
    BY <1>1, <1>2, <1>5, GotoOrdinary DEF InsertLoad, At, OrderPCs, Transiting
  <2>2. load' \in [Loads -> LoadDocs]
    BY <1>1, <1>5, Names DEF InsertLoad, DataOK, LoadDocs, CallStates
  <2> QED
    BY <1>1, <1>5, <2>1, <2>2 DEF InsertLoad, DataOK, order, papers, ghosts
<1>6. CASE Recount(c)
  BY <1>1, <1>2, <1>6, GotoOrdinary, EndOrdinary, ReadsKeepData
     DEF Recount, Check, At, OrderPCs, Transiting, Data
<1>7. CASE DeleteLoad(c)
  BY <1>1, <1>7, EndOrdinary, SetLoadOK, Names DEF DeleteLoad, order
<1>8. CASE AssignLoad(c)
  <2>1. load' \in [Loads -> LoadDocs]
    BY <1>1, <1>8, Names DEF AssignLoad, DataOK, LoadDocs, CallStates
  <2> QED
    BY <1>1, <1>8, <2>1, EndOrdinary DEF AssignLoad, DataOK, order, papers, ghosts
<1>9. CASE CancelLoad(c)
  BY <1>1, <1>9, EndOrdinary, SetLoadOK, Names DEF CancelLoad, order
<1>10. CASE CancelLoads(c)
  <2>0. \A l \in Loads : [load[l] EXCEPT !.status = "CANCELLED"] \in LoadDocs
    BY <1>1, Names DEF DataOK, LoadDocs
  <2>1. load' \in [Loads -> LoadDocs]
    BY <1>1, <1>10, <2>0 DEF CancelLoads, DataOK
  <2> QED
    BY <1>1, <1>10, <2>1, EndOrdinary DEF CancelLoads, DataOK, order, papers, ghosts
<1> QED
  BY <1>3, <1>4, <1>5, <1>6, <1>7, <1>8, <1>9, <1>10 DEF Plan

-----------------------------------------------------------------------------
(* The transitions of the order.                                           *)

\* The table leads from statuses to statuses, and nowhere from a terminal one.
LEMMA Table ==
  \A s \in Statuses : \A t : can_transition(s, t) => t \in Statuses /\ s # "DELIVERED"
  BY DEF can_transition, TRANSITIONS, Statuses

\* A transition keeps the documents well-typed and moves the order along the table.
LEMMA TransitionSteps ==
  ASSUME IInv, NEW c \in Calls, Transition(c)
  PROVE  /\ Ordinary(c) /\ DataOK' /\ UNCHANGED finals
         /\ status' # status => can_transition(status, status')
<1>1. DataOK /\ CallOK(calls[c]) /\ calls[c] \in CallStates /\ status \in Statuses
  BY TypeParts DEF IInv, CallOK, DataOK
<1> DEFINE todo == calls[c].todo
<1>2. calls[c].pc \in Transiting => todo # <<>> /\ todo \in Seq(Statuses)
  BY <1>1 DEF CallOK, CallStates
<1>3. calls[c].pc \in Transiting => Head(todo) \in Statuses /\ Tail(todo) \in Seq(Statuses)
  BY <1>2, HeadTailProperties
<1>4. CASE ReadOrder(c)
  <2>1. At(c, "transit") /\ calls[c].pc \in Transiting
    BY <1>4 DEF ReadOrder, At, Transiting
  <2>2. ASSUME status = Head(todo) PROVE Ordinary(c)
    BY <1>1, <1>3, <1>4, <2>1, <2>2, TransitOrdinary DEF ReadOrder
  <2>3. ASSUME status # Head(todo), can_transition(status, Head(todo)) PROVE Ordinary(c)
    <3>0. "swap" \in PCs
      BY DEF PCs
    <3> DEFINE r == [calls[c] EXCEPT !.pc = "swap", !.seenOrder = status]
    <3>1. r \in CallStates /\ r.pc = "swap" /\ r.seenOrder = status /\ r.todo = todo
      BY <1>1, <3>0 DEF CallStates
    <3>2. CallOK(r)
      BY <1>1, <1>2, <2>1, <2>3, <3>1 DEF CallOK, OrderPCs, Transiting
    <3> QED
      BY <1>4, <2>3, <3>1, <3>2 DEF ReadOrder, Become, Ordinary
  <2>4. ASSUME status # Head(todo), ~can_transition(status, Head(todo)) PROVE Ordinary(c)
    BY <1>4, <2>4, EndOrdinary DEF ReadOrder
  <2>5. Ordinary(c)
    BY <2>2, <2>3, <2>4
  <2>6. UNCHANGED Data
    BY <1>4 DEF ReadOrder
  <2> QED
    BY <1>1, <2>5, <2>6, ReadsKeepData DEF Data
<1>5. CASE SwapStatus(c)
  <2>1. At(c, "swap") /\ calls[c].pc \in Transiting /\ calls[c].pc = "swap"
    BY <1>5 DEF SwapStatus, At, Transiting
  <2>2. CASE status = calls[c].seenOrder
    <3>1. Ordinary(c)
      BY <1>1, <1>3, <1>5, <2>1, <2>2, TransitOrdinary DEF SwapStatus
    <3>2. can_transition(status, Head(todo)) /\ status' = Head(todo)
      BY <1>1, <1>5, <2>1, <2>2 DEF SwapStatus, CallOK
    <3> QED
      BY <1>1, <1>3, <1>5, <2>1, <3>1, <3>2 DEF SwapStatus, DataOK, papers, ghosts
  <2>3. CASE status # calls[c].seenOrder
    <3> DEFINE r == [calls[c] EXCEPT !.pc = "reread"]
    <3>1. r \in CallStates /\ r.pc = "reread" /\ r.todo = todo
      BY <1>1 DEF CallStates, PCs
    <3>2. CallOK(r)
      BY <1>1, <1>2, <2>1, <3>1 DEF CallOK, OrderPCs, Transiting
    <3>3. Ordinary(c)
      BY <1>5, <2>3, <3>1, <3>2 DEF SwapStatus, Goto, Become, Ordinary
    <3> QED
      BY <1>1, <1>5, <2>3, <3>3 DEF SwapStatus, DataOK, papers, ghosts
  <2> QED
    BY <2>2, <2>3
<1>6. CASE RereadOrder(c)
  <2>1. calls[c].pc \in Transiting
    BY <1>6 DEF RereadOrder, At, Transiting
  <2>2. Ordinary(c)
    BY <1>1, <1>3, <1>6, <2>1, TransitOrdinary, EndOrdinary DEF RereadOrder
  <2> QED
    BY <1>1, <1>6, <2>2, ReadsKeepData DEF RereadOrder, Data
<1> QED
  BY <1>4, <1>5, <1>6 DEF Transition

-----------------------------------------------------------------------------
(* Preparation and dispatch.                                               *)

\* No step of prepare_load breaks the documents or touches the order's status.
LEMMA PrepareSteps ==
  ASSUME IInv, NEW c \in Calls, Prepare(c)
  PROVE  Ordinary(c) /\ DataOK' /\ UNCHANGED <<status, finals>>
<1>1. DataOK /\ CallOK(calls[c]) /\ calls[c] \in CallStates
  BY TypeParts DEF IInv, CallOK
<1>2. {"produced", "free", "driver", "findTrip", "trip", "findChallan", "challan", "mixer",
       "ready"} \subseteq PCs \ (Transiting \union {"history"})
  BY DEF PCs, Transiting
<1>3. CASE CheckPreparable(c)
  <2> DEFINE r == [calls[c] EXCEPT !.pc = "produced", !.seenOrder = status]
  <2>1. r \in CallStates /\ r.pc = "produced" /\ r.l = calls[c].l
    BY <1>1, <1>2 DEF CallStates, DataOK
  <2>2. CallOK(r)
    BY <1>1, <1>3, <2>1 DEF CallOK, CheckPreparable, At, OrderPCs, Transiting
  <2>3. Ordinary(c)
    BY <1>3, <2>1, <2>2, IdleOK DEF CheckPreparable, Become, Ordinary
  <2> QED
    BY <1>1, <1>3, <2>3, ReadsKeepData DEF CheckPreparable, Data
<1>4. CASE CheckProduced(c)
  BY <1>1, <1>2, <1>4, GotoOrdinary, EndOrdinary, ReadsKeepData
     DEF CheckProduced, Check, At, OrderPCs, Transiting, Data
<1>5. CASE CheckMixer(c)
  BY <1>1, <1>2, <1>5, GotoOrdinary, EndOrdinary, ReadsKeepData
     DEF CheckMixer, Check, At, OrderPCs, Transiting, Data
<1>6. CASE CheckDriver(c)
  BY <1>1, <1>2, <1>6, GotoOrdinary, EndOrdinary, ReadsKeepData
     DEF CheckDriver, Check, At, OrderPCs, Transiting, Data
<1>7. CASE FindTrip(c)
  BY <1>1, <1>2, <1>7, GotoOrdinary, ReadsKeepData DEF FindTrip, At, OrderPCs, Transiting, Data
<1>8. CASE InsertTrip(c)
  <2>1. Ordinary(c)
    BY <1>1, <1>2, <1>8, GotoOrdinary, EndOrdinary DEF InsertTrip, At, OrderPCs, Transiting
  <2>0. calls[c].seenLoad \in LoadDocs
    BY <1>1 DEF CallStates
  <2>3. trip \in [Loads -> TripDocs]
    BY <1>1 DEF DataOK
  <2>2. trip' \in [Loads -> TripDocs]
    BY <1>8, <2>0, <2>3, Names DEF InsertTrip, TripDocs, LoadDocs
  <2> QED
    BY <1>1, <1>8, <2>1, <2>2 DEF InsertTrip, DataOK, order, papers, ghosts
<1>9. CASE FindChallan(c)
  BY <1>1, <1>2, <1>9, GotoOrdinary, ReadsKeepData DEF FindChallan, At, OrderPCs, Transiting, Data
<1>10. CASE InsertChallan(c)
  <2>1. Ordinary(c)
    BY <1>1, <1>2, <1>10, GotoOrdinary, EndOrdinary
       DEF InsertChallan, Check, At, OrderPCs, Transiting
  <2>2. calls[c].l \in Loads
    BY <1>1, <1>10 DEF InsertChallan, At, CallOK, OrderPCs, Transiting
  <2> QED
    BY <1>1, <1>10, <2>1, <2>2 DEF InsertChallan, DataOK, order, ghosts
<1>11. CASE TakeMixer(c)
  <2>1. Ordinary(c)
    BY <1>1, <1>2, <1>11, GotoOrdinary DEF TakeMixer, At, OrderPCs, Transiting
  <2>2. calls[c].l \in Loads
    BY <1>1, <1>11 DEF TakeMixer, At, CallOK, OrderPCs, Transiting
  <2>3. /\ mixer' \in [Vehicles -> [status : {"available", "loading", "dispatched"},
                                    load : Loads \union {NoLoad}]]
        /\ \A v \in Vehicles : mixer'[v].status = "available" <=> mixer'[v].load = NoLoad
    BY <1>1, <1>11, <2>2, LoadAssumption DEF TakeMixer, DataOK
  <2> QED
    BY <1>1, <1>11, <2>1, <2>3 DEF TakeMixer, DataOK, order, papers, ghosts
<1>12. CASE ClaimReady(c)
  <2>0. /\ <<"TM_ASSIGNED", "DRIVER_ASSIGNED", "READY_TO_DISPATCH">> \in Seq(Statuses)
        /\ <<"DRIVER_ASSIGNED", "READY_TO_DISPATCH">> \in Seq(Statuses)
        /\ <<"READY_TO_DISPATCH">> \in Seq(Statuses) /\ <<>> \in Seq(Statuses)
    BY DEF Statuses
  <2>1. ToReady(calls[c].seenOrder) \in Seq(Statuses)
    BY <2>0 DEF ToReady
  <2>2. Ordinary(c)
    BY <1>1, <1>12, <2>1, TransitOrdinary, EndOrdinary DEF ClaimReady
  <2> QED
    BY <1>1, <1>12, <2>2, SetLoadOK, Names DEF ClaimReady, order
<1> QED
  BY <1>3, <1>4, <1>5, <1>6, <1>7, <1>8, <1>9, <1>10, <1>11, <1>12 DEF Prepare

\* Neither does a step of create_gate_pass or dispatch_load.
LEMMA DispatchSteps ==
  ASSUME IInv, NEW c \in Calls, Dispatch(c)
  PROVE  Ordinary(c) /\ DataOK' /\ UNCHANGED <<status, finals>>
<1>1. DataOK /\ CallOK(calls[c]) /\ calls[c] \in CallStates
  BY TypeParts DEF IInv, CallOK
<1>2. {"papers", "dispatch", "dispatchTrip", "dispatchMixer"} \subseteq
        PCs \ (Transiting \union {"history"})
  BY DEF PCs, Transiting
<1>3. CASE IssueGatePass(c)
  <2>1. calls[c].l \in Loads
    BY <1>1, <1>3 DEF IssueGatePass, At, CallOK, OrderPCs, Transiting
  <2> QED
    BY <1>1, <1>3, <2>1, EndOrdinary DEF IssueGatePass, DataOK, order, ghosts
<1>4. CASE CheckDispatchable(c)
  <2> DEFINE r == [calls[c] EXCEPT !.pc = "papers", !.seenOrder = status]
  <2>1. r \in CallStates /\ r.pc = "papers" /\ r.l = calls[c].l
    BY <1>1, <1>2 DEF CallStates, DataOK
  <2>2. CallOK(r)
    BY <1>1, <1>4, <2>1 DEF CallOK, CheckDispatchable, At, OrderPCs, Transiting
  <2>3. Ordinary(c)
    BY <1>4, <2>1, <2>2, IdleOK DEF CheckDispatchable, Become, Ordinary
  <2> QED
    BY <1>1, <1>4, <2>3, ReadsKeepData DEF CheckDispatchable, Data
<1>5. CASE CheckPapers(c)
  BY <1>1, <1>2, <1>5, GotoOrdinary, EndOrdinary, ReadsKeepData
     DEF CheckPapers, Check, At, OrderPCs, Transiting, Data
<1>6. CASE ClaimDispatch(c)
  <2>1. Ordinary(c)
    BY <1>1, <1>2, <1>6, GotoOrdinary, EndOrdinary DEF ClaimDispatch, At, OrderPCs, Transiting
  <2> QED
    BY <1>1, <1>6, <2>1, SetLoadOK, Names DEF ClaimDispatch, order
<1>7. CASE DispatchTrip(c)
  <2>1. Ordinary(c)
    BY <1>1, <1>2, <1>7, GotoOrdinary DEF DispatchTrip, At, OrderPCs, Transiting
  <2> QED
    BY <1>1, <1>7, <2>1, SetTripOK, Names DEF DispatchTrip, order
<1>8. CASE DispatchMixer(c)
  <2>1. <<"DISPATCHED">> \in Seq(Statuses) /\ <<>> \in Seq(Statuses)
    BY DEF Statuses
  <2>2. Ordinary(c)
    BY <1>1, <1>8, <2>1, TransitOrdinary DEF DispatchMixer
  <2>3. calls[c].l \in Loads
    BY <1>1, <1>8 DEF DispatchMixer, At, CallOK, OrderPCs, Transiting
  <2>4. /\ mixer' \in [Vehicles -> [status : {"available", "loading", "dispatched"},
                                    load : Loads \union {NoLoad}]]
        /\ \A v \in Vehicles : mixer'[v].status = "available" <=> mixer'[v].load = NoLoad
    <3> DEFINE v0 == calls[c].seenLoad.vehicle
    <3>1. mixer' = IF mixer[v0].load = calls[c].l
                   THEN [mixer EXCEPT ![v0].status = "dispatched"] ELSE mixer
      BY <1>8 DEF DispatchMixer
    <3>2. CASE mixer[v0].load = calls[c].l /\ v0 \in Vehicles
      <4>1. mixer[v0].status # "available"
        BY <1>1, <2>3, <3>2, LoadAssumption DEF DataOK
      <4> QED
        BY <1>1, <2>3, <3>1, <3>2, <4>1, LoadAssumption DEF DataOK
    <3>3. CASE ~(mixer[v0].load = calls[c].l /\ v0 \in Vehicles)
      BY <1>1, <3>1, <3>3 DEF DataOK
    <3> QED
      BY <3>2, <3>3
  <2> QED
    BY <1>1, <1>8, <2>2, <2>4 DEF DispatchMixer, DataOK, order, papers, ghosts
<1> QED
  BY <1>3, <1>4, <1>5, <1>6, <1>7, <1>8 DEF Dispatch

-----------------------------------------------------------------------------
(* The driver.                                                             *)

\* No step of _advance breaks the documents or touches the order.
LEMMA AdvanceSteps ==
  ASSUME IInv, NEW c \in Calls, Advance(c)
  PROVE  Ordinary(c) /\ DataOK' /\ UNCHANGED <<status, finals>>
<1>1. DataOK /\ CallOK(calls[c]) /\ calls[c] \in CallStates
  BY TypeParts DEF IInv, CallOK
<1>2. {"step", "stepLoad", "startLoad", "undoTrip", "undoLoad"} \subseteq
        PCs \ (Transiting \union {"history"})
  BY DEF PCs, Transiting
<1>3. StepTo[calls[c].step] \in LoadStates \intersect TripStates
  BY <1>1, Names DEF CallStates
<1>4. calls[c].seenTrip \in TripStates /\ calls[c].seenLoad.status \in LoadStates
  BY <1>1 DEF CallStates, LoadDocs
<1>5. CASE ReadMyLoad(c)
  <2> DEFINE r == [calls[c] EXCEPT !.pc = "step", !.seenLoad = load[calls[c].l]]
  <2>1. calls[c].pc \notin OrderPCs /\ calls[c].l \in Loads
    BY <1>1, <1>5 DEF ReadMyLoad, At, CallOK, OrderPCs, Transiting
  <2>2. r \in CallStates /\ r.pc = "step" /\ r.l = calls[c].l
    BY <1>1, <1>2, <2>1 DEF CallStates, DataOK
  <2>3. CallOK(r)
    BY <2>1, <2>2 DEF CallOK, OrderPCs, Transiting
  <2>4. Ordinary(c)
    BY <1>5, <2>2, <2>3, IdleOK DEF ReadMyLoad, Become, Ordinary
  <2> QED
    BY <1>1, <1>5, <2>4, ReadsKeepData DEF ReadMyLoad, Data
<1>6. CASE StepTrip(c)
  <2>1. Ordinary(c)
    BY <1>1, <1>2, <1>6, GotoOrdinary, EndOrdinary DEF StepTrip, At, OrderPCs, Transiting
  <2> QED
    BY <1>1, <1>3, <1>6, <2>1, SetTripOK DEF StepTrip, order
<1>7. CASE StepLoad(c)
  <2>1. Ordinary(c)
    BY <1>1, <1>2, <1>7, GotoOrdinary, EndOrdinary DEF StepLoad, At, OrderPCs, Transiting
  <2> QED
    BY <1>1, <1>3, <1>7, <2>1, SetLoadOK DEF StepLoad, order
<1>8. CASE StartLoad(c)
  <2>1. Ordinary(c)
    BY <1>1, <1>2, <1>8, GotoOrdinary, EndOrdinary DEF StartLoad, At, OrderPCs, Transiting
  <2> QED
    BY <1>1, <1>8, <2>1, SetLoadOK, Names DEF StartLoad, order
<1>9. CASE UndoTrip(c)
  <2>1. Ordinary(c)
    BY <1>1, <1>2, <1>9, GotoOrdinary DEF UndoTrip, At, OrderPCs, Transiting
  <2> QED
    BY <1>1, <1>4, <1>9, <2>1, SetTripOK DEF UndoTrip, order
<1>10. CASE UndoLoad(c)
  BY <1>1, <1>4, <1>10, SetLoadOK, EndOrdinary DEF UndoLoad, order
<1> QED
  BY <1>5, <1>6, <1>7, <1>8, <1>9, <1>10 DEF Advance

\* Neither does a step of submit_pod outside the reconciliation.
LEMMA SubmitPodSteps ==
  ASSUME IInv, NEW c \in Calls, SubmitPod(c)
  PROVE  Ordinary(c) /\ DataOK' /\ UNCHANGED <<status, finals>>
<1>1. DataOK /\ CallOK(calls[c]) /\ calls[c] \in CallStates
  BY TypeParts DEF IInv, CallOK
<1>2. {"podClaim", "podInsert", "podPut", "undoPod", "undoClaim", "undoPut", "sum",
       "finishTrip", "freeMixer"} \subseteq PCs \ (Transiting \union {"history"})
  BY DEF PCs, Transiting
<1>3. calls[c].seenTrip \in TripStates /\ calls[c].seenLoad.status \in LoadStates
  BY <1>1 DEF CallStates, LoadDocs
<1>4. CASE ReadPodLoad(c)
  <2> DEFINE r == [calls[c] EXCEPT !.pc = "podClaim", !.seenLoad = load[calls[c].l]]
  <2>1. calls[c].pc \notin OrderPCs /\ calls[c].l \in Loads
    BY <1>1, <1>4 DEF ReadPodLoad, At, CallOK, OrderPCs, Transiting
  <2>2. r \in CallStates /\ r.pc = "podClaim" /\ r.l = calls[c].l
    BY <1>1, <1>2, <2>1 DEF CallStates, DataOK
  <2>3. CallOK(r)
    BY <2>1, <2>2 DEF CallOK, OrderPCs, Transiting
  <2>4. Ordinary(c)
    BY <1>4, <2>2, <2>3, IdleOK DEF ReadPodLoad, Become, Ordinary
  <2> QED
    BY <1>1, <1>4, <2>4, ReadsKeepData DEF ReadPodLoad, Data
<1>5. CASE ClaimPod(c)
  <2>1. Ordinary(c)
    BY <1>1, <1>2, <1>5, GotoOrdinary, EndOrdinary DEF ClaimPod, At, OrderPCs, Transiting
  <2> QED
    BY <1>1, <1>5, <2>1, SetTripOK, Names DEF ClaimPod, order
<1>6. CASE InsertPod(c)
  <2>1. Ordinary(c)
    BY <1>1, <1>2, <1>6, GotoOrdinary DEF InsertPod, At, OrderPCs, Transiting
  <2>2. calls[c].quantity \in Nat
    BY <1>1 DEF CallStates
  <2> QED
    BY <1>1, <1>6, <2>1, <2>2 DEF InsertPod, DataOK, order, papers, ghosts
<1>7. CASE DeliverLoad(c)
  <2> DEFINE r == [calls[c] EXCEPT !.pc = "sum", !.put = TRUE]
  <2>1. calls[c].pc \notin OrderPCs /\ calls[c].l \in Loads
    BY <1>1, <1>7 DEF DeliverLoad, At, CallOK, OrderPCs, Transiting
  <2>2. r \in CallStates /\ r.pc = "sum" /\ r.l = calls[c].l
    BY <1>1, <1>2 DEF CallStates
  <2>3. CallOK(r)
    BY <2>1, <2>2 DEF CallOK, OrderPCs, Transiting
  <2>4. Ordinary(c)
    BY <1>1, <1>2, <1>7, <2>1, <2>2, <2>3, GotoOrdinary DEF DeliverLoad, Become, Ordinary
  <2> QED
    BY <1>1, <1>7, <2>4, SetLoadOK, Names DEF DeliverLoad, order
<1>8. CASE UndoPod(c)
  <2>1. Ordinary(c)
    BY <1>1, <1>2, <1>8, GotoOrdinary DEF UndoPod, At, OrderPCs, Transiting
  <2>2. calls[c].l \in Loads
    BY <1>1, <1>8 DEF UndoPod, At, CallOK, OrderPCs, Transiting
  <2> QED
    BY <1>1, <1>8, <2>1, <2>2 DEF UndoPod, DataOK, order, papers
<1>9. CASE UndoClaim(c)
  <2>1. Ordinary(c)
    BY <1>1, <1>2, <1>9, GotoOrdinary, EndOrdinary DEF UndoClaim, Check, At, OrderPCs, Transiting
  <2> QED
    BY <1>1, <1>3, <1>9, <2>1, SetTripOK DEF UndoClaim, order
<1>10. CASE UndoDelivery(c)
  BY <1>1, <1>3, <1>10, SetLoadOK, EndOrdinary DEF UndoDelivery, order
<1>11. CASE FinishTrip(c)
  <2>1. Ordinary(c)
    BY <1>1, <1>2, <1>11, GotoOrdinary, EndOrdinary DEF FinishTrip, At, OrderPCs, Transiting
  <2> QED
    BY <1>1, <1>11, <2>1, SetTripOK, Names DEF FinishTrip, order
<1>12. CASE FreeMixer(c)
  <2>1. /\ mixer' \in [Vehicles -> [status : {"available", "loading", "dispatched"},
                                    load : Loads \union {NoLoad}]]
        /\ \A v \in Vehicles : mixer'[v].status = "available" <=> mixer'[v].load = NoLoad
    BY <1>1, <1>12 DEF FreeMixer, DataOK
  <2> QED
    BY <1>1, <1>12, <2>1, EndOrdinary DEF FreeMixer, DataOK, order, papers, ghosts
<1> QED
  BY <1>4, <1>5, <1>6, <1>7, <1>8, <1>9, <1>10, <1>11, <1>12 DEF SubmitPod

-----------------------------------------------------------------------------
(* The reconciliation of the order.                                        *)

\* Every step keeps the documents well-typed, moves the order at most from DISPATCHED
\* to DELIVERED and has the delivery recorded at most once.
LEMMA ReconcileSteps ==
  ASSUME IInv, NEW c \in Calls, Reconcile(c)
  PROVE  /\ IInv'
         /\ status' # status => status = "DISPATCHED" /\ status' = "DELIVERED"
<1>1. DataOK /\ CallOK(calls[c]) /\ calls[c] \in CallStates
  BY TypeParts DEF IInv, CallOK
<1>2. {"storeSum", "remaining", "latest", "finalize", "undoPod", "finishTrip"} \subseteq
        PCs \ (Transiting \union {"history"})
  BY DEF PCs, Transiting
<1>3. ASSUME Ordinary(c), DataOK', UNCHANGED <<status, finals>> PROVE IInv'
  BY <1>3, OrdinaryCalls, OrdinaryFinal DEF IInv, TypeOK, DataOK, FinalInv
<1>4. CASE ReadPods(c)
  <2> DEFINE r == [calls[c] EXCEPT !.pc = "storeSum", !.seenPods = pod]
  <2>1. calls[c].pc \notin OrderPCs /\ calls[c].l \in Loads
    BY <1>1, <1>4 DEF ReadPods, At, CallOK, OrderPCs, Transiting
  <2>2. r \in CallStates /\ r.pc = "storeSum" /\ r.l = calls[c].l
    BY <1>1, <1>2 DEF CallStates, DataOK
  <2>3. CallOK(r)
    BY <2>1, <2>2 DEF CallOK, OrderPCs, Transiting
  <2>4. Ordinary(c)
    BY <1>4, <2>2, <2>3 DEF ReadPods, Become, Ordinary
  <2> QED
    BY <1>1, <1>3, <1>4, <2>4, ReadsKeepData DEF ReadPods, Data
<1>5. CASE StoreSum(c)
  <2>1. Ordinary(c)
    BY <1>1, <1>2, <1>5, GotoOrdinary DEF StoreSum, At, OrderPCs, Transiting
  <2>2. DataOK'
    BY <1>1, <1>5 DEF StoreSum, DataOK, papers, ghosts, CallStates
  <2> QED
    BY <1>3, <1>5, <2>1, <2>2 DEF StoreSum
<1>6. CASE CheckRemaining(c)
  <2>1. Ordinary(c)
    BY <1>1, <1>2, <1>6, GotoOrdinary DEF CheckRemaining, At, OrderPCs, Transiting
  <2> QED
    BY <1>1, <1>3, <1>6, <2>1, ReadsKeepData DEF CheckRemaining, Data
<1>7. CASE ReadLatest(c)
  <2>1. Ordinary(c)
    BY <1>1, <1>2, <1>7, GotoOrdinary DEF ReadLatest, At, OrderPCs, Transiting
  <2> QED
    BY <1>1, <1>3, <1>7, <2>1, ReadsKeepData DEF ReadLatest, Data
<1>8. CASE FinalizeOrder(c)
  <2>1. CASE status # "DISPATCHED"
    <3>1. Ordinary(c)
      BY <1>1, <1>2, <1>8, <2>1, GotoOrdinary DEF FinalizeOrder, At, OrderPCs, Transiting
    <3>2. DataOK'
      BY <1>1, <1>8, <2>1 DEF FinalizeOrder, DataOK, papers, ghosts
    <3> QED
      BY <1>3, <1>8, <2>1, <3>1, <3>2 DEF FinalizeOrder
  <2>2. CASE status = "DISPATCHED"
    <3> DEFINE r == [calls[c] EXCEPT !.pc = "history"]
    <3>1. calls[c].pc \notin OrderPCs /\ calls[c].l \in Loads
      BY <1>1, <1>8 DEF FinalizeOrder, At, CallOK, OrderPCs, Transiting
    <3>2. r \in CallStates /\ r.pc = "history" /\ r.l = calls[c].l
      BY <1>1 DEF CallStates, PCs
    <3>3. CallOK(r) /\ calls' = [calls EXCEPT ![c] = r]
      BY <1>8, <2>2, <3>1, <3>2 DEF FinalizeOrder, Goto, Become, CallOK, OrderPCs, Transiting
    <3>4. status' = "DELIVERED" /\ UNCHANGED finals
      BY <1>8, <2>2 DEF FinalizeOrder
    <3>5. DataOK'
      BY <1>1, <1>8, <2>2 DEF FinalizeOrder, DataOK, papers, ghosts, CallStates, Statuses
    <3>6. calls \in [Calls -> CallStates]
      BY TypeParts
    <3>7. finals = 0 /\ \A d \in Calls : ~At(d, "history")
      BY <2>2 DEF IInv, FinalInv
    <3>8. FinalInv'
      BY <3>2, <3>3, <3>4, <3>6, <3>7 DEF FinalInv, At
    <3>9. TypeOK' /\ \A d \in Calls : CallOK(calls'[d])
      BY <3>2, <3>3, <3>5, <3>6 DEF TypeOK, DataOK, IInv
    <3> QED
      BY <2>2, <3>4, <3>8, <3>9 DEF IInv
  <2> QED
    BY <2>1, <2>2
<1>9. CASE RecordFinal(c)
  <2>1. Ordinary(c)
    BY <1>1, <1>2, <1>9, GotoOrdinary DEF RecordFinal, At, OrderPCs, Transiting
  <2>2. finals = 0 /\ status = "DELIVERED" /\ \A d \in Calls : At(d, "history") => d = c
    BY <1>9 DEF IInv, FinalInv, RecordFinal
  <2>3. finals' = 1 /\ status' = "DELIVERED"
    BY <1>9, <2>2 DEF RecordFinal
  <2>4. DataOK'
    BY <1>1, <1>9, <2>3 DEF RecordFinal, DataOK, papers, ghosts
  <2>5. \A d \in Calls : ~At(d, "history")'
    BY <2>1, <2>2, OrdinaryCalls
  <2>6. FinalInv'
    BY <2>3, <2>5 DEF FinalInv
  <2> QED
    BY <2>1, <2>2, <2>3, <2>4, <2>6, OrdinaryCalls DEF IInv, TypeOK, DataOK
<1> QED
  BY <1>4, <1>5, <1>6, <1>7, <1>8, <1>9 DEF Reconcile

-----------------------------------------------------------------------------
(* New requests and faults.                                                *)

\* A request is admitted with a record of the right shape and writes nothing yet.
LEMMA RequestSteps ==
  ASSUME IInv, NEW c \in Calls, Request(c)
  PROVE  Ordinary(c) /\ UNCHANGED Data
<1>1. DataOK /\ Idle \in CallStates /\ Idle.pc = "idle" /\ Idle.todo = <<>>
  BY TypeParts, IdleOK DEF CallOK
<1>2. {"planned", "validate", "cancelLoad", "preparable", "gatePass", "dispatchable", "myLoad",
       "podLoad"} \subseteq PCs \ (Transiting \union {"history"})
  BY DEF PCs, Transiting
<1>3. CASE StartCancelOrder(c)
  <2>1. <<"CANCELLED">> \in Seq(Statuses)
    BY DEF Statuses
  <2> QED
    BY <1>3, <2>1, IdleOK, TransitOrdinary DEF StartCancelOrder
<1> SUFFICES ASSUME NEW l \in Loads,
                    \/ StartCreate(c, l, <<NoVehicle, NoDriver>>)
                    \/ \E p \in Pairs : StartCreate(c, l, p) \/ StartAssign(c, l, p)
                    \/ StartCancelLoad(c, l) \/ StartPrepare(c, l) \/ StartGatePass(c, l)
                    \/ StartDispatch(c, l)
                    \/ \E s \in Steps : StartAdvance(c, l, s)
                    \/ \E q \in PodQuantities : StartPod(c, l, q)
             PROVE  Ordinary(c) /\ UNCHANGED Data
  BY <1>3 DEF Request
<1>4. ASSUME NEW r \in CallStates, r.l = l, r.pc \in PCs \ (Transiting \union {"history"}),
             Become(c, r)
      PROVE  Ordinary(c)
  BY <1>4 DEF CallOK, Ordinary, Become, OrderPCs, Transiting
<1>5. ASSUME NEW p, p = <<NoVehicle, NoDriver>> \/ p \in Pairs, StartCreate(c, l, p)
      PROVE  Ordinary(c) /\ UNCHANGED Data
  <2> DEFINE r == [Idle EXCEPT !.pc = "planned", !.l = l, !.vehicle = p[1], !.driver = p[2]]
  <2>1. p[1] \in Vehicles \union {NoVehicle} /\ p[2] \in Drivers \union {NoDriver}
    BY <1>5, LoadAssumption
  <2>2. r \in CallStates /\ r.pc = "planned" /\ r.l = l
    BY <1>1, <1>2, <2>1 DEF CallStates
  <2> QED
    BY <1>2, <1>4, <1>5, <2>2 DEF StartCreate
<1>6. ASSUME NEW p \in Pairs, StartAssign(c, l, p) PROVE Ordinary(c) /\ UNCHANGED Data
  <2> DEFINE r == [Idle EXCEPT !.pc = "validate", !.l = l, !.vehicle = p[1], !.driver = p[2]]
  <2>1. p[1] \in Vehicles /\ p[2] \in Drivers
    BY LoadAssumption
  <2>2. r \in CallStates /\ r.pc = "validate" /\ r.l = l
    BY <1>1, <1>2, <2>1 DEF CallStates
  <2> QED
    BY <1>2, <1>4, <1>6, <2>2 DEF StartAssign
<1>7. CASE StartCancelLoad(c, l)
  <2> DEFINE r == [Idle EXCEPT !.pc = "cancelLoad", !.l = l]
  <2>1. r \in CallStates /\ r.pc = "cancelLoad" /\ r.l = l
    BY <1>1, <1>2 DEF CallStates
  <2> QED
    BY <1>2, <1>4, <1>7, <2>1 DEF StartCancelLoad
<1>8. CASE StartPrepare(c, l)
  <2> DEFINE r == [Idle EXCEPT !.pc = "preparable", !.l = l, !.seenLoad = load[l]]
  <2>1. r \in CallStates /\ r.pc = "preparable" /\ r.l = l
    BY <1>1, <1>2 DEF CallStates, DataOK
  <2> QED
    BY <1>2, <1>4, <1>8, <2>1 DEF StartPrepare
<1>9. CASE StartGatePass(c, l)
  <2> DEFINE r == [Idle EXCEPT !.pc = "gatePass", !.l = l]
  <2>1. r \in CallStates /\ r.pc = "gatePass" /\ r.l = l
    BY <1>1, <1>2 DEF CallStates
  <2> QED
    BY <1>2, <1>4, <1>9, <2>1 DEF StartGatePass
<1>10. CASE StartDispatch(c, l)
  <2> DEFINE r == [Idle EXCEPT !.pc = "dispatchable", !.l = l, !.seenLoad = load[l]]
  <2>1. r \in CallStates /\ r.pc = "dispatchable" /\ r.l = l
    BY <1>1, <1>2 DEF CallStates, DataOK
  <2> QED
    BY <1>2, <1>4, <1>10, <2>1 DEF StartDispatch
<1>11. ASSUME NEW s \in Steps, StartAdvance(c, l, s) PROVE Ordinary(c) /\ UNCHANGED Data
  <2> DEFINE r == [Idle EXCEPT !.pc = "myLoad", !.l = l, !.step = s, !.seenTrip = trip[l].status]
  <2>1. trip[l].status \in TripStates
    BY <1>1 DEF DataOK, TripDocs
  <2>2. r \in CallStates /\ r.pc = "myLoad" /\ r.l = l
    BY <1>1, <1>2, <2>1 DEF CallStates
  <2> QED
    BY <1>2, <1>4, <1>11, <2>2 DEF StartAdvance
<1>12. ASSUME NEW q \in PodQuantities, StartPod(c, l, q) PROVE Ordinary(c) /\ UNCHANGED Data
  <2> DEFINE r == [Idle EXCEPT !.pc = "podLoad", !.l = l, !.quantity = q,
                               !.seenTrip = trip[l].status]
  <2>1. trip[l].status \in TripStates /\ q \in Nat
    BY <1>1, LoadAssumption DEF DataOK, TripDocs
  <2>2. r \in CallStates /\ r.pc = "podLoad" /\ r.l = l
    BY <1>1, <1>2, <2>1 DEF CallStates
  <2> QED
    BY <1>2, <1>4, <1>12, <2>2 DEF StartPod
<1> QED
  BY <1>5, <1>6, <1>7, <1>8, <1>9, <1>10, <1>11, <1>12

\* A request that dies or is thrown into its exception handler writes nothing.
LEMMA FaultSteps ==
  ASSUME IInv, NEW c \in Calls, Crash(c) \/ DatabaseError(c)
  PROVE  Ordinary(c) /\ DataOK' /\ UNCHANGED <<status, finals>>
<1>1. DataOK /\ CallOK(calls[c])
  BY TypeParts DEF IInv
<1>2. {"undoPod", "undoTrip"} \subseteq PCs \ (Transiting \union {"history"})
  BY DEF PCs, Transiting
<1>3. CASE Crash(c)
  BY <1>1, <1>3, EndOrdinary DEF Crash, DataOK, order, papers, ghosts
<1>4. CASE DatabaseError(c)
  <2>1. Ordinary(c)
    BY <1>1, <1>2, <1>4, GotoOrdinary DEF DatabaseError, OrderPCs, Transiting
  <2> QED
    BY <1>1, <1>4, <2>1 DEF DatabaseError, DataOK, order, papers, ghosts
<1> QED
  BY <1>3, <1>4

-----------------------------------------------------------------------------
(* The inductive invariant and what follows from it.                       *)

\* The invariant holds at the start.
LEMMA InitInv == Init => IInv
<1> SUFFICES ASSUME Init PROVE IInv
  OBVIOUS
<1>1. PICK crew \in Crews :
        /\ load = [l \in Loads |-> IF l \in Prepared
             THEN [status |-> "READY_TO_DISPATCH", vehicle |-> crew[l][1], driver |-> crew[l][2]]
             ELSE AbsentLoad]
        /\ trip = [l \in Loads |-> IF l \in Prepared
             THEN [status |-> "ASSIGNED", vehicle |-> crew[l][1], driver |-> crew[l][2]]
             ELSE NoTrip]
        /\ mixer = [v \in Vehicles |->
             IF {l \in Prepared : crew[l][1] = v} = {}
             THEN [status |-> "available", load |-> NoLoad]
             ELSE [status |-> "loading", load |-> CHOOSE l \in {l \in Prepared : crew[l][1] = v} : TRUE]]
  BY DEF Init
<1>2. \A l \in Prepared : /\ l \in Loads
                          /\ crew[l][1] \in Vehicles /\ crew[l][2] \in Drivers
  BY LoadAssumption DEF Crews
<1>3. AbsentLoad \in LoadDocs /\ NoTrip \in TripDocs
  BY DEF AbsentLoad, NoTrip, LoadDocs, TripDocs, LoadStates, TripStates
<1>4. load \in [Loads -> LoadDocs] /\ trip \in [Loads -> TripDocs]
  BY <1>1, <1>2, <1>3, Names DEF LoadDocs, TripDocs
<1>5. \A v \in Vehicles : {l \in Prepared : crew[l][1] = v} # {} =>
        (CHOOSE l \in {l \in Prepared : crew[l][1] = v} : TRUE) \in Loads
  BY <1>2
<1>6. /\ mixer \in [Vehicles -> [status : {"available", "loading", "dispatched"},
                                 load : Loads \union {NoLoad}]]
      /\ \A v \in Vehicles : mixer[v].status = "available" <=> mixer[v].load = NoLoad
  BY <1>1, <1>5, LoadAssumption
<1>7. /\ status \in Statuses \ {"DELIVERED"} /\ counted \in [Loads -> Nat] /\ finals = 0
      /\ challan \subseteq Loads /\ gatePass \subseteq Loads /\ pod \in [Loads -> Nat]
      /\ calls = [c \in Calls |-> Idle] /\ fault = "none" /\ undone = {}
  BY LoadAssumption DEF Init, Statuses
<1>8. calls \in [Calls -> CallStates] /\ \A c \in Calls : CallOK(calls[c]) /\ ~At(c, "history")
  BY <1>7, IdleOK DEF CallOK, At
<1> QED
  BY <1>4, <1>6, <1>7, <1>8 DEF IInv, TypeOK, FinalInv

\* Every step keeps the invariant and moves the order along the table, or from
\* DISPATCHED to DELIVERED.
LEMMA StepInv ==
  ASSUME IInv, [Next]_vars
  PROVE  /\ IInv'
         /\ status' # status => \/ can_transition(status, status')
                                \/ status = "DISPATCHED" /\ status' = "DELIVERED"
<1>1. ASSUME NEW c \in Calls, Ordinary(c), DataOK', UNCHANGED finals,
             status' # status => can_transition(status, status')
      PROVE  IInv'
  <2>1. status = "DELIVERED" => status' = "DELIVERED"
    BY <1>1, Table DEF IInv, TypeOK
  <2>2. FinalInv'
    BY <1>1, <2>1, OrdinaryFinal DEF IInv, FinalInv
  <2> QED
    BY <1>1, <2>2, OrdinaryCalls DEF IInv, TypeOK, DataOK
<1>2. CASE UNCHANGED vars
  BY <1>2 DEF vars, IInv, TypeOK, FinalInv, At, CallOK
<1>3. ASSUME NEW c \in Calls, Request(c) PROVE IInv' /\ UNCHANGED status
  BY <1>1, <1>3, RequestSteps, TypeParts, ReadsKeepData DEF Data
<1>4. ASSUME NEW c \in Calls, Plan(c) \/ Prepare(c) \/ Dispatch(c) \/ Advance(c) \/ SubmitPod(c)
                              \/ Crash(c) \/ DatabaseError(c)
      PROVE  IInv' /\ UNCHANGED status
  BY <1>1, <1>4, PlanSteps, PrepareSteps, DispatchSteps, AdvanceSteps, SubmitPodSteps, FaultSteps
<1>5. ASSUME NEW c \in Calls, Transition(c)
      PROVE  IInv' /\ (status' # status => can_transition(status, status'))
  BY <1>1, <1>5, TransitionSteps
<1>6. ASSUME NEW c \in Calls, Reconcile(c)
      PROVE  IInv' /\ (status' # status => status = "DISPATCHED" /\ status' = "DELIVERED")
  BY <1>6, ReconcileSteps
<1> QED
  BY <1>2, <1>3, <1>4, <1>5, <1>6 DEF Next, Serve

\* The inductive invariant holds throughout.
THEOREM Invariance == Spec => []IInv
<1>1. IInv /\ [Next]_vars => IInv'
  BY StepInv
<1> QED
  BY InitInv, <1>1, PTL DEF Spec

\* Every document and every request keeps its shape, and a mixer is available
\* exactly if it carries no load.
THEOREM TypeCorrect == Spec => []TypeOK
<1>1. IInv => TypeOK
  BY DEF IInv
<1> QED
  BY Invariance, <1>1, PTL

\* However many requests finish the order together, its delivery is recorded once.
THEOREM DeliveryRecordedOnce == Spec => []FinalizedOnce
<1>1. IInv => FinalizedOnce
  BY DEF IInv, FinalInv, FinalizedOnce
<1> QED
  BY Invariance, <1>1, PTL

\* Whatever stale status a request has read, the order's status moves only along
\* the table, or from DISPATCHED to DELIVERED.
THEOREM OrderFollowsTable == Spec => OrderMovesAlongTable
<1>1. IInv /\ [Next]_vars =>
        [status' # status => \/ can_transition(status, status')
                             \/ status = "DISPATCHED" /\ status' = "DELIVERED"]_vars
  BY StepInv
<1> QED
  BY Invariance, <1>1, PTL DEF Spec, OrderMovesAlongTable

-----------------------------------------------------------------------------
(* The quantities of a set of loads are summed by a fold                   *)
(* (SumFunctionOnSet).  What a fold computes is an induction over the set; *)
(* here the induction is the statement that every family of subsets of a   *)
(* finite set has a smallest member.                                       *)

\* The element a fold takes out of a set first.
Pick(s) == CHOOSE x \in s : TRUE

\* g is the table of the partial sums that the fold of fun over S computes.
SumTable(fun, S, g) ==
  g = [s \in SUBSET S |-> IF s = {} THEN 0 ELSE fun[Pick(s)] + g[s \ {Pick(s)}]]

\* It is one of them.
LEMMA PickIn == ASSUME NEW s, s # {} PROVE Pick(s) \in s
  BY DEF Pick

\* A family of subsets of a finite set has a smallest member.
LEMMA Smallest ==
  ASSUME NEW S, IsFiniteSet(S), NEW F \in SUBSET SUBSET S, F # {}
  PROVE  \E T \in F : \A U \in F : U \subseteq T => U = T
<1>1. IsWellFoundedOn(StrictSubsetOrdering(S), SUBSET S)
  BY FS_StrictSubsetOrderingWellFounded, FS_FiniteSubsetsOfFinite
<1>2. \E T \in F : \A U \in F : ~(<<U, T>> \in StrictSubsetOrdering(S))
  <2> HIDE DEF IsWellFoundedOn
  <2> DEFINE R == StrictSubsetOrdering(S)
  <2>1. IsWellFoundedOn(R, SUBSET S)
    BY <1>1
  <2>2. F \subseteq SUBSET S
    OBVIOUS
  <2> HIDE DEF R
  <2>3. \E T \in F : \A U \in F : ~(<<U, T>> \in R)
    BY <2>1, <2>2, WFMin
  <2> QED
    BY <2>3 DEF R
<1> QED
  BY <1>2 DEF StrictSubsetOrdering

\* A sum is the last entry of a table.
LEMMA Unfold ==
  ASSUME NEW fun, NEW S
  PROVE  SumFunctionOnSet(fun, S) = (CHOOSE g : SumTable(fun, S, g))[S]
  BY DEF SumFunctionOnSet, FoldFunctionOnSet, MapThenFoldSet, SumTable, Pick

\* Two tables agree on the sets that both have.
LEMMA TablesAgree ==
  ASSUME NEW fun, NEW S, NEW T, NEW g, NEW h, IsFiniteSet(S), SumTable(fun, S, g), SumTable(fun, T, h)
  PROVE  \A s \in SUBSET S : s \subseteq T => g[s] = h[s]
<1> DEFINE F == {s \in SUBSET S : s \subseteq T /\ g[s] # h[s]}
<1>1. SUFFICES F = {}
  OBVIOUS
<1>2. SUFFICES ASSUME F # {} PROVE FALSE
  OBVIOUS
<1>3. PICK s \in F : \A u \in F : u \subseteq s => u = s
  <2>1. F \in SUBSET SUBSET S
    OBVIOUS
  <2>2. F # {}
    BY <1>2
  <2> HIDE DEF F
  <2> QED
    BY <2>1, <2>2, Smallest
<1>4. CASE s = {}
  BY <1>3, <1>4 DEF SumTable
<1>5. CASE s # {}
  <2>1. Pick(s) \in s
    BY <1>5, PickIn
  <2>2. s \ {Pick(s)} \subseteq s /\ s \ {Pick(s)} # s
    BY <2>1
  <2>3. g[s \ {Pick(s)}] = h[s \ {Pick(s)}]
    BY <1>3, <2>2
  <2>4. g[s] = fun[Pick(s)] + g[s \ {Pick(s)}] /\ h[s] = fun[Pick(s)] + h[s \ {Pick(s)}]
    BY <1>5 DEF SumTable
  <2> QED
    BY <2>3, <2>4
<1> QED
  BY <1>4, <1>5

\* Every finite set has a table.
LEMMA TableExists ==
  ASSUME NEW fun, NEW S, IsFiniteSet(S)
  PROVE  \E g : SumTable(fun, S, g)
<1> DEFINE F == {T \in SUBSET S : ~\E g : SumTable(fun, T, g)}
<1>1. SUFFICES ASSUME F # {} PROVE FALSE
  OBVIOUS
<1>2. PICK T \in F : \A U \in F : U \subseteq T => U = T
  <2>1. F \in SUBSET SUBSET S
    OBVIOUS
  <2>2. F # {}
    BY <1>1
  <2> HIDE DEF F
  <2> QED
    BY <2>1, <2>2, Smallest
<1> DEFINE table(U) == CHOOSE g : SumTable(fun, U, g)
<1>3. ASSUME NEW U \in SUBSET T, U # T PROVE SumTable(fun, U, table(U))
  BY <1>2, <1>3
<1> HIDE DEF table
<1> DEFINE g == [s \in SUBSET T |->
                   IF s = {} THEN 0 ELSE fun[Pick(s)] + table(s \ {Pick(s)})[s \ {Pick(s)}]]
<1>4. ASSUME NEW u \in SUBSET T, u # T PROVE g[u] = table(u)[u]
  <2>1. SumTable(fun, u, table(u))
    BY <1>3, <1>4
  <2>2. CASE u = {}
    BY <2>1, <2>2 DEF SumTable
  <2>3. CASE u # {}
    <3> DEFINE w == u \ {Pick(u)}
    <3>1. w \in SUBSET u /\ w # T /\ IsFiniteSet(w)
      BY <1>4, FS_Subset
    <3>2. SumTable(fun, w, table(w))
      BY <1>3, <3>1
    <3>3. table(w)[w] = table(u)[w]
      BY <2>1, <3>1, <3>2, TablesAgree
    <3>4. g[u] = fun[Pick(u)] + table(w)[w]
      BY <2>3
    <3>5. table(u)[u] = fun[Pick(u)] + table(u)[w]
      BY <2>1, <2>3 DEF SumTable
    <3> QED
      BY <3>3, <3>4, <3>5
  <2> QED
    BY <2>2, <2>3
<1>5. \A s \in SUBSET T : g[s] = IF s = {} THEN 0 ELSE fun[Pick(s)] + g[s \ {Pick(s)}]
  <2> SUFFICES ASSUME NEW s \in SUBSET T, s # {} PROVE g[s] = fun[Pick(s)] + g[s \ {Pick(s)}]
    OBVIOUS
  <2>1. s \ {Pick(s)} \in SUBSET T /\ s \ {Pick(s)} # T
    BY PickIn
  <2>2. g[s \ {Pick(s)}] = table(s \ {Pick(s)})[s \ {Pick(s)}]
    BY <1>4, <2>1
  <2> QED
    BY <2>2
<1>6. SumTable(fun, T, g)
  <2> DEFINE h == g
  <2>1. g = [s \in SUBSET T |-> g[s]]
    OBVIOUS
  <2> HIDE DEF g
  <2> QED
    BY <1>5, <2>1 DEF SumTable
<1> QED
  BY <1>2, <1>6

\* The sum over a set, one element at a time.
LEMMA SumStep ==
  ASSUME NEW fun, NEW S, IsFiniteSet(S)
  PROVE  /\ S = {} => SumFunctionOnSet(fun, S) = 0
         /\ S # {} => SumFunctionOnSet(fun, S) = fun[Pick(S)] + SumFunctionOnSet(fun, S \ {Pick(S)})
<1> DEFINE table(U) == CHOOSE g : SumTable(fun, U, g)
<1>1. \A U \in SUBSET S : SumTable(fun, U, table(U))
  BY TableExists, FS_Subset
<1>2. \A U \in SUBSET S : SumFunctionOnSet(fun, U) = table(U)[U]
  BY Unfold
<1> HIDE DEF table
<1>3. S = {} => table(S)[S] = 0
  BY <1>1 DEF SumTable
<1>4. ASSUME S # {} PROVE table(S)[S] = fun[Pick(S)] + table(S \ {Pick(S)})[S \ {Pick(S)}]
  <2>1. table(S)[S \ {Pick(S)}] = table(S \ {Pick(S)})[S \ {Pick(S)}]
    BY <1>1, TablesAgree
  <2>2. table(S)[S] = fun[Pick(S)] + table(S)[S \ {Pick(S)}]
    BY <1>1, <1>4 DEF SumTable
  <2> QED
    BY <2>1, <2>2
<1> QED
  BY <1>2, <1>3, <1>4

\* Sums of naturals are naturals.
LEMMA SumNat ==
  ASSUME NEW fun, NEW S, IsFiniteSet(S), \A x \in S : fun[x] \in Nat
  PROVE  SumFunctionOnSet(fun, S) \in Nat
<1> DEFINE F == {T \in SUBSET S : SumFunctionOnSet(fun, T) \notin Nat}
<1>1. SUFFICES ASSUME F # {} PROVE FALSE
  OBVIOUS
<1>2. PICK T \in F : \A U \in F : U \subseteq T => U = T
  <2>1. F \in SUBSET SUBSET S
    OBVIOUS
  <2>2. F # {}
    BY <1>1
  <2> HIDE DEF F
  <2> QED
    BY <2>1, <2>2, Smallest
<1>3. IsFiniteSet(T) /\ T # {}
  <2>1. IsFiniteSet(T) /\ SumFunctionOnSet(fun, T) \notin Nat
    BY <1>2, FS_Subset
  <2>2. SumFunctionOnSet(fun, {}) = 0
    <3>1. \A E : E = {} => SumFunctionOnSet(fun, E) = 0
      BY FS_EmptySet, SumStep
    <3> QED
      BY <3>1
  <2> QED
    BY <2>1, <2>2
<1>4. Pick(T) \in T /\ SumFunctionOnSet(fun, T \ {Pick(T)}) \in Nat
  BY <1>2, <1>3, PickIn
<1> QED
  BY <1>2, <1>3, <1>4, SumStep

\* Any element can be taken out first.
LEMMA SumRemove ==
  ASSUME NEW fun, NEW S, IsFiniteSet(S), \A x \in S : fun[x] \in Nat, NEW y \in S
  PROVE  SumFunctionOnSet(fun, S) = fun[y] + SumFunctionOnSet(fun, S \ {y})
<1> DEFINE F == {T \in SUBSET S : \E x \in T : SumFunctionOnSet(fun, T) # fun[x] + SumFunctionOnSet(fun, T \ {x})}
<1>1. SUFFICES ASSUME F # {} PROVE FALSE
  OBVIOUS
<1>2. PICK T \in F : \A U \in F : U \subseteq T => U = T
  <2>1. F \in SUBSET SUBSET S
    OBVIOUS
  <2>2. F # {}
    BY <1>1
  <2> HIDE DEF F
  <2> QED
    BY <2>1, <2>2, Smallest
<1>3. PICK x \in T : SumFunctionOnSet(fun, T) # fun[x] + SumFunctionOnSet(fun, T \ {x})
  BY <1>2
<1> DEFINE p == Pick(T)
           U == T \ {p}
           V == T \ {x}
           W == (T \ {p}) \ {x}
<1>4. p \in T /\ x \in S
  BY <1>3, PickIn
<1>5. \A A \in SUBSET T : IsFiniteSet(A) /\ SumFunctionOnSet(fun, A) \in Nat
  BY <1>2, FS_Subset, SumNat
<1>6. SumFunctionOnSet(fun, T) = fun[p] + SumFunctionOnSet(fun, U)
  BY <1>2, <1>3, <1>5, SumStep
<1>7. x # p
  BY <1>3, <1>6
<1> HIDE DEF p
<1>8. SumFunctionOnSet(fun, U) = fun[x] + SumFunctionOnSet(fun, W)
  <2>1. U \notin F /\ x \in U
    BY <1>2, <1>4, <1>7
  <2> QED
    BY <1>2, <2>1
<1>9. SumFunctionOnSet(fun, V) = fun[p] + SumFunctionOnSet(fun, W)
  <2>1. V \notin F /\ p \in V /\ V \ {p} = W
    BY <1>2, <1>4, <1>7
  <2> QED
    BY <1>2, <2>1
<1>10. fun[p] \in Nat /\ fun[x] \in Nat /\ SumFunctionOnSet(fun, W) \in Nat
  BY <1>2, <1>4, <1>5
<1> QED
  BY <1>3, <1>6, <1>8, <1>9, <1>10

\* A sum of naturals does not shrink when its set grows.
LEMMA SumMonotone ==
  ASSUME NEW fun, NEW S, IsFiniteSet(S), \A x \in S : fun[x] \in Nat, NEW R \in SUBSET S
  PROVE  SumFunctionOnSet(fun, R) <= SumFunctionOnSet(fun, S)
<1> DEFINE F == {T \in SUBSET S : R \subseteq T /\ ~(SumFunctionOnSet(fun, R) <= SumFunctionOnSet(fun, T))}
<1>1. SUFFICES ASSUME F # {} PROVE FALSE
  OBVIOUS
<1>2. PICK T \in F : \A U \in F : U \subseteq T => U = T
  <2>1. F \in SUBSET SUBSET S
    OBVIOUS
  <2>2. F # {}
    BY <1>1
  <2> HIDE DEF F
  <2> QED
    BY <2>1, <2>2, Smallest
<1>3. \A A \in SUBSET S : IsFiniteSet(A) /\ SumFunctionOnSet(fun, A) \in Nat
  BY FS_Subset, SumNat
<1>4. T # R
  BY <1>2, <1>3
<1>5. PICK x \in T : x \notin R
  BY <1>2, <1>4
<1>6. T \ {x} \notin F /\ R \subseteq T \ {x} /\ T \ {x} \in SUBSET S
  BY <1>2, <1>5
<1>7. SumFunctionOnSet(fun, R) <= SumFunctionOnSet(fun, T \ {x})
  BY <1>6
<1>8. SumFunctionOnSet(fun, T) = fun[x] + SumFunctionOnSet(fun, T \ {x})
  BY <1>2, <1>3, <1>5, SumRemove
<1>9. fun[x] \in Nat
  BY <1>5
<1> QED
  BY <1>2, <1>3, <1>6, <1>7, <1>8, <1>9

\* A sum of zeros is zero.
LEMMA SumZero ==
  ASSUME NEW fun, NEW S, IsFiniteSet(S), \A x \in S : fun[x] = 0
  PROVE  SumFunctionOnSet(fun, S) = 0
<1> DEFINE F == {T \in SUBSET S : SumFunctionOnSet(fun, T) # 0}
<1>1. SUFFICES ASSUME F # {} PROVE FALSE
  OBVIOUS
<1>2. PICK T \in F : \A U \in F : U \subseteq T => U = T
  <2>1. F \in SUBSET SUBSET S
    OBVIOUS
  <2>2. F # {}
    BY <1>1
  <2> HIDE DEF F
  <2> QED
    BY <2>1, <2>2, Smallest
<1>3. IsFiniteSet(T) /\ T # {}
  BY <1>2, FS_Subset, SumStep
<1>4. Pick(T) \in T /\ SumFunctionOnSet(fun, T \ {Pick(T)}) = 0
  BY <1>2, <1>3, PickIn
<1> QED
  BY <1>2, <1>3, <1>4, SumStep

-----------------------------------------------------------------------------

(* The part a request plays in the proof of delivery of a load.            *)

Counting == {"sum", "storeSum", "remaining", "latest", "finalize", "history"}
OwnerPCs == Counting \union {"podPut", "undoPod"}
DelivererPCs == Counting \union {"undoPod", "undoClaim", "undoPut"}
HolderPCs == OwnerPCs \union {"podInsert", "undoClaim", "finishTrip"}
RolePCs == HolderPCs \union {"undoPut"}

\* The request has inserted the proof that is on file and may yet remove it.
Owner(c, l) == calls[c].l = l /\ calls[c].pc \in OwnerPCs
\* The request has made the load DELIVERED and may yet take it back.
Deliverer(c, l) == calls[c].l = l /\ calls[c].put /\ calls[c].pc \in DelivererPCs
\* The request has claimed the trip and will let go of it.
Holder(c, l) == calls[c].l = l /\ calls[c].pc \in HolderPCs

\* Requests that have read the load, or the trip.
SeenPCs == {"step", "stepLoad", "startLoad", "undoTrip", "undoLoad", "podClaim", "podInsert",
            "undoClaim", "undoPut"} \union OwnerPCs
AdvancePCs == {"myLoad", "step", "stepLoad", "startLoad", "undoTrip"}
PodPCs == {"podLoad", "podClaim", "podInsert", "undoClaim"} \union OwnerPCs
Creating == {"planned", "validate", "insert"}
Gone == {"DELIVERED", "DELETED"}

\* What a request keeps from its reads, wherever the documents have gone meanwhile.
KeptBy(r) ==
  /\ r.pc \in SeenPCs => r.seenLoad.status # "ABSENT"
  /\ r.pc \in AdvancePCs => r.seenTrip \in StepFrom[r.step]
  /\ r.pc \in PodPCs => r.seenTrip \in PodStates
  /\ r.pc \in {"podLoad", "podClaim", "podInsert"} => r.quantity # 0
  /\ r.pc \in Counting \union {"undoPut"} => r.put
  /\ r.put => r.pc \in DelivererPCs \union {"finishTrip", "freeMixer"}

\* Only the request that creates a load knows of it before it exists.
CreatedOnce(l) ==
  /\ \A c \in Calls : calls[c].l = l /\ load[l].status = "ABSENT" =>
       calls[c].pc \in Creating /\ \A d \in Calls : calls[d].l = l => d = c
  /\ \A c \in Calls : calls[c].l = l /\ calls[c].pc \in {"planned", "insert"} =>
       load[l].status = "ABSENT"
  /\ load[l].status = "ABSENT" => trip[l].status = "NONE"

\* The proof on file has one owner at most, and the delivery one author ...
OneOwner(l) ==
  \A c \in Calls : Owner(c, l) => pod[l] # 0 /\ \A d \in Calls : Owner(d, l) => d = c
OneDeliverer(l) ==
  \A c \in Calls : Deliverer(c, l) => /\ load[l].status \in Gone
                                      /\ \A d \in Calls : Deliverer(d, l) => d = c

\* ... a proof whose owner is through is of a load delivered for good ...
ProofHasLoad(l) ==
  fault # "crash" /\ pod[l] # 0 =>
    \/ \E c \in Calls : Owner(c, l)
    \/ load[l].status = "DELETED"
    \/ load[l].status = "DELIVERED" /\ \A c \in Calls : ~Deliverer(c, l)

\* ... a claimed trip has a request that will let go of it ...
ClaimHasHolder(l) ==
  fault # "crash" /\ trip[l].status = "POD_FINALIZING" => \E c \in Calls : Holder(c, l)

\* ... and without an undo no request has anything to restore.
LoadHasProof(l) ==
  l \notin undone =>
    /\ load[l].status = "DELIVERED" => pod[l] # 0
    /\ \A c \in Calls : calls[c].l = l =>
         /\ calls[c].seenLoad.status = "DELIVERED" => load[l].status \in Gone
         /\ ~(calls[c].put /\ calls[c].pc \in {"undoClaim", "undoPut"})

PodInv(l) == /\ OneOwner(l) /\ OneDeliverer(l) /\ ProofHasLoad(l)
             /\ ClaimHasHolder(l) /\ LoadHasProof(l)

DInv == /\ \A c \in Calls : KeptBy(calls[c])
        /\ \A l \in Loads : CreatedOnce(l) /\ PodInv(l)

-----------------------------------------------------------------------------
(* How a step changes the requests.                                        *)

\* Only one request moves ...
Others(c) == \A d \in Calls : d # c => calls'[d] = calls[d]

\* ... to another database call, keeping what it knows.
Keeps(c, p) ==
  /\ calls'[c].pc = p
  /\ calls'[c].l = calls[c].l /\ calls'[c].quantity = calls[c].quantity
  /\ calls'[c].seenLoad = calls[c].seenLoad /\ calls'[c].seenTrip = calls[c].seenTrip
  /\ calls'[c].step = calls[c].step /\ calls'[c].put = calls[c].put

\* What a replaced record means for the requests.
LEMMA Becomes ==
  ASSUME calls \in [Calls -> CallStates], NEW c \in Calls, NEW r, Become(c, r)
  PROVE  Others(c) /\ calls'[c] = r
  BY DEF Become, Others

\* Going on keeps what the request knows.
LEMMA GotoKeeps ==
  ASSUME calls \in [Calls -> CallStates], NEW c \in Calls, NEW p \in PCs, Goto(c, p)
  PROVE  /\ Others(c) /\ Keeps(c, p)
         /\ calls'[c].seenPods = calls[c].seenPods /\ calls'[c].todo = calls[c].todo
<1> DEFINE r == [calls[c] EXCEPT !.pc = p]
<1>1. calls[c] \in CallStates
  OBVIOUS
<1>2. /\ r.pc = p /\ r.l = calls[c].l /\ r.quantity = calls[c].quantity
      /\ r.seenLoad = calls[c].seenLoad /\ r.seenTrip = calls[c].seenTrip
      /\ r.seenPods = calls[c].seenPods /\ r.step = calls[c].step
      /\ r.put = calls[c].put /\ r.todo = calls[c].todo
  BY <1>1 DEF CallStates
<1>3. Others(c) /\ calls'[c] = r
  BY Becomes DEF Goto
<1> QED
  BY <1>2, <1>3 DEF Keeps

\* An ended request knows nothing.
LEMMA EndIdles ==
  ASSUME calls \in [Calls -> CallStates], NEW c \in Calls, End(c)
  PROVE  Others(c) /\ calls'[c] = Idle
  BY Becomes DEF End

\* An idle request has read nothing and delivered nothing.
LEMMA IdleKnows ==
  /\ Idle.pc = "idle" /\ Idle.l = NoLoad /\ Idle.put = FALSE /\ Idle.todo = <<>>
  /\ Idle.seenLoad = AbsentLoad /\ AbsentLoad.status = "ABSENT" /\ KeptBy(Idle)
  BY DEF Idle, AbsentLoad, KeptBy, SeenPCs, AdvancePCs, PodPCs, OwnerPCs, Counting

-----------------------------------------------------------------------------
(* Steps that play no part in a delivery.                                  *)

\* A load is not delivered, nor is its delivery forgotten.
Benign(l) ==
  \/ load'[l].status = load[l].status
  \/ load'[l].status = "DELETED"
  \/ load[l].status \notin Gone /\ load'[l].status # "DELIVERED"

FaultKept == fault' # "crash" => fault # "crash"

\* A load keeps its invariant while the parts the request plays stay as they are.
LEMMA SameRoles ==
  ASSUME NEW c \in Calls, NEW l \in Loads, PodInv(l), Others(c), Benign(l), FaultKept,
         Owner(c, l)' <=> Owner(c, l), Deliverer(c, l)' <=> Deliverer(c, l),
         trip'[l].status = "POD_FINALIZING" =>
           Holder(c, l)' \/ (trip[l].status = "POD_FINALIZING" /\ ~Holder(c, l)),
         pod'[l] = pod[l], l \in undone' <=> l \in undone,
         l \notin undone /\ calls'[c].l = l =>
           /\ calls'[c].seenLoad.status = "DELIVERED" => load'[l].status \in Gone
           /\ ~(calls'[c].put /\ calls'[c].pc \in {"undoClaim", "undoPut"})
  PROVE  PodInv(l)'
<1>1. \A d \in Calls : /\ Owner(d, l)' <=> Owner(d, l)
                       /\ Deliverer(d, l)' <=> Deliverer(d, l)
                       /\ d # c => (Holder(d, l)' <=> Holder(d, l))
  BY DEF Others, Owner, Deliverer, Holder
<1>2. load[l].status \in Gone => load'[l].status \in Gone
  BY DEF Benign, Gone
<1>3. OneOwner(l)'
  BY <1>1 DEF PodInv, OneOwner
<1>4. OneDeliverer(l)'
  BY <1>1, <1>2 DEF PodInv, OneDeliverer
<1>5. ProofHasLoad(l)'
  BY <1>1 DEF PodInv, ProofHasLoad, Benign, Gone, FaultKept
<1>6. ClaimHasHolder(l)'
  BY <1>1 DEF PodInv, ClaimHasHolder, FaultKept
<1>7. LoadHasProof(l)'
  <2> SUFFICES ASSUME l \notin undone
               PROVE  /\ load'[l].status = "DELIVERED" => pod[l] # 0
                      /\ \A d \in Calls : calls'[d].l = l =>
                           /\ calls'[d].seenLoad.status = "DELIVERED" => load'[l].status \in Gone
                           /\ ~(calls'[d].put /\ calls'[d].pc \in {"undoClaim", "undoPut"})
    BY DEF LoadHasProof
  <2>1. load'[l].status = "DELIVERED" => pod[l] # 0
    BY DEF Benign, PodInv, LoadHasProof
  <2>2. ASSUME NEW d \in Calls, d # c, calls'[d].l = l
        PROVE  /\ calls'[d].seenLoad.status = "DELIVERED" => load'[l].status \in Gone
               /\ ~(calls'[d].put /\ calls'[d].pc \in {"undoClaim", "undoPut"})
    BY <1>2, <2>2 DEF Others, PodInv, LoadHasProof
  <2> QED
    BY <2>1, <2>2
<1> QED
  BY <1>3, <1>4, <1>5, <1>6, <1>7 DEF PodInv

\* A load is still known to its creator alone.
LEMMA CreatedKept ==
  ASSUME NEW c \in Calls, NEW l \in Loads, CreatedOnce(l), Others(c),
         load'[l].status = "ABSENT" <=> load[l].status = "ABSENT",
         load[l].status = "ABSENT" => trip'[l].status = trip[l].status,
         calls'[c].l = l /\ load[l].status = "ABSENT" =>
           /\ calls'[c].pc \in Creating
           /\ calls[c].l = l \/ \A d \in Calls : calls[d].l # l,
         calls'[c].l = l /\ calls'[c].pc \in {"planned", "insert"} => load[l].status = "ABSENT"
  PROVE  CreatedOnce(l)'
<1>1. \A d \in Calls : calls'[d].l = l /\ load[l].status = "ABSENT" =>
        calls'[d].pc \in Creating /\ \A e \in Calls : calls'[e].l = l => e = d
  BY DEF Others, CreatedOnce
<1>2. \A d \in Calls : calls'[d].l = l /\ calls'[d].pc \in {"planned", "insert"} =>
        load[l].status = "ABSENT"
  BY DEF Others, CreatedOnce
<1> QED
  BY <1>1, <1>2 DEF CreatedOnce

\* What a step that has nothing to do with proofs does to the documents ...
DataModest ==
  /\ UNCHANGED <<pod, undone>> /\ FaultKept
  /\ \A l \in Loads :
       /\ Benign(l)
       /\ load'[l].status = "ABSENT" <=> load[l].status = "ABSENT"
       /\ trip'[l].status # trip[l].status =>
            trip'[l].status # "POD_FINALIZING" /\ load[l].status # "ABSENT"

\* ... and to its request.
CallModest(c) ==
  /\ Others(c) /\ KeptBy(calls'[c])
  /\ calls[c].pc \notin RolePCs /\ calls'[c].pc \notin RolePCs
  /\ \A l \in Loads : calls'[c].l = l =>
       /\ \/ calls'[c].seenLoad.status = "ABSENT"
          \/ calls'[c].seenLoad = load[l] /\ UNCHANGED load
          \/ calls[c].l = l /\ calls'[c].seenLoad = calls[c].seenLoad
       /\ load[l].status = "ABSENT" =>
            /\ calls'[c].pc \in Creating
            /\ calls[c].l = l \/ \A d \in Calls : calls[d].l # l
       /\ calls'[c].pc \in {"planned", "insert"} => load[l].status = "ABSENT"

\* A step that has nothing to do with proofs.
Modest(c) == DataModest /\ CallModest(c)

\* A step modest in the documents and in its request is modest.
LEMMA BothModest == ASSUME NEW c \in Calls, DataModest, CallModest(c) PROVE Modest(c)
  BY DEF Modest

\* Such steps keep the invariant.
LEMMA ModestSteps ==
  ASSUME NEW c \in Calls, DInv, Modest(c)
  PROVE  DInv'
<1> USE DEF Modest
<1>1. \A d \in Calls : KeptBy(calls[d])'
  BY DEF DInv, CallModest, Others
<1>2. ASSUME NEW l \in Loads PROVE CreatedOnce(l)' /\ PodInv(l)'
  <2>1. CreatedOnce(l) /\ PodInv(l)
    BY DEF DInv
  <2>2. CreatedOnce(l)'
    BY <2>1, CreatedKept DEF DataModest, CallModest
  <2>3. /\ Owner(c, l)' <=> Owner(c, l)
        /\ Deliverer(c, l)' <=> Deliverer(c, l)
        /\ ~Holder(c, l)
    BY DEF CallModest, Owner, Deliverer, Holder, RolePCs, HolderPCs, DelivererPCs, OwnerPCs
  <2>4. Benign(l) /\ FaultKept /\ pod'[l] = pod[l] /\ (l \in undone' <=> l \in undone)
        /\ (trip'[l].status = "POD_FINALIZING" => trip[l].status = "POD_FINALIZING")
    BY DEF DataModest
  <2>5. Others(c) /\ calls'[c].pc \notin {"undoClaim", "undoPut"}
    BY DEF CallModest, RolePCs, HolderPCs
  <2>6. ASSUME l \notin undone, calls'[c].l = l, calls'[c].seenLoad.status = "DELIVERED"
        PROVE  load'[l].status \in Gone
    <3>1. CASE calls'[c].seenLoad = load[l] /\ UNCHANGED load
      BY <2>6, <3>1 DEF Gone
    <3>2. CASE calls[c].l = l /\ calls'[c].seenLoad = calls[c].seenLoad
      BY <2>1, <2>4, <2>6, <3>2 DEF PodInv, LoadHasProof, Benign, Gone
    <3> QED
      BY <2>6, <3>1, <3>2 DEF CallModest
  <2>7. PodInv(l)'
    BY <2>1, <2>3, <2>4, <2>5, <2>6, SameRoles
  <2> QED
    BY <2>2, <2>7
<1> QED
  BY <1>1, <1>2 DEF DInv

\* The facts about types the following steps rest on.
LEMMA Typed ==
  ASSUME IInv, NEW c \in Calls
  PROVE  /\ calls \in [Calls -> CallStates] /\ calls[c] \in CallStates
         /\ load \in [Loads -> LoadDocs] /\ trip \in [Loads -> TripDocs]
         /\ pod \in [Loads -> Nat] /\ undone \subseteq Loads
         /\ calls[c].pc \notin OrderPCs => calls[c].l \in Loads
         /\ NoLoad \notin Loads
  BY LoadAssumption DEF IInv, TypeOK, CallOK

\* A load exists for all but the requests that create it.
LEMMA LoadThere ==
  ASSUME DInv, NEW c \in Calls, calls[c].l \in Loads, calls[c].pc \notin Creating
  PROVE  load[calls[c].l].status # "ABSENT"
  BY DEF DInv, CreatedOnce

\* Reading leaves the documents alone.
LEMMA DataSame == ASSUME UNCHANGED Data PROVE DataModest
  BY DEF Data, DataModest, FaultKept, Benign

\* A load that exists and is not delivered may move, though not to DELIVERED.
LEMMA LoadModest ==
  ASSUME load \in [Loads -> LoadDocs], NEW l \in Loads, NEW s, SetLoad(l, s) \/ UNCHANGED load,
         s = "DELETED" \/ load[l].status \notin Gone, s \notin {"DELIVERED", "ABSENT"},
         load[l].status # "ABSENT", UNCHANGED <<trip, pod, ghosts>>
  PROVE  DataModest
<1>1. \A o \in Loads : load'[o].status = load[o].status \/ (o = l /\ load'[l].status = s)
  BY DEF SetLoad, LoadDocs
<1> QED
  BY <1>1 DEF DataModest, FaultKept, Benign, ghosts

\* A trip of a load that exists may move, though not be claimed for a proof.
LEMMA TripModest ==
  ASSUME trip \in [Loads -> TripDocs], NEW l \in Loads, NEW s, SetTrip(l, s) \/ UNCHANGED trip,
         s # "POD_FINALIZING", load[l].status # "ABSENT", UNCHANGED <<load, pod, ghosts>>
  PROVE  DataModest
<1>1. \A o \in Loads : trip'[o].status = trip[o].status \/ (o = l /\ trip'[l].status = s)
  BY DEF SetTrip, TripDocs
<1> QED
  BY <1>1 DEF DataModest, FaultKept, Benign, ghosts

\* Ending a request that plays no part.
LEMMA EndModest ==
  ASSUME IInv, NEW c \in Calls, calls[c].pc \notin RolePCs, End(c)
  PROVE  CallModest(c)
<1>1. Others(c) /\ calls'[c] = Idle
  BY Typed, EndIdles
<1> QED
  BY <1>1, Typed, IdleKnows
     DEF CallModest, RolePCs, HolderPCs, OwnerPCs, Counting

\* Going on to a call that needs no more than the request has read.
LEMMA KeepsModest ==
  ASSUME IInv, DInv, NEW c \in Calls, NEW p, Others(c), Keeps(c, p),
         calls[c].pc \notin RolePCs \union Creating \union OrderPCs \union {"freeMixer"},
         p \notin RolePCs \union {"planned", "insert", "validate", "podLoad", "podClaim"},
         p \in SeenPCs => calls[c].pc \in SeenPCs,
         p \in AdvancePCs => calls[c].pc \in AdvancePCs
  PROVE  CallModest(c)
<1>1. KeptBy(calls[c]) /\ ~calls[c].put
  BY DEF DInv, KeptBy, RolePCs, HolderPCs, DelivererPCs, OwnerPCs
<1>2. KeptBy(calls'[c])
  BY <1>1 DEF KeptBy, Keeps, PodPCs, RolePCs, HolderPCs, OwnerPCs, Counting
<1>3. calls[c].l \in Loads /\ load[calls[c].l].status # "ABSENT"
  BY Typed, LoadThere
<1> QED
  BY <1>2, <1>3 DEF CallModest, Keeps

\* A request that only moves between places outside the roles is modest.
LEMMA GotoModest ==
  ASSUME IInv, DInv, NEW c \in Calls, NEW p \in PCs, Goto(c, p),
         calls[c].pc \notin RolePCs \union Creating \union OrderPCs \union {"freeMixer"},
         p \notin RolePCs \union {"planned", "insert", "validate", "podLoad", "podClaim"},
         p \in SeenPCs => calls[c].pc \in SeenPCs,
         p \in AdvancePCs => calls[c].pc \in AdvancePCs
  PROVE  CallModest(c)
  BY Typed, GotoKeeps, KeepsModest

\* Going on to the order's transitions.
LEMMA TransitModest ==
  ASSUME IInv, DInv, NEW c \in Calls, NEW todo, Transit(c, calls[c], todo),
         calls[c].pc \notin RolePCs \union Creating \union {"freeMixer"}
  PROVE  CallModest(c)
<1>1. /\ Others(c)
      /\ \/ calls'[c] = Idle
         \/ calls'[c] = [calls[c] EXCEPT !.pc = "transit", !.todo = todo]
         \/ calls'[c] = [calls[c] EXCEPT !.pc = "cancelLoads"]
  BY Typed, Becomes DEF Transit
<1>2. CASE calls'[c] = Idle
  BY <1>1, <1>2, Typed, IdleKnows DEF CallModest, RolePCs, HolderPCs, OwnerPCs, Counting
<1>3. CASE calls'[c] # Idle
  <2>1. /\ calls'[c].pc \in {"transit", "cancelLoads"} /\ calls'[c].l = calls[c].l
        /\ calls'[c].seenLoad = calls[c].seenLoad /\ calls'[c].put = calls[c].put
    BY <1>1, <1>3, Typed DEF CallStates
  <2>2. KeptBy(calls[c]) /\ ~calls[c].put
    BY DEF DInv, KeptBy, RolePCs, HolderPCs, DelivererPCs, OwnerPCs
  <2>3. KeptBy(calls'[c])
    BY <2>1, <2>2 DEF KeptBy, SeenPCs, AdvancePCs, PodPCs, OwnerPCs, Counting
  <2>4. calls[c].l \in Loads => load[calls[c].l].status # "ABSENT"
    BY LoadThere
  <2> QED
    BY <1>1, <2>1, <2>3, <2>4 DEF CallModest, RolePCs, HolderPCs, OwnerPCs, Counting
<1> QED
  BY <1>2, <1>3

\* The names of the calls that play no part.
LEMMA OutsidePCs ==
  /\ RolePCs \intersect (OrderPCs \union Creating \union
       {"recount", "delete", "assign", "cancelLoad", "preparable", "produced", "free", "driver",
        "findTrip", "trip", "findChallan", "challan", "mixer", "ready", "gatePass",
        "dispatchable", "papers", "dispatch", "dispatchTrip", "dispatchMixer", "myLoad", "step",
        "stepLoad", "startLoad", "undoTrip", "undoLoad", "podLoad", "podClaim", "freeMixer"}) = {}
  /\ (OrderPCs \union Creating \union
       {"recount", "delete", "assign", "cancelLoad", "preparable", "produced", "free", "driver",
        "findTrip", "trip", "findChallan", "challan", "mixer", "ready", "gatePass",
        "dispatchable", "papers", "dispatch", "dispatchTrip", "dispatchMixer"})
       \intersect (SeenPCs \union AdvancePCs) = {}
  BY DEF RolePCs, HolderPCs, OwnerPCs, Counting, OrderPCs, Transiting, Creating, SeenPCs,
         AdvancePCs

-----------------------------------------------------------------------------
(* New requests, planning, transitions, preparation and dispatch.          *)

\* A new request knows at most the load as it is.
LEMMA StartSteps ==
  ASSUME IInv, DInv, NEW c \in Calls, NEW l \in Loads, NEW r, Become(c, r), UNCHANGED Data,
         calls[c].pc = "idle", r.l = l, r.pc \notin RolePCs, KeptBy(r),
         r.seenLoad.status = "ABSENT" \/ r.seenLoad = load[l],
         \/ load[l].status # "ABSENT" /\ r.pc \notin {"planned", "insert"}
         \/ load[l].status = "ABSENT" /\ r.pc = "planned" /\ \A d \in Calls : calls[d].l # l
  PROVE  Modest(c)
<1>1. Others(c) /\ calls'[c] = r
  BY Typed, Becomes
<1>2. "idle" \notin RolePCs
  BY DEF RolePCs, HolderPCs, OwnerPCs, Counting
<1>3. CallModest(c)
  BY <1>1, <1>2 DEF CallModest, Data, Creating
<1> QED
  BY <1>3, DataSame, BothModest

\* A request that arrives at an endpoint takes no role.
LEMMA RequestModest ==
  ASSUME IInv, DInv, NEW c \in Calls, Request(c)
  PROVE  Modest(c)
<1>0. /\ Idle \in CallStates /\ KeptBy(Idle) /\ Idle.pc = "idle" /\ Idle.put = FALSE
      /\ Idle.seenLoad.status = "ABSENT" /\ Idle.l = NoLoad
  BY IdleOK, IdleKnows DEF CallOK
<1>1. CASE StartCancelOrder(c)
  <2> DEFINE r == [Idle EXCEPT !.pc = "transit", !.todo = <<"CANCELLED">>]
  <2>1. r.pc = "transit" /\ r.l = NoLoad /\ r.put = FALSE /\ r.seenLoad = Idle.seenLoad
    BY <1>0 DEF CallStates
  <2>2. Others(c) /\ calls'[c] = r
    BY <1>1, Typed, Becomes DEF StartCancelOrder, Transit
  <2>3. KeptBy(r)
    BY <2>1 DEF KeptBy, SeenPCs, AdvancePCs, PodPCs, OwnerPCs, Counting
  <2>4. CallModest(c)
    BY <1>1, <2>1, <2>2, <2>3, Typed
       DEF CallModest, StartCancelOrder, At, RolePCs, HolderPCs, OwnerPCs, Counting
  <2> QED
    BY <1>1, <2>4, DataSame, BothModest DEF StartCancelOrder
<1> SUFFICES ASSUME NEW l \in Loads,
                    \/ StartCreate(c, l, <<NoVehicle, NoDriver>>)
                    \/ \E p \in Pairs : StartCreate(c, l, p) \/ StartAssign(c, l, p)
                    \/ StartCancelLoad(c, l) \/ StartPrepare(c, l) \/ StartGatePass(c, l)
                    \/ StartDispatch(c, l)
                    \/ \E s \in Steps : StartAdvance(c, l, s)
                    \/ \E q \in PodQuantities : StartPod(c, l, q)
             PROVE  Modest(c)
  BY <1>1 DEF Request
<1>2. ASSUME NEW p, StartCreate(c, l, p) PROVE Modest(c)
  <2> DEFINE r == [Idle EXCEPT !.pc = "planned", !.l = l, !.vehicle = p[1], !.driver = p[2]]
  <2>1. r.pc = "planned" /\ r.l = l /\ r.put = FALSE /\ r.seenLoad = Idle.seenLoad
    BY <1>0 DEF CallStates
  <2>2. KeptBy(r) /\ r.pc \notin RolePCs
    BY <2>1, OutsidePCs DEF KeptBy, Creating, SeenPCs, AdvancePCs, PodPCs, OwnerPCs, Counting
  <2> QED
    BY <1>0, <1>2, <2>1, <2>2, StartSteps DEF StartCreate, At
<1>3. ASSUME NEW p, StartAssign(c, l, p) PROVE Modest(c)
  <2> DEFINE r == [Idle EXCEPT !.pc = "validate", !.l = l, !.vehicle = p[1], !.driver = p[2]]
  <2>1. r.pc = "validate" /\ r.l = l /\ r.put = FALSE /\ r.seenLoad = Idle.seenLoad
    BY <1>0 DEF CallStates
  <2>2. KeptBy(r) /\ r.pc \notin RolePCs
    BY <2>1, OutsidePCs DEF KeptBy, Creating, SeenPCs, AdvancePCs, PodPCs, OwnerPCs, Counting
  <2> QED
    BY <1>0, <1>3, <2>1, <2>2, StartSteps DEF StartAssign, At, Assignable
<1>4. CASE StartCancelLoad(c, l)
  <2> DEFINE r == [Idle EXCEPT !.pc = "cancelLoad", !.l = l]
  <2>1. r.pc = "cancelLoad" /\ r.l = l /\ r.put = FALSE /\ r.seenLoad = Idle.seenLoad
    BY <1>0 DEF CallStates
  <2>2. KeptBy(r) /\ r.pc \notin RolePCs
    BY <2>1, OutsidePCs DEF KeptBy, SeenPCs, AdvancePCs, PodPCs, OwnerPCs, Counting
  <2> QED
    BY <1>0, <1>4, <2>1, <2>2, StartSteps DEF StartCancelLoad, At, Assignable
<1>5. CASE StartPrepare(c, l)
  <2> DEFINE r == [Idle EXCEPT !.pc = "preparable", !.l = l, !.seenLoad = load[l]]
  <2>1. r.pc = "preparable" /\ r.l = l /\ r.put = FALSE /\ r.seenLoad = load[l]
    BY <1>0 DEF CallStates
  <2>2. KeptBy(r) /\ r.pc \notin RolePCs
    BY <2>1, OutsidePCs DEF KeptBy, SeenPCs, AdvancePCs, PodPCs, OwnerPCs, Counting
  <2> QED
    BY <1>0, <1>5, <2>1, <2>2, StartSteps DEF StartPrepare, At
<1>6. CASE StartGatePass(c, l)
  <2> DEFINE r == [Idle EXCEPT !.pc = "gatePass", !.l = l]
  <2>1. r.pc = "gatePass" /\ r.l = l /\ r.put = FALSE /\ r.seenLoad = Idle.seenLoad
    BY <1>0 DEF CallStates
  <2>2. KeptBy(r) /\ r.pc \notin RolePCs
    BY <2>1, OutsidePCs DEF KeptBy, SeenPCs, AdvancePCs, PodPCs, OwnerPCs, Counting
  <2> QED
    BY <1>0, <1>6, <2>1, <2>2, StartSteps DEF StartGatePass, At, OnRoad
<1>7. CASE StartDispatch(c, l)
  <2> DEFINE r == [Idle EXCEPT !.pc = "dispatchable", !.l = l, !.seenLoad = load[l]]
  <2>1. r.pc = "dispatchable" /\ r.l = l /\ r.put = FALSE /\ r.seenLoad = load[l]
    BY <1>0 DEF CallStates
  <2>2. KeptBy(r) /\ r.pc \notin RolePCs
    BY <2>1, OutsidePCs DEF KeptBy, SeenPCs, AdvancePCs, PodPCs, OwnerPCs, Counting
  <2> QED
    BY <1>0, <1>7, <2>1, <2>2, StartSteps DEF StartDispatch, At
<1>8. ASSUME NEW s \in Steps, StartAdvance(c, l, s) PROVE Modest(c)
  <2> DEFINE r == [Idle EXCEPT !.pc = "myLoad", !.l = l, !.step = s, !.seenTrip = trip[l].status]
  <2>1. /\ r.pc = "myLoad" /\ r.l = l /\ r.put = FALSE /\ r.seenLoad = Idle.seenLoad
        /\ r.step = s /\ r.seenTrip = trip[l].status
    BY <1>0 DEF CallStates
  <2>2. trip[l].status \in StepFrom[s] /\ trip[l].status # "NONE"
    BY <1>8 DEF StartAdvance, StepFrom, Steps
  <2>3. KeptBy(r) /\ r.pc \notin RolePCs
    BY <2>1, <2>2, OutsidePCs DEF KeptBy, SeenPCs, PodPCs, OwnerPCs, Counting
  <2>4. load[l].status # "ABSENT"
    BY <2>2 DEF DInv, CreatedOnce
  <2> QED
    BY <1>0, <1>8, <2>1, <2>3, <2>4, StartSteps DEF StartAdvance, At
<1>9. ASSUME NEW q \in PodQuantities, StartPod(c, l, q) PROVE Modest(c)
  <2> DEFINE r == [Idle EXCEPT !.pc = "podLoad", !.l = l, !.quantity = q,
                               !.seenTrip = trip[l].status]
  <2>1. /\ r.pc = "podLoad" /\ r.l = l /\ r.put = FALSE /\ r.seenLoad = Idle.seenLoad
        /\ r.quantity = q /\ r.seenTrip = trip[l].status
    BY <1>0 DEF CallStates
  <2>2. trip[l].status \in PodStates /\ trip[l].status # "NONE" /\ q # 0
    BY <1>9, LoadAssumption DEF StartPod, PodStates
  <2>3. KeptBy(r) /\ r.pc \notin RolePCs
    BY <2>1, <2>2, OutsidePCs DEF KeptBy, SeenPCs, AdvancePCs, OwnerPCs, Counting
  <2>4. load[l].status # "ABSENT"
    BY <2>2 DEF DInv, CreatedOnce
  <2> QED
    BY <1>0, <1>9, <2>1, <2>3, <2>4, StartSteps DEF StartPod, At
<1> QED
  BY <1>2, <1>3, <1>4, <1>5, <1>6, <1>7, <1>8, <1>9

\* Going on with the creation of a load, or with the assignment of one there is.
LEMMA CreatingModest ==
  ASSUME IInv, DInv, NEW c \in Calls, NEW p \in PCs, Goto(c, p), calls[c].pc \in Creating,
         \/ load[calls[c].l].status = "ABSENT" /\ p \in {"validate", "insert"}
         \/ load[calls[c].l].status # "ABSENT" /\ p = "assign"
  PROVE  CallModest(c)
<1>1. Others(c) /\ Keeps(c, p) /\ KeptBy(calls[c])
  BY Typed, GotoKeeps DEF DInv
<1>2. KeptBy(calls'[c])
  BY <1>1, OutsidePCs
     DEF KeptBy, Keeps, Creating, PodPCs, SeenPCs, AdvancePCs, OwnerPCs, Counting, DelivererPCs
<1>3. calls'[c].pc \notin RolePCs /\ calls[c].pc \notin RolePCs
  BY <1>1, OutsidePCs DEF Keeps, Creating
<1> QED
  BY <1>1, <1>2, <1>3 DEF CallModest, Keeps, Creating

\* The load a planner creates has nothing to it yet.
LEMMA InsertLoadDeliveries ==
  ASSUME IInv, DInv, NEW c \in Calls, InsertLoad(c)
  PROVE  DInv'
<1> DEFINE l == calls[c].l
<1>1. calls[c].pc = "insert" /\ l \in Loads /\ load[l].status = "ABSENT"
  BY Typed DEF InsertLoad, At, OrderPCs, Transiting, DInv, CreatedOnce
<1>2. \A d \in Calls : calls[d].l = l => d = c
  BY <1>1 DEF DInv, CreatedOnce
<1>3. Others(c) /\ Keeps(c, "recount")
  BY Typed, GotoKeeps DEF InsertLoad, PCs
<1>4. /\ load'[l].status \in {"PLANNED", "ASSIGNED"}
      /\ \A o \in Loads : o # l => load'[o] = load[o]
      /\ UNCHANGED <<trip, pod, undone, fault>>
  BY <1>1, Typed DEF InsertLoad, ghosts
<1>5. \A o \in Loads : Benign(o)
  BY <1>1, <1>4 DEF Benign, Gone
<1>6. KeptBy(calls[c]) /\ ~calls[c].put
  BY <1>1 DEF DInv, KeptBy, DelivererPCs, Counting
<1>7. KeptBy(calls'[c]) /\ calls'[c].pc \notin RolePCs /\ calls[c].pc \notin RolePCs
  BY <1>1, <1>3, <1>6, OutsidePCs
     DEF Keeps, Creating, KeptBy, PodPCs, SeenPCs, AdvancePCs, OwnerPCs, Counting
<1>8. \A d \in Calls : KeptBy(calls'[d])
  BY <1>3, <1>7 DEF Others, DInv
<1>9. ASSUME NEW o \in Loads PROVE CreatedOnce(o)' /\ PodInv(o)'
  <2>1. CreatedOnce(o) /\ PodInv(o)
    BY DEF DInv
  <2>2. ASSUME o = l PROVE CreatedOnce(o)'
    BY <1>2, <1>3, <1>4, <2>2 DEF CreatedOnce, Others, Keeps
  <2>3. ASSUME o # l PROVE CreatedOnce(o)'
    BY <1>3, <1>4, <2>1, <2>3, CreatedKept DEF Keeps
  <2>4. /\ Owner(c, o)' <=> Owner(c, o)
        /\ Deliverer(c, o)' <=> Deliverer(c, o)
        /\ ~Holder(c, o)
    BY <1>7 DEF Owner, Deliverer, Holder, RolePCs, HolderPCs, DelivererPCs, OwnerPCs
  <2>5. o \notin undone /\ calls'[c].l = o =>
          /\ calls'[c].seenLoad.status = "DELIVERED" => load'[o].status \in Gone
          /\ ~(calls'[c].put /\ calls'[c].pc \in {"undoClaim", "undoPut"})
    BY <1>1, <1>3, <1>6, <2>1 DEF Keeps, PodInv, LoadHasProof, Gone
  <2>6. PodInv(o)'
    BY <1>3, <1>4, <1>5, <2>1, <2>4, <2>5, SameRoles DEF FaultKept
  <2> QED
    BY <2>2, <2>3, <2>6
<1> QED
  BY <1>8, <1>9 DEF DInv

\* Planning delivers nothing.
LEMMA PlanModest ==
  ASSUME IInv, DInv, NEW c \in Calls, Plan(c), ~InsertLoad(c)
  PROVE  Modest(c)
<1> DEFINE l == calls[c].l
<1>0. {"planned", "validate", "insert", "recount", "delete", "assign"} \subseteq PCs
  BY DEF PCs
<1>1. CASE CheckPlanned(c)
  <2>1. calls[c].pc = "planned" /\ l \in Loads /\ load[l].status = "ABSENT"
    BY <1>1, Typed DEF CheckPlanned, At, OrderPCs, Transiting, DInv, CreatedOnce
  <2>2. CallModest(c)
    BY <1>0, <1>1, <2>1, CreatingModest, EndModest, OutsidePCs
       DEF CheckPlanned, Check, Creating
  <2> QED
    BY <1>1, <2>2, DataSame, BothModest DEF CheckPlanned
<1>2. CASE ValidateAssignment(c)
  <2>1. calls[c].pc = "validate" /\ l \in Loads
    BY <1>2, Typed DEF ValidateAssignment, At, OrderPCs, Transiting
  <2>2. CallModest(c)
    BY <1>0, <1>2, <2>1, CreatingModest, EndModest, OutsidePCs
       DEF ValidateAssignment, Check, Creating
  <2> QED
    BY <1>2, <2>2, DataSame, BothModest DEF ValidateAssignment
<1>4. CASE Recount(c)
  <2>1. calls[c].pc = "recount"
    BY <1>4 DEF Recount, At
  <2>2. CallModest(c)
    BY <1>0, <1>4, <2>1, GotoModest, EndModest, OutsidePCs
       DEF Recount, Check, Creating, OrderPCs, Transiting
  <2> QED
    BY <1>4, <2>2, DataSame, BothModest DEF Recount
<1>5. CASE DeleteLoad(c)
  <2>1. calls[c].pc = "delete" /\ l \in Loads
    BY <1>5, Typed DEF DeleteLoad, At, OrderPCs, Transiting
  <2>2. CallModest(c) /\ load[l].status # "ABSENT"
    BY <1>5, <2>1, EndModest, LoadThere, OutsidePCs DEF DeleteLoad, Creating
  <2>3. DataModest
    BY <1>5, <2>1, <2>2, Typed, LoadModest DEF DeleteLoad
  <2> QED
    BY <2>2, <2>3, BothModest
<1>6. CASE AssignLoad(c)
  <2>1. calls[c].pc = "assign" /\ l \in Loads
    BY <1>6, Typed DEF AssignLoad, At, OrderPCs, Transiting
  <2>2. CallModest(c)
    BY <1>6, <2>1, EndModest, OutsidePCs DEF AssignLoad, Creating
  <2>3. \A o \in Loads : \/ load'[o] = load[o]
                         \/ load[o].status \in Assignable /\ load'[o].status = "ASSIGNED"
    BY <1>6, <2>1, Typed DEF AssignLoad
  <2>4. DataModest
    BY <1>6, <2>3 DEF AssignLoad, DataModest, FaultKept, Benign, Gone, Assignable, ghosts
  <2> QED
    BY <2>2, <2>4, BothModest
<1>7. CASE CancelLoad(c)
  <2>1. calls[c].pc = "cancelLoad" /\ l \in Loads
    BY <1>7, Typed DEF CancelLoad, At, OrderPCs, Transiting
  <2>2. CallModest(c)
    BY <1>7, <2>1, EndModest, OutsidePCs DEF CancelLoad, Creating
  <2>3. load[l].status \notin Assignable => UNCHANGED load
    BY <1>7 DEF CancelLoad
  <2>4. load[l].status \in Assignable => SetLoad(l, "CANCELLED")
    BY <1>7 DEF CancelLoad
  <2>5. UNCHANGED <<trip, pod, ghosts>>
    BY <1>7 DEF CancelLoad
  <2>6. DataModest
    <3>1. CASE load[l].status \in Assignable
      <4>1. load[l].status \notin Gone /\ load[l].status # "ABSENT"
        BY <3>1 DEF Assignable, Gone
      <4> QED
        BY <2>1, <2>4, <2>5, <3>1, <4>1, Typed, LoadModest
    <3>2. CASE load[l].status \notin Assignable
      BY <2>3, <2>5, <3>2 DEF DataModest, FaultKept, Benign, ghosts
    <3> QED
      BY <3>1, <3>2
  <2> QED
    BY <2>2, <2>6, BothModest
<1>8. CASE CancelLoads(c)
  <2>1. calls[c].pc = "cancelLoads"
    BY <1>8 DEF CancelLoads, At
  <2>2. CallModest(c)
    BY <1>8, <2>1, EndModest, OutsidePCs DEF CancelLoads, OrderPCs
  <2>3. \A o \in Loads : \/ load'[o] = load[o]
                         \/ load[o].status \in Assignable /\ load'[o].status = "CANCELLED"
    BY <1>8, Typed DEF CancelLoads, LoadDocs
  <2>4. DataModest
    BY <1>8, <2>3 DEF CancelLoads, DataModest, FaultKept, Benign, Gone, Assignable, ghosts
  <2> QED
    BY <2>2, <2>4, BothModest
<1> QED
  BY <1>1, <1>2, <1>4, <1>5, <1>6, <1>7, <1>8 DEF Plan

\* Nor do the order's own transitions.
LEMMA TransitionModest ==
  ASSUME IInv, DInv, NEW c \in Calls, Transition(c)
  PROVE  Modest(c)
<1>1. calls[c].pc \in Transiting
  BY DEF Transition, ReadOrder, SwapStatus, RereadOrder, At, Transiting
<1>2. calls[c].pc \notin RolePCs \union Creating \union {"freeMixer"}
  BY <1>1, OutsidePCs DEF Transiting, Creating, OrderPCs
<1>3. DataModest
  BY DEF Transition, ReadOrder, SwapStatus, RereadOrder, Data, DataModest, FaultKept, Benign, ghosts
<1>4. \/ \E todo : Transit(c, calls[c], todo)
      \/ End(c)
      \/ Goto(c, "reread")
      \/ Become(c, [calls[c] EXCEPT !.pc = "swap", !.seenOrder = status])
  BY DEF Transition, ReadOrder, SwapStatus, RereadOrder
<1>5. CASE \E todo : Transit(c, calls[c], todo)
  BY <1>2, <1>3, <1>5, TransitModest, BothModest
<1>6. CASE End(c)
  BY <1>2, <1>3, <1>6, EndModest, BothModest
<1>7. ASSUME NEW p, p \in {"reread", "swap"}, Others(c), Keeps(c, p) PROVE Modest(c)
  <2>1. KeptBy(calls[c]) /\ ~calls[c].put
    BY <1>2 DEF DInv, KeptBy, RolePCs, HolderPCs, DelivererPCs, OwnerPCs
  <2>2. KeptBy(calls'[c])
    BY <1>7, <2>1 DEF Keeps, KeptBy, PodPCs, SeenPCs, AdvancePCs, OwnerPCs, Counting
  <2>3. calls[c].l \in Loads => load[calls[c].l].status # "ABSENT"
    BY <1>2, LoadThere
  <2>4. calls'[c].pc \notin RolePCs
    BY <1>7, OutsidePCs DEF Keeps, OrderPCs, Transiting
  <2>5. CallModest(c)
    BY <1>2, <1>7, <2>2, <2>3, <2>4 DEF CallModest, Keeps
  <2> QED
    BY <1>3, <2>5, BothModest
<1>8. CASE Goto(c, "reread")
  BY <1>7, <1>8, Typed, GotoKeeps DEF PCs
<1>9. CASE Become(c, [calls[c] EXCEPT !.pc = "swap", !.seenOrder = status])
  <2> DEFINE r == [calls[c] EXCEPT !.pc = "swap", !.seenOrder = status]
  <2>1. Others(c) /\ calls'[c] = r
    BY <1>9, Typed, Becomes
  <2>2. /\ r.pc = "swap" /\ r.l = calls[c].l /\ r.quantity = calls[c].quantity
        /\ r.seenLoad = calls[c].seenLoad /\ r.seenTrip = calls[c].seenTrip
        /\ r.step = calls[c].step /\ r.put = calls[c].put
    BY Typed DEF CallStates
  <2>3. Keeps(c, "swap")
    BY <2>1, <2>2 DEF Keeps
  <2> QED
    BY <1>7, <2>1, <2>3
<1> QED
  BY <1>4, <1>5, <1>6, <1>8, <1>9

\* A step of prepare_load or dispatch_load that only goes on, or gives up.
PreparePCs == {"preparable", "produced", "free", "driver", "findTrip", "trip", "findChallan",
               "challan", "mixer", "ready", "gatePass", "dispatchable", "papers", "dispatch",
               "dispatchTrip", "dispatchMixer"}

\* What prepare_load does to its own request, whatever it does to the load.
LEMMA PrepareCalls ==
  ASSUME IInv, DInv, NEW c \in Calls, calls[c].pc \in PreparePCs,
         \/ End(c)
         \/ \E p \in PreparePCs : Goto(c, p)
         \/ \E p \in PreparePCs : Become(c, [calls[c] EXCEPT !.pc = p, !.seenOrder = status])
         \/ \E todo : Transit(c, calls[c], todo)
  PROVE  CallModest(c)
<1>1. /\ calls[c].pc \notin RolePCs \union Creating \union OrderPCs \union {"freeMixer"}
      /\ PreparePCs \subseteq PCs
  BY OutsidePCs DEF PreparePCs, Creating, OrderPCs, Transiting, PCs
<1>2. \A p \in PreparePCs :
        /\ p \notin RolePCs \union {"planned", "insert", "validate", "podLoad", "podClaim"}
        /\ p \notin SeenPCs \union AdvancePCs
  BY OutsidePCs DEF PreparePCs
<1>3. ASSUME NEW p \in PreparePCs,
             Goto(c, p) \/ Become(c, [calls[c] EXCEPT !.pc = p, !.seenOrder = status])
      PROVE  CallModest(c)
  <2>1. CASE Goto(c, p)
    BY <1>1, <1>2, <2>1, GotoModest
  <2>2. CASE Become(c, [calls[c] EXCEPT !.pc = p, !.seenOrder = status])
    <3> DEFINE r == [calls[c] EXCEPT !.pc = p, !.seenOrder = status]
    <3>1. Others(c) /\ calls'[c] = r
      BY <2>2, Typed, Becomes
    <3>2. /\ r.pc = p /\ r.l = calls[c].l /\ r.quantity = calls[c].quantity
          /\ r.seenLoad = calls[c].seenLoad /\ r.seenTrip = calls[c].seenTrip
          /\ r.step = calls[c].step /\ r.put = calls[c].put
      BY Typed DEF CallStates
    <3>3. Keeps(c, p)
      BY <3>1, <3>2 DEF Keeps
    <3> QED
      BY <1>1, <1>2, <3>1, <3>3, KeepsModest
  <2> QED
    BY <1>3, <2>1, <2>2
<1> QED
  BY <1>1, <1>3, EndModest, TransitModest

\* Preparing a load delivers nothing.
LEMMA PrepareModest ==
  ASSUME IInv, DInv, NEW c \in Calls, Prepare(c)
  PROVE  Modest(c)
<1> DEFINE l == calls[c].l
<1>1. calls[c].pc \in PreparePCs /\ l \in Loads
  BY Typed DEF Prepare, CheckPreparable, CheckProduced, CheckMixer, CheckDriver, FindTrip,
       InsertTrip, FindChallan, InsertChallan, TakeMixer, ClaimReady, At, PreparePCs, OrderPCs,
       Transiting
<1>2. load[l].status # "ABSENT"
  BY <1>1, LoadThere DEF PreparePCs, Creating
<1>3. CallModest(c)
  BY <1>1, PrepareCalls
     DEF Prepare, CheckPreparable, CheckProduced, CheckMixer, CheckDriver, FindTrip, InsertTrip,
         FindChallan, InsertChallan, TakeMixer, ClaimReady, Check, PreparePCs, End, Become
<1>4. CASE InsertTrip(c)
  <2>1. \A o \in Loads : trip'[o].status = trip[o].status \/ (o = l /\ trip'[o].status = "ASSIGNED")
    BY <1>1, <1>4, Typed DEF InsertTrip
  <2>2. DataModest
    BY <1>2, <1>4, <2>1 DEF InsertTrip, DataModest, FaultKept, Benign, ghosts
  <2> QED
    BY <1>3, <2>2, BothModest
<1>5. CASE ClaimReady(c)
  <2>1. UNCHANGED <<trip, pod, ghosts>>
    BY <1>5 DEF ClaimReady
  <2>2. CASE load[l].status = "ASSIGNED"
    <3>1. SetLoad(l, "READY_TO_DISPATCH")
      BY <1>5, <2>2 DEF ClaimReady
    <3> QED
      BY <1>1, <1>3, <2>1, <2>2, <3>1, Typed, LoadModest, BothModest DEF Gone
  <2>3. CASE load[l].status # "ASSIGNED"
    <3>1. UNCHANGED load
      BY <1>5, <2>3 DEF ClaimReady
    <3>2. DataModest
      BY <2>1, <3>1 DEF DataModest, FaultKept, Benign, ghosts
    <3> QED
      BY <1>3, <3>2, BothModest
  <2> QED
    BY <2>2, <2>3
<1>6. CASE ~InsertTrip(c) /\ ~ClaimReady(c)
  <2>1. UNCHANGED <<load, trip, pod, ghosts>>
    BY <1>6 DEF Prepare, CheckPreparable, CheckProduced, CheckMixer, CheckDriver, FindTrip,
         FindChallan, InsertChallan, TakeMixer, Data, ghosts
  <2>2. DataModest
    BY <2>1 DEF DataModest, FaultKept, Benign, ghosts
  <2> QED
    BY <1>3, <2>2, BothModest
<1> QED
  BY <1>4, <1>5, <1>6

\* Nor does dispatching it.
LEMMA DispatchModest ==
  ASSUME IInv, DInv, NEW c \in Calls, Dispatch(c)
  PROVE  Modest(c)
<1> DEFINE l == calls[c].l
<1>1. calls[c].pc \in PreparePCs /\ l \in Loads
  BY Typed DEF Dispatch, IssueGatePass, CheckDispatchable, CheckPapers, ClaimDispatch,
       DispatchTrip, DispatchMixer, At, PreparePCs, OrderPCs, Transiting
<1>2. load[l].status # "ABSENT"
  BY <1>1, LoadThere DEF PreparePCs, Creating
<1>3. CallModest(c)
  BY <1>1, PrepareCalls
     DEF Dispatch, IssueGatePass, CheckDispatchable, CheckPapers, ClaimDispatch, DispatchTrip,
         DispatchMixer, Check, PreparePCs, End, Become
<1>4. CASE DispatchTrip(c)
  BY <1>1, <1>2, <1>3, <1>4, Typed, TripModest, BothModest DEF DispatchTrip
<1>5. CASE ClaimDispatch(c)
  <2>1. UNCHANGED <<trip, pod, ghosts>>
    BY <1>5 DEF ClaimDispatch
  <2>2. CASE load[l].status = "READY_TO_DISPATCH"
    <3>1. SetLoad(l, "DISPATCHED")
      BY <1>5, <2>2 DEF ClaimDispatch
    <3> QED
      BY <1>1, <1>3, <2>1, <2>2, <3>1, Typed, LoadModest, BothModest DEF Gone
  <2>3. CASE load[l].status # "READY_TO_DISPATCH"
    <3>1. UNCHANGED load
      BY <1>5, <2>3 DEF ClaimDispatch
    <3>2. DataModest
      BY <2>1, <3>1 DEF DataModest, FaultKept, Benign, ghosts
    <3> QED
      BY <1>3, <3>2, BothModest
  <2> QED
    BY <2>2, <2>3
<1>6. CASE ~DispatchTrip(c) /\ ~ClaimDispatch(c)
  <2>1. UNCHANGED <<load, trip, pod, ghosts>>
    BY <1>6 DEF Dispatch, IssueGatePass, CheckDispatchable, CheckPapers, DispatchMixer, Data,
         ghosts
  <2>2. DataModest
    BY <2>1 DEF DataModest, FaultKept, Benign, ghosts
  <2> QED
    BY <1>3, <2>2, BothModest
<1> QED
  BY <1>4, <1>5, <1>6

-----------------------------------------------------------------------------
(* The driver's steps.                                                     *)

\* A step on one load, known to exist, keeps the invariant of the others.
LEMMA RoleSteps ==
  ASSUME IInv, DInv, NEW c \in Calls, NEW l \in Loads, calls[c].l = l,
         calls[c].pc \notin Creating, Others(c), KeptBy(calls'[c]),
         calls'[c].l \in {l, NoLoad}, calls'[c].pc \notin {"planned", "insert"},
         load'[l].status # "ABSENT", FaultKept,
         \A o \in Loads : o # l => /\ load'[o] = load[o] /\ trip'[o] = trip[o]
                                   /\ pod'[o] = pod[o] /\ (o \in undone' <=> o \in undone),
         PodInv(l)'
  PROVE  DInv'
<1>1. load[l].status # "ABSENT" /\ NoLoad \notin Loads
  BY LoadThere, Typed
<1>2. \A d \in Calls : KeptBy(calls'[d])
  BY DEF DInv, Others
<1>3. CreatedOnce(l)'
  BY <1>1, CreatedKept DEF DInv
<1>4. ASSUME NEW o \in Loads, o # l PROVE CreatedOnce(o)' /\ PodInv(o)'
  <2>1. CreatedOnce(o) /\ PodInv(o)
    BY DEF DInv
  <2>2. calls[c].l # o /\ calls'[c].l # o
    BY <1>1, <1>4
  <2>3. CreatedOnce(o)'
    BY <1>4, <2>1, <2>2, CreatedKept
  <2>4. ~Owner(c, o) /\ ~Owner(c, o)' /\ ~Deliverer(c, o) /\ ~Deliverer(c, o)' /\ ~Holder(c, o)
    BY <2>2 DEF Owner, Deliverer, Holder
  <2>5. Benign(o)
    BY <1>4 DEF Benign
  <2>6. PodInv(o)'
    BY <1>4, <2>1, <2>2, <2>4, <2>5, SameRoles
  <2> QED
    BY <2>3, <2>6
<1> QED
  BY <1>2, <1>3, <1>4 DEF DInv

\* An overtaken step of the driver puts back the DELIVERED it read.
Restores(c) ==
  /\ UndoLoad(c) /\ calls[c].l \in Loads /\ load[calls[c].l].status \notin Gone
  /\ calls[c].seenLoad.status = "DELIVERED" /\ SetLoad(calls[c].l, "DELIVERED")

\* It finds no author of the delivery any more.
LEMMA RestoreDeliveries ==
  ASSUME IInv, DInv, NEW c \in Calls, Restores(c)
  PROVE  DInv'
<1>0. PICK l \in Loads : l = calls[c].l
  BY DEF Restores
<1>1. /\ PodInv(l) /\ NoLoad \notin Loads /\ calls[c].pc = "undoLoad"
      /\ load[l].status \notin Gone /\ calls[c].seenLoad.status = "DELIVERED"
      /\ UNCHANGED <<trip, pod, ghosts>>
  BY <1>0, Typed DEF DInv, Restores, UndoLoad, At
<1>2. l \in undone /\ \A d \in Calls : ~Deliverer(d, l)
  BY <1>0, <1>1 DEF PodInv, LoadHasProof, OneDeliverer
<1>3. Others(c) /\ calls'[c] = Idle
  BY Typed, EndIdles DEF Restores, UndoLoad
<1>4. \A d \in Calls : /\ Owner(d, l)' <=> Owner(d, l)
                       /\ Holder(d, l)' <=> Holder(d, l)
                       /\ ~Deliverer(d, l)'
  BY <1>1, <1>2, <1>3, IdleKnows
     DEF Others, Owner, Holder, Deliverer, OwnerPCs, HolderPCs, Counting
<1>5. load'[l].status = "DELIVERED" /\ \A o \in Loads : o # l => load'[o] = load[o]
  BY <1>0, Typed DEF Restores, SetLoad, LoadDocs
<1>6. OneOwner(l)' /\ OneDeliverer(l)'
  BY <1>1, <1>4 DEF PodInv, OneOwner, OneDeliverer
<1>7. ProofHasLoad(l)'
  BY <1>4, <1>5 DEF ProofHasLoad
<1>8. ClaimHasHolder(l)'
  BY <1>1, <1>4 DEF PodInv, ClaimHasHolder, ghosts
<1>9. LoadHasProof(l)'
  BY <1>1, <1>2 DEF LoadHasProof, ghosts
<1>10. PodInv(l)'
  BY <1>6, <1>7, <1>8, <1>9 DEF PodInv
<1> QED
  BY <1>0, <1>1, <1>3, <1>5, <1>10, IdleKnows, RoleSteps DEF FaultKept, Creating, ghosts

\* The calls of the driver's step.
LEMMA AdvanceModest ==
  ASSUME IInv, DInv, NEW c \in Calls, Advance(c)
  PROVE  Modest(c) \/ Restores(c)
<1> DEFINE l == calls[c].l
<1>1. calls[c].pc \in {"myLoad", "step", "stepLoad", "startLoad", "undoTrip", "undoLoad"}
  BY DEF Advance, ReadMyLoad, StepTrip, StepLoad, StartLoad, UndoTrip, UndoLoad, At
<1>2. l \in Loads /\ load[l].status # "ABSENT"
  BY <1>1, Typed, LoadThere DEF OrderPCs, Transiting, Creating
<1>3. calls[c].pc \notin RolePCs \union Creating \union OrderPCs \union {"freeMixer"}
  BY <1>1, OutsidePCs DEF OrderPCs, Transiting, Creating
<1>4. KeptBy(calls[c]) /\ ~calls[c].put /\ calls[c].step \in Steps
  BY <1>3, Typed DEF DInv, KeptBy, RolePCs, HolderPCs, DelivererPCs, OwnerPCs, CallStates
<1>5. {"step", "stepLoad", "startLoad", "undoTrip", "undoLoad"} \subseteq PCs
  BY DEF PCs
<1>6. StepTo[calls[c].step] \in {"EN_ROUTE", "ARRIVED", "UNLOADING"}
      /\ StepFrom[calls[c].step] \subseteq {"DISPATCHED", "ASSIGNED", "EN_ROUTE", "ARRIVED"}
  BY <1>4 DEF StepTo, StepFrom, Steps
<1>7. ASSUME NEW p \in {"stepLoad", "startLoad", "undoTrip", "undoLoad"}, Goto(c, p),
             calls[c].pc \in AdvancePCs \intersect SeenPCs
      PROVE  CallModest(c)
  BY <1>3, <1>5, <1>7, GotoModest, OutsidePCs
<1>8. CASE ReadMyLoad(c)
  <2>1. calls[c].pc = "myLoad" /\ UNCHANGED Data
    BY <1>8 DEF ReadMyLoad, At
  <2>2. CASE load[l].driver # trip[l].driver
    BY <1>3, <1>8, <2>1, <2>2, EndModest, DataSame, BothModest DEF ReadMyLoad, End
  <2>3. CASE load[l].driver = trip[l].driver
    <3> DEFINE r == [calls[c] EXCEPT !.pc = "step", !.seenLoad = load[l]]
    <3>1. Others(c) /\ calls'[c] = r
      BY <1>8, <2>3, Typed, Becomes DEF ReadMyLoad
    <3>2. /\ r.pc = "step" /\ r.l = l /\ r.seenLoad = load[l] /\ r.put = calls[c].put
          /\ r.seenTrip = calls[c].seenTrip /\ r.step = calls[c].step
      BY Typed DEF CallStates
    <3>3. KeptBy(r)
      BY <1>2, <1>4, <2>1, <3>2 DEF KeptBy, AdvancePCs, PodPCs, OwnerPCs, Counting
    <3>4. CallModest(c)
      BY <1>2, <1>3, <2>1, <3>1, <3>2, <3>3, OutsidePCs DEF CallModest, Data
    <3> QED
      BY <2>1, <3>4, DataSame, BothModest
  <2> QED
    BY <2>2, <2>3
<1>9. CASE StepTrip(c)
  <2>1. calls[c].pc = "step" /\ UNCHANGED <<load, pod, ghosts>>
    BY <1>9 DEF StepTrip, At
  <2>2. SetTrip(l, StepTo[calls[c].step]) \/ UNCHANGED trip
    BY <1>9 DEF StepTrip
  <2>3. CallModest(c)
    BY <1>3, <1>7, <1>9, <2>1, EndModest DEF StepTrip, AdvancePCs, SeenPCs
  <2>4. StepTo[calls[c].step] # "POD_FINALIZING"
    BY <1>6
  <2> QED
    BY <1>2, <2>1, <2>2, <2>3, <2>4, Typed, TripModest, BothModest
<1>10. CASE StepLoad(c)
  <2>1. calls[c].pc = "stepLoad" /\ UNCHANGED <<trip, pod, ghosts>>
    BY <1>10 DEF StepLoad, At
  <2>2. CallModest(c)
    BY <1>3, <1>7, <1>10, <2>1, EndModest DEF StepLoad, AdvancePCs, SeenPCs
  <2>3. \/ UNCHANGED load
        \/ load[l].status = calls[c].seenTrip /\ SetLoad(l, StepTo[calls[c].step])
    BY <1>10 DEF StepLoad
  <2>4. calls[c].seenTrip \notin Gone /\ StepTo[calls[c].step] \notin {"DELIVERED", "ABSENT"}
    BY <1>4, <1>6, <2>1 DEF KeptBy, AdvancePCs, Gone
  <2>5. DataModest
    <3>1. CASE UNCHANGED load
      BY <2>1, <3>1 DEF DataModest, FaultKept, Benign, ghosts
    <3>2. CASE load[l].status = calls[c].seenTrip /\ SetLoad(l, StepTo[calls[c].step])
      BY <1>2, <2>1, <2>4, <3>2, Typed, LoadModest
    <3> QED
      BY <2>3, <3>1, <3>2
  <2> QED
    BY <2>2, <2>5, BothModest
<1>11. CASE StartLoad(c)
  <2>1. calls[c].pc = "startLoad" /\ UNCHANGED <<trip, pod, ghosts>>
    BY <1>11 DEF StartLoad, At
  <2>2. CallModest(c)
    BY <1>3, <1>7, <1>11, <2>1, EndModest DEF StartLoad, AdvancePCs, SeenPCs
  <2>3. \/ UNCHANGED load
        \/ load[l].status = "DISPATCHED" /\ SetLoad(l, "EN_ROUTE")
    BY <1>11 DEF StartLoad
  <2>4. DataModest
    <3>1. CASE UNCHANGED load
      BY <2>1, <3>1 DEF DataModest, FaultKept, Benign, ghosts
    <3>2. CASE load[l].status = "DISPATCHED" /\ SetLoad(l, "EN_ROUTE")
      BY <1>2, <2>1, <3>2, Typed, LoadModest DEF Gone
    <3> QED
      BY <2>3, <3>1, <3>2
  <2> QED
    BY <2>2, <2>4, BothModest
<1>12. CASE UndoTrip(c)
  <2>1. calls[c].pc = "undoTrip" /\ UNCHANGED <<load, pod, ghosts>>
    BY <1>12 DEF UndoTrip, At
  <2>2. SetTrip(l, calls[c].seenTrip) \/ UNCHANGED trip
    BY <1>12 DEF UndoTrip
  <2>3. CallModest(c)
    BY <1>7, <1>12, <2>1 DEF UndoTrip, AdvancePCs, SeenPCs
  <2>4. calls[c].seenTrip # "POD_FINALIZING"
    BY <1>4, <1>6, <2>1 DEF KeptBy, AdvancePCs
  <2> QED
    BY <1>2, <2>1, <2>2, <2>3, <2>4, Typed, TripModest, BothModest
<1>13. CASE UndoLoad(c)
  <2>1. calls[c].pc = "undoLoad" /\ UNCHANGED <<trip, pod, ghosts>> /\ End(c)
    BY <1>13 DEF UndoLoad, At
  <2>2. CallModest(c)
    BY <1>3, <2>1, EndModest
  <2>3. \/ UNCHANGED load
        \/ /\ load[l].status = StepTo[calls[c].step]
           /\ SetLoad(l, calls[c].seenLoad.status)
    BY <1>13 DEF UndoLoad
  <2>4. calls[c].seenLoad.status # "ABSENT"
    BY <1>4, <2>1 DEF KeptBy, SeenPCs
  <2>5. CASE UNCHANGED load
    <3>1. DataModest
      BY <2>1, <2>5 DEF DataModest, FaultKept, Benign, ghosts
    <3> QED
      BY <2>2, <3>1, BothModest
  <2>6. CASE /\ load[l].status = StepTo[calls[c].step]
             /\ SetLoad(l, calls[c].seenLoad.status)
             /\ calls[c].seenLoad.status # "DELIVERED"
    <3>1. load[l].status \notin Gone
      BY <1>6, <2>6 DEF Gone
    <3>2. DataModest
      BY <1>2, <2>1, <2>4, <2>6, <3>1, Typed, LoadModest
    <3> QED
      BY <2>2, <3>2, BothModest
  <2>7. CASE /\ load[l].status = StepTo[calls[c].step]
             /\ SetLoad(l, calls[c].seenLoad.status)
             /\ calls[c].seenLoad.status = "DELIVERED"
    <3>1. load[l].status \notin Gone
      BY <1>6, <2>7 DEF Gone
    <3> QED
      BY <1>2, <1>13, <2>7, <3>1 DEF Restores
  <2> QED
    BY <2>3, <2>5, <2>6, <2>7
<1> QED
  BY <1>8, <1>9, <1>10, <1>11, <1>12, <1>13 DEF Advance

-----------------------------------------------------------------------------
(* Proofs of delivery.                                                     *)

\* Going on between the insert of the proof and its fate.
LEMMA RoleKept ==
  ASSUME IInv, DInv, NEW c \in Calls, NEW p, Others(c), Keeps(c, p), FaultKept,
         UNCHANGED <<load, trip, pod, undone>>,
         calls[c].pc \in OwnerPCs, p \in OwnerPCs \ {"podPut"},
         p \in Counting => calls[c].pc \in Counting
  PROVE  DInv'
<1>1. PICK l \in Loads : l = calls[c].l
  BY Typed DEF OwnerPCs, Counting, OrderPCs, Transiting
<1>2. PodInv(l) /\ KeptBy(calls[c]) /\ load[l].status # "ABSENT"
  BY <1>1, LoadThere DEF DInv, OwnerPCs, Counting, Creating
<1>3. KeptBy(calls'[c])
  BY <1>2 DEF Keeps, KeptBy, OwnerPCs, Counting, SeenPCs, AdvancePCs, PodPCs, DelivererPCs
<1>4. /\ Owner(c, l)' <=> Owner(c, l)
      /\ Deliverer(c, l)' <=> Deliverer(c, l)
      /\ Holder(c, l)'
  BY <1>1, <1>2 DEF Keeps, KeptBy, Owner, Deliverer, Holder, OwnerPCs, HolderPCs, DelivererPCs,
                    Counting
<1>5. calls'[c].pc \notin {"undoClaim", "undoPut"} /\ calls'[c].seenLoad = calls[c].seenLoad
  BY DEF Keeps, OwnerPCs, Counting
<1>6. l \notin undone /\ calls'[c].seenLoad.status = "DELIVERED" => load'[l].status \in Gone
  BY <1>1, <1>2, <1>5 DEF PodInv, LoadHasProof
<1>7. PodInv(l)'
  BY <1>2, <1>4, <1>5, <1>6, SameRoles DEF Benign
<1> QED
  BY <1>1, <1>2, <1>3, <1>7, RoleSteps DEF Keeps, OwnerPCs, Counting, Creating

\* The reconciliation has run: the proof and the delivery stand.
LEMMA DeliveryStands ==
  ASSUME IInv, DInv, NEW c \in Calls, Goto(c, "finishTrip"), calls[c].pc \in Counting,
         UNCHANGED <<load, trip, pod, ghosts>>
  PROVE  DInv'
<1>1. PICK l \in Loads : l = calls[c].l
  BY Typed DEF Counting, OrderPCs, Transiting
<1>2. Others(c) /\ Keeps(c, "finishTrip")
  BY Typed, GotoKeeps DEF PCs
<1>3. PodInv(l) /\ KeptBy(calls[c]) /\ calls[c].put /\ load[l].status # "ABSENT"
  BY <1>1, LoadThere DEF DInv, KeptBy, Counting, Creating
<1>4. Owner(c, l) /\ Deliverer(c, l)
  BY <1>1, <1>3 DEF Owner, Deliverer, OwnerPCs, DelivererPCs
<1>5. /\ load[l].status \in Gone
      /\ \A d \in Calls : ~Owner(d, l)' /\ ~Deliverer(d, l)'
  BY <1>2, <1>3, <1>4
     DEF PodInv, OneOwner, OneDeliverer, Others, Keeps, Owner, Deliverer, OwnerPCs, DelivererPCs,
         Counting
<1>6. OneOwner(l)' /\ OneDeliverer(l)' /\ ProofHasLoad(l)'
  BY <1>5 DEF OneOwner, OneDeliverer, ProofHasLoad, Gone
<1>7. \A d \in Calls : Holder(d, l) => Holder(d, l)'
  BY <1>2 DEF Others, Keeps, Holder, HolderPCs
<1>8. ClaimHasHolder(l)'
  BY <1>3, <1>7 DEF PodInv, ClaimHasHolder, ghosts
<1>9. LoadHasProof(l)'
  BY <1>2, <1>3 DEF PodInv, LoadHasProof, Others, Keeps, ghosts
<1>10. PodInv(l)'
  BY <1>6, <1>8, <1>9 DEF PodInv
<1>11. KeptBy(calls'[c])
  BY <1>2 DEF Keeps, KeptBy, OwnerPCs, Counting, SeenPCs, AdvancePCs, PodPCs, DelivererPCs
<1> QED
  BY <1>1, <1>2, <1>3, <1>10, <1>11, RoleSteps DEF Keeps, Counting, Creating, FaultKept, ghosts

\* The calls of the reconciliation.
LEMMA ReconcileDeliveries ==
  ASSUME IInv, DInv, NEW c \in Calls, Reconcile(c)
  PROVE  DInv'
<1>1. calls[c].pc \in Counting
  BY DEF Reconcile, ReadPods, StoreSum, CheckRemaining, ReadLatest, FinalizeOrder, RecordFinal,
         At, Counting
<1>2. UNCHANGED <<load, trip, pod, ghosts>>
  BY DEF Reconcile, ReadPods, StoreSum, CheckRemaining, ReadLatest, FinalizeOrder, RecordFinal,
         Data, ghosts
<1>3. \/ Become(c, [calls[c] EXCEPT !.pc = "storeSum", !.seenPods = pod])
      \/ \E p \in {"remaining", "latest", "finalize", "history", "undoPod"} : Goto(c, p)
      \/ Goto(c, "finishTrip")
  BY DEF Reconcile, ReadPods, StoreSum, CheckRemaining, ReadLatest, FinalizeOrder, RecordFinal
<1>4. FaultKept /\ UNCHANGED undone
  BY <1>2 DEF FaultKept, ghosts
<1>5. CASE Become(c, [calls[c] EXCEPT !.pc = "storeSum", !.seenPods = pod])
  <2> DEFINE r == [calls[c] EXCEPT !.pc = "storeSum", !.seenPods = pod]
  <2>1. Others(c) /\ calls'[c] = r
    BY <1>5, Typed, Becomes
  <2>2. /\ r.pc = "storeSum" /\ r.l = calls[c].l /\ r.quantity = calls[c].quantity
        /\ r.seenLoad = calls[c].seenLoad /\ r.seenTrip = calls[c].seenTrip
        /\ r.step = calls[c].step /\ r.put = calls[c].put
    BY Typed DEF CallStates
  <2>3. Keeps(c, "storeSum")
    BY <2>1, <2>2 DEF Keeps
  <2> QED
    BY <1>1, <1>2, <1>4, <2>1, <2>3, RoleKept DEF OwnerPCs, Counting
<1>6. ASSUME NEW p \in {"remaining", "latest", "finalize", "history", "undoPod"}, Goto(c, p)
      PROVE  DInv'
  <2>1. Others(c) /\ Keeps(c, p)
    BY <1>6, Typed, GotoKeeps DEF PCs
  <2> QED
    BY <1>1, <1>2, <1>4, <2>1, RoleKept DEF OwnerPCs, Counting
<1>7. CASE Goto(c, "finishTrip")
  BY <1>1, <1>2, <1>7, DeliveryStands
<1> QED
  BY <1>3, <1>5, <1>6, <1>7

\* The claim of the trip.
LEMMA ClaimPodDeliveries ==
  ASSUME IInv, DInv, NEW c \in Calls, ClaimPod(c)
  PROVE  DInv'
<1>1. PICK l \in Loads : l = calls[c].l
  BY Typed DEF ClaimPod, At, OrderPCs, Transiting
<1>2. /\ calls[c].pc = "podClaim" /\ UNCHANGED <<load, pod, ghosts>> /\ KeptBy(calls[c])
      /\ ~calls[c].put /\ PodInv(l) /\ load[l].status # "ABSENT"
  BY <1>1, LoadThere DEF ClaimPod, At, DInv, KeptBy, DelivererPCs, Counting, Creating
<1>3. CASE trip[l].status \in PodStates
  <2>1. Others(c) /\ Keeps(c, "podInsert") /\ SetTrip(l, "POD_FINALIZING")
    BY <1>1, <1>3, Typed, GotoKeeps DEF ClaimPod, PCs
  <2>2. KeptBy(calls'[c])
    BY <1>2, <2>1
       DEF Keeps, KeptBy, OwnerPCs, Counting, SeenPCs, AdvancePCs, PodPCs, DelivererPCs
  <2>3. /\ ~Owner(c, l) /\ ~Owner(c, l)' /\ ~Deliverer(c, l) /\ ~Deliverer(c, l)'
        /\ Holder(c, l)'
    BY <1>1, <1>2, <2>1 DEF Keeps, Owner, Deliverer, Holder, OwnerPCs, HolderPCs, Counting
  <2>4. l \notin undone => /\ calls'[c].seenLoad.status = "DELIVERED" => load'[l].status \in Gone
                           /\ ~calls'[c].put
    BY <1>1, <1>2, <2>1 DEF Keeps, PodInv, LoadHasProof
  <2>5. PodInv(l)'
    BY <1>2, <2>1, <2>3, <2>4, SameRoles DEF Benign, FaultKept, ghosts
  <2>6. \A o \in Loads : o # l => trip'[o] = trip[o]
    BY <2>1, Typed DEF SetTrip
  <2> QED
    BY <1>1, <1>2, <2>1, <2>2, <2>5, <2>6, RoleSteps DEF Keeps, Creating, FaultKept, ghosts
<1>4. CASE trip[l].status \notin PodStates
  <2>1. End(c) /\ UNCHANGED Data
    BY <1>1, <1>4 DEF ClaimPod, Data, order, papers, ghosts
  <2> QED
    BY <1>2, <2>1, OutsidePCs, EndModest, DataSame, BothModest, ModestSteps
<1> QED
  BY <1>3, <1>4

\* The insert of the proof.
LEMMA InsertPodDeliveries ==
  ASSUME IInv, DInv, NEW c \in Calls, InsertPod(c)
  PROVE  DInv'
<1>1. PICK l \in Loads : l = calls[c].l
  BY Typed DEF InsertPod, At, OrderPCs, Transiting
<1>2. /\ calls[c].pc = "podInsert" /\ UNCHANGED <<load, trip, ghosts>> /\ KeptBy(calls[c])
      /\ ~calls[c].put /\ PodInv(l) /\ load[l].status # "ABSENT" /\ calls[c].quantity # 0
  BY <1>1, LoadThere DEF InsertPod, At, DInv, KeptBy, DelivererPCs, Counting, Creating
<1> DEFINE p == IF pod[l] = 0 THEN "podPut" ELSE "undoClaim"
<1>3. Others(c) /\ Keeps(c, p)
  BY <1>1, Typed, GotoKeeps DEF InsertPod, PCs
<1>4. KeptBy(calls'[c])
  BY <1>2, <1>3
     DEF Keeps, KeptBy, OwnerPCs, Counting, SeenPCs, AdvancePCs, PodPCs, DelivererPCs
<1>5. \A o \in Loads : o # l => pod'[o] = pod[o]
  BY <1>1, Typed DEF InsertPod
<1>6. l \notin undone => /\ calls'[c].seenLoad.status = "DELIVERED" => load'[l].status \in Gone
                         /\ ~calls'[c].put
  BY <1>1, <1>2, <1>3 DEF Keeps, PodInv, LoadHasProof
<1>7. ASSUME pod[l] = 0 PROVE PodInv(l)'
  <2>1. pod'[l] # 0
    BY <1>1, <1>2, <1>7, Typed DEF InsertPod
  <2>2. \A d \in Calls : ~Owner(d, l)
    BY <1>2, <1>7 DEF PodInv, OneOwner
  <2>3. Owner(c, l)' /\ Holder(c, l)'
    BY <1>1, <1>3, <1>7 DEF Keeps, Owner, Holder, OwnerPCs, HolderPCs
  <2>4. \A d \in Calls : /\ Owner(d, l)' => d = c
                         /\ Deliverer(d, l)' <=> Deliverer(d, l)
    BY <1>2, <1>3, <2>2 DEF Others, Keeps, Owner, Deliverer
  <2>5. OneOwner(l)' /\ OneDeliverer(l)'
    BY <1>2, <2>1, <2>4 DEF PodInv, OneOwner, OneDeliverer
  <2>6. ProofHasLoad(l)' /\ ClaimHasHolder(l)'
    BY <2>3 DEF ProofHasLoad, ClaimHasHolder
  <2>7. LoadHasProof(l)'
    BY <1>2, <1>3, <1>6, <2>1 DEF PodInv, LoadHasProof, Others, ghosts
  <2> QED
    BY <2>5, <2>6, <2>7 DEF PodInv
<1>8. ASSUME pod[l] # 0 PROVE PodInv(l)'
  <2>1. pod'[l] = pod[l]
    BY <1>1, <1>8 DEF InsertPod
  <2>2. /\ ~Owner(c, l) /\ ~Owner(c, l)' /\ ~Deliverer(c, l) /\ ~Deliverer(c, l)'
        /\ Holder(c, l)'
    BY <1>1, <1>2, <1>3, <1>8 DEF Keeps, Owner, Deliverer, Holder, OwnerPCs, HolderPCs, Counting
  <2> QED
    BY <1>2, <1>3, <1>6, <2>1, <2>2, SameRoles DEF Benign, FaultKept, ghosts
<1> QED
  BY <1>1, <1>2, <1>3, <1>4, <1>5, <1>7, <1>8, RoleSteps DEF Keeps, Creating, FaultKept, ghosts

\* The delivery of the load.
LEMMA DeliverLoadDeliveries ==
  ASSUME IInv, DInv, NEW c \in Calls, DeliverLoad(c)
  PROVE  DInv'
<1>1. PICK l \in Loads : l = calls[c].l
  BY Typed DEF DeliverLoad, At, OrderPCs, Transiting
<1>2. /\ calls[c].pc = "podPut" /\ UNCHANGED <<trip, pod, ghosts>> /\ KeptBy(calls[c])
      /\ ~calls[c].put /\ PodInv(l) /\ load[l].status # "ABSENT"
  BY <1>1, LoadThere DEF DeliverLoad, At, DInv, KeptBy, DelivererPCs, Counting, Creating
<1>3. CASE load[l].status \in PodStates /\ load[l].driver = trip[l].driver
  <2> DEFINE r == [calls[c] EXCEPT !.pc = "sum", !.put = TRUE]
  <2>1. Others(c) /\ calls'[c] = r /\ SetLoad(l, "DELIVERED")
    BY <1>1, <1>3, Typed, Becomes DEF DeliverLoad
  <2>2. /\ r.pc = "sum" /\ r.l = l /\ r.seenLoad = calls[c].seenLoad /\ r.put = TRUE
        /\ r.seenTrip = calls[c].seenTrip
    BY <1>1, Typed DEF CallStates
  <2>3. KeptBy(r)
    BY <1>2, <2>2 DEF KeptBy, OwnerPCs, Counting, SeenPCs, AdvancePCs, PodPCs, DelivererPCs
  <2>4. load'[l].status = "DELIVERED" /\ \A o \in Loads : o # l => load'[o] = load[o]
    BY <2>1, Typed DEF SetLoad, LoadDocs
  <2>5. \A d \in Calls : ~Deliverer(d, l)
    BY <1>2, <1>3 DEF PodInv, OneDeliverer, PodStates, Gone
  <2>6. Owner(c, l) /\ Owner(c, l)' /\ Holder(c, l)'
    BY <1>1, <1>2, <2>1, <2>2 DEF Owner, Holder, OwnerPCs, HolderPCs, Counting
  <2>7. \A d \in Calls : /\ Owner(d, l)' <=> Owner(d, l)
                         /\ Deliverer(d, l)' => d = c
    BY <2>1, <2>5, <2>6 DEF Others, Owner, Deliverer
  <2>8. OneOwner(l)'
    BY <1>2, <2>7 DEF PodInv, OneOwner
  <2>9. OneDeliverer(l)'
    BY <2>4, <2>7 DEF OneDeliverer, Gone
  <2>10. ProofHasLoad(l)' /\ ClaimHasHolder(l)'
    BY <2>6 DEF ProofHasLoad, ClaimHasHolder
  <2>11. LoadHasProof(l)'
    <3>1. pod[l] # 0
      BY <1>2, <2>6 DEF PodInv, OneOwner
    <3> QED
      BY <1>2, <2>1, <2>2, <2>4, <3>1 DEF PodInv, LoadHasProof, Others, Gone, ghosts
  <2>12. PodInv(l)'
    BY <2>8, <2>9, <2>10, <2>11 DEF PodInv
  <2> QED
    BY <1>1, <1>2, <2>1, <2>2, <2>3, <2>4, <2>12, RoleSteps DEF Creating, FaultKept, ghosts
<1>4. CASE ~(load[l].status \in PodStates /\ load[l].driver = trip[l].driver)
  <2>1. UNCHANGED <<load, trip, pod, undone>> /\ FaultKept
    BY <1>1, <1>2, <1>4 DEF DeliverLoad, FaultKept, ghosts
  <2>2. Others(c) /\ Keeps(c, "undoPod")
    BY <1>1, <1>4, Typed, GotoKeeps DEF DeliverLoad, PCs
  <2> QED
    BY <1>2, <2>1, <2>2, RoleKept DEF OwnerPCs, Counting
<1> QED
  BY <1>3, <1>4

\* The read of the load.
LEMMA ReadPodLoadModest ==
  ASSUME IInv, DInv, NEW c \in Calls, ReadPodLoad(c)
  PROVE  Modest(c)
<1>1. PICK l \in Loads : l = calls[c].l
  BY Typed DEF ReadPodLoad, At, OrderPCs, Transiting
<1>2. /\ calls[c].pc = "podLoad" /\ UNCHANGED Data /\ KeptBy(calls[c]) /\ ~calls[c].put
      /\ load[l].status # "ABSENT"
  BY <1>1, LoadThere DEF ReadPodLoad, At, DInv, KeptBy, DelivererPCs, Counting, Creating
<1>3. CASE load[l].driver = trip[l].driver
  <2> DEFINE r == [calls[c] EXCEPT !.pc = "podClaim", !.seenLoad = load[l]]
  <2>1. Others(c) /\ calls'[c] = r
    BY <1>1, <1>3, Typed, Becomes DEF ReadPodLoad
  <2>2. /\ r.pc = "podClaim" /\ r.l = l /\ r.seenLoad = load[l] /\ r.put = calls[c].put
        /\ r.seenTrip = calls[c].seenTrip /\ r.quantity = calls[c].quantity
    BY <1>1, Typed DEF CallStates
  <2>3. KeptBy(r)
    BY <1>2, <2>2 DEF KeptBy, AdvancePCs, PodPCs, OwnerPCs, Counting
  <2>4. CallModest(c)
    BY <1>1, <1>2, <2>1, <2>2, <2>3, OutsidePCs DEF CallModest, Data
  <2> QED
    BY <1>2, <2>4, DataSame, BothModest
<1>4. CASE load[l].driver # trip[l].driver
  <2>1. End(c)
    BY <1>1, <1>4 DEF ReadPodLoad, End
  <2> QED
    BY <1>2, <2>1, OutsidePCs, EndModest, DataSame, BothModest
<1> QED
  BY <1>3, <1>4

\* The proof is taken back.
LEMMA UndoPodDeliveries ==
  ASSUME IInv, DInv, NEW c \in Calls, UndoPod(c)
  PROVE  DInv'
<1>1. PICK l \in Loads : l = calls[c].l
  BY Typed DEF UndoPod, At, OrderPCs, Transiting
<1>2. /\ calls[c].pc = "undoPod" /\ UNCHANGED <<load, trip, fault>> /\ KeptBy(calls[c])
      /\ PodInv(l) /\ load[l].status # "ABSENT"
  BY <1>1, LoadThere DEF UndoPod, At, DInv, Creating
<1>3. Others(c) /\ Keeps(c, "undoClaim")
  BY Typed, GotoKeeps DEF UndoPod, PCs
<1>4. KeptBy(calls'[c])
  BY <1>2, <1>3
     DEF Keeps, KeptBy, OwnerPCs, Counting, SeenPCs, AdvancePCs, PodPCs, DelivererPCs
<1>5. /\ pod'[l] = 0 /\ l \in undone'
      /\ \A o \in Loads : o # l => pod'[o] = pod[o] /\ (o \in undone' <=> o \in undone)
  BY <1>1, Typed DEF UndoPod
<1>6. Owner(c, l) /\ ~Owner(c, l)' /\ Holder(c, l)' /\ (Deliverer(c, l)' <=> Deliverer(c, l))
  BY <1>1, <1>2, <1>3
     DEF Keeps, Owner, Deliverer, Holder, OwnerPCs, HolderPCs, DelivererPCs, Counting
<1>7. \A d \in Calls : ~Owner(d, l)' /\ (Deliverer(d, l)' <=> Deliverer(d, l))
  BY <1>2, <1>3, <1>6 DEF PodInv, OneOwner, Others, Owner, Deliverer
<1>8. OneOwner(l)' /\ OneDeliverer(l)'
  BY <1>2, <1>7 DEF PodInv, OneOwner, OneDeliverer
<1>9. ProofHasLoad(l)' /\ ClaimHasHolder(l)' /\ LoadHasProof(l)'
  BY <1>5, <1>6 DEF ProofHasLoad, ClaimHasHolder, LoadHasProof
<1>10. PodInv(l)'
  BY <1>8, <1>9 DEF PodInv
<1> QED
  BY <1>1, <1>2, <1>3, <1>4, <1>5, <1>10, RoleSteps DEF Keeps, Creating, FaultKept

\* The claim of the trip is given back.
LEMMA UndoClaimDeliveries ==
  ASSUME IInv, DInv, NEW c \in Calls, UndoClaim(c)
  PROVE  DInv'
<1>1. PICK l \in Loads : l = calls[c].l
  BY Typed DEF UndoClaim, At, OrderPCs, Transiting
<1>2. /\ calls[c].pc = "undoClaim" /\ UNCHANGED <<load, pod, ghosts>> /\ KeptBy(calls[c])
      /\ PodInv(l) /\ load[l].status # "ABSENT" /\ calls[c].seenTrip # "POD_FINALIZING"
  BY <1>1, LoadThere DEF UndoClaim, At, DInv, KeptBy, PodPCs, PodStates, Creating
<1>3. /\ trip'[l].status # "POD_FINALIZING"
      /\ \A o \in Loads : o # l => trip'[o] = trip[o]
  BY <1>1, <1>2, Typed DEF UndoClaim, SetTrip, TripDocs
<1>4. ASSUME calls[c].put PROVE DInv'
  <2>1. Others(c) /\ Keeps(c, "undoPut")
    BY <1>4, Typed, GotoKeeps DEF UndoClaim, Check, PCs
  <2>2. KeptBy(calls'[c])
    BY <1>2, <1>4, <2>1
       DEF Keeps, KeptBy, OwnerPCs, Counting, SeenPCs, AdvancePCs, PodPCs, DelivererPCs
  <2>3. /\ ~Owner(c, l) /\ ~Owner(c, l)'
        /\ Deliverer(c, l)' <=> Deliverer(c, l)
        /\ l \in undone
    BY <1>1, <1>2, <1>4, <2>1
       DEF Keeps, Owner, Deliverer, OwnerPCs, DelivererPCs, Counting, PodInv, LoadHasProof
  <2>4. PodInv(l)'
    BY <1>2, <1>3, <2>1, <2>3, SameRoles DEF Benign, FaultKept, ghosts
  <2> QED
    BY <1>1, <1>2, <1>3, <2>1, <2>2, <2>4, RoleSteps DEF Keeps, Creating, FaultKept, ghosts
<1>5. ASSUME ~calls[c].put PROVE DInv'
  <2>1. Others(c) /\ calls'[c] = Idle
    BY <1>5, Typed, EndIdles DEF UndoClaim, Check
  <2>2. /\ ~Owner(c, l) /\ ~Owner(c, l)' /\ ~Deliverer(c, l) /\ ~Deliverer(c, l)'
        /\ calls'[c].l # l
    BY <1>2, <1>5, <2>1, IdleKnows, Typed DEF Owner, Deliverer, OwnerPCs, Counting
  <2>3. PodInv(l)'
    BY <1>2, <1>3, <2>1, <2>2, SameRoles DEF Benign, FaultKept, ghosts
  <2> QED
    BY <1>1, <1>2, <1>3, <2>1, <2>3, IdleKnows, RoleSteps DEF Creating, FaultKept, ghosts
<1> QED
  BY <1>4, <1>5

\* The load is put back.
LEMMA UndoDeliveryDeliveries ==
  ASSUME IInv, DInv, NEW c \in Calls, UndoDelivery(c)
  PROVE  DInv'
<1>1. PICK l \in Loads : l = calls[c].l
  BY Typed DEF UndoDelivery, At, OrderPCs, Transiting
<1>2. /\ calls[c].pc = "undoPut" /\ UNCHANGED <<trip, pod, ghosts>> /\ KeptBy(calls[c])
      /\ calls[c].put /\ PodInv(l) /\ load[l].status # "ABSENT"
      /\ calls[c].seenLoad.status # "ABSENT"
  BY <1>1, LoadThere DEF UndoDelivery, At, DInv, KeptBy, SeenPCs, Creating
<1>3. Others(c) /\ calls'[c] = Idle
  BY Typed, EndIdles DEF UndoDelivery
<1>4. /\ load[l].status # "DELIVERED" => load'[l] = load[l]
      /\ load'[l].status # "ABSENT"
      /\ \A o \in Loads : o # l => load'[o] = load[o]
  BY <1>1, <1>2, Typed DEF UndoDelivery, SetLoad, LoadDocs
<1>5. Deliverer(c, l) /\ l \in undone
  BY <1>1, <1>2 DEF Deliverer, DelivererPCs, PodInv, LoadHasProof
<1>6. \A d \in Calls : /\ Owner(d, l)' <=> Owner(d, l)
                       /\ Holder(d, l)' <=> Holder(d, l)
                       /\ ~Deliverer(d, l)'
  BY <1>2, <1>3, <1>5, IdleKnows
     DEF PodInv, OneDeliverer, Others, Owner, Holder, Deliverer, OwnerPCs, HolderPCs,
         DelivererPCs, Counting
<1>7. OneOwner(l)' /\ OneDeliverer(l)'
  BY <1>2, <1>6 DEF PodInv, OneOwner, OneDeliverer
<1>8. ProofHasLoad(l)' /\ ClaimHasHolder(l)' /\ LoadHasProof(l)'
  BY <1>2, <1>4, <1>5, <1>6 DEF PodInv, ProofHasLoad, ClaimHasHolder, LoadHasProof, ghosts
<1>9. PodInv(l)'
  BY <1>7, <1>8 DEF PodInv
<1> QED
  BY <1>1, <1>2, <1>3, <1>4, <1>9, IdleKnows, RoleSteps DEF Creating, FaultKept, ghosts

\* The trip is over.
LEMMA FinishTripDeliveries ==
  ASSUME IInv, DInv, NEW c \in Calls, FinishTrip(c)
  PROVE  DInv'
<1>1. PICK l \in Loads : l = calls[c].l
  BY Typed DEF FinishTrip, At, OrderPCs, Transiting
<1>2. /\ calls[c].pc = "finishTrip" /\ UNCHANGED <<load, pod, ghosts>> /\ KeptBy(calls[c])
      /\ PodInv(l) /\ load[l].status # "ABSENT"
  BY <1>1, LoadThere DEF FinishTrip, At, DInv, Creating
<1>3. /\ trip'[l].status # "POD_FINALIZING"
      /\ \A o \in Loads : o # l => trip'[o] = trip[o]
  BY <1>1, <1>2, Typed DEF FinishTrip, SetTrip, TripDocs
<1>4. /\ Others(c)
      /\ calls'[c] = Idle \/ Keeps(c, "freeMixer")
  BY Typed, EndIdles, GotoKeeps DEF FinishTrip, PCs
<1>5. KeptBy(calls'[c]) /\ calls'[c].l \in {l, NoLoad} /\ calls'[c].pc \in {"idle", "freeMixer"}
  BY <1>1, <1>2, <1>4, IdleKnows
     DEF Keeps, KeptBy, OwnerPCs, Counting, SeenPCs, AdvancePCs, PodPCs
<1>6. ~Owner(c, l) /\ ~Owner(c, l)' /\ ~Deliverer(c, l) /\ ~Deliverer(c, l)'
  BY <1>2, <1>5 DEF Owner, Deliverer, OwnerPCs, DelivererPCs, Counting
<1>7. l \notin undone /\ calls'[c].l = l /\ calls'[c].seenLoad.status = "DELIVERED" =>
        load'[l].status \in Gone
  BY <1>1, <1>2, <1>4, IdleKnows DEF Keeps, PodInv, LoadHasProof, Gone
<1>8. PodInv(l)'
  BY <1>2, <1>3, <1>4, <1>5, <1>6, <1>7, SameRoles DEF Benign, FaultKept, ghosts
<1> QED
  BY <1>1, <1>2, <1>3, <1>4, <1>5, <1>8, RoleSteps DEF Creating, FaultKept, ghosts

\* The mixer is free.
LEMMA FreeMixerModest ==
  ASSUME IInv, DInv, NEW c \in Calls, FreeMixer(c)
  PROVE  Modest(c)
<1>1. calls[c].pc = "freeMixer" /\ End(c) /\ UNCHANGED <<load, trip, pod, ghosts>>
  BY DEF FreeMixer, At
<1>2. CallModest(c)
  BY <1>1, OutsidePCs, EndModest
<1>3. DataModest
  BY <1>1 DEF DataModest, FaultKept, Benign, ghosts
<1> QED
  BY <1>2, <1>3, BothModest

\* Every step of submit_pod keeps the roles disjoint.
LEMMA SubmitPodDeliveries ==
  ASSUME IInv, DInv, NEW c \in Calls, SubmitPod(c)
  PROVE  DInv'
  BY ReadPodLoadModest, ClaimPodDeliveries, InsertPodDeliveries, DeliverLoadDeliveries,
     UndoPodDeliveries, UndoClaimDeliveries, UndoDeliveryDeliveries, FinishTripDeliveries,
     FreeMixerModest, ModestSteps DEF SubmitPod

-----------------------------------------------------------------------------
(* Faults, and the theorems.                                               *)

\* A request that dies leaves everything as it is, for nobody to undo.
LEMMA CrashDeliveries ==
  ASSUME IInv, DInv, NEW c \in Calls, Crash(c)
  PROVE  DInv'
<1>1. Others(c) /\ calls'[c] = Idle
  BY Typed, EndIdles DEF Crash
<1>2. UNCHANGED <<load, trip, pod, undone>> /\ fault' = "crash"
  BY DEF Crash
<1>3. \A d \in Calls : KeptBy(calls'[d])
  BY <1>1, IdleKnows DEF DInv, Others
<1>4. ASSUME NEW l \in Loads PROVE CreatedOnce(l)' /\ PodInv(l)'
  <2>1. CreatedOnce(l) /\ PodInv(l) /\ calls'[c].l # l
    BY <1>1, IdleKnows, Typed DEF DInv
  <2>2. CreatedOnce(l)'
    BY <1>1, <1>2, <2>1, CreatedKept
  <2>3. \A d \in Calls : /\ Owner(d, l)' => Owner(d, l)
                         /\ Deliverer(d, l)' => Deliverer(d, l)
    BY <1>1, <2>1 DEF Others, Owner, Deliverer
  <2>4. OneOwner(l)' /\ OneDeliverer(l)'
    BY <1>2, <2>1, <2>3 DEF PodInv, OneOwner, OneDeliverer
  <2>5. ProofHasLoad(l)' /\ ClaimHasHolder(l)'
    BY <1>2 DEF ProofHasLoad, ClaimHasHolder
  <2>6. LoadHasProof(l)'
    BY <1>1, <1>2, <2>1 DEF PodInv, LoadHasProof, Others
  <2> QED
    BY <2>2, <2>4, <2>5, <2>6 DEF PodInv
<1> QED
  BY <1>3, <1>4 DEF DInv

\* A database error leads into the undoing.
LEMMA DatabaseDeliveries ==
  ASSUME IInv, DInv, NEW c \in Calls, DatabaseError(c)
  PROVE  DInv'
<1>1. UNCHANGED <<load, trip, pod, undone>> /\ FaultKept
  BY DEF DatabaseError, FaultKept
<1>2. CASE /\ calls[c].pc \in {"podPut", "sum", "storeSum", "remaining", "latest", "finalize", "history"}
           /\ Goto(c, "undoPod")
  <2>1. Others(c) /\ Keeps(c, "undoPod")
    BY <1>2, Typed, GotoKeeps DEF PCs
  <2> QED
    BY <1>1, <1>2, <2>1, RoleKept DEF OwnerPCs, Counting
<1>3. CASE calls[c].pc \in {"stepLoad", "startLoad"} /\ Goto(c, "undoTrip")
  <2>1. /\ calls[c].pc \notin RolePCs \union Creating \union OrderPCs \union {"freeMixer"}
        /\ "undoTrip" \notin RolePCs /\ "undoTrip" \in PCs
    BY <1>3, OutsidePCs DEF Creating, OrderPCs, Transiting, PCs
  <2>2. CallModest(c)
    BY <1>3, <2>1, GotoModest DEF SeenPCs, AdvancePCs
  <2>3. DataModest
    BY <1>1 DEF DataModest, Benign
  <2> QED
    BY <2>2, <2>3, BothModest, ModestSteps
<1> QED
  BY <1>2, <1>3 DEF DatabaseError

\* Before the first request nothing is delivered and no role is taken.
LEMMA InitDeliveries == Init => DInv
<1> SUFFICES ASSUME Init PROVE DInv
  OBVIOUS
<1>1. \A c \in Calls : calls[c] = Idle
  BY DEF Init
<1>2. \A l \in Loads : pod[l] = 0
  BY DEF Init
<1>3. \A c \in Calls : calls[c].pc = "idle" /\ calls[c].l \notin Loads
  BY <1>1, IdleKnows, LoadAssumption
<1>4. \A l \in Loads : /\ load[l].status \in {"READY_TO_DISPATCH", "ABSENT"}
                       /\ load[l].status = "ABSENT" => trip[l].status = "NONE"
                       /\ trip[l].status # "POD_FINALIZING"
  BY DEF Init, AbsentLoad, NoTrip
<1>5. \A c \in Calls : KeptBy(calls[c])
  BY <1>1, IdleKnows
<1>6. \A l \in Loads : CreatedOnce(l)
  BY <1>3, <1>4 DEF CreatedOnce
<1>7. \A l \in Loads : OneOwner(l) /\ OneDeliverer(l)
  BY <1>3 DEF OneOwner, OneDeliverer, Owner, Deliverer
<1>8. \A l \in Loads : ProofHasLoad(l) /\ ClaimHasHolder(l) /\ LoadHasProof(l)
  BY <1>2, <1>3, <1>4 DEF ProofHasLoad, ClaimHasHolder, LoadHasProof
<1> QED
  BY <1>5, <1>6, <1>7, <1>8 DEF DInv, PodInv

\* Every step of every request keeps the roles disjoint.
LEMMA StepDeliveries == IInv /\ DInv /\ [Next]_vars => DInv'
<1> SUFFICES ASSUME IInv, DInv, [Next]_vars PROVE DInv'
  OBVIOUS
<1>1. ASSUME NEW c \in Calls, Request(c) \/ Serve(c) \/ Crash(c) \/ DatabaseError(c) PROVE DInv'
  BY <1>1, ModestSteps, RequestModest, InsertLoadDeliveries, PlanModest, TransitionModest,
     PrepareModest, DispatchModest, AdvanceModest, RestoreDeliveries, SubmitPodDeliveries, ReconcileDeliveries,
     CrashDeliveries, DatabaseDeliveries DEF Serve
<1>2. CASE UNCHANGED vars
  BY <1>2 DEF vars, DInv, KeptBy, CreatedOnce, PodInv, OneOwner, OneDeliverer, ProofHasLoad,
          ClaimHasHolder, LoadHasProof, Owner, Deliverer, Holder
<1> QED
  BY <1>1, <1>2 DEF Next

\* The roles of the requests in the deliveries are as described above.
THEOREM Deliveries == Spec => [](IInv /\ DInv)
<1>1. Init => IInv /\ DInv
  BY InitInv, InitDeliveries
<1>2. IInv /\ DInv /\ [Next]_vars => (IInv /\ DInv)'
  BY StepInv, StepDeliveries
<1> QED
  BY <1>1, <1>2, PTL DEF Spec

\* Once the requests are over none of them plays a part.
LEMMA QuietRoles ==
  ASSUME Quiet, NEW c \in Calls, NEW l \in Loads
  PROVE  ~Owner(c, l) /\ ~Deliverer(c, l) /\ ~Holder(c, l)
  BY DEF Quiet, At, Owner, Deliverer, Holder, OwnerPCs, DelivererPCs, HolderPCs, Counting

\* A load is DELIVERED exactly if its proof is on file (submit_pod and the driver's
\* steps undo what they did), unless a proof of it was taken back.
THEOREM LoadsMatchProofs == Spec => []PodMatchesLoad
<1>1. IInv /\ DInv => PodMatchesLoad
  <2> SUFFICES ASSUME DInv, Quiet, fault # "crash", NEW l \in Exists \ undone
               PROVE  pod[l] # 0 <=> load[l].status = "DELIVERED"
    BY DEF PodMatchesLoad
  <2>1. PodInv(l) /\ load[l].status # "DELETED" /\ l \in Loads
    BY DEF DInv, Exists
  <2> QED
    BY <2>1, QuietRoles DEF PodInv, ProofHasLoad, LoadHasProof
<1> QED
  BY <1>1, Deliveries, PTL

\* A driver whose proof failed may submit it again: nothing of the failed attempt is
\* left behind (the except branch of submit_pod).
THEOREM FailedPodIsUndone == Spec => []FailedPodCanBeRetried
<1>1. IInv /\ DInv => FailedPodCanBeRetried
  <2> SUFFICES ASSUME DInv, Quiet, fault # "crash"
               PROVE  /\ \A l \in Exists : pod[l] # 0 => load[l].status = "DELIVERED"
                      /\ \A l \in Loads : trip[l].status # "POD_FINALIZING"
    BY DEF FailedPodCanBeRetried
  <2>1. \A l \in Loads : ProofHasLoad(l) /\ ClaimHasHolder(l)
    BY DEF DInv, PodInv
  <2> QED
    BY <2>1, QuietRoles DEF ProofHasLoad, ClaimHasHolder, Exists
<1> QED
  BY <1>1, Deliveries, PTL

-----------------------------------------------------------------------------
(* The last delivery of an order whose planning is over.                   *)

\* No load is created, cancelled or removed any more: cancel_load and delete_one leave
\* it to nobody to see that the loads that remain are delivered.
Fixed == Requests \intersect {"create", "cancelLoad", "cancelOrder"} = {}

Removed == {"CANCELLED", "DELETED"}
RemoverPCs == {"planned", "insert", "recount", "delete", "cancelLoad", "cancelLoads"}

\* A request of such an order.
Harmless(r) ==
  /\ r.seenLoad.status \notin Removed /\ r.pc \notin RemoverPCs
  /\ \A i \in DOMAIN r.todo : r.todo[i] # "CANCELLED"

NoneRemoved ==
  /\ \A l \in Loads : load[l].status \notin Removed
  /\ \A c \in Calls : /\ Harmless(calls[c])
                      /\ calls[c].pc = "validate" => load[calls[c].l].status # "ABSENT"

\* An idle request is about to remove nothing.
LEMMA IdleHarmless == Harmless(Idle)
  BY IdleKnows DEF Harmless, Removed, RemoverPCs

\* Going on to a call that creates and removes nothing is harmless.
LEMMA GotoHarmless ==
  ASSUME IInv, NEW c \in Calls, Harmless(calls[c]), NEW p \in PCs \ RemoverPCs, Goto(c, p)
  PROVE  Others(c) /\ Harmless(calls'[c]) /\ calls'[c].pc = p
  BY Typed, GotoKeeps DEF Harmless, Keeps

\* A request that ends is about to remove nothing.
LEMMA EndHarmless ==
  ASSUME IInv, NEW c \in Calls, End(c)
  PROVE  Others(c) /\ Harmless(calls'[c]) /\ calls'[c].pc = "idle"
  BY Typed, EndIdles, IdleKnows, IdleHarmless

\* So is going on to transitions none of which cancels the order.
LEMMA TransitHarmless ==
  ASSUME IInv, NEW c \in Calls, Harmless(calls[c]), NEW todo, Transit(c, calls[c], todo),
         \A i \in DOMAIN todo : todo[i] # "CANCELLED"
  PROVE  Others(c) /\ Harmless(calls'[c]) /\ calls'[c].pc # "validate"
<1>1. calls[c].todo # <<"CANCELLED">>
  BY DEF Harmless
<1>2. CASE todo # <<>>
  <2> DEFINE r == [calls[c] EXCEPT !.pc = "transit", !.todo = todo]
  <2>1. Others(c) /\ calls'[c] = r
    BY <1>2, Typed, Becomes DEF Transit
  <2>2. r.pc = "transit" /\ r.todo = todo /\ r.seenLoad = calls[c].seenLoad
    BY Typed DEF CallStates
  <2> QED
    BY <2>1, <2>2 DEF Harmless, RemoverPCs
<1>3. CASE todo = <<>>
  BY <1>1, <1>3, Typed, Becomes, IdleKnows, IdleHarmless DEF Transit
<1> QED
  BY <1>2, <1>3

\* A step after which nothing has been removed.
LEMMA NoneRemovedKept ==
  ASSUME IInv, NoneRemoved, NEW c \in Calls, Others(c), Harmless(calls'[c]),
         calls'[c].pc = "validate" => load[calls'[c].l].status # "ABSENT" /\ calls'[c].l \in Loads,
         \A l \in Loads : /\ load'[l].status \notin Removed
                          /\ load[l].status # "ABSENT" => load'[l].status # "ABSENT"
  PROVE  NoneRemoved'
<1>1. \A d \in Calls : calls[d].pc = "validate" => calls[d].l \in Loads
  BY Typed DEF OrderPCs, Transiting
<1> QED
  BY <1>1 DEF NoneRemoved, Others

\* A load's new status.
LEMMA SetLoadKept ==
  ASSUME IInv, NoneRemoved, NEW l \in Loads, NEW s, SetLoad(l, s) \/ UNCHANGED load,
         s \notin Removed \union {"ABSENT"}
  PROVE  \A o \in Loads : /\ load'[o].status \notin Removed
                          /\ load[o].status # "ABSENT" => load'[o].status # "ABSENT"
<1>1. load \in [Loads -> LoadDocs]
  BY DEF IInv, TypeOK
<1>2. \A o \in Loads : load'[o].status \in {load[o].status, s}
  BY <1>1 DEF SetLoad, LoadDocs
<1> QED
  BY <1>2 DEF NoneRemoved

\* Without a removing endpoint no request sets out to remove a load.
LEMMA RequestRemovesNothing ==
  ASSUME Fixed, IInv, DInv, NoneRemoved, NEW c \in Calls, Request(c)
  PROVE  NoneRemoved'
<1>1. "create" \notin Requests /\ "cancelLoad" \notin Requests /\ "cancelOrder" \notin Requests
  BY DEF Fixed
<1>2. Idle \in CallStates /\ Harmless(Idle) /\ Idle.todo = <<>>
  BY IdleOK, IdleHarmless DEF CallOK
<1>3. ASSUME NEW l \in Loads, NEW r, Become(c, r), UNCHANGED Data, Harmless(r), r.l = l,
             r.pc = "validate" => load[l].status # "ABSENT"
      PROVE  NoneRemoved'
  <2>1. Others(c) /\ calls'[c] = r
    BY <1>3, Typed, Becomes
  <2> QED
    BY <1>3, <2>1, NoneRemovedKept DEF Data, NoneRemoved
<1> SUFFICES ASSUME NEW l \in Loads,
                    \/ \E p \in Pairs : StartAssign(c, l, p)
                    \/ StartPrepare(c, l) \/ StartGatePass(c, l) \/ StartDispatch(c, l)
                    \/ \E s \in Steps : StartAdvance(c, l, s)
                    \/ \E q \in PodQuantities : StartPod(c, l, q)
             PROVE  NoneRemoved'
  BY <1>1 DEF Request, StartCreate, StartCancelOrder, StartCancelLoad
<1>4. load[l].status \notin Removed
  BY DEF NoneRemoved
<1>5. ASSUME NEW p \in Pairs, StartAssign(c, l, p) PROVE NoneRemoved'
  <2> DEFINE r == [Idle EXCEPT !.pc = "validate", !.l = l, !.vehicle = p[1], !.driver = p[2]]
  <2>1. r.pc = "validate" /\ r.l = l /\ r.todo = Idle.todo /\ r.seenLoad = Idle.seenLoad
    BY <1>2 DEF CallStates
  <2>2. Harmless(r)
    BY <1>2, <2>1 DEF Harmless, RemoverPCs
  <2> QED
    BY <1>3, <1>5, <2>1, <2>2 DEF StartAssign, Assignable
<1>6. CASE StartPrepare(c, l)
  <2> DEFINE r == [Idle EXCEPT !.pc = "preparable", !.l = l, !.seenLoad = load[l]]
  <2>1. r.pc = "preparable" /\ r.l = l /\ r.todo = Idle.todo /\ r.seenLoad = load[l]
    BY <1>2 DEF CallStates
  <2>2. Harmless(r)
    BY <1>2, <1>4, <2>1 DEF Harmless, RemoverPCs
  <2> QED
    BY <1>3, <1>6, <2>1, <2>2 DEF StartPrepare
<1>7. CASE StartGatePass(c, l)
  <2> DEFINE r == [Idle EXCEPT !.pc = "gatePass", !.l = l]
  <2>1. r.pc = "gatePass" /\ r.l = l /\ r.todo = Idle.todo /\ r.seenLoad = Idle.seenLoad
    BY <1>2 DEF CallStates
  <2>2. Harmless(r)
    BY <1>2, <2>1 DEF Harmless, RemoverPCs
  <2> QED
    BY <1>3, <1>7, <2>1, <2>2 DEF StartGatePass
<1>8. CASE StartDispatch(c, l)
  <2> DEFINE r == [Idle EXCEPT !.pc = "dispatchable", !.l = l, !.seenLoad = load[l]]
  <2>1. r.pc = "dispatchable" /\ r.l = l /\ r.todo = Idle.todo /\ r.seenLoad = load[l]
    BY <1>2 DEF CallStates
  <2>2. Harmless(r)
    BY <1>2, <1>4, <2>1 DEF Harmless, RemoverPCs
  <2> QED
    BY <1>3, <1>8, <2>1, <2>2 DEF StartDispatch
<1>9. ASSUME NEW s \in Steps, StartAdvance(c, l, s) PROVE NoneRemoved'
  <2> DEFINE r == [Idle EXCEPT !.pc = "myLoad", !.l = l, !.step = s, !.seenTrip = trip[l].status]
  <2>1. r.pc = "myLoad" /\ r.l = l /\ r.todo = Idle.todo /\ r.seenLoad = Idle.seenLoad
    BY <1>2 DEF CallStates
  <2>2. Harmless(r)
    BY <1>2, <2>1 DEF Harmless, RemoverPCs
  <2> QED
    BY <1>3, <1>9, <2>1, <2>2 DEF StartAdvance
<1>10. ASSUME NEW q \in PodQuantities, StartPod(c, l, q) PROVE NoneRemoved'
  <2> DEFINE r == [Idle EXCEPT !.pc = "podLoad", !.l = l, !.quantity = q,
                               !.seenTrip = trip[l].status]
  <2>1. r.pc = "podLoad" /\ r.l = l /\ r.todo = Idle.todo /\ r.seenLoad = Idle.seenLoad
    BY <1>2 DEF CallStates
  <2>2. Harmless(r)
    BY <1>2, <2>1 DEF Harmless, RemoverPCs
  <2> QED
    BY <1>3, <1>10, <2>1, <2>2 DEF StartPod
<1> QED
  BY <1>5, <1>6, <1>7, <1>8, <1>9, <1>10

\* What is left of planning is to assign a load again.
LEMMA PlanRemovesNothing ==
  ASSUME IInv, DInv, NoneRemoved, NEW c \in Calls, Plan(c)
  PROVE  NoneRemoved'
<1>1. Harmless(calls[c])
  BY DEF NoneRemoved
<1>2. ValidateAssignment(c) \/ AssignLoad(c)
  BY <1>1 DEF Plan, CheckPlanned, InsertLoad, Recount, DeleteLoad, CancelLoad, CancelLoads, At,
              Harmless, RemoverPCs
<1>3. CASE ValidateAssignment(c)
  <2>1. load[calls[c].l].status # "ABSENT" /\ UNCHANGED load
    BY <1>3 DEF ValidateAssignment, At, NoneRemoved, Data
  <2>2. End(c) \/ Goto(c, "assign")
    BY <1>3, <2>1 DEF ValidateAssignment, Check
  <2>3. Others(c) /\ Harmless(calls'[c]) /\ calls'[c].pc # "validate"
    BY <1>1, <2>2, EndHarmless, GotoHarmless DEF PCs, RemoverPCs
  <2> QED
    BY <2>1, <2>3, NoneRemovedKept DEF NoneRemoved
<1>4. CASE AssignLoad(c)
  <2>1. \A o \in Loads : load'[o] = load[o] \/ load'[o].status = "ASSIGNED"
    BY <1>4, Typed DEF AssignLoad, At, OrderPCs, Transiting
  <2>2. Others(c) /\ Harmless(calls'[c]) /\ calls'[c].pc # "validate"
    BY <1>4, EndHarmless DEF AssignLoad
  <2> QED
    BY <2>1, <2>2, NoneRemovedKept DEF NoneRemoved, Removed
<1> QED
  BY <1>2, <1>3, <1>4

\* The transitions of the order remove no load.
LEMMA TransitionRemovesNothing ==
  ASSUME IInv, DInv, NoneRemoved, NEW c \in Calls, Transition(c)
  PROVE  NoneRemoved'
<1>1. Harmless(calls[c]) /\ calls[c].todo \in Seq(Statuses) /\ calls[c].todo # <<>>
  <2>1. calls[c].pc \in Transiting
    BY DEF Transition, ReadOrder, SwapStatus, RereadOrder, At, Transiting
  <2> QED
    BY <2>1, Typed DEF NoneRemoved, IInv, CallOK, CallStates
<1>2. \A i \in DOMAIN Tail(calls[c].todo) : Tail(calls[c].todo)[i] # "CANCELLED"
  BY <1>1 DEF Harmless
<1>3. UNCHANGED load
  BY DEF Transition, ReadOrder, SwapStatus, RereadOrder, Data
<1>4. \/ Transit(c, calls[c], Tail(calls[c].todo))
      \/ End(c)
      \/ Goto(c, "reread")
      \/ Become(c, [calls[c] EXCEPT !.pc = "swap", !.seenOrder = status])
  BY DEF Transition, ReadOrder, SwapStatus, RereadOrder
<1>5. CASE Become(c, [calls[c] EXCEPT !.pc = "swap", !.seenOrder = status])
  <2> DEFINE r == [calls[c] EXCEPT !.pc = "swap", !.seenOrder = status]
  <2>1. Others(c) /\ calls'[c] = r
    BY <1>5, Typed, Becomes
  <2>2. r.pc = "swap" /\ r.seenLoad = calls[c].seenLoad /\ r.todo = calls[c].todo
    BY Typed DEF CallStates
  <2>3. Harmless(r)
    BY <1>1, <2>2 DEF Harmless, RemoverPCs
  <2> QED
    BY <1>3, <2>1, <2>2, <2>3, NoneRemovedKept DEF NoneRemoved
<1>6. CASE ~Become(c, [calls[c] EXCEPT !.pc = "swap", !.seenOrder = status])
  <2>1. "reread" \in PCs \ RemoverPCs
    BY DEF PCs, RemoverPCs
  <2>2. Others(c) /\ Harmless(calls'[c]) /\ calls'[c].pc # "validate"
    BY <1>1, <1>2, <1>4, <1>6, <2>1, EndHarmless, GotoHarmless, TransitHarmless
  <2> QED
    BY <1>3, <2>2, NoneRemovedKept DEF NoneRemoved
<1> QED
  BY <1>5, <1>6

\* prepare_load and dispatch_load remove no load.
LEMMA PrepareRemovesNothing ==
  ASSUME IInv, DInv, NoneRemoved, NEW c \in Calls, Prepare(c) \/ Dispatch(c)
  PROVE  NoneRemoved'
<1>1. Harmless(calls[c])
  BY DEF NoneRemoved
<1>2. PreparePCs \subseteq PCs \ (RemoverPCs \union {"validate"})
  BY DEF PreparePCs, PCs, RemoverPCs
<1>3. \A i \in DOMAIN ToReady(calls[c].seenOrder) : ToReady(calls[c].seenOrder)[i] # "CANCELLED"
  BY DEF ToReady
<1>4. \/ End(c)
      \/ \E p \in PreparePCs : Goto(c, p)
      \/ \E p \in PreparePCs : Become(c, [calls[c] EXCEPT !.pc = p, !.seenOrder = status])
      \/ \E todo \in {ToReady(calls[c].seenOrder), <<"DISPATCHED">>, <<>>} :
           Transit(c, calls[c], todo)
  BY DEF Prepare, CheckPreparable, CheckProduced, CheckMixer, CheckDriver, FindTrip, InsertTrip,
         FindChallan, InsertChallan, TakeMixer, ClaimReady, Dispatch, IssueGatePass,
         CheckDispatchable, CheckPapers, ClaimDispatch, DispatchTrip, DispatchMixer, Check,
         PreparePCs, End, Become
<1>5. ASSUME NEW p \in PreparePCs, Become(c, [calls[c] EXCEPT !.pc = p, !.seenOrder = status])
      PROVE  Others(c) /\ Harmless(calls'[c]) /\ calls'[c].pc # "validate"
  <2> DEFINE r == [calls[c] EXCEPT !.pc = p, !.seenOrder = status]
  <2>1. Others(c) /\ calls'[c] = r
    BY <1>5, Typed, Becomes
  <2>2. r.pc = p /\ r.seenLoad = calls[c].seenLoad /\ r.todo = calls[c].todo
    BY Typed DEF CallStates
  <2> QED
    BY <1>1, <1>2, <2>1, <2>2 DEF Harmless
<1>6. Others(c) /\ Harmless(calls'[c]) /\ calls'[c].pc # "validate"
  <2>1. ASSUME NEW todo \in {ToReady(calls[c].seenOrder), <<"DISPATCHED">>, <<>>},
               Transit(c, calls[c], todo)
        PROVE  Others(c) /\ Harmless(calls'[c]) /\ calls'[c].pc # "validate"
    <3>1. \A i \in DOMAIN todo : todo[i] # "CANCELLED"
      BY <1>3
    <3> QED
      BY <1>1, <2>1, <3>1, TransitHarmless
  <2>2. ASSUME NEW p \in PreparePCs, Goto(c, p)
        PROVE  Others(c) /\ Harmless(calls'[c]) /\ calls'[c].pc # "validate"
    BY <1>1, <1>2, <2>2, GotoHarmless
  <2> QED
    BY <1>4, <1>5, <2>1, <2>2, EndHarmless
<1>7. \E l \in Loads, s \in {"READY_TO_DISPATCH", "DISPATCHED"} : SetLoad(l, s) \/ UNCHANGED load
  <2>1. calls[c].l \in Loads
    BY Typed DEF Prepare, CheckPreparable, CheckProduced, CheckMixer, CheckDriver, FindTrip,
         InsertTrip, FindChallan, InsertChallan, TakeMixer, ClaimReady, Dispatch, IssueGatePass,
         CheckDispatchable, CheckPapers, ClaimDispatch, DispatchTrip, DispatchMixer, At, OrderPCs,
         Transiting
  <2> QED
    BY <2>1 DEF Prepare, CheckPreparable, CheckProduced, CheckMixer, CheckDriver, FindTrip,
         InsertTrip, FindChallan, InsertChallan, TakeMixer, ClaimReady, Dispatch, IssueGatePass,
         CheckDispatchable, CheckPapers, ClaimDispatch, DispatchTrip, DispatchMixer, Data
<1>8. \A o \in Loads : /\ load'[o].status \notin Removed
                       /\ load[o].status # "ABSENT" => load'[o].status # "ABSENT"
  BY <1>7, SetLoadKept DEF Removed
<1> QED
  BY <1>6, <1>8, NoneRemovedKept

\* Undoing restores a status that some request has read.
LEMMA DriverRemovesNothing ==
  ASSUME IInv, DInv, NoneRemoved, NEW c \in Calls, Advance(c) \/ SubmitPod(c)
  PROVE  NoneRemoved'
<1>1. Harmless(calls[c]) /\ KeptBy(calls[c])
  BY DEF NoneRemoved, DInv
<1>2. PICK l \in Loads : l = calls[c].l
  BY Typed DEF Advance, ReadMyLoad, StepTrip, StepLoad, StartLoad, UndoTrip, UndoLoad, SubmitPod,
       ReadPodLoad, ClaimPod, InsertPod, DeliverLoad, UndoPod, UndoClaim, UndoDelivery, FinishTrip,
       FreeMixer, At, OrderPCs, Transiting
<1> DEFINE Drive == {"step", "stepLoad", "startLoad", "undoTrip", "undoLoad", "podClaim",
                     "podInsert", "podPut", "sum", "undoPod", "undoClaim", "undoPut", "freeMixer"}
<1>3. Drive \subseteq PCs \ (RemoverPCs \union {"validate"})
  BY DEF PCs, RemoverPCs
<1>4. \/ End(c)
      \/ \E p \in Drive : Goto(c, p)
      \/ \E p \in Drive : Become(c, [calls[c] EXCEPT !.pc = p, !.seenLoad = load[l]])
      \/ Become(c, [calls[c] EXCEPT !.pc = "sum", !.put = TRUE])
  BY <1>2 DEF Advance, ReadMyLoad, StepTrip, StepLoad, StartLoad, UndoTrip, UndoLoad, SubmitPod,
       ReadPodLoad, ClaimPod, InsertPod, DeliverLoad, UndoPod, UndoClaim, UndoDelivery, FinishTrip,
       FreeMixer, Check, End, Become
<1>5. ASSUME NEW p \in Drive, NEW r, Become(c, r), r.pc = p, r.todo = calls[c].todo,
             r.seenLoad.status \notin Removed
      PROVE  Others(c) /\ Harmless(calls'[c]) /\ calls'[c].pc # "validate"
  <2>1. Others(c) /\ calls'[c] = r
    BY <1>5, Typed, Becomes
  <2> QED
    BY <1>1, <1>3, <1>5, <2>1 DEF Harmless
<1>6. Others(c) /\ Harmless(calls'[c]) /\ calls'[c].pc # "validate"
  <2>1. ASSUME NEW p \in Drive, Become(c, [calls[c] EXCEPT !.pc = p, !.seenLoad = load[l]])
        PROVE  Others(c) /\ Harmless(calls'[c]) /\ calls'[c].pc # "validate"
    <3> DEFINE r == [calls[c] EXCEPT !.pc = p, !.seenLoad = load[l]]
    <3>1. r.pc = p /\ r.seenLoad = load[l] /\ r.todo = calls[c].todo
      BY Typed DEF CallStates
    <3> QED
      BY <1>5, <2>1, <3>1 DEF NoneRemoved
  <2>2. CASE Become(c, [calls[c] EXCEPT !.pc = "sum", !.put = TRUE])
    <3> DEFINE r == [calls[c] EXCEPT !.pc = "sum", !.put = TRUE]
    <3>1. r.pc = "sum" /\ r.seenLoad = calls[c].seenLoad /\ r.todo = calls[c].todo
      BY Typed DEF CallStates
    <3> QED
      BY <1>1, <1>5, <2>2, <3>1 DEF Harmless
  <2> QED
    BY <1>1, <1>3, <1>4, <2>1, <2>2, EndHarmless, GotoHarmless
<1>7. \E s : /\ SetLoad(l, s) \/ UNCHANGED load
             /\ s \notin Removed \union {"ABSENT"}
  <2>1. calls[c].seenLoad.status \notin Removed
    BY <1>1 DEF Harmless
  <2>2. CASE UndoLoad(c) \/ UndoDelivery(c)
    <3>1. calls[c].pc \in SeenPCs
      BY <2>2 DEF UndoLoad, UndoDelivery, At, SeenPCs
    <3>2. SetLoad(l, calls[c].seenLoad.status) \/ UNCHANGED load
      BY <1>2, <2>2 DEF UndoLoad, UndoDelivery
    <3> QED
      BY <1>1, <2>1, <3>1, <3>2 DEF KeptBy
  <2>3. CASE StepLoad(c)
    <3>1. SetLoad(l, StepTo[calls[c].step]) \/ UNCHANGED load
      BY <1>2, <2>3 DEF StepLoad
    <3>2. StepTo[calls[c].step] \in {"EN_ROUTE", "ARRIVED", "UNLOADING"}
      BY Typed DEF CallStates, StepTo, Steps
    <3> QED
      BY <3>1, <3>2 DEF Removed
  <2>4. CASE StartLoad(c)
    BY <1>2, <2>4 DEF StartLoad, Removed
  <2>5. CASE DeliverLoad(c)
    BY <1>2, <2>5 DEF DeliverLoad, Removed
  <2>6. CASE ~(UndoLoad(c) \/ UndoDelivery(c) \/ StepLoad(c) \/ StartLoad(c) \/ DeliverLoad(c))
    <3>1. UNCHANGED load
      BY <2>6 DEF Advance, ReadMyLoad, StepTrip, UndoTrip, SubmitPod, ReadPodLoad, ClaimPod,
           InsertPod, UndoPod, UndoClaim, FinishTrip, FreeMixer, Data
    <3>2. "DELIVERED" \notin Removed \union {"ABSENT"}
      BY DEF Removed
    <3> QED
      BY <3>1, <3>2
  <2> QED
    BY <2>2, <2>3, <2>4, <2>5, <2>6
<1>8. \A o \in Loads : /\ load'[o].status \notin Removed
                       /\ load[o].status # "ABSENT" => load'[o].status # "ABSENT"
  BY <1>7, SetLoadKept
<1> QED
  BY <1>6, <1>8, NoneRemovedKept

\* The reconciliation, a crash and a database error remove no load.
LEMMA ReconcileRemovesNothing ==
  ASSUME IInv, DInv, NoneRemoved, NEW c \in Calls,
         Reconcile(c) \/ Crash(c) \/ DatabaseError(c)
  PROVE  NoneRemoved'
<1>1. Harmless(calls[c])
  BY DEF NoneRemoved
<1>2. UNCHANGED load
  BY DEF Reconcile, ReadPods, StoreSum, CheckRemaining, ReadLatest, FinalizeOrder, RecordFinal,
         Crash, DatabaseError, Data
<1> DEFINE Count == {"remaining", "latest", "finalize", "history", "undoPod", "finishTrip",
                     "undoTrip"}
<1>3. \/ Become(c, [calls[c] EXCEPT !.pc = "storeSum", !.seenPods = pod])
      \/ \E p \in Count : Goto(c, p)
      \/ End(c)
  BY DEF Reconcile, ReadPods, StoreSum, CheckRemaining, ReadLatest, FinalizeOrder, RecordFinal,
         Crash, DatabaseError
<1>4. Count \subseteq PCs \ (RemoverPCs \union {"validate"})
  BY DEF PCs, RemoverPCs
<1>5. CASE Become(c, [calls[c] EXCEPT !.pc = "storeSum", !.seenPods = pod])
  <2> DEFINE r == [calls[c] EXCEPT !.pc = "storeSum", !.seenPods = pod]
  <2>1. Others(c) /\ calls'[c] = r
    BY <1>5, Typed, Becomes
  <2>2. r.pc = "storeSum" /\ r.seenLoad = calls[c].seenLoad /\ r.todo = calls[c].todo
    BY Typed DEF CallStates
  <2>3. Harmless(r)
    BY <1>1, <2>2 DEF Harmless, RemoverPCs
  <2> QED
    BY <1>2, <2>1, <2>2, <2>3, NoneRemovedKept DEF NoneRemoved
<1>6. CASE End(c) \/ \E p \in Count : Goto(c, p)
  <2>1. Others(c) /\ Harmless(calls'[c]) /\ calls'[c].pc # "validate"
    BY <1>1, <1>4, <1>6, EndHarmless, GotoHarmless
  <2> QED
    BY <1>2, <2>1, NoneRemovedKept DEF NoneRemoved
<1> QED
  BY <1>3, <1>5, <1>6

\* No step removes a load where no endpoint does.
LEMMA NothingRemoved == Fixed /\ IInv /\ DInv /\ NoneRemoved /\ [Next]_vars => NoneRemoved'
<1> SUFFICES ASSUME Fixed, IInv, DInv, NoneRemoved, [Next]_vars PROVE NoneRemoved'
  OBVIOUS
<1>1. CASE UNCHANGED vars
  BY <1>1 DEF vars, NoneRemoved, Harmless
<1>2. CASE Next
  BY <1>2, RequestRemovesNothing, PlanRemovesNothing, TransitionRemovesNothing,
     PrepareRemovesNothing, DriverRemovesNothing, ReconcileRemovesNothing DEF Next, Serve
<1> QED
  BY <1>1, <1>2

\* At the start no load has been removed.
LEMMA InitRemovedNothing == Init => NoneRemoved
  BY IdleHarmless, IdleKnows DEF Init, NoneRemoved, Removed, AbsentLoad

-----------------------------------------------------------------------------
(* Who will notice that the last load has arrived.                         *)

\* The proof is settled, or a request is about to find out.
Honest(l) == \/ \E c \in Calls : Deliverer(c, l)
             \/ pod[l] # 0 /\ \A c \in Calls : ~Owner(c, l)

\* Everything has arrived and the order is not DELIVERED yet.
Ready == /\ status # "DELIVERED" /\ Enough(pod)
         /\ \A l \in Exists : load[l].status = "DELIVERED" /\ Honest(l)

\* The request will deliver the order or take back its own delivery.
Witness(c) ==
  /\ calls[c].put
  /\ \/ calls[c].pc \in {"sum", "latest", "finalize", "undoPod", "undoClaim", "undoPut"}
     \/ calls[c].pc \in {"storeSum", "remaining"} /\ Enough(calls[c].seenPods)

LastInv == fault = "none" /\ Ready => \E c \in Calls : Witness(c)

\* What a step that can make nothing ready does to the documents.
NothingArrives ==
  /\ UNCHANGED pod
  /\ fault' = "none" => fault = "none"
  /\ status = "DELIVERED" => status' = "DELIVERED"
  /\ \A l \in Loads : /\ load'[l].status = "DELIVERED" => load[l].status = "DELIVERED"
                      /\ load'[l].status = "ABSENT" => load[l].status = "ABSENT"

\* The step of a request that keeps its roles.
LEMMA SameLast ==
  ASSUME LastInv, NoneRemoved', NothingArrives, NEW c \in Calls, Others(c),
         \A l \in Loads : /\ Owner(c, l) => Owner(c, l)'
                          /\ Deliverer(c, l)' => Deliverer(c, l),
         Witness(c) => Witness(c)'
  PROVE  LastInv'
<1> SUFFICES ASSUME fault' = "none", Ready' PROVE \E d \in Calls : Witness(d)'
  BY DEF LastInv
<1>1. \A l \in Loads : \A d \in Calls : /\ Owner(d, l) => Owner(d, l)'
                                        /\ Deliverer(d, l)' => Deliverer(d, l)
  BY DEF Others, Owner, Deliverer
<1>2. \A l \in Loads : Honest(l)' => Honest(l)
  BY <1>1 DEF Honest, NothingArrives
<1>3. ASSUME NEW l \in Exists PROVE load[l].status = "DELIVERED" /\ Honest(l)
  <2>1. l \in Loads /\ load[l].status # "ABSENT"
    BY DEF Exists
  <2>2. l \in Exists'
    BY <2>1 DEF Exists, NoneRemoved, Removed, NothingArrives
  <2> QED
    BY <1>2, <2>1, <2>2 DEF Ready, NothingArrives
<1>4. status # "DELIVERED" /\ Enough(pod)
  BY DEF Ready, NothingArrives
<1>5. Ready
  BY <1>3, <1>4 DEF Ready
<1>6. PICK d \in Calls : Witness(d)
  BY <1>5 DEF LastInv, NothingArrives
<1>7. d # c => Witness(d)'
  BY <1>6 DEF Others, Witness
<1> QED
  BY <1>6, <1>7

\* A step that has nothing to do with proofs.
LEMMA ModestLast ==
  ASSUME LastInv, NoneRemoved', NEW c \in Calls, Modest(c), KeptBy(calls[c]),
         fault' = "none" => fault = "none",
         status = "DELIVERED" => status' = "DELIVERED"
  PROVE  LastInv'
<1>1. NothingArrives
  BY DEF NothingArrives, Modest, DataModest, Benign, Gone, NoneRemoved, Removed
<1>2. calls[c].pc \notin RolePCs /\ calls'[c].pc \notin RolePCs /\ Others(c)
  BY DEF Modest, CallModest
<1>3. \A l \in Loads : ~Owner(c, l) /\ ~Deliverer(c, l)'
  BY <1>2 DEF Owner, Deliverer, RolePCs, HolderPCs, OwnerPCs, DelivererPCs
<1>4. ~Witness(c)
  BY <1>2 DEF Witness, RolePCs, HolderPCs, OwnerPCs, Counting
<1> QED
  BY <1>1, <1>2, <1>3, <1>4, SameLast

\* If another request has delivered a load whose proof is not its own, it is on its way
\* to take the delivery back.
LEMMA Undoing ==
  ASSUME DInv, NEW c \in Calls, NEW d \in Calls, d # c, NEW l \in Loads, Others(c),
         Deliverer(d, l), ~Owner(d, l)
  PROVE  Witness(d)'
  BY DEF Others, Deliverer, Owner, Witness, DelivererPCs, OwnerPCs, Counting

\* A load that exists still does.
LEMMA StillThere ==
  ASSUME NoneRemoved', NEW l \in Loads, load'[l].status # "ABSENT"
  PROVE  l \in Exists'
  BY DEF Exists, NoneRemoved, Removed

-----------------------------------------------------------------------------
(* The steps that change who knows.                                        *)

\* A driver's step may put DELIVERED back, though not onto a load with a settled proof.
LEMMA RestoreLast ==
  ASSUME IInv, DInv, LastInv, NoneRemoved', NEW c \in Calls, Restores(c)
  PROVE  LastInv'
<1> SUFFICES ASSUME fault' = "none", Ready' PROVE FALSE
  BY DEF LastInv
<1>1. PICK l \in Loads : l = calls[c].l
  BY DEF Restores
<1>2. /\ PodInv(l) /\ UNCHANGED <<pod, fault>> /\ load[l].status \notin Gone
      /\ calls[c].pc = "undoLoad" /\ End(c)
  BY <1>1 DEF DInv, Restores, UndoLoad, At, ghosts
<1>3. Others(c) /\ calls'[c] = Idle
  BY <1>2, Typed, EndIdles
<1>4. \A d \in Calls : /\ ~Deliverer(d, l)'
                       /\ Owner(d, l) => Owner(d, l)'
  BY <1>2, <1>3, IdleKnows
     DEF PodInv, OneDeliverer, Others, Deliverer, Owner, DelivererPCs, OwnerPCs, Counting
<1>5. load'[l].status = "DELIVERED"
  BY <1>1, Typed DEF Restores, SetLoad, LoadDocs
<1>6. Honest(l)'
  BY <1>5, StillThere DEF Ready
<1>7. pod[l] # 0 /\ \A d \in Calls : ~Owner(d, l)
  BY <1>2, <1>4, <1>6 DEF Honest
<1> QED
  BY <1>2, <1>7 DEF PodInv, ProofHasLoad, Gone

\* The proof may arrive after the delivery of another request.
LEMMA InsertPodLast ==
  ASSUME IInv, DInv, LastInv, NoneRemoved', NEW c \in Calls, InsertPod(c)
  PROVE  LastInv'
<1>1. PICK l \in Loads : l = calls[c].l
  BY Typed DEF InsertPod, At, OrderPCs, Transiting
<1>2. /\ calls[c].pc = "podInsert" /\ UNCHANGED <<load, fault, status>> /\ ~calls[c].put
      /\ PodInv(l) /\ load[l].status # "ABSENT"
  BY <1>1, LoadThere DEF InsertPod, At, DInv, KeptBy, DelivererPCs, Counting, Creating, ghosts, order
<1>3. CASE pod[l] = 0
  <2>1. Others(c) /\ Keeps(c, "podPut")
    BY <1>1, <1>3, Typed, GotoKeeps DEF InsertPod, PCs
  <2> SUFFICES ASSUME Ready' PROVE \E d \in Calls : Witness(d)'
    BY DEF LastInv
  <2>2. Honest(l)'
    BY <1>2, StillThere DEF Ready
  <2>3. Owner(c, l)' /\ ~Deliverer(c, l)'
    BY <1>1, <2>1 DEF Keeps, Owner, Deliverer, OwnerPCs, DelivererPCs, Counting
  <2>4. PICK d \in Calls : Deliverer(d, l)'
    BY <2>2, <2>3 DEF Honest
  <2>5. d # c /\ Deliverer(d, l)
    BY <2>1, <2>3, <2>4 DEF Others, Deliverer
  <2>6. ~Owner(d, l)
    BY <1>2, <1>3 DEF PodInv, OneOwner
  <2> QED
    BY <2>1, <2>5, <2>6, Undoing
<1>4. CASE pod[l] # 0
  <2>1. Others(c) /\ Keeps(c, "undoClaim") /\ UNCHANGED pod
    BY <1>1, <1>4, Typed, GotoKeeps DEF InsertPod, PCs
  <2>2. \A o \in Loads : ~Owner(c, o) /\ ~Deliverer(c, o)'
    BY <1>2, <2>1 DEF Keeps, Owner, Deliverer, OwnerPCs, Counting
  <2>3. ~Witness(c) /\ NothingArrives
    BY <1>2, <2>1 DEF Witness, NothingArrives
  <2> QED
    BY <2>1, <2>2, <2>3, SameLast
<1> QED
  BY <1>3, <1>4

\* The request that delivers a load goes on to see about the order.
LEMMA DeliverLoadLast ==
  ASSUME IInv, DInv, LastInv, NoneRemoved', NEW c \in Calls, DeliverLoad(c)
  PROVE  LastInv'
<1>1. PICK l \in Loads : l = calls[c].l
  BY Typed DEF DeliverLoad, At, OrderPCs, Transiting
<1>2. calls[c].pc = "podPut" /\ UNCHANGED <<status, pod, fault>> /\ ~calls[c].put
  BY DEF DeliverLoad, At, DInv, KeptBy, DelivererPCs, Counting, ghosts, order
<1>3. CASE load[l].status \in PodStates /\ load[l].driver = trip[l].driver
  <2> DEFINE r == [calls[c] EXCEPT !.pc = "sum", !.put = TRUE]
  <2>1. calls'[c] = r
    BY <1>1, <1>3, Typed, Becomes DEF DeliverLoad
  <2>2. r.pc = "sum" /\ r.put
    BY Typed DEF CallStates
  <2> QED
    BY <2>1, <2>2 DEF LastInv, Witness
<1>4. CASE ~(load[l].status \in PodStates /\ load[l].driver = trip[l].driver)
  <2>1. Others(c) /\ Keeps(c, "undoPod") /\ UNCHANGED load
    BY <1>1, <1>4, Typed, GotoKeeps DEF DeliverLoad, PCs
  <2>2. \A o \in Loads : (Owner(c, o) => Owner(c, o)') /\ ~Deliverer(c, o)'
    BY <1>2, <2>1 DEF Keeps, Owner, Deliverer, OwnerPCs
  <2>3. ~Witness(c) /\ NothingArrives
    BY <1>2, <2>1 DEF Witness, NothingArrives
  <2> QED
    BY <2>1, <2>2, <2>3, SameLast
<1> QED
  BY <1>3, <1>4

\* Nobody is misled by a proof that is taken back.
LEMMA UndoPodLast ==
  ASSUME IInv, DInv, LastInv, NoneRemoved', NEW c \in Calls, UndoPod(c)
  PROVE  LastInv'
<1>1. PICK l \in Loads : l = calls[c].l
  BY Typed DEF UndoPod, At, OrderPCs, Transiting
<1>2. calls[c].pc = "undoPod" /\ UNCHANGED load /\ PodInv(l) /\ load[l].status # "ABSENT"
  BY <1>1, LoadThere DEF UndoPod, At, DInv, Creating
<1>3. Others(c) /\ Keeps(c, "undoClaim")
  BY Typed, GotoKeeps DEF UndoPod, PCs
<1>4. CASE calls[c].put
  BY <1>3, <1>4 DEF LastInv, Witness, Keeps
<1>5. CASE ~calls[c].put
  <2> SUFFICES ASSUME Ready' PROVE \E d \in Calls : Witness(d)'
    BY DEF LastInv
  <2>1. Honest(l)' /\ pod'[l] = 0
    BY <1>1, <1>2, StillThere, Typed DEF Ready, UndoPod
  <2>2. PICK d \in Calls : Deliverer(d, l)'
    BY <2>1 DEF Honest
  <2>3. d # c /\ Deliverer(d, l)
    BY <1>3, <1>5, <2>2 DEF Others, Keeps, Deliverer
  <2>4. ~Owner(d, l)
    BY <1>1, <1>2, <2>3 DEF PodInv, OneOwner, Owner, OwnerPCs
  <2> QED
    BY <1>3, <2>3, <2>4, Undoing
<1> QED
  BY <1>4, <1>5

\* Giving back the claim of the trip, claiming it and finishing it.
LEMMA ClaimLast ==
  ASSUME IInv, DInv, LastInv, NoneRemoved', NEW c \in Calls,
         ClaimPod(c) \/ UndoClaim(c) \/ FinishTrip(c)
  PROVE  LastInv'
<1>1. UNCHANGED <<status, load, pod, fault>> /\ NothingArrives
  BY DEF ClaimPod, UndoClaim, FinishTrip, NothingArrives, ghosts, order
<1>2. CASE calls[c].pc = "undoClaim" /\ calls[c].put
  <2>1. Keeps(c, "undoPut")
    BY <1>2, Typed, GotoKeeps DEF ClaimPod, UndoClaim, FinishTrip, Check, At, PCs
  <2> QED
    BY <1>2, <2>1 DEF LastInv, Witness, Keeps
<1>3. CASE ~(calls[c].pc = "undoClaim" /\ calls[c].put)
  <2>1. calls[c].pc \in {"podClaim", "undoClaim", "finishTrip"}
    BY DEF ClaimPod, UndoClaim, FinishTrip, At
  <2>2. Others(c) /\ calls'[c].pc \in {"idle", "podInsert", "freeMixer"}
    BY <1>3, Typed, EndIdles, GotoKeeps, IdleKnows
       DEF ClaimPod, UndoClaim, FinishTrip, Check, At, Keeps, PCs
  <2>3. \A o \in Loads : ~Owner(c, o) /\ ~Deliverer(c, o)'
    BY <2>1, <2>2 DEF Owner, Deliverer, OwnerPCs, DelivererPCs, Counting
  <2>4. ~Witness(c)
    BY <1>3, <2>1 DEF Witness
  <2> QED
    BY <1>1, <2>2, <2>3, <2>4, SameLast
<1> QED
  BY <1>2, <1>3

\* A delivery that is taken back leaves the load without one, or without a proof.
LEMMA UndoDeliveryLast ==
  ASSUME IInv, DInv, LastInv, NoneRemoved', NEW c \in Calls, UndoDelivery(c)
  PROVE  LastInv'
<1> SUFFICES ASSUME fault' = "none", Ready' PROVE FALSE
  BY DEF LastInv
<1>1. PICK l \in Loads : l = calls[c].l
  BY Typed DEF UndoDelivery, At, OrderPCs, Transiting
<1>2. /\ calls[c].pc = "undoPut" /\ calls[c].put /\ PodInv(l) /\ UNCHANGED <<pod, fault>>
      /\ calls[c].seenLoad.status # "ABSENT" /\ load[l].status # "ABSENT"
  BY <1>1, LoadThere DEF UndoDelivery, At, DInv, KeptBy, SeenPCs, Creating, ghosts
<1>3. Others(c) /\ calls'[c] = Idle
  BY Typed, EndIdles DEF UndoDelivery
<1>4. Deliverer(c, l)
  BY <1>1, <1>2 DEF Deliverer, DelivererPCs
<1>5. \A d \in Calls : /\ ~Deliverer(d, l)'
                       /\ Owner(d, l) => Owner(d, l)'
  BY <1>2, <1>3, <1>4, IdleKnows
     DEF PodInv, OneDeliverer, Others, Deliverer, Owner, DelivererPCs, OwnerPCs, Counting
<1>6. load'[l].status # "ABSENT"
  BY <1>1, <1>2, Typed DEF UndoDelivery, SetLoad, LoadDocs
<1>7. Honest(l)' /\ load'[l].status = "DELIVERED"
  BY <1>6, StillThere DEF Ready
<1>8. pod[l] # 0 /\ \A d \in Calls : ~Owner(d, l)
  BY <1>2, <1>5, <1>7 DEF Honest
<1>9. load[l].status \notin Removed
  BY <1>1, <1>2, <1>4, <1>7, Typed DEF PodInv, OneDeliverer, Gone, UndoDelivery, SetLoad, Removed
<1> QED
  BY <1>2, <1>4, <1>8, <1>9 DEF PodInv, ProofHasLoad, Removed

\* The reconciliation sees what has arrived, or leaves it to a later one.
LEMMA ReconcileLast ==
  ASSUME IInv, DInv, LastInv, NoneRemoved', NEW c \in Calls, Reconcile(c)
  PROVE  LastInv'
<1>1. /\ calls[c].pc \in Counting /\ calls[c].put /\ UNCHANGED <<load, pod, fault>>
      /\ status = "DELIVERED" => status' = "DELIVERED"
  BY DEF Reconcile, ReadPods, StoreSum, CheckRemaining, ReadLatest, FinalizeOrder, RecordFinal,
         At, Counting, DInv, KeptBy, Data, ghosts
<1>2. PICK l \in Loads : l = calls[c].l
  BY <1>1, Typed DEF Counting, OrderPCs, Transiting
<1>3. NothingArrives
  BY <1>1 DEF NothingArrives
<1>4. ASSUME NEW p \in {"latest", "finalize", "undoPod"}, Goto(c, p) PROVE LastInv'
  BY <1>1, <1>4, Typed, GotoKeeps DEF LastInv, Witness, Keeps, PCs
<1>5. CASE ReadPods(c)
  <2> DEFINE r == [calls[c] EXCEPT !.pc = "storeSum", !.seenPods = pod]
  <2>1. calls'[c] = r
    BY <1>5, Typed, Becomes DEF ReadPods
  <2>2. r.pc = "storeSum" /\ r.seenPods = pod /\ r.put = calls[c].put
    BY Typed DEF CallStates
  <2>3. calls'[c].pc = "storeSum" /\ calls'[c].seenPods = pod' /\ calls'[c].put
    BY <1>1, <2>1, <2>2
  <2>4. Ready' => Witness(c)'
    BY <2>3 DEF Ready, Witness
  <2> QED
    BY <2>4 DEF LastInv
<1>6. CASE StoreSum(c)
  <2>1. /\ Others(c) /\ Keeps(c, "remaining") /\ calls[c].pc = "storeSum"
        /\ calls'[c].seenPods = calls[c].seenPods
    BY <1>6, Typed, GotoKeeps DEF StoreSum, At, PCs
  <2>2. \A o \in Loads : /\ Owner(c, o) => Owner(c, o)'
                         /\ Deliverer(c, o)' => Deliverer(c, o)
    BY <2>1 DEF Keeps, Owner, Deliverer, OwnerPCs, DelivererPCs, Counting
  <2>3. Witness(c) => Witness(c)'
    BY <2>1 DEF Keeps, Witness
  <2> QED
    BY <1>3, <2>1, <2>2, <2>3, SameLast
<1>7. CASE CheckRemaining(c)
  <2>1. CASE Goto(c, "latest")
    BY <1>4, <2>1
  <2>2. CASE ~Goto(c, "latest")
    <3>1. /\ Goto(c, "finishTrip") /\ calls[c].pc = "remaining"
          /\ (\E o \in Exists : load[o].status \notin TERMINAL_LOADS) \/ ~Enough(calls[c].seenPods)
      BY <1>7, <2>2 DEF CheckRemaining, At
    <3>2. Others(c) /\ Keeps(c, "finishTrip")
      BY <3>1, Typed, GotoKeeps DEF PCs
    <3> SUFFICES ASSUME fault' = "none", Ready' PROVE \E d \in Calls : Witness(d)'
      BY DEF LastInv
    <3>3. \A o \in Exists : o \in Exists' /\ load[o].status = "DELIVERED"
      BY <1>1 DEF Ready, Exists
    <3>4. ~Enough(calls[c].seenPods)
      BY <3>1, <3>3 DEF TERMINAL_LOADS
    <3>5. Deliverer(c, l)
      BY <1>1, <1>2 DEF Deliverer, DelivererPCs
    <3>6. ASSUME NEW o \in Exists PROVE Honest(o)
      <4>1. CASE o = l
        BY <3>5, <4>1 DEF Honest
      <4>2. CASE o # l
        <5>1. \A d \in Calls : /\ Owner(d, o)' <=> Owner(d, o)
                               /\ Deliverer(d, o)' <=> Deliverer(d, o)
          BY <1>2, <3>2, <4>2 DEF Others, Keeps, Owner, Deliverer
        <5>2. Honest(o)'
          BY <3>3 DEF Ready
        <5> QED
          BY <1>1, <5>1, <5>2 DEF Honest
      <4> QED
        BY <4>1, <4>2
    <3>7. status # "DELIVERED" /\ Enough(pod)
      BY <1>1 DEF Ready
    <3>8. Ready
      BY <3>3, <3>6, <3>7 DEF Ready
    <3>9. PICK d \in Calls : Witness(d)
      BY <1>1, <3>8 DEF LastInv
    <3>10. d # c
      BY <3>1, <3>4, <3>9 DEF Witness
    <3> QED
      BY <3>2, <3>9, <3>10 DEF Others, Witness
  <2> QED
    BY <2>1, <2>2
<1>8. CASE ReadLatest(c) \/ FinalizeOrder(c)
  <2>1. status' = "DELIVERED" \/ \E p \in {"finalize", "undoPod"} : Goto(c, p)
    BY <1>1, <1>8 DEF ReadLatest, FinalizeOrder
  <2> QED
    BY <1>4, <2>1 DEF LastInv, Ready
<1>9. CASE RecordFinal(c)
  <2>1. status' = "DELIVERED"
    BY <1>9 DEF RecordFinal, At, IInv, FinalInv
  <2> QED
    BY <2>1 DEF LastInv, Ready
<1> QED
  BY <1>5, <1>6, <1>7, <1>8, <1>9 DEF Reconcile

\* After every step somebody will notice.
LEMMA StepLast ==
  ASSUME Fixed, IInv, DInv, NoneRemoved, LastInv, [Next]_vars
  PROVE  LastInv'
<1>1. NoneRemoved'
  BY NothingRemoved
<1>2. status = "DELIVERED" => status' = "DELIVERED"
  BY StepInv, Table DEF IInv, TypeOK
<1>3. CASE UNCHANGED vars
  BY <1>3 DEF vars, LastInv, Ready, Honest, Witness, Owner, Deliverer, Exists
<1>4. ASSUME NEW c \in Calls, Crash(c) \/ DatabaseError(c) PROVE LastInv'
  BY <1>4 DEF Crash, DatabaseError, LastInv
<1>5. ASSUME NEW c \in Calls, Modest(c), UNCHANGED fault PROVE LastInv'
  BY <1>1, <1>2, <1>5, ModestLast DEF DInv
<1>6. ASSUME NEW c \in Calls, Request(c) PROVE LastInv'
  <2>1. UNCHANGED fault
    BY <1>6 DEF Request, StartCancelOrder, StartCreate, StartAssign, StartCancelLoad,
       StartPrepare, StartGatePass, StartDispatch, StartAdvance, StartPod, Data
  <2> QED
    BY <1>5, <1>6, <2>1, RequestModest
<1>7. ASSUME NEW c \in Calls, Plan(c) PROVE LastInv'
  <2>1. ~InsertLoad(c)
    BY DEF NoneRemoved, Harmless, RemoverPCs, InsertLoad, At
  <2>2. UNCHANGED fault
    BY <1>7 DEF Plan, CheckPlanned, ValidateAssignment, InsertLoad, Recount, DeleteLoad,
       AssignLoad, CancelLoad, CancelLoads, Data, ghosts
  <2> QED
    BY <1>5, <1>7, <2>1, <2>2, PlanModest
<1>8. ASSUME NEW c \in Calls, Transition(c) \/ Prepare(c) \/ Dispatch(c) PROVE LastInv'
  <2>1. UNCHANGED fault
    BY <1>8 DEF Transition, ReadOrder, SwapStatus, RereadOrder, Prepare, CheckPreparable,
       CheckProduced, CheckMixer, CheckDriver, FindTrip, InsertTrip, FindChallan, InsertChallan,
       TakeMixer, ClaimReady, Dispatch, IssueGatePass, CheckDispatchable, CheckPapers,
       ClaimDispatch, DispatchTrip, DispatchMixer, Data, ghosts
  <2> QED
    BY <1>5, <1>8, <2>1, TransitionModest, PrepareModest, DispatchModest
<1>9. ASSUME NEW c \in Calls, Advance(c) PROVE LastInv'
  <2>1. UNCHANGED fault
    BY <1>9 DEF Advance, ReadMyLoad, StepTrip, StepLoad, StartLoad, UndoTrip, UndoLoad, Data,
       ghosts
  <2> QED
    BY <1>1, <1>5, <1>9, <2>1, AdvanceModest, RestoreLast
<1>10. ASSUME NEW c \in Calls, ReadPodLoad(c) \/ FreeMixer(c) PROVE LastInv'
  <2>1. UNCHANGED fault
    BY <1>10 DEF ReadPodLoad, FreeMixer, Data, ghosts
  <2> QED
    BY <1>5, <1>10, <2>1, ReadPodLoadModest, FreeMixerModest
<1>11. ASSUME NEW c \in Calls, SubmitPod(c) PROVE LastInv'
  BY <1>1, <1>10, <1>11, InsertPodLast, DeliverLoadLast, UndoPodLast, ClaimLast,
     UndoDeliveryLast DEF SubmitPod
<1>12. ASSUME NEW c \in Calls, Reconcile(c) PROVE LastInv'
  BY <1>1, <1>12, ReconcileLast
<1> QED
  BY <1>3, <1>4, <1>6, <1>7, <1>8, <1>9, <1>11, <1>12 DEF Next, Serve

\* In the beginning nothing has been delivered.
LEMMA InitLast == Init => LastInv
<1> SUFFICES ASSUME Init PROVE ~Enough(pod)
  BY DEF LastInv, Ready
<1>1. IsFiniteSet(Loads) /\ \A l \in Loads : pod[l] = 0
  BY LoadAssumption DEF Init
<1>2. Total(pod) = 0
  BY <1>1, SumZero DEF Total
<1> QED
  BY <1>2, LoadAssumption DEF Enough

\* The last delivery of an order whose planning is over makes it DELIVERED, however
\* the submissions of its proofs, their failures and the driver's steps overlap
\* (reconcile_parent_delivery sums what is on file when it runs).
THEOREM LastDeliveryNoticed == Fixed => (Spec => []NoMissedFinalization)
<1> SUFFICES ASSUME Fixed PROVE Spec => []NoMissedFinalization
  OBVIOUS
<1>1. Init => NoneRemoved /\ LastInv
  BY InitRemovedNothing, InitLast
<1>2. (IInv /\ DInv) /\ (NoneRemoved /\ LastInv) /\ [Next]_vars => (NoneRemoved /\ LastInv)'
  BY NothingRemoved, StepLast
<1>3. NoneRemoved /\ LastInv => NoMissedFinalization
  <2> SUFFICES ASSUME NoneRemoved, LastInv, Quiet, fault = "none", Enough(pod),
                      \A l \in Exists : load[l].status \in TERMINAL_LOADS,
                      \A l \in Exists : load[l].status = "DELIVERED" => pod[l] # 0,
                      status # "DELIVERED"
               PROVE  FALSE
    BY DEF NoMissedFinalization
  <2>1. \A c \in Calls : ~Witness(c)
    BY DEF Quiet, At, Witness
  <2>2. ASSUME NEW l \in Exists PROVE load[l].status = "DELIVERED" /\ Honest(l)
    <3>1. l \in Loads /\ load[l].status = "DELIVERED"
      BY DEF Exists, NoneRemoved, Removed, TERMINAL_LOADS
    <3> QED
      BY <3>1, QuietRoles DEF Honest
  <2> QED
    BY <2>1, <2>2 DEF LastInv, Ready
<1> QED
  BY <1>1, <1>2, <1>3, Deliveries, PTL DEF Spec

-----------------------------------------------------------------------------
(* Planning: concurrent planners never leave more planned than was ordered. *)

Deciding == {"recount", "delete"}

\* Nothing is planned anew but what is still being checked, and what has been checked
\* stays counted.
NotGrown ==
  /\ fault' # "crash" => fault # "crash"
  /\ Live' \subseteq Live \union Tentative'
  /\ Tentative \subseteq Tentative' \union (Loads \ Live')

\* The sum over the loads that count is bounded by the sum over more of them.
LEMMA LessPlanned ==
  ASSUME NEW R, NEW S \in SUBSET Loads, R \subseteq S,
         SumFunctionOnSet(Quantity, S) <= Ordered
  PROVE  SumFunctionOnSet(Quantity, R) <= Ordered
<1>1. IsFiniteSet(S) /\ IsFiniteSet(R) /\ \A l \in S : Quantity[l] \in Nat
  BY LoadAssumption, FS_Subset
<1>2. SumFunctionOnSet(Quantity, R) \in Nat /\ SumFunctionOnSet(Quantity, S) \in Nat
  BY <1>1, SumNat
<1>3. SumFunctionOnSet(Quantity, R) <= SumFunctionOnSet(Quantity, S)
  BY <1>1, SumMonotone
<1> QED
  BY <1>2, <1>3, LoadAssumption

\* Such a step keeps the plan within the order.
LEMMA WithinKept ==
  ASSUME PlannedWithinOrder, NotGrown
  PROVE  PlannedWithinOrder'
<1> SUFFICES ASSUME fault' # "crash"
             PROVE  SumFunctionOnSet(Quantity, Live' \ Tentative') <= Ordered
  BY DEF PlannedWithinOrder
<1>1. SumFunctionOnSet(Quantity, Live \ Tentative) <= Ordered
  BY DEF PlannedWithinOrder, NotGrown
<1>2. Live' \ Tentative' \subseteq Live \ Tentative /\ Live \ Tentative \in SUBSET Loads
  BY DEF NotGrown, Live, Exists
<1> QED
  BY <1>1, <1>2, LessPlanned

\* A request that is not deciding whether its load stays leaves the others to decide.
LEMMA TentativeKept ==
  ASSUME IInv, NEW c \in Calls, NEW r, Become(c, r), calls[c].pc \notin Deciding
  PROVE  Tentative \subseteq Tentative'
<1>1. \A d \in Calls : d # c => calls'[d] = calls[d]
  BY Typed, Becomes DEF Others
<1> QED
  BY <1>1 DEF Tentative, Deciding

\* A load that is planned may move, and one that is not stays so.
LEMMA LiveKept ==
  ASSUME IInv, NEW l \in Loads, NEW s, SetLoad(l, s) \/ UNCHANGED load,
         load[l].status \in {"ABSENT", "CANCELLED", "DELETED"} => UNCHANGED load
  PROVE  Live' \subseteq Live
<1>1. load \in [Loads -> LoadDocs]
  BY DEF IInv, TypeOK
<1>2. \A o \in Loads : o # l \/ UNCHANGED load => load'[o] = load[o]
  BY <1>1 DEF SetLoad
<1> QED
  BY <1>2 DEF Live, Exists

\* The steps of planning.
LEMMA PlanWithin ==
  ASSUME IInv, PlannedWithinOrder, NEW c \in Calls, Plan(c)
  PROVE  PlannedWithinOrder'
<1>1. UNCHANGED fault
  BY DEF Plan, CheckPlanned, ValidateAssignment, InsertLoad, Recount, DeleteLoad, AssignLoad,
         CancelLoad, CancelLoads, Data, ghosts
<1>2. ASSUME Live' \subseteq Live, NEW r, Become(c, r), calls[c].pc \notin Deciding
      PROVE  PlannedWithinOrder'
  BY <1>1, <1>2, TentativeKept, WithinKept DEF NotGrown
<1>3. CASE CheckPlanned(c) \/ ValidateAssignment(c)
  <2>1. /\ Live' \subseteq Live /\ calls[c].pc \notin Deciding
        /\ \E r : Become(c, r)
    BY <1>3 DEF CheckPlanned, ValidateAssignment, Check, Goto, End, At, Deciding, Data, Live, Exists
  <2> QED
    BY <1>2, <2>1
<1>4. CASE InsertLoad(c)
  <2>1. PICK l \in Loads : l = calls[c].l
    BY <1>4, Typed DEF InsertLoad, At, OrderPCs, Transiting
  <2>2. /\ calls[c].pc \notin Deciding
        /\ \A o \in Loads : o # l => load'[o] = load[o]
    BY <1>4, <2>1, Typed DEF InsertLoad, At, Deciding
  <2>3. Others(c) /\ Keeps(c, "recount")
    BY <1>4, Typed, GotoKeeps DEF InsertLoad, PCs
  <2>4. l \in Tentative'
    BY <2>1, <2>3 DEF Keeps, Tentative
  <2>5. Live' \subseteq Live \union Tentative'
    BY <2>2, <2>4 DEF Live, Exists
  <2>6. Tentative \subseteq Tentative'
    BY <1>4, <2>2, TentativeKept DEF InsertLoad, Goto
  <2> QED
    BY <1>1, <2>5, <2>6, WithinKept DEF NotGrown
<1>5. CASE Recount(c)
  <2>1. Live' = Live /\ Planned \in Int
    <3>1. Live \in SUBSET Loads
      BY DEF Live, Exists
    <3>2. Planned \in Nat
      BY <3>1, LoadAssumption, FS_Subset, SumNat DEF Planned
    <3> QED
      BY <1>5, <3>2 DEF Recount, Data, Live, Exists
  <2>2. CASE Planned > Ordered
    <3>1. Others(c) /\ Keeps(c, "delete")
      BY <1>5, <2>2, Typed, GotoKeeps DEF Recount, Check, PCs
    <3>2. Tentative \subseteq Tentative'
      BY <3>1 DEF Tentative, Others, Keeps
    <3> QED
      BY <1>1, <2>1, <3>2, WithinKept DEF NotGrown
  <2>3. CASE ~(Planned > Ordered)
    <3>1. SumFunctionOnSet(Quantity, Live) <= Ordered
      BY <2>1, <2>3, LoadAssumption DEF Planned
    <3>2. Live' \ Tentative' \subseteq Live /\ Live \in SUBSET Loads
      BY <2>1 DEF Live, Exists
    <3> QED
      BY <3>1, <3>2, LessPlanned DEF PlannedWithinOrder
  <2> QED
    BY <2>2, <2>3
<1>6. CASE DeleteLoad(c)
  <2>1. PICK l \in Loads : l = calls[c].l
    BY <1>6, Typed DEF DeleteLoad, At, OrderPCs, Transiting
  <2>2. Others(c) /\ SetLoad(l, "DELETED")
    BY <1>6, <2>1, Typed, EndIdles DEF DeleteLoad
  <2>3. load'[l].status = "DELETED" /\ \A o \in Loads : o # l => load'[o] = load[o]
    BY <2>2, Typed DEF SetLoad, LoadDocs
  <2>4. Live' \subseteq Live /\ l \in Loads \ Live'
    BY <2>3 DEF Live, Exists
  <2>5. Tentative \subseteq Tentative' \union {l}
    BY <2>1, <2>2 DEF Tentative, Others
  <2> QED
    BY <1>1, <2>4, <2>5, WithinKept DEF NotGrown
<1>7. CASE AssignLoad(c) \/ CancelLoad(c) \/ CancelLoads(c)
  <2>1. calls[c].pc \notin Deciding /\ \E r : Become(c, r)
    BY <1>7 DEF AssignLoad, CancelLoad, CancelLoads, At, End, Deciding
  <2>2. \A o \in Loads : load'[o] = load[o] \/ load[o].status \in Assignable
    <3>1. calls[c].pc # "cancelLoads" => calls[c].l \in Loads
      BY <1>7, Typed DEF AssignLoad, CancelLoad, CancelLoads, At, OrderPCs, Transiting
    <3> QED
      BY <1>7, <3>1, Typed DEF AssignLoad, CancelLoad, CancelLoads, At, SetLoad, LoadDocs
  <2>3. Live' \subseteq Live
    BY <2>2 DEF Live, Exists, Assignable
  <2> QED
    BY <1>2, <2>1, <2>3
<1> QED
  BY <1>3, <1>4, <1>5, <1>6, <1>7 DEF Plan

\* The steps of every other request plan nothing.
LEMMA ServeWithin ==
  ASSUME IInv, NEW c \in Calls,
         \/ Transition(c) \/ Prepare(c) \/ Dispatch(c) \/ Advance(c) \/ SubmitPod(c)
         \/ Reconcile(c) \/ DatabaseError(c)
  PROVE  NotGrown
<1>1. calls[c].pc \notin Deciding
  BY DEF Transition, ReadOrder, SwapStatus, RereadOrder, Prepare, CheckPreparable,
     CheckProduced, CheckMixer, CheckDriver, FindTrip, InsertTrip, FindChallan, InsertChallan,
     TakeMixer, ClaimReady, Dispatch, IssueGatePass, CheckDispatchable, CheckPapers,
     ClaimDispatch, DispatchTrip, DispatchMixer, Advance, ReadMyLoad, StepTrip, StepLoad,
     StartLoad, UndoTrip, UndoLoad, SubmitPod, ReadPodLoad, ClaimPod, InsertPod, DeliverLoad,
     UndoPod, UndoClaim, UndoDelivery, FinishTrip, FreeMixer, Reconcile, ReadPods, StoreSum,
     CheckRemaining, ReadLatest, FinalizeOrder, RecordFinal, DatabaseError, At, Deciding
<1>2. \E r : Become(c, r)
  BY DEF Transition, ReadOrder, SwapStatus, RereadOrder, Prepare, CheckPreparable,
     CheckProduced, CheckMixer, CheckDriver, FindTrip, InsertTrip, FindChallan, InsertChallan,
     TakeMixer, ClaimReady, Dispatch, IssueGatePass, CheckDispatchable, CheckPapers,
     ClaimDispatch, DispatchTrip, DispatchMixer, Advance, ReadMyLoad, StepTrip, StepLoad,
     StartLoad, UndoTrip, UndoLoad, SubmitPod, ReadPodLoad, ClaimPod, InsertPod, DeliverLoad,
     UndoPod, UndoClaim, UndoDelivery, FinishTrip, FreeMixer, Reconcile, ReadPods, StoreSum,
     CheckRemaining, ReadLatest, FinalizeOrder, RecordFinal, DatabaseError, Transit, Check,
     Goto, End
<1>3. fault' # "crash" => fault # "crash"
  BY DEF Transition, ReadOrder, SwapStatus, RereadOrder, Prepare, CheckPreparable,
     CheckProduced, CheckMixer, CheckDriver, FindTrip, InsertTrip, FindChallan, InsertChallan,
     TakeMixer, ClaimReady, Dispatch, IssueGatePass, CheckDispatchable, CheckPapers,
     ClaimDispatch, DispatchTrip, DispatchMixer, Advance, ReadMyLoad, StepTrip, StepLoad,
     StartLoad, UndoTrip, UndoLoad, SubmitPod, ReadPodLoad, ClaimPod, InsertPod, DeliverLoad,
     UndoPod, UndoClaim, UndoDelivery, FinishTrip, FreeMixer, Reconcile, ReadPods, StoreSum,
     CheckRemaining, ReadLatest, FinalizeOrder, RecordFinal, DatabaseError, Data, ghosts
<1>4. Live' \subseteq Live
  <2>1. CASE ClaimReady(c) \/ ClaimDispatch(c) \/ StepLoad(c) \/ StartLoad(c) \/ UndoLoad(c)
             \/ DeliverLoad(c) \/ UndoDelivery(c)
    <3>1. PICK l \in Loads : l = calls[c].l
      BY <2>1, Typed DEF ClaimReady, ClaimDispatch, StepLoad, StartLoad, UndoLoad, DeliverLoad,
         UndoDelivery, At, OrderPCs, Transiting
    <3>2. /\ calls[c].seenTrip \in TripStates
          /\ StepTo[calls[c].step] \in {"EN_ROUTE", "ARRIVED", "UNLOADING"}
      BY Typed DEF CallStates, StepTo, Steps
    <3>3. \E s : SetLoad(l, s) \/ UNCHANGED load
      BY <2>1, <3>1 DEF ClaimReady, ClaimDispatch, StepLoad, StartLoad, UndoLoad, DeliverLoad,
         UndoDelivery
    <3>4. load[l].status \in {"ABSENT", "CANCELLED", "DELETED"} => UNCHANGED load
      BY <2>1, <3>1, <3>2 DEF ClaimReady, ClaimDispatch, StepLoad, StartLoad, UndoLoad,
         DeliverLoad, UndoDelivery, PodStates, TripStates
    <3> QED
      BY <3>3, <3>4, LiveKept
  <2>2. CASE ~(ClaimReady(c) \/ ClaimDispatch(c) \/ StepLoad(c) \/ StartLoad(c) \/ UndoLoad(c)
               \/ DeliverLoad(c) \/ UndoDelivery(c))
    <3>1. UNCHANGED load
      BY <2>2 DEF Transition, ReadOrder, SwapStatus, RereadOrder, Prepare, CheckPreparable,
         CheckProduced, CheckMixer, CheckDriver, FindTrip, InsertTrip, FindChallan,
         InsertChallan, TakeMixer, Dispatch, IssueGatePass, CheckDispatchable, CheckPapers,
         DispatchTrip, DispatchMixer, Advance, ReadMyLoad, StepTrip, UndoTrip, SubmitPod,
         ReadPodLoad, ClaimPod, InsertPod, UndoPod, UndoClaim, FinishTrip, FreeMixer, Reconcile,
         ReadPods, StoreSum, CheckRemaining, ReadLatest, FinalizeOrder, RecordFinal,
         DatabaseError, Data
    <3> QED
      BY <3>1 DEF Live, Exists
  <2> QED
    BY <2>1, <2>2
<1> QED
  BY <1>1, <1>2, <1>3, <1>4, TentativeKept DEF NotGrown

\* A request that begins plans nothing yet.
LEMMA RequestWithin ==
  ASSUME IInv, NEW c \in Calls, Request(c)
  PROVE  NotGrown
<1>1. /\ calls[c].pc \notin Deciding /\ UNCHANGED Data
      /\ \E r : Become(c, r)
  BY DEF Request, StartCancelOrder, StartCreate, StartAssign, StartCancelLoad, StartPrepare,
         StartGatePass, StartDispatch, StartAdvance, StartPod, Transit, At, Deciding
<1>2. Live' = Live /\ (fault' = fault)
  BY <1>1 DEF Data, Live, Exists
<1> QED
  BY <1>1, <1>2, TentativeKept DEF NotGrown

\* Every step keeps the plan within the order.
LEMMA StepWithin ==
  ASSUME IInv, PlannedWithinOrder, [Next]_vars
  PROVE  PlannedWithinOrder'
<1>1. CASE UNCHANGED vars
  BY <1>1 DEF vars, PlannedWithinOrder, Live, Exists, Tentative
<1>2. ASSUME NEW c \in Calls, Crash(c) PROVE PlannedWithinOrder'
  BY <1>2 DEF Crash, PlannedWithinOrder
<1>3. ASSUME NEW c \in Calls, Request(c) \/ Serve(c) \/ DatabaseError(c)
      PROVE  PlannedWithinOrder'
  BY <1>3, RequestWithin, PlanWithin, ServeWithin, WithinKept DEF Serve
<1> QED
  BY <1>1, <1>2, <1>3 DEF Next

\* The prepared loads fit the order.
LEMMA InitWithin == Init => PlannedWithinOrder
<1> SUFFICES ASSUME Init PROVE SumFunctionOnSet(Quantity, Live \ Tentative) <= Ordered
  BY DEF PlannedWithinOrder
<1>1. Live \ Tentative \subseteq Prepared
  BY DEF Init, Live, Exists, AbsentLoad
<1> QED
  BY <1>1, LoadAssumption, LessPlanned

\* However many planners create loads of one order at once, and whatever is assigned,
\* cancelled, dispatched or undone meanwhile, the loads whose creation is through never
\* add up to more than was ordered (the recount of create_order_load).
THEOREM PlanStaysWithinOrder == Spec => []PlannedWithinOrder
<1>1. IInv /\ PlannedWithinOrder /\ [Next]_vars => PlannedWithinOrder'
  BY StepWithin
<1> QED
  BY <1>1, InitWithin, Invariance, PTL DEF Spec
=============================================================================
