------------------------------ MODULE OrderDesk ------------------------------
(***************************************************************************)
(* An order on the screens of the two who decide about it: the page of the *)
(* order, as the plant's owner and as the customer see it                  *)
(* (frontend/app/order/[id].tsx), and the owner's load planner in it       *)
(* (src/components/LoadPlanner.tsx).  A page shows the order as it was     *)
(* when it was last loaded.  Of the backend, the decisions are modelled in *)
(* full (owner.py, customer.py, order_service.py); the routes of the loads *)
(* are modelled in LoadFulfilment, and here as a read and a guarded write. *)
(***************************************************************************)
EXTENDS Naturals, FiniteSets

CONSTANTS
  None,
  Loads, Crews,           \* a crew is a mixer and its driver
  Reasons,
  Calls,
  MaxPresses              \* bound: buttons that send something

VARIABLES
  status, history,        \* of the order: where it is; the moves recorded
  load, trips,            \* of each load: its status and crew; the crew of its trip
  page,                   \* of the owner and of the customer: the status shown, and busy
  rejecting, reason,      \* the owner's card for a refusal
  shown,                  \* the loads as the planner last fetched them
  adding, window, crew, planning,   \* its windows, the crew chosen in one, and busy
  calls, presses

server == <<status, history, load, trips>>
planner == <<shown, adding, window, crew, planning>>
card == <<rejecting, reason>>
vars == <<server, page, card, planner, calls, presses>>

People == {"owner", "customer"}
CANCELLABLE == {"PENDING", "ACCEPTED"}
TRANSITIONS == [PENDING |-> {"ACCEPTED", "REJECTED", "CANCELLED"}, ACCEPTED |-> {"PRODUCTION_COMPLETE", "CANCELLED"},
                PRODUCTION_COMPLETE |-> {"READY_TO_DISPATCH", "CANCELLED"},
                READY_TO_DISPATCH |-> {"DISPATCHED", "CANCELLED"},
                DISPATCHED |-> {}, REJECTED |-> {}, CANCELLED |-> {}]

Free == [by |-> None, does |-> "", l |-> None, crew |-> None, note |-> None, seen |-> None, heard |-> FALSE, pc |-> "free"]
NoLoad == [status |-> "ABSENT", crew |-> None]

\* The order is new, or produced and its loads planned or with a crew; the customer's page may be older.
Init ==
  /\ \/ status = "PENDING" /\ load = [l \in Loads |-> NoLoad]
     \/ /\ status = "PRODUCTION_COMPLETE"
        /\ \E crewOf \in [Loads -> Crews \cup {None}] :
             /\ \A l, m \in Loads : crewOf[l] = crewOf[m] => l = m \/ crewOf[l] = None
             /\ load = [l \in Loads |-> [status |-> IF crewOf[l] = None THEN "PLANNED" ELSE "ASSIGNED",
                                        crew |-> crewOf[l]]]
  /\ history = {} /\ trips = [l \in Loads |-> None]
  /\ \E older \in {status} \cup (IF status = "PENDING" THEN {} ELSE {"ACCEPTED"}) :
       page = [owner |-> [shown |-> status, busy |-> FALSE], customer |-> [shown |-> older, busy |-> FALSE]]
  /\ rejecting = FALSE /\ reason = None
  /\ shown = load /\ adding = FALSE /\ window = None /\ crew = None /\ planning = FALSE
  /\ calls = [c \in Calls |-> Free] /\ presses = 0

-----------------------------------------------------------------------------
(* The pages. *)
Reload(p) ==
  /\ page' = [page EXCEPT ![p].shown = status] /\ UNCHANGED <<server, card, planner, calls, presses>>

Send(p, does, l, cr, note) ==
  /\ presses < MaxPresses /\ presses' = presses + 1
  /\ \E c \in Calls : calls[c] = Free /\ calls' = [calls EXCEPT ![c] =
       [by |-> p, does |-> does, l |-> l, crew |-> cr, note |-> note, seen |-> None, heard |-> TRUE, pc |-> "sent"]]

Act(p, target, note) ==
  /\ ~page[p].busy /\ page' = [page EXCEPT ![p].busy = TRUE] /\ Send(p, target, None, None, note)
  /\ UNCHANGED <<server, card, planner>>

Undecided == page["owner"].shown = "PENDING"
Approve == Undecided /\ ~rejecting /\ Act("owner", "ACCEPTED", None)
OpenReject ==
  /\ Undecided /\ rejecting' = ~rejecting /\ UNCHANGED <<server, page, reason, planner, calls, presses>>
TypeReason(r) ==
  /\ Undecided /\ rejecting /\ reason' = r /\ UNCHANGED <<server, page, rejecting, planner, calls, presses>>
Reject == Undecided /\ rejecting /\ reason # None /\ Act("owner", "REJECTED", reason)
CancelOrder == page["customer"].shown \in CANCELLABLE /\ Act("customer", "CANCELLED", None)

-----------------------------------------------------------------------------
(* The load planner. *)
Planning == page["owner"].shown \notin {"PENDING", "REJECTED", "CANCELLED"}

Refresh ==
  /\ Planning /\ shown' = load
  /\ UNCHANGED <<server, page, card, adding, window, crew, planning, calls, presses>>

OpenAdd ==
  /\ Planning /\ window = None /\ adding' = ~adding
  /\ UNCHANGED <<server, page, card, shown, window, crew, planning, calls, presses>>

OpenAssign(l) ==
  /\ Planning /\ ~adding /\ window = None /\ shown[l].status \in {"PLANNED", "ASSIGNED"}
  /\ window' = l /\ crew' = shown[l].crew
  /\ UNCHANGED <<server, page, card, shown, adding, planning, calls, presses>>

ChooseCrew(v) ==
  /\ window # None /\ crew' = v
  /\ UNCHANGED <<server, page, card, shown, adding, window, planning, calls, presses>>

CloseAssign ==
  /\ window # None /\ window' = None
  /\ UNCHANGED <<server, page, card, shown, adding, crew, planning, calls, presses>>

Plan(does, l, cr) ==
  /\ Planning /\ planning' = TRUE /\ Send("owner", does, l, cr, None)
  /\ UNCHANGED <<server, page, card, shown, adding, window, crew>>

CreateLoad(l) == ~planning /\ adding /\ shown[l].status = "ABSENT" /\ Plan("add", l, None)
SaveAssignment == ~planning /\ window # None /\ crew # None /\ Plan("assign", window, crew)
Prepare(l) == ~planning /\ window = None /\ shown[l].status = "ASSIGNED" /\ Plan("prepare", l, None)
Dispatch(l) == ~planning /\ window = None /\ shown[l].status = "READY_TO_DISPATCH" /\ Plan("dispatch", l, None)
\* The one button that stays enabled while the planner is busy.
CancelLoad(l) == window = None /\ shown[l].status \in {"PLANNED", "ASSIGNED"} /\ Plan("cancel", l, None)

-----------------------------------------------------------------------------
(* What comes back.  A success closes the window, or the card, that is open by then. *)
Decisions == {"ACCEPTED", "REJECTED", "CANCELLED"}

Answered(c, ok) ==
  LET k == calls[c] IN
  /\ k.heard /\ k.pc \in (IF ok THEN {"ok"} ELSE {"sent", "ok", "failed"})
  /\ calls' = [calls EXCEPT ![c] = IF k.pc \in {"ok", "failed"} THEN Free ELSE [k EXCEPT !.heard = FALSE]]
  /\ IF k.does \in Decisions
       THEN /\ page' = [page EXCEPT ![k.by] = [shown |-> IF ok THEN status ELSE @.shown, busy |-> FALSE]]
            /\ rejecting' = (rejecting /\ ~(ok /\ k.by = "owner"))
            /\ reason' = IF ok /\ k.by = "owner" THEN None ELSE reason
            /\ UNCHANGED planner
       ELSE /\ planning' = FALSE /\ shown' = IF ok THEN load ELSE shown
            /\ adding' = (adding /\ ~(ok /\ k.does = "add"))
            /\ window' = IF ok /\ k.does = "assign" THEN None ELSE window
            /\ page' = IF ok THEN [page EXCEPT !["owner"].shown = status] ELSE page
            /\ UNCHANGED <<card, crew>>
  /\ UNCHANGED <<server, presses>>

Ended(c) ==
  /\ ~calls[c].heard /\ calls[c].pc \in {"ok", "failed"}
  /\ calls' = [calls EXCEPT ![c] = Free] /\ UNCHANGED <<server, page, card, planner, presses>>

-----------------------------------------------------------------------------
(* The backend: the order's moves. *)
Elsewhere == UNCHANGED <<page, card, planner, presses>>
To(c, pc) == calls' = [calls EXCEPT ![c].pc = pc]
Prepared == {l \in Loads : load[l].status \in {"READY_TO_DISPATCH", "DISPATCHED"}}

\* A cancellation first counts the loads that are prepared.
CountPrepared(c) ==
  /\ calls[c].does = "CANCELLED" /\ calls[c].pc = "sent" /\ To(c, IF Prepared = {} THEN "counted" ELSE "failed")
  /\ UNCHANGED server /\ Elsewhere

\* What is there already is an answer; what cannot become it is refused.
ReadOrder(c) ==
  LET k == calls[c] IN
  /\ k.does \in Decisions /\ k.pc = (IF k.does = "CANCELLED" THEN "counted" ELSE "sent")
  /\ IF status = k.does THEN To(c, "moved")
     ELSE IF k.does \notin TRANSITIONS[status] THEN To(c, "failed")
     ELSE calls' = [calls EXCEPT ![c].seen = status, ![c].pc = "move"]
  /\ UNCHANGED server /\ Elsewhere

\* Mutant: the move is written whatever has become of the order.
AnyStatus(c) == TRUE

StatusSeen(c) == status = calls[c].seen

MoveOrder(c) ==
  LET k == calls[c] IN
  /\ k.pc = "move"
  /\ IF StatusSeen(c)
       THEN /\ status' = k.does /\ To(c, "moved")
            /\ history' = history \cup {[from |-> k.seen, to |-> k.does, note |-> k.note]}
       ELSE To(c, IF status = k.does THEN "moved" ELSE "failed") /\ UNCHANGED <<status, history>>
  /\ UNCHANGED <<load, trips>> /\ Elsewhere

\* A cancelled order takes the loads nobody has prepared with it.
Finish(c) ==
  /\ calls[c].pc = "moved" /\ To(c, "ok")
  /\ load' = IF calls[c].does # "CANCELLED" THEN load
             ELSE [l \in Loads |-> IF load[l].status \in {"PLANNED", "ASSIGNED"}
                                     THEN [load[l] EXCEPT !.status = "CANCELLED"] ELSE load[l]]
  /\ UNCHANGED <<status, history, trips>> /\ Elsewhere

\* The plant produces the concrete.
Produce ==
  /\ status = "ACCEPTED" /\ status' = "PRODUCTION_COMPLETE"
  /\ UNCHANGED <<history, load, trips, calls>> /\ Elsewhere

-----------------------------------------------------------------------------
(* The backend: the loads. *)
From == [add |-> {"ABSENT"}, assign |-> {"PLANNED", "ASSIGNED"}, cancel |-> {"PLANNED", "ASSIGNED"},
         prepare |-> {"ASSIGNED"}, dispatch |-> {"READY_TO_DISPATCH"}]
Leads == [add |-> "PLANNED", assign |-> "ASSIGNED", cancel |-> "CANCELLED",
          prepare |-> "READY_TO_DISPATCH", dispatch |-> "DISPATCHED"]

\* Preparing or dispatching a load again is answered with what there is.
Repeated(k) == k.does \in {"prepare", "dispatch"} /\ load[k.l].status = Leads[k.does]

ReadLoad(c) ==
  LET k == calls[c] IN
  /\ k.does \in DOMAIN From /\ k.pc = "sent"
  /\ IF /\ load[k.l].status \in From[k.does]
        /\ CASE k.does = "add" -> status \notin {"REJECTED", "CANCELLED"}
             [] k.does = "prepare" -> status \in {"PRODUCTION_COMPLETE", "READY_TO_DISPATCH", "DISPATCHED"}
             [] k.does = "dispatch" -> status \in {"READY_TO_DISPATCH", "DISPATCHED"} /\ trips[k.l] = load[k.l].crew
             [] k.does = "assign" -> \A l \in Loads \ {k.l} :
                                       load[l].crew = k.crew => load[l].status \in {"ABSENT", "CANCELLED"}
             [] OTHER -> TRUE
       THEN IF k.does = "prepare"
              THEN /\ trips' = [trips EXCEPT ![k.l] = IF @ = None THEN load[k.l].crew ELSE @]
                   /\ calls' = [calls EXCEPT ![c].seen = status, ![c].pc = "write"]
              ELSE calls' = [calls EXCEPT ![c].seen = status, ![c].pc = "write"] /\ UNCHANGED trips
       ELSE To(c, IF Repeated(k) THEN "ok" ELSE "failed") /\ UNCHANGED trips
  /\ UNCHANGED <<status, history, load>> /\ Elsewhere

WriteLoad(c) ==
  LET k == calls[c] IN
  /\ k.does \in DOMAIN From /\ k.pc = "write"
  /\ IF load[k.l].status \in From[k.does]
       THEN /\ load' = [load EXCEPT ![k.l] = [status |-> Leads[k.does],
                                              crew |-> IF k.does = "assign" THEN k.crew ELSE @.crew]]
            /\ To(c, IF k.does \in {"prepare", "dispatch"} /\ Leads[k.does] \in TRANSITIONS[k.seen] THEN "parent" ELSE "ok")
       ELSE To(c, IF Repeated(k) /\ k.does = "dispatch" THEN "ok" ELSE "failed") /\ UNCHANGED load
  /\ UNCHANGED <<status, history, trips>> /\ Elsewhere

\* The order follows the load's move (from PRODUCTION_COMPLETE by way of the mixer's
\* and the driver's status), unless it cannot move there any more.
MoveParent(c) ==
  LET t == Leads[calls[c].does] IN
  /\ calls[c].pc = "parent"
  /\ IF status = t \/ t \in TRANSITIONS[status] THEN status' = t /\ To(c, "ok")
     ELSE To(c, "failed") /\ UNCHANGED status
  /\ UNCHANGED <<history, load, trips>> /\ Elsewhere

Next ==
  \/ \E p \in People : Reload(p)
  \/ Approve \/ OpenReject \/ Reject \/ CancelOrder \/ Refresh \/ OpenAdd \/ CloseAssign \/ SaveAssignment
  \/ Produce
  \/ \E r \in Reasons : TypeReason(r)
  \/ \E v \in Crews : ChooseCrew(v)
  \/ \E l \in Loads : OpenAssign(l) \/ CreateLoad(l) \/ Prepare(l) \/ Dispatch(l) \/ CancelLoad(l)
  \/ \E c \in Calls :
       \/ Answered(c, TRUE) \/ Answered(c, FALSE) \/ Ended(c)
       \/ CountPrepared(c) \/ ReadOrder(c) \/ MoveOrder(c) \/ Finish(c) \/ ReadLoad(c) \/ WriteLoad(c) \/ MoveParent(c)

Spec == Init /\ [][Next]_vars

-----------------------------------------------------------------------------
\* The owner and the customer decide about an order once: of all the moves away
\* from one status only one is recorded, and a refused or cancelled order is where
\* that move led.
DecidedOnce ==
  /\ \A m, n \in history : m.from = n.from => m = n
  /\ \A m \in history : m.to \in {"REJECTED", "CANCELLED"} => status = m.to

\* "Order cannot be cancelled after a delivery load is prepared" (customer.py).
NoPreparedLoadCancelled == status = "CANCELLED" => Prepared = {}
=============================================================================
