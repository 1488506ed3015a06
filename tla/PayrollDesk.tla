---------------------------- MODULE PayrollDesk -----------------------------
(***************************************************************************)
(* The payroll screens of the mobile application: the monthly report on    *)
(* which the accountant drafts and pays and the owner decides              *)
(* (frontend/app/workforce-reports.tsx), the closing of a month            *)
(* (payroll-closure.tsx) and an employee's payslip (my-payslip.tsx).  Each *)
(* has a month that is typed over at any time and data that was loaded for *)
(* one; actions name the month typed.  One plant with one employee; how    *)
(* the handlers behind the actions interleave is the module Payroll.       *)
(***************************************************************************)
EXTENDS Naturals, FiniteSets

CONSTANTS
  None,
  Months, ThisMonth, Amounts,
  MaxTyped,        \* bound: months typed
  MaxPresses       \* bound: payroll actions pressed

Desks == {"accountant", "plant_owner"}  \* the two roles the report is open to

VARIABLES
  record,    \* the employee's payroll record of each month
  slip,      \* the month's payslip: its amount, or None
  status,    \* the period of each month
  month,     \* what each screen's field holds
  report,    \* what each desk's report shows: a month and its record
  loads,     \* the months each desk's report is being loaded for
  acting,    \* the action each desk waits for
  editing,   \* the accountant's draft form: None, or the amount in it
  closing,   \* the closing screen: its period, its load and its action
  payslip,   \* the payslip screen: what it shows and the month it loads
  approved,  \* ghost: the amounts the owner's approvals let through
  overlooked,\* ghost: an approval took effect for what its row did not show
  typed, presses

desks == <<report, loads, acting, editing>>
bounds == <<typed, presses>>
vars == <<record, slip, status, month, desks, closing, payslip, approved, overlooked, bounds>>

NoRecord == [status |-> "NONE", amount |-> None]
Screens == Desks \cup {"closing", "payslip"}

Init ==
  /\ record = [m \in Months |-> NoRecord] /\ slip = [m \in Months |-> None]
  /\ status = [m \in Months |-> "OPEN"]
  /\ month = [s \in Screens |-> ThisMonth]
  /\ report = [d \in Desks |-> None] /\ loads = [d \in Desks |-> {month[d]}]
  /\ acting = [d \in Desks |-> None] /\ editing = None
  /\ closing = [shown |-> None, load |-> month["closing"], action |-> None]
  /\ payslip = [shown |-> None, load |-> month["payslip"]]
  /\ approved = [m \in Months |-> {}] /\ overlooked = FALSE
  /\ typed = 0 /\ presses = 0

Press == presses < MaxPresses /\ presses' = presses + 1 /\ UNCHANGED typed
Server == <<record, slip, status, approved, overlooked>>

-----------------------------------------------------------------------------
(* The report. *)

\* Typing a month loads the report; what is shown stays until an answer comes.
\* The other two screens have a button for it.
TypeMonth(s, m) ==
  /\ m # month[s] /\ typed < MaxTyped /\ typed' = typed + 1
  /\ month' = [month EXCEPT ![s] = m]
  /\ loads' = IF s \in Desks THEN [loads EXCEPT ![s] = @ \cup {m}] ELSE loads
  /\ UNCHANGED <<Server, report, acting, editing, closing, payslip, presses>>

\* Answers land in any order; a failed load leaves the report as it is.
Loaded(d, m) ==
  /\ m \in loads[d] /\ loads' = [loads EXCEPT ![d] = @ \ {m}]
  /\ \/ report' = [report EXCEPT ![d] = [month |-> m, row |-> record[m]]]
     \/ UNCHANGED report
  /\ UNCHANGED <<Server, month, acting, editing, closing, payslip, bounds>>

Row(d) == IF report[d] = None THEN NoRecord ELSE report[d].row

\* "Prepare Payroll", "Edit Payroll Draft".
OpenDraft(amount) ==
  /\ report["accountant"] # None /\ Row("accountant").status \in {"NONE", "DRAFT", "RETURNED"}
  /\ editing' = amount
  /\ UNCHANGED <<Server, month, report, loads, acting, closing, payslip, bounds>>

\* Every button that acts waits for the desk's action; the month sent is the
\* one typed by now.
Act(d, does, amount) ==
  /\ acting[d] = None /\ Press
  /\ acting' = [acting EXCEPT ![d] = [does |-> does, month |-> month[d], amount |-> amount,
                                      seen |-> report[d]]]

SaveDraft ==
  /\ editing # None /\ Act("accountant", "draft", editing)
  /\ UNCHANGED <<Server, month, report, loads, editing, closing, payslip>>

OwnerDecision(does) ==
  /\ Row("plant_owner").status \in IF does = "APPROVE" THEN {"DRAFT"} ELSE {"DRAFT", "APPROVED"}
  /\ Act("plant_owner", does, None)
  /\ UNCHANGED <<Server, month, report, loads, editing, closing, payslip>>

MarkPaid ==
  /\ Row("accountant").status = "APPROVED" /\ Act("accountant", "pay", None)
  /\ UNCHANGED <<Server, month, report, loads, editing, closing, payslip>>

-----------------------------------------------------------------------------
(* The backend. *)

\* Mutant: what the desk's row offered is paid.
PayableUnlessPaid == {"NONE", "DRAFT", "RETURNED", "APPROVED"}

Payable == {"APPROVED"}

\* The statuses from which an action is accepted, and the one it leads to.
From(does) ==
  CASE does = "draft"   -> {"NONE", "DRAFT", "RETURNED"}
    [] does = "APPROVE" -> {"DRAFT"}
    [] does = "RETURN"  -> {"DRAFT", "APPROVED"}
    [] does = "pay"     -> Payable
To(does) ==
  CASE does = "draft"   -> "DRAFT"
    [] does = "APPROVE" -> "APPROVED"
    [] does = "RETURN"  -> "RETURNED"
    [] does = "pay"     -> "PAID"

Accepted(a) == status[a.month] # "CLOSED" /\ record[a.month].status \in From(a.does)

Apply(a) ==
  /\ record' = [record EXCEPT ![a.month] =
                  [status |-> To(a.does), amount |-> IF a.does = "draft" THEN a.amount ELSE @.amount]]
  /\ IF a.does = "APPROVE"
       THEN /\ approved' = [approved EXCEPT ![a.month] = @ \cup {record[a.month].amount}]
            /\ overlooked' = (overlooked \/ a.seen # [month |-> a.month, row |-> record[a.month]])
       ELSE UNCHANGED <<approved, overlooked>>
  /\ UNCHANGED <<slip, status>>

\* run: after a success the report of the month that was typed at the press is
\* loaded again; saveDraft folds its form either way.  An answer may be lost
\* behind the action.
Acted(d) ==
  /\ acting[d] # None /\ acting' = [acting EXCEPT ![d] = None]
  /\ editing' = IF acting[d].does = "draft" THEN None ELSE editing
  /\ \/ Accepted(acting[d]) /\ Apply(acting[d])
        /\ loads' = [loads EXCEPT ![d] = @ \cup {acting[d].month}]
     \/ Accepted(acting[d]) /\ Apply(acting[d]) /\ UNCHANGED loads
     \/ UNCHANGED <<Server, loads>>
  /\ UNCHANGED <<month, report, closing, payslip, bounds>>

-----------------------------------------------------------------------------
(* The closing of a month. *)
LoadPeriod ==
  /\ closing.load = None /\ closing.action = None
  /\ closing' = [closing EXCEPT !.load = month["closing"]]
  /\ UNCHANGED <<Server, month, desks, payslip, bounds>>

Ready(m) == record[m].status = "PAID"

PeriodLoaded ==
  /\ closing.load # None
  /\ \/ closing' = [closing EXCEPT !.load = None,
          !.shown = [status |-> status[closing.load], ready |-> Ready(closing.load)]]
     \/ closing' = [closing EXCEPT !.load = None]
  /\ UNCHANGED <<Server, month, desks, payslip, bounds>>

ClosePeriod ==
  /\ closing.shown # None /\ closing.action = None
  /\ closing.shown.status # "CLOSED" /\ closing.shown.ready
  /\ closing' = [closing EXCEPT !.action = [does |-> "close", month |-> month["closing"]]]
  /\ UNCHANGED <<Server, month, desks, payslip, bounds>>

ReopenPeriod ==
  /\ closing.shown # None /\ closing.action = None /\ closing.shown.status = "CLOSED"
  /\ closing' = [closing EXCEPT !.action = [does |-> "reopen", month |-> month["closing"]]]
  /\ UNCHANGED <<Server, month, desks, payslip, bounds>>

\* The backend counts for itself whether the month is ready.
PeriodActed ==
  /\ closing.action # None
  /\ LET m == closing.action.month IN
     \/ /\ closing.action.does = "close" /\ status[m] # "CLOSED" /\ Ready(m)
        /\ status' = [status EXCEPT ![m] = "CLOSED"]
        /\ slip' = [slip EXCEPT ![m] = record[m].amount]
        /\ closing' = [closing EXCEPT !.action = None, !.load = m]
     \/ /\ closing.action.does = "reopen" /\ status[m] = "CLOSED"
        /\ status' = [status EXCEPT ![m] = "REOPENED"]
        /\ closing' = [closing EXCEPT !.action = None, !.load = m] /\ UNCHANGED slip
     \/ closing' = [closing EXCEPT !.action = None] /\ UNCHANGED <<status, slip>>
  /\ UNCHANGED <<record, approved, overlooked, month, desks, payslip, bounds>>

-----------------------------------------------------------------------------
(* An employee's payslip. *)
LoadPayslip ==
  /\ payslip.load = None /\ payslip' = [payslip EXCEPT !.load = month["payslip"]]
  /\ UNCHANGED <<Server, month, desks, closing, bounds>>

PayslipLoaded ==
  /\ payslip.load # None
  /\ LET m == payslip.load IN
     \/ payslip' = [load |-> None, shown |-> IF slip[m] = None THEN None ELSE
          [month |-> m, amount |-> slip[m], historical |-> status[m] # "CLOSED"]]
     \/ payslip' = [load |-> None, shown |-> None]
  /\ UNCHANGED <<Server, month, desks, closing, bounds>>

Next ==
  \/ (\E s \in Screens, m \in Months : TypeMonth(s, m)) \/ LoadPayslip
  \/ \E d \in Desks : Acted(d) \/ \E m \in Months : Loaded(d, m)
  \/ (\E a \in Amounts : OpenDraft(a)) \/ SaveDraft \/ MarkPaid
  \/ (\E does \in {"APPROVE", "RETURN"} : OwnerDecision(does))
  \/ LoadPeriod \/ PeriodLoaded \/ ClosePeriod \/ ReopenPeriod \/ PeriodActed \/ PayslipLoaded

Spec == Init /\ [][Next]_vars

-----------------------------------------------------------------------------
\* Whatever the screens show, what is paid for a month, what its payslip says
\* and what the employee reads there is an amount the owner approved for it.
OnlyApprovedIsPaid ==
  /\ \A m \in Months : /\ record[m].status = "PAID" => record[m].amount \in approved[m]
                       /\ slip[m] # None => slip[m] \in approved[m]
  /\ payslip.shown # None => payslip.shown.amount \in approved[payslip.shown.month]

\* An approval takes effect for the month and the amount its row shows.
ApprovedAsShown == ~overlooked
=============================================================================
