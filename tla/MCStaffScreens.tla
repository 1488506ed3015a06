--------------------------- MODULE MCStaffScreens ---------------------------
(***************************************************************************)
(* One model-checking run over the parts of the application that the staff *)
(* of a plant and its owner use, with the backend handlers behind them,    *)
(* and over the web demo (an owner's purchase of a plan is in              *)
(* MCCustomerScreens). They share no variable; `following` says which of   *)
(* them a behaviour follows, and the others stay in one of their initial   *)
(* states. A variable that two parts name alike carries the part's name    *)
(* here. A part whose hazards need different bounds is there twice.        *)
(***************************************************************************)
EXTENDS Naturals, Sequences, FiniteSets, TLC

CONSTANTS
  None, Calls, Receipts, Months, ThisMonth, Amounts, Create, Invoices,
  Profiles, Total, OwnersOrder, Ordered, Opening, Materials, Loads, Crews,
  Reasons, Employees, Phones, Secrets, Handles, Requests,
  \* of one part or of some of them
  FirstPlant, OtherPlants, DeskCalls, StockPlants, StockCalls, BatchedOrders,
  MockOrders, NewOrders, DemoRoles, DemoStages,
  \* bounds: requests and touches of each part
  MaxDeskTouches, MaxStockTouches, MaxWorkPresses, MaxWorkClock,
  MaxClaimPresses, MaxClaimClock, MaxTyped, MaxPayPresses, MaxBillPresses,
  MaxBatchPresses, MaxOrderPresses, MaxEmployeePresses, MaxPasskeys,
  MaxSecurityPresses, MaxProofs

\* None is nothing of what it stands beside; there is a month now, a key to draw and
\* an order of the demo; what is summed or counted is finite.
NoneAssumption ==
  /\ None \notin Employees /\ None \notin Invoices
  /\ None \notin BatchedOrders /\ None \notin Secrets \cup Handles
SomeAssumption ==
  /\ ThisMonth \in Months /\ Secrets # {} /\ OwnersOrder \in BatchedOrders
  /\ MockOrders \in Seq({MockOrders[i] : i \in DOMAIN MockOrders}) /\ MockOrders # <<>>
CountAssumption ==
  /\ IsFiniteSet(Calls) /\ IsFiniteSet(Receipts) /\ IsFiniteSet(BatchedOrders)
  /\ Total \in Nat /\ Ordered \in Nat /\ Opening \in Nat
ASSUME StaffAssumption == NoneAssumption /\ SomeAssumption /\ CountAssumption

\* The order of mockData that the run follows.
MCMockOrders == <<"ord-103">>

VARIABLES
  following,
  \* PlantDesk (two plants)
  deskKind, deskPlantId, deskData, deskLoading, deskSaving, deskForm,
  deskAdjustRow, deskDesk, deskTouches, deskProfile, deskMixer, deskLoad,
  deskActive, deskStock, deskReceipts, deskMoved, deskLoose, deskDayAt,
  \* PlantDesk (one plant, two requests at a time)
  stockKind, stockPlantId, stockData, stockLoading, stockSaving, stockForm,
  stockAdjustRow, stockDesk, stockTouches, stockProfile, stockMixer,
  stockLoad, stockActive, stockStock, stockReceipts, stockMoved, stockLoose,
  stockDayAt,
  \* Workforce (leave, visits and attendance)
  workTopic, workDoc, workPosted, workIn, workOut, workClock, workView,
  workBusy, workForm, workCall, workPresses, workUnsure,
  \* Workforce (expense claims)
  claimTopic, claimDoc, claimPosted, claimIn, claimOut, claimClock,
  claimView, claimBusy, claimForm, claimCall, claimPresses, claimUnsure,
  \* PayrollDesk
  record, slip, payStatus, month, report, loads, acting, editing, closing,
  payslip, approved, overlooked, typed, payPresses,
  \* BillingDesk
  invoices, number, paid, payments, kyc, created, billCalls, staff, owner,
  billCard, mixed, billPresses,
  \* ProductionDesk
  prodStatus, produced, prodStock, prodCalls, prodHeld, adjusting, adjusted,
  overlapped, board, prodSelected, prodProgress, quantity, prodBusy,
  prodCard, prodPresses,
  \* OrderDesk
  ordStatus, history, ordLoad, trips, page, rejecting, reason, shown, adding,
  window, crew, planning, ordCalls, ordPresses,
  \* EmployeeMaster
  stored, empData, empSelected, empForm, empBusy, empCalls, empPresses,
  \* StaffSecurity
  central, enabled, secret, pending, recovery, handle, passkeys, sessions,
  reqs, challenges, drawn, secHeld, scr, tabs, secCalls, secPresses,
  \* WebDemo
  currentRole, tab, orders, demoStatus, pod, telemetry, demoSelected,
  tracker, booking, bookingForm, challan, podOrder, demoForm, edited, proofs,
  batching, cycles

\* Requests in progress have no order.
Symmetry == Permutations(Calls)

Desk == INSTANCE PlantDesk WITH
  First <- FirstPlant, Others <- OtherPlants, DeskCalls <- DeskCalls,
  MaxTouches <- MaxDeskTouches,
  kind <- deskKind, plantId <- deskPlantId, data <- deskData,
  loading <- deskLoading, saving <- deskSaving, form <- deskForm,
  adjustRow <- deskAdjustRow, desk <- deskDesk, touches <- deskTouches,
  profile <- deskProfile, mixer <- deskMixer, load <- deskLoad,
  active <- deskActive, stock <- deskStock, receipts <- deskReceipts,
  moved <- deskMoved, loose <- deskLoose, dayAt <- deskDayAt
Stock == INSTANCE PlantDesk WITH
  First <- FirstPlant, Others <- StockPlants, DeskCalls <- StockCalls,
  MaxTouches <- MaxStockTouches,
  kind <- stockKind, plantId <- stockPlantId, data <- stockData,
  loading <- stockLoading, saving <- stockSaving, form <- stockForm,
  adjustRow <- stockAdjustRow, desk <- stockDesk, touches <- stockTouches,
  profile <- stockProfile, mixer <- stockMixer, load <- stockLoad,
  active <- stockActive, stock <- stockStock, receipts <- stockReceipts,
  moved <- stockMoved, loose <- stockLoose, dayAt <- stockDayAt
Work == INSTANCE Workforce WITH
  MaxPresses <- MaxWorkPresses, MaxClock <- MaxWorkClock, topic <- workTopic, doc <- workDoc,
  posted <- workPosted, in <- workIn, out <- workOut, clock <- workClock,
  view <- workView, busy <- workBusy, form <- workForm, call <- workCall,
  presses <- workPresses, unsure <- workUnsure
Claims == INSTANCE Workforce WITH
  MaxPresses <- MaxClaimPresses, MaxClock <- MaxClaimClock, topic <- claimTopic, doc <- claimDoc,
  posted <- claimPosted, in <- claimIn, out <- claimOut, clock <- claimClock,
  view <- claimView, busy <- claimBusy, form <- claimForm, call <- claimCall,
  presses <- claimPresses, unsure <- claimUnsure
Pay == INSTANCE PayrollDesk WITH
  MaxPresses <- MaxPayPresses, status <- payStatus, presses <- payPresses
Billing == INSTANCE BillingDesk WITH
  MaxPresses <- MaxBillPresses, calls <- billCalls, card <- billCard,
  presses <- billPresses
Production == INSTANCE ProductionDesk WITH
  Orders <- BatchedOrders, MaxPresses <- MaxBatchPresses, status <- prodStatus, stock <- prodStock,
  calls <- prodCalls, held <- prodHeld, selected <- prodSelected,
  progress <- prodProgress, busy <- prodBusy, card <- prodCard,
  presses <- prodPresses
Ordering == INSTANCE OrderDesk WITH
  MaxPresses <- MaxOrderPresses, status <- ordStatus, load <- ordLoad, calls <- ordCalls,
  presses <- ordPresses
Employee == INSTANCE EmployeeMaster WITH
  MaxPresses <- MaxEmployeePresses, data <- empData, selected <- empSelected,
  form <- empForm, busy <- empBusy, calls <- empCalls, presses <- empPresses
Security == INSTANCE StaffSecurity WITH
  Screens <- Phones, MaxPresses <- MaxSecurityPresses, held <- secHeld,
  calls <- secCalls, presses <- secPresses
Demo == INSTANCE WebDemo WITH
  Mock <- MockOrders, New <- NewOrders, Roles <- DemoRoles,
  Stages <- DemoStages, status <- demoStatus, selected <- demoSelected,
  form <- demoForm

deskVars ==
  <<deskKind, deskPlantId, deskData, deskLoading, deskSaving, deskForm,
  deskAdjustRow, deskDesk, deskTouches, deskProfile, deskMixer, deskLoad,
  deskActive, deskStock, deskReceipts, deskMoved, deskLoose, deskDayAt>>
stockVars ==
  <<stockKind, stockPlantId, stockData, stockLoading, stockSaving, stockForm,
  stockAdjustRow, stockDesk, stockTouches, stockProfile, stockMixer,
  stockLoad, stockActive, stockStock, stockReceipts, stockMoved, stockLoose,
  stockDayAt>>
workVars ==
  <<workTopic, workDoc, workPosted, workIn, workOut, workClock, workView,
  workBusy, workForm, workCall, workPresses, workUnsure>>
claimVars ==
  <<claimTopic, claimDoc, claimPosted, claimIn, claimOut, claimClock,
  claimView, claimBusy, claimForm, claimCall, claimPresses, claimUnsure>>
payrollVars ==
  <<record, slip, payStatus, month, report, loads, acting, editing, closing,
  payslip, approved, overlooked, typed, payPresses>>
billingVars ==
  <<invoices, number, paid, payments, kyc, created, billCalls, staff, owner,
  billCard, mixed, billPresses>>
productionVars ==
  <<prodStatus, produced, prodStock, prodCalls, prodHeld, adjusting,
  adjusted, overlapped, board, prodSelected, prodProgress, quantity,
  prodBusy, prodCard, prodPresses>>
ordersVars ==
  <<ordStatus, history, ordLoad, trips, page, rejecting, reason, shown,
  adding, window, crew, planning, ordCalls, ordPresses>>
employeesVars ==
  <<stored, empData, empSelected, empForm, empBusy, empCalls, empPresses>>
securityVars ==
  <<central, enabled, secret, pending, recovery, handle, passkeys, sessions,
  reqs, challenges, drawn, secHeld, scr, tabs, secCalls, secPresses>>
demoVars ==
  <<currentRole, tab, orders, demoStatus, pod, telemetry, demoSelected,
  tracker, booking, bookingForm, challan, podOrder, demoForm, edited, proofs,
  batching, cycles>>

parts ==
  <<deskVars, stockVars, workVars, claimVars, payrollVars, billingVars,
  productionVars, ordersVars, employeesVars, securityVars, demoVars>>
allVars == <<following, parts>>

Init ==
  /\ following \in {"desk", "stock", "work", "claim", "payroll", "billing", "production",
       "orders", "employees", "security", "demo"}
  /\ Desk!Init /\ (following # "desk" => deskKind = "profile")
  /\ Stock!Init /\ (following # "stock" => stockKind = "profile")
  /\ Work!Init /\ (following # "work" => workTopic = "leave")
     /\ (following = "work" => workTopic # "claim")
  /\ Claims!Init /\ claimTopic = "claim"
  /\ Pay!Init
  /\ Billing!Init /\ (following # "billing" => invoices = {})
  /\ Production!Init /\ (following # "production" => prodStatus = [o \in BatchedOrders |-> "ACCEPTED"])
  /\ Ordering!Init /\ (following # "orders" => ordStatus = "PENDING")
  /\ Employee!Init
  /\ Security!Init /\ (following # "security" => central)
  /\ Demo!Init

\* One part moves, the others wait.
Only(part, rest) == following = part /\ UNCHANGED <<following, rest>>

Next ==
  \/ Only("desk",
          <<stockVars, workVars, claimVars, payrollVars, billingVars,
          productionVars, ordersVars, employeesVars, securityVars,
          demoVars>>) /\ Desk!Next
  \/ Only("stock",
          <<deskVars, workVars, claimVars, payrollVars, billingVars,
          productionVars, ordersVars, employeesVars, securityVars,
          demoVars>>) /\ Stock!Next
  \/ Only("work",
          <<deskVars, stockVars, claimVars, payrollVars, billingVars,
          productionVars, ordersVars, employeesVars, securityVars,
          demoVars>>) /\ Work!Next
  \/ Only("claim",
          <<deskVars, stockVars, workVars, payrollVars, billingVars,
          productionVars, ordersVars, employeesVars, securityVars,
          demoVars>>) /\ Claims!Next
  \/ Only("payroll",
          <<deskVars, stockVars, workVars, claimVars, billingVars,
          productionVars, ordersVars, employeesVars, securityVars,
          demoVars>>) /\ Pay!Next
  \/ Only("billing",
          <<deskVars, stockVars, workVars, claimVars, payrollVars,
          productionVars, ordersVars, employeesVars, securityVars,
          demoVars>>) /\ Billing!Next
  \/ Only("production",
          <<deskVars, stockVars, workVars, claimVars, payrollVars,
          billingVars, ordersVars, employeesVars, securityVars, demoVars>>) /\ Production!Next
  \/ Only("orders",
          <<deskVars, stockVars, workVars, claimVars, payrollVars,
          billingVars, productionVars, employeesVars, securityVars,
          demoVars>>) /\ Ordering!Next
  \/ Only("employees",
          <<deskVars, stockVars, workVars, claimVars, payrollVars,
          billingVars, productionVars, ordersVars, securityVars, demoVars>>) /\ Employee!Next
  \/ Only("security",
          <<deskVars, stockVars, workVars, claimVars, payrollVars,
          billingVars, productionVars, ordersVars, employeesVars, demoVars>>) /\ Security!Next
  \/ Only("demo",
          <<deskVars, stockVars, workVars, claimVars, payrollVars,
          billingVars, productionVars, ordersVars, employeesVars,
          securityVars>>) /\ Demo!Next

Spec == Init /\ [][Next]_allVars

-----------------------------------------------------------------------------
\* Every count agrees with what it was counted from, however requests overlap, fail
\* or are repeated: a plant's stock with its receipts and adjustments, the ledger with
\* the claims paid, the materials with the batches posted, what an invoice says was
\* paid with its payments, and a payslip with the record approved.
AccountsAgree ==
  /\ Stock!StockAccounts /\ Claims!LedgerFollowsClaims /\ Production!StockFollowsBatches
  /\ Billing!PaidIsCovered /\ Pay!OnlyApprovedIsPaid

\* What is sent, saved or shown belongs to the row, the person or the order it was
\* entered for, although windows change under a request on its way.
EnteredForIt ==
  /\ Billing!SentWhereEntered /\ Employee!SavedWhereTyped
  /\ Demo!VolumeOfItsOrder

\* A decision, another plant's records and a signed proof stay as they are.
RecordsStand ==
  Work!DecisionsStand /\ Desk!OtherPlantsUntouched /\ Demo!SignedProofStands

\* Steps come in their order, whoever else takes one at the same time: an order is
\* decided once, a day is checked into before it is checked out of, a truck moves
\* while it is on the road, and an account is secured with a key its owner holds.
StepsInOrder ==
  /\ Ordering!DecidedOnce /\ Work!CheckInBeforeOut
  /\ Demo!MovesOnTheRoad /\ Security!SecuredWithWhatIsHeld
=============================================================================
