---------------------------- MODULE BillingDesk -----------------------------
(***************************************************************************)
(* An order's invoice and its payments, from three screens: the list every *)
(* staff role has (src/screens/StaffCollection.tsx, here the accountant's  *)
(* invoices with the reviewer's KYC requests beside them), the owner's     *)
(* ledger (app/owner/billing.tsx) and the owner's card of the order        *)
(* (src/components/OwnerProductionBilling.tsx).  The two payment routes    *)
(* (backend/routers/staff.py, owner.py) and the invoice service            *)
(* (billing_service.py) read, decide and write in separate steps.          *)
(***************************************************************************)
EXTENDS Naturals, FiniteSets

CONSTANTS
  None, Create,
  Invoices,     \* the invoices one order may get
  Profiles,     \* KYC profiles under review
  Total,        \* of an invoice, in units of money
  Calls,
  MaxPresses    \* bound: buttons that send

VARIABLES
  invoices, number,     \* the invoices raised; the one the order names
  paid, payments,       \* what an invoice says; the sum of its recorded payments
  kyc,                  \* each profile's decision
  created,              \* rows the store or fleet manager added
  calls,
  staff,                \* the staff list: rows, window, inputs, busy
  owner,                \* the ledger: rows, payFor, amount, busy
  card,                 \* the card: the invoice it sees, busy
  mixed,                \* ghost: something was sent that was entered elsewhere
  presses

server == <<invoices, number, paid, payments, kyc, created>>
screens == <<staff, owner, card, mixed, presses>>
vars == <<server, calls, screens>>

Free == [by |-> "nobody", does |-> "", row |-> None, amount |-> 0, read |-> 0, pc |-> "free"]
Balance(i) == Total - paid[i]
Empty == [value |-> 0, for |-> None]   \* for: the row an input was entered under

Init ==
  /\ \E i \in {{}} \cup {{j} : j \in Invoices} : invoices = i /\ number = None
  /\ paid = [i \in Invoices |-> 0] /\ payments = [i \in Invoices |-> 0]
  /\ kyc = [p \in Profiles |-> "PENDING"] /\ created = 0
  /\ calls = [c \in Calls |-> Free]
  /\ staff = [rows |-> invoices \cup Profiles, modal |-> None, input |-> Empty, busy |-> FALSE]
  /\ owner = [rows |-> [i \in invoices |-> Total], payFor |-> None, amount |-> Empty, busy |-> FALSE]
  /\ card = [sees |-> None, busy |-> FALSE] /\ mixed = FALSE /\ presses = 0

Send(by, does, row, input) ==
  /\ presses < MaxPresses /\ presses' = presses + 1
  /\ \E c \in Calls : /\ calls[c] = Free
                      /\ calls' = [calls EXCEPT ![c] = [Free EXCEPT !.by = by, !.does = does,
                                     !.row = row, !.amount = input.value, !.pc = "sent"]]
  /\ mixed' = (mixed \/ (input # Empty /\ input.for # row))
  /\ UNCHANGED server

-----------------------------------------------------------------------------
(* The staff list. *)
Rows == {i \in invoices : paid[i] < Total} \cup {p \in Profiles : kyc[p] = "PENDING"}

Refetch ==
  /\ staff' = [staff EXCEPT !.rows = Rows]
  /\ UNCHANGED <<server, calls, owner, card, mixed, presses>>

\* Mutant: a window opens with what the last one held.
KeepInput(row) == staff' = [staff EXCEPT !.modal = row]

\* An action with an input opens the window, emptied; so does the create button.
OpenWindow(row) == staff' = [staff EXCEPT !.modal = row, !.input = Empty]

OpenModal(row) ==
  /\ staff.modal = None /\ row \in staff.rows \cup {Create} /\ OpenWindow(row)
  /\ UNCHANGED <<server, calls, owner, card, mixed, presses>>

TypeInput(v) ==
  /\ staff.modal # None /\ staff' = [staff EXCEPT !.input = [value |-> v, for |-> staff.modal]]
  /\ UNCHANGED <<server, calls, owner, card, mixed, presses>>

CloseModal ==
  /\ staff.modal # None /\ staff' = [staff EXCEPT !.modal = None]
  /\ UNCHANGED <<server, calls, owner, card, mixed, presses>>

\* Confirm waits for what is on its way; a reason may stay empty.
SubmitModal ==
  /\ staff.modal # None /\ ~staff.busy /\ staff' = [staff EXCEPT !.busy = TRUE]
  /\ staff.modal \notin Profiles => staff.input.value > 0
  /\ Send("staff", CASE staff.modal = Create -> "create"
                     [] staff.modal \in Invoices -> "pay" [] OTHER -> "reject",
          staff.modal, staff.input)
  /\ UNCHANGED <<owner, card>>

\* An action without an input is sent at once, whatever is on its way.
PressAction(p) ==
  /\ staff.modal = None /\ p \in staff.rows \cap Profiles
  /\ staff' = [staff EXCEPT !.busy = TRUE] /\ Send("staff", "approve", p, Empty)
  /\ UNCHANGED <<owner, card>>

\* A success closes and empties whatever window is open by now.
StaffAnswered(c, ok) ==
  /\ calls[c].by = "staff"
  /\ staff' = IF ok THEN [rows |-> Rows, modal |-> None, input |-> Empty, busy |-> FALSE]
                    ELSE [staff EXCEPT !.busy = FALSE]
  /\ UNCHANGED <<owner, card>>

-----------------------------------------------------------------------------
(* The owner's ledger. *)
ReloadLedger ==
  /\ owner' = [owner EXCEPT !.rows = [i \in invoices |-> Balance(i)]]
  /\ UNCHANGED <<server, calls, staff, card, mixed, presses>>

\* "Record Payment" opens the row, moving the form from another one, and fills
\* in its balance.
OpenPayment(i) ==
  /\ i \in DOMAIN owner.rows /\ owner.rows[i] > 0 /\ owner.payFor # i
  /\ owner' = [owner EXCEPT !.payFor = i, !.amount = [value |-> owner.rows[i], for |-> i]]
  /\ UNCHANGED <<server, calls, staff, card, mixed, presses>>

EditPayment(v) ==
  /\ owner.payFor # None
  /\ owner' = [owner EXCEPT !.amount = [value |-> v, for |-> owner.payFor]]
  /\ UNCHANGED <<server, calls, staff, card, mixed, presses>>

CancelPayment ==
  /\ owner.payFor # None /\ owner' = [owner EXCEPT !.payFor = None, !.amount = Empty]
  /\ UNCHANGED <<server, calls, staff, card, mixed, presses>>

Pay ==
  /\ owner.payFor # None /\ owner.amount.value > 0 /\ ~owner.busy
  /\ owner' = [owner EXCEPT !.busy = TRUE] /\ Send("owner", "pay", owner.payFor, owner.amount)
  /\ UNCHANGED <<staff, card>>

OwnerAnswered(c, ok) ==
  /\ calls[c].by = "owner"
  /\ owner' = IF ok THEN [rows |-> [i \in invoices |-> Balance(i)], payFor |-> None,
                          amount |-> Empty, busy |-> FALSE]
                    ELSE [owner EXCEPT !.busy = FALSE]
  /\ UNCHANGED <<staff, card>>

-----------------------------------------------------------------------------
(* The card of the delivered order. *)
GenerateInvoice ==
  /\ card.sees = None /\ ~card.busy
  /\ card' = [card EXCEPT !.busy = TRUE] /\ Send("card", "invoice", None, Empty)
  /\ UNCHANGED <<staff, owner>>

\* onChanged reloads the order.
CardAnswered(c, ok) ==
  /\ calls[c].by = "card"
  /\ card' = [sees |-> IF ok THEN number ELSE card.sees, busy |-> FALSE]
  /\ UNCHANGED <<staff, owner>>

\* A screen is answered: with what the backend answered, or with an error when
\* that is lost or the client's time runs out before it.
Answered(c) ==
  /\ \E ok \in {TRUE, FALSE} :
       /\ ok => calls[c].pc = "ok"
       /\ StaffAnswered(c, ok) \/ OwnerAnswered(c, ok) \/ CardAnswered(c, ok)
  /\ calls' = [calls EXCEPT ![c] = IF @.pc \in {"ok", "failed"} THEN Free ELSE [@ EXCEPT !.by = "nobody"]]
  /\ UNCHANGED <<server, mixed, presses>>

-----------------------------------------------------------------------------
(* The backend. *)
At(c, does, pc) == calls[c].does = does /\ calls[c].pc = pc
To(c, pc) == calls' = [calls EXCEPT ![c].pc = pc]

\* The balance that is read decides, and the new sum is computed from it.
ReadInvoice(c) ==
  /\ At(c, "pay", "sent")
  /\ calls' = [calls EXCEPT ![c].read = paid[calls[c].row],
       ![c].pc = IF calls[c].amount <= Balance(calls[c].row) THEN "read" ELSE "failed"]
  /\ UNCHANGED <<server, screens>>

\* Mutant: the invoice is updated first, the payment recorded after it.
UpdateFirst(k) ==
  /\ paid' = [paid EXCEPT ![k.row] = k.read + k.amount] /\ UNCHANGED payments

Record(k) ==
  /\ payments' = [payments EXCEPT ![k.row] = @ + k.amount] /\ UNCHANGED paid

InsertPayment(c) ==
  /\ At(c, "pay", "read") /\ Record(calls[c]) /\ To(c, "recorded")
  /\ UNCHANGED <<invoices, number, kyc, created, screens>>

UpdateInvoice(c) ==
  LET k == calls[c] IN
  /\ At(c, "pay", "recorded") /\ paid' = [paid EXCEPT ![k.row] = k.read + k.amount] /\ To(c, "ok")
  /\ UNCHANGED <<invoices, number, payments, kyc, created, screens>>

\* create_invoice_for_order answers with the invoice there is.
FindInvoice(c) ==
  /\ At(c, "invoice", "sent")
  /\ \/ invoices # {} /\ \E i \in invoices : calls' = [calls EXCEPT ![c].row = i, ![c].pc = "raised"]
     \/ invoices = {} /\ To(c, "priced")
     \/ invoices = {} /\ To(c, "failed")        \* no rate card
  /\ UNCHANGED <<server, screens>>

InsertInvoice(c) ==
  /\ At(c, "invoice", "priced")
  /\ \E i \in Invoices \ invoices :
       /\ invoices' = invoices \cup {i}
       /\ calls' = [calls EXCEPT ![c].row = i, ![c].pc = "raised"]
  /\ UNCHANGED <<number, paid, payments, kyc, created, screens>>

NameInvoice(c) ==
  /\ At(c, "invoice", "raised") /\ number' = calls[c].row /\ To(c, "ok")
  /\ UNCHANGED <<invoices, paid, payments, kyc, created, screens>>

\* kyc_approve, kyc_reject: the profile takes the decision whatever its status.
DecideKyc(c) ==
  /\ calls[c].does \in {"approve", "reject"} /\ calls[c].pc = "sent" /\ To(c, "ok")
  /\ kyc' = [kyc EXCEPT ![calls[c].row] = IF calls[c].does = "approve" THEN "VERIFIED" ELSE "REJECTED"]
  /\ UNCHANGED <<invoices, number, paid, payments, created, screens>>

\* add_material, add_vehicle.
AddRow(c) ==
  /\ At(c, "create", "sent") /\ created' = created + 1 /\ To(c, "ok")
  /\ UNCHANGED <<invoices, number, paid, payments, kyc, screens>>

\* The database fails a request, or the process dies in it, after any step.
Dies(c) ==
  /\ calls[c].pc \in {"sent", "read", "recorded", "priced", "raised"} /\ To(c, "failed")
  /\ UNCHANGED <<server, screens>>

Ended(c) ==
  /\ calls[c].by = "nobody" /\ calls[c].pc \in {"ok", "failed"}
  /\ calls' = [calls EXCEPT ![c] = Free] /\ UNCHANGED <<server, screens>>

Next ==
  \/ Refetch \/ CloseModal \/ SubmitModal \/ ReloadLedger \/ CancelPayment \/ Pay \/ GenerateInvoice
  \/ \E row \in Invoices \cup Profiles \cup {Create} : OpenModal(row)
  \/ \E v \in 1..Total : TypeInput(v) \/ EditPayment(v)
  \/ (\E p \in Profiles : PressAction(p)) \/ (\E i \in Invoices : OpenPayment(i))
  \/ \E c \in Calls :
       \/ Answered(c) \/ Dies(c) \/ Ended(c) \/ ReadInvoice(c) \/ InsertPayment(c) \/ UpdateInvoice(c)
       \/ FindInvoice(c) \/ InsertInvoice(c) \/ NameInvoice(c) \/ DecideKyc(c) \/ AddRow(c)

Spec == Init /\ [][Next]_vars

-----------------------------------------------------------------------------
\* However requests race and wherever one dies, an invoice never claims more
\* money than payments are recorded for, and nothing is sent to a row that was
\* entered under another one.
PaidIsCovered == \A i \in Invoices : paid[i] <= payments[i]
SentWhereEntered == ~mixed

\* "Amount exceeds outstanding balance" (backend/routers/staff.py:748): the
\* payments of an invoice do not exceed it.
NotOverpaid == \A i \in Invoices : payments[i] <= Total
=============================================================================
