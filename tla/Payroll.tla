------------------------------ MODULE Payroll -------------------------------
(***************************************************************************)
(* One plant's payroll for one month: the record of each employee (drafted *)
(* by the accountant, approved or returned by the owner, paid by the       *)
(* accountant), the finance posting of each salary, and the closing of the *)
(* month with a payslip per employee.                                      *)
(* Source: backend/routers/payroll_concurrency_hotfix.py (the mutations),  *)
(* payroll_closure.py (closing) and the guard in server.py.                *)
(*                                                                         *)
(* A handler is a call with a program counter; each of its database        *)
(* operations is one action, so calls interleave between any two of them.  *)
(* A record's updated_at is a stamp no two writes share.                   *)
(***************************************************************************)
EXTENDS Integers, FiniteSets

CONSTANTS
  Employees,   \* the plant's employees
  Amounts,     \* net amounts a draft may have
  Refs,        \* payment references
  Calls,       \* concurrent handler calls
  None,        \* no amount, no reference, no lock, no finance posting
  MaxWrites,   \* bound: mutations requested
  MaxCloses,   \* bound: closings requested
  MaxFaults    \* bound: database errors, crashes and staff changes together

ASSUME PayrollAssumption ==
  /\ None \notin Amounts \cup Refs \cup Calls \cup Employees
  /\ None \notin [amount : Amounts, ref : Refs]
  /\ MaxWrites \in Nat /\ MaxCloses \in Nat /\ MaxFaults \in Nat

VARIABLES
  rec,     \* payroll_records: the record of each employee
  ledger,  \* expenses: the posting under each employee's payroll_key
  period,  \* payroll_periods: the month's document
  slips,   \* payroll_payslips: per employee and closure version
  active,  \* the employees whose account is neither suspended nor disabled
  call,    \* the handler calls
  clock,   \* source of stamps
  died,    \* ghost: the server process has died
  writes, closes, faults

db == <<rec, ledger, period, slips, active>>
bounds == <<died, writes, closes, faults>>
vars == <<db, call, clock, bounds>>

Versions == 1..MaxCloses

Postings == [amount : Amounts, ref : Refs]
MaybePosting == Postings \cup {None}

Statuses == {"NONE", "DRAFT", "APPROVED", "RETURNED", "PAID"}
Records == [status : Statuses, stamp : Nat, net : Amounts \cup {None},
            lock : Refs \cup {None}, ref : Refs \cup {None}]
NoRecord == [status |-> "NONE", stamp |-> 0, net |-> None, lock |-> None, ref |-> None]

Periods == [status : {"NONE", "OPEN", "CLOSING", "CLOSED", "REOPENED"},
            version : Nat, lock : Calls \cup {None}]

\* A call: its place, the employee it is about, what its body asks for (an
\* amount, a decision or a reference), the record or records it has read, the
\* staff it has counted and has still to serve, and the version it closes from.
Mutating == {"draft", "save", "decision", "decide", "pay", "reserve", "recheck",
             "find", "post", "finalize"}
Closing == {"recount", "reread", "slip", "fail"}
PCs == {"idle", "read", "period", "insert", "claim"} \cup Mutating \cup Closing

Bodies == Amounts \cup Refs \cup {"APPROVE", "RETURN", None}

CallStates ==
  [pc : PCs, who : Employees \cup {None}, body : Bodies, seen : Records,
   staff : SUBSET Employees, todo : SUBSET Employees, rows : [Employees -> Records], version : Nat]

NoRows == [e \in Employees |-> NoRecord]
Idle == [pc |-> "idle", who |-> None, body |-> None,
         seen |-> NoRecord, staff |-> {}, todo |-> {}, rows |-> NoRows, version |-> 0]

\* The month before any payment: a record is missing or approved already.
Approved(n) == [NoRecord EXCEPT !.status = "APPROVED", !.net = n]
Init ==
  /\ rec \in [Employees -> {NoRecord} \cup {Approved(n) : n \in Amounts}]
  /\ ledger = [e \in Employees |-> None]
  /\ period = [status |-> "NONE", version |-> 0, lock |-> None]
  /\ slips = [e \in Employees |-> [v \in Versions |-> None]]
  /\ active \in SUBSET Employees \ {{}}
  /\ call = [c \in Calls |-> Idle]
  /\ clock = 0 /\ died = FALSE /\ writes = 0 /\ closes = 0 /\ faults = 0

At(c, pc) == call[c].pc = pc
Goto(c, pc) == call' = [call EXCEPT ![c].pc = pc]
Return(c) == call' = [call EXCEPT ![c] = Idle]

-----------------------------------------------------------------------------
(* The mutations of a record. *)

\* A mutation arrives and passes the guard: the month is neither CLOSED nor
\* CLOSING when the guard reads it.
Request(c, pc, e, body) ==
  /\ At(c, "idle") /\ writes < MaxWrites /\ writes' = writes + 1
  /\ period.status \notin {"CLOSED", "CLOSING"}
  /\ call' = [call EXCEPT ![c] = [Idle EXCEPT !.pc = pc, !.who = e, !.body = body]]
  /\ UNCHANGED <<db, clock, died, closes, faults>>

\* The record as the handler read it is still the one stored (_cas_filter).
Unchanged(c) == rec[call[c].who] = call[c].seen

Write(c, new) ==
  /\ rec' = [rec EXCEPT ![call[c].who] = [new EXCEPT !.stamp = clock + 1]]
  /\ clock' = clock + 1

\* prepare_payroll_draft_safe: only a missing, DRAFT or RETURNED record.
ReadForDraft(c) ==
  /\ At(c, "draft")
  /\ LET current == rec[call[c].who] IN
     IF current.status \in {"NONE", "DRAFT", "RETURNED"}
       THEN call' = [call EXCEPT ![c].pc = "save", ![c].seen = current]
       ELSE Return(c)
  /\ UNCHANGED <<db, clock, bounds>>

\* The update under the filter, or the insert under the unique index.
SaveDraft(c) ==
  /\ At(c, "save") /\ Return(c)
  /\ IF Unchanged(c)
       THEN Write(c, [call[c].seen EXCEPT !.status = "DRAFT", !.net = call[c].body])
       ELSE UNCHANGED <<rec, clock>>
  /\ UNCHANGED <<ledger, period, slips, active, bounds>>

\* owner_payroll_decision_safe: APPROVE takes a DRAFT, RETURN a DRAFT or an
\* APPROVED record.
Decidable(body) == IF body = "APPROVE" THEN {"DRAFT"} ELSE {"DRAFT", "APPROVED"}
ReadForDecision(c) ==
  /\ At(c, "decision")
  /\ LET current == rec[call[c].who] IN
     IF current.status \in Decidable(call[c].body)
       THEN call' = [call EXCEPT ![c].pc = "decide", ![c].seen = current]
       ELSE Return(c)
  /\ UNCHANGED <<db, clock, bounds>>

\* Mutant: the owner's update ignores the payment lock.
DecideUnlocked(c) ==
  /\ At(c, "decide") /\ Return(c)
  /\ IF rec[call[c].who].status = call[c].seen.status
       THEN Write(c, [rec[call[c].who] EXCEPT !.status =
                        IF call[c].body = "APPROVE" THEN "APPROVED" ELSE "RETURNED"])
       ELSE UNCHANGED <<rec, clock>>
  /\ UNCHANGED <<ledger, period, slips, active, bounds>>

\* The update never crosses a payment lock (_owner_mutation_filter).
Decide(c) ==
  /\ At(c, "decide") /\ Return(c)
  /\ IF Unchanged(c) /\ rec[call[c].who].lock = None
       THEN Write(c, [call[c].seen EXCEPT !.status =
                        IF call[c].body = "APPROVE" THEN "APPROVED" ELSE "RETURNED"])
       ELSE UNCHANGED <<rec, clock>>
  /\ UNCHANGED <<ledger, period, slips, active, bounds>>

\* mark_payroll_paid_safe: an APPROVED record, unlocked or locked by the same
\* payment.
ReadForPayment(c) ==
  /\ At(c, "pay")
  /\ LET current == rec[call[c].who] IN
     IF current.status = "APPROVED" /\ current.lock \in {None, call[c].body}
       THEN call' = [call EXCEPT ![c].pc = IF current.lock = None THEN "reserve" ELSE "find",
                                 ![c].seen = current]
       ELSE Return(c)
  /\ UNCHANGED <<db, clock, bounds>>

\* The payment lock (_payment_reservation_filter).
Reserve(c) ==
  /\ At(c, "reserve")
  /\ IF Unchanged(c)
       THEN /\ Write(c, [call[c].seen EXCEPT !.lock = call[c].body])
            /\ call' = [call EXCEPT ![c].pc = "find", ![c].seen = rec'[call[c].who]]
       ELSE Goto(c, "recheck") /\ UNCHANGED <<rec, clock>>
  /\ UNCHANGED <<ledger, period, slips, active, bounds>>

\* The reservation missed: go on only under a lock of the same payment.
Recheck(c) ==
  /\ At(c, "recheck")
  /\ LET latest == rec[call[c].who] IN
     IF latest.status = "APPROVED" /\ latest.lock = call[c].body
       THEN call' = [call EXCEPT ![c].pc = "find", ![c].seen = latest]
       ELSE Return(c)
  /\ UNCHANGED <<db, clock, bounds>>

\* The posting this payment makes, and what it does with one that exists: it
\* is adopted only if it is the same (_finance_payment_matches).
Posting(c) == [amount |-> call[c].seen.net, ref |-> call[c].body]
Adopt(c, posted) == IF posted = Posting(c) THEN Goto(c, "finalize") ELSE Return(c)

FindPosting(c) ==
  /\ At(c, "find")
  /\ LET posted == ledger[call[c].who] IN
     IF posted = None THEN Goto(c, "post") ELSE Adopt(c, posted)
  /\ UNCHANGED <<db, clock, bounds>>

\* The insert under the unique payroll_key; a duplicate is read again.
Post(c) ==
  /\ At(c, "post")
  /\ LET posted == ledger[call[c].who] IN
     IF posted = None
       THEN /\ ledger' = [ledger EXCEPT ![call[c].who] = Posting(c)]
            /\ Goto(c, "finalize")
       ELSE Adopt(c, posted) /\ UNCHANGED ledger
  /\ UNCHANGED <<rec, period, slips, active, clock, bounds>>

\* PAID, if the record is still APPROVED under this payment's lock.
Finalize(c) ==
  /\ At(c, "finalize") /\ Return(c)
  /\ LET current == rec[call[c].who] IN
     IF current.status = "APPROVED" /\ current.lock = call[c].body
       THEN Write(c, [current EXCEPT !.status = "PAID", !.ref = call[c].body,
                                     !.lock = None])
       ELSE UNCHANGED <<rec, clock>>
  /\ UNCHANGED <<ledger, period, slips, active, bounds>>

-----------------------------------------------------------------------------
(* Closing and reopening the month. *)

\* close_payroll_period arrives; _readiness reads the active staff ...
Count(c) ==
  /\ At(c, "idle") /\ closes < MaxCloses /\ closes' = closes + 1
  /\ call' = [call EXCEPT ![c] = [Idle EXCEPT !.pc = "read", !.staff = active]]
  /\ UNCHANGED <<db, clock, died, writes, faults>>

\* Mutant: an approved salary counts as paid.
ReadyApproved(staff) ==
  \A e \in staff : rec[e].status \in {"APPROVED", "PAID"} /\ rec[e].lock = None

\* ... and then the records: every employee's is PAID and unlocked.
Ready(staff) == \A e \in staff : rec[e].status = "PAID" /\ rec[e].lock = None
ReadRecords(c) ==
  /\ At(c, "read")
  /\ IF Ready(call[c].staff) THEN Goto(c, "period") ELSE Return(c)
  /\ UNCHANGED <<db, clock, bounds>>

ReadPeriod(c) ==
  /\ At(c, "period")
  /\ IF period.status \in {"CLOSED", "CLOSING"}
       THEN Return(c)
       ELSE call' = [call EXCEPT ![c].pc = IF period.status = "NONE" THEN "insert"
                                           ELSE "claim",
                                 ![c].version = period.version]
  /\ UNCHANGED <<db, clock, bounds>>

\* Mutant: no unique index on the month.
ClaimableUnindexed(c) ==
  \/ At(c, "insert")
  \/ At(c, "claim") /\ period.status \in {"OPEN", "REOPENED"}
                     /\ period.version = call[c].version

\* The month becomes CLOSING under this call's lock: by the insert under the
\* unique index, or by the update under the status and version that were read.
Claimable(c) ==
  \/ At(c, "insert") /\ period.status = "NONE"
  \/ At(c, "claim") /\ period.status \in {"OPEN", "REOPENED"}
                     /\ period.version = call[c].version
Claim(c) ==
  /\ call[c].pc \in {"insert", "claim"}
  /\ IF Claimable(c)
       THEN /\ period' = [period EXCEPT !.status = "CLOSING", !.lock = c]
            /\ Goto(c, "recount")
       ELSE Return(c) /\ UNCHANGED period
  /\ UNCHANGED <<rec, ledger, slips, active, clock, bounds>>

\* Readiness again, under the lock: first the staff ...
Recount(c) ==
  /\ At(c, "recount")
  /\ call' = [call EXCEPT ![c].pc = "reread", ![c].todo = active]
  /\ UNCHANGED <<db, clock, bounds>>

\* ... then the records, which the payslips are made of.  Another number of
\* employees, or one who is not ready, fails the closing.
Reread(c) ==
  /\ At(c, "reread")
  /\ IF Ready(call[c].todo) /\ Cardinality(call[c].todo) = Cardinality(call[c].staff)
       THEN call' = [call EXCEPT ![c].pc = "slip", ![c].staff = call[c].todo,
                                 ![c].rows = rec]
       ELSE Goto(c, "fail")
  /\ UNCHANGED <<db, clock, bounds>>

\* One payslip per employee, from the record read; one that exists is kept.
Payslip(row) == [amount |-> row.net, ref |-> row.ref]
Issue(c, e) ==
  /\ At(c, "slip") /\ e \in call[c].todo
  /\ call' = [call EXCEPT ![c].todo = @ \ {e}]
  /\ slips' = [slips EXCEPT ![e][call[c].version + 1] =
                 IF @ = None THEN Payslip(call[c].rows[e]) ELSE @]
  /\ UNCHANGED <<rec, ledger, period, active, clock, bounds>>

\* All issued: CLOSED under the next version, if the lock is still this call's.
Finish(c) ==
  /\ At(c, "slip") /\ call[c].todo = {}
  /\ IF period.status = "CLOSING" /\ period.lock = c
       THEN /\ period' = [status |-> "CLOSED", version |-> call[c].version + 1,
                          lock |-> None]
            /\ Return(c)
       ELSE Goto(c, "fail") /\ UNCHANGED period
  /\ UNCHANGED <<rec, ledger, slips, active, clock, bounds>>

\* Mutant: a failed closing keeps the month locked.
ReleaseKeeping(c) ==
  /\ At(c, "fail") /\ Return(c)
  /\ UNCHANGED <<rec, ledger, period, slips, active, clock, bounds>>

\* Anything that failed under the lock puts the month back to OPEN.
Release(c) ==
  /\ At(c, "fail") /\ Return(c)
  /\ period' = IF period.lock = c THEN [period EXCEPT !.status = "OPEN", !.lock = None]
               ELSE period
  /\ UNCHANGED <<rec, ledger, slips, active, clock, bounds>>

Reopen ==
  /\ period.status = "CLOSED"
  /\ period' = [period EXCEPT !.status = "REOPENED"]
  /\ UNCHANGED <<rec, ledger, slips, active, call, clock, bounds>>

-----------------------------------------------------------------------------
(* What goes wrong, and what else changes. *)

Fault == faults < MaxFaults /\ faults' = faults + 1

\* A database call of a closing fails: the except clause runs.
CloseError(c) ==
  /\ Fault /\ call[c].pc \in Closing \ {"fail"} /\ Goto(c, "fail")
  /\ UNCHANGED <<db, clock, died, writes, closes>>

\* The server process dies: every call ends where it is.
Crash ==
  /\ Fault /\ call # [c \in Calls |-> Idle]
  /\ call' = [c \in Calls |-> Idle] /\ died' = TRUE
  /\ UNCHANGED <<db, clock, writes, closes>>

\* An employee is suspended or activated.
SetStatus(e) ==
  /\ Fault
  /\ active' = IF e \in active THEN active \ {e} ELSE active \cup {e}
  /\ UNCHANGED <<rec, ledger, period, slips, call, clock, died, writes, closes>>

-----------------------------------------------------------------------------
Mutate(c) ==
  \/ ReadForDraft(c) \/ SaveDraft(c) \/ ReadForDecision(c) \/ Decide(c)
  \/ ReadForPayment(c) \/ Reserve(c) \/ Recheck(c) \/ FindPosting(c) \/ Post(c)
  \/ Finalize(c)

Close(c) ==
  \/ ReadRecords(c) \/ ReadPeriod(c) \/ Claim(c) \/ Recount(c) \/ Reread(c)
  \/ (\E e \in Employees : Issue(c, e)) \/ Finish(c) \/ Release(c)

Arrive(c) ==
  \/ \E e \in Employees :
       \/ \E n \in Amounts : Request(c, "draft", e, n)
       \/ \E d \in {"APPROVE", "RETURN"} : Request(c, "decision", e, d)
       \/ \E r \in Refs : Request(c, "pay", e, r)
  \/ Count(c)

Next ==
  \/ \E c \in Calls : Arrive(c) \/ Mutate(c) \/ Close(c) \/ CloseError(c)
  \/ Reopen \/ Crash \/ (\E e \in Employees : SetStatus(e))

Spec == Init /\ [][Next]_vars

\* A handler runs to its end unless the process dies.
FairSpec == Spec /\ \A c \in Calls : WF_vars(Mutate(c) \/ Close(c))

-----------------------------------------------------------------------------
\* Every variable has its type.
TypeOK ==
  /\ rec \in [Employees -> Records]
  /\ ledger \in [Employees -> MaybePosting]
  /\ period \in Periods
  /\ slips \in [Employees -> [Versions -> MaybePosting]]
  /\ active \in SUBSET Employees
  /\ call \in [Calls -> CallStates]
  /\ clock \in Nat /\ died \in BOOLEAN /\ writes \in Nat /\ closes \in Nat /\ faults \in Nat

\* A salary is posted to finance exactly for the payment the record carries: a
\* PAID record has its posting, and a posting without a PAID record belongs to
\* an APPROVED record that is still locked for that payment.
LedgerFollowsPayroll ==
  \A e \in Employees :
    /\ rec[e].status = "PAID" =>
         ledger[e] = [amount |-> rec[e].net, ref |-> rec[e].ref]
    /\ ledger[e] # None /\ rec[e].status # "PAID" =>
         /\ rec[e].status = "APPROVED"
         /\ ledger[e] = [amount |-> rec[e].net, ref |-> rec[e].lock]

\* Every payslip, of whatever closing, shows what finance paid.
PayslipsMatchLedger ==
  \A e \in Employees, v \in Versions : slips[e][v] # None => slips[e][v] = ledger[e]

\* One closing at a time works under the month's lock.
OneCloser ==
  \A c, d \in Calls :
    call[c].pc \in Closing /\ call[d].pc \in Closing => c = d

\* A month under closing is closed or released again, unless the process died.
ClosingEnds ==
  (period.status = "CLOSING") ~> (period.status # "CLOSING" \/ died)

\* The guard says that a closed month refuses every payroll mutation.  The code
\* breaks it: the guard reads the month before the handler starts, and the
\* write comes after the month has been closed.
ClosedMonthFrozen == [][period.status = "CLOSED" => rec' = rec]_vars
=============================================================================
