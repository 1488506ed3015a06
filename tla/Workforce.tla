------------------------------ MODULE Workforce ------------------------------
(***************************************************************************)
(* The workforce hub: the screen frontend/app/workforce.tsx in the hands   *)
(* of an employee, an accountant and the plant's owner, and the routes     *)
(* behind it (backend/routers/workforce.py; punching in and out goes to    *)
(* workforce_roster.py, whose router is included first).                   *)
(*                                                                         *)
(* A behaviour follows one document: a leave request, a client visit, an   *)
(* expense claim with its posting to the finance ledger, or an employee's  *)
(* day of attendance (NONE, IN, OUT).  Documents are independent of each   *)
(* other but for the overlap check of leaves.  Decision notes, dates and   *)
(* amounts are data: a press that lacks them only shows a message.         *)
(***************************************************************************)
EXTENDS Naturals

CONSTANTS
  Calls,       \* bound: presses and loads in progress
  MaxPresses,  \* bound: buttons pressed
  MaxClock     \* bound: the backend's clock, on a day of attendance

Topics == {"leave", "visit", "claim", "day"}
Roles == {"employee", "accountant", "owner"}

VARIABLES
  topic,    \* what the behaviour follows
  doc,      \* the document's status
  posted,   \* the claim's row in the finance ledger
  in, out,  \* check_in and check_out, 0 while missing
  clock,
  view,     \* per screen: the status it shows, LOADING before its first load
  busy,     \* per screen: its buttons are disabled
  form,     \* the employee's form is open
  call,
  presses,
  unsure    \* ghost: the ledger took a row and reported an error

ledger == <<posted, unsure>>
day == <<in, out, clock>>
screens == <<view, busy, form>>
vars == <<topic, doc, ledger, day, screens, call, presses>>

Idle == [pc |-> "idle", role |-> "employee", act |-> "none", seen |-> "NONE",
         at |-> 0, waits |-> FALSE]

Init ==
  /\ topic \in Topics /\ doc = "NONE" /\ posted = FALSE /\ unsure = FALSE
  /\ in = 0 /\ out = 0 /\ clock = 1
  /\ view = [r \in Roles |-> "LOADING"] /\ busy = [r \in Roles |-> FALSE]
  /\ form = FALSE /\ call = [c \in Calls |-> Idle] /\ presses = 0

At(c, pc) == call[c].pc = pc
Goto(c, pc) == call' = [call EXCEPT ![c].pc = pc, ![c].seen = "NONE", ![c].at = 0]
End(c) == call' = [call EXCEPT ![c] = Idle]
Act(c, acts) == call[c].act \in acts

-----------------------------------------------------------------------------
(* What a screen offers. *)

Located == {"in", "out", "start", "complete"}

AttendanceCard(act) ==
  /\ topic = "day"
  /\ \/ act = "in" /\ view["employee"] = "NONE"
     \/ act = "out" /\ view["employee"] = "IN"

MyActivity(act) ==
  /\ topic = "visit"
  /\ \/ act = "start" /\ view["employee"] = "APPROVED"
     \/ act = "complete" /\ view["employee"] = "IN_PROGRESS"

Forms(act) == topic # "day" /\ act = "submit" /\ form /\ view["employee"] # "LOADING"

ExpenseVerification(act) ==
  /\ topic = "claim" /\ act \in {"verify", "return"}
  /\ view["accountant"] \in {"SUBMITTED", "RETURNED"}

\* The owner's lists; a claim is offered for approval once it is verified.
ApprovalSection(act) ==
  /\ view["owner"] \in {"PENDING", "SUBMITTED", "VERIFIED"}
  /\ \/ act = "reject"
     \/ act = "approve" /\ view["owner"] # "SUBMITTED"

Offered(r, act) ==
  CASE r = "employee" -> AttendanceCard(act) \/ MyActivity(act) \/ Forms(act)
    [] r = "accountant" -> ExpenseVerification(act)
    [] r = "owner" -> ApprovalSection(act)

\* What the routes list for a role.
Listed(r) ==
  CASE r = "employee" -> doc
    [] r = "accountant" -> IF doc \in {"SUBMITTED", "VERIFIED", "RETURNED"} THEN doc ELSE "NONE"
    [] r = "owner" -> IF doc \in {"PENDING", "SUBMITTED", "VERIFIED"} THEN doc ELSE "NONE"

-----------------------------------------------------------------------------
(* The screen. *)

\* QuickAction opens a form and closes it.
QuickAction == form' = ~form /\ view["employee"] # "LOADING" /\ topic # "day"
               /\ UNCHANGED <<topic, doc, ledger, day, view, busy, call, presses>>

\* The effect of a screen that is opened, or opened again: it loads.
Open(r) ==
  /\ \A c \in Calls : At(c, "idle") \/ call[c].role # r
  /\ view[r] # Listed(r) /\ view' = [view EXCEPT ![r] = Listed(r)]
  /\ busy' = [busy EXCEPT ![r] = FALSE] /\ form' = (form /\ r # "employee")
  /\ UNCHANGED <<topic, doc, ledger, day, call, presses>>

\* attendanceAction and visitAction ask for the location before `run` makes the
\* screen busy; the others are busy at once.
Press(r, act) ==
  /\ presses < MaxPresses /\ presses' = presses + 1
  /\ ~busy[r] /\ Offered(r, act)
  /\ \E c \in Calls :
       /\ At(c, "idle")
       /\ call' = [call EXCEPT ![c] =
            [Idle EXCEPT !.role = r, !.act = act, !.waits = TRUE,
                         !.pc = IF act \in Located THEN "locating" ELSE "sent"]]
  /\ busy' = [busy EXCEPT ![r] = act \notin Located]
  /\ UNCHANGED <<topic, doc, ledger, day, view, form>>

\* locationEvidence; a refusal ends the action outside of `run`.
LocationEvidence(c) ==
  /\ At(c, "locating")
  /\ \/ Goto(c, "sent") /\ busy' = [busy EXCEPT ![call[c].role] = TRUE]
     \/ End(c) /\ UNCHANGED busy
  /\ UNCHANGED <<topic, doc, ledger, day, view, form, presses>>

\* The end of `run`; the submitting handlers then clear and close their form,
\* whatever became of the request.
Settle(c) ==
  /\ busy' = [busy EXCEPT ![call[c].role] = FALSE]
  /\ form' = (form /\ ~Act(c, {"submit"}))

Answered(c) ==
  /\ IF call[c].waits
       THEN \/ At(c, "ok") /\ Goto(c, "load") /\ UNCHANGED <<busy, form>>
            \/ At(c, "failed") /\ End(c) /\ Settle(c)
       ELSE (At(c, "ok") \/ At(c, "failed")) /\ End(c) /\ UNCHANGED <<busy, form>>
  /\ UNCHANGED <<topic, doc, ledger, day, view, presses>>

Serving == {"sent", "write", "post", "undo", "finish", "ok", "failed"}

\* The application's time limit: the request goes on without it.
GiveUp(c) ==
  /\ call[c].pc \in Serving /\ call[c].waits
  /\ call' = [call EXCEPT ![c].waits = FALSE] /\ Settle(c)
  /\ UNCHANGED <<topic, doc, ledger, day, view, presses>>

\* load: the lists are read and shown, or there is a message.
Load(c) ==
  /\ At(c, "load") /\ End(c) /\ Settle(c)
  /\ view' \in {view, [view EXCEPT ![call[c].role] = Listed(call[c].role)]}
  /\ UNCHANGED <<topic, doc, ledger, day, presses>>

-----------------------------------------------------------------------------
(* The routes. *)

\* The status an action leads to, the statuses it is accepted in, and those in
\* which it has happened already.
Target(act) ==
  CASE act = "submit" -> IF topic = "claim" THEN "SUBMITTED" ELSE "PENDING"
    [] act = "start" -> "IN_PROGRESS"
    [] act = "complete" -> "COMPLETED"
    [] act = "verify" -> "VERIFIED"
    [] act = "return" -> "RETURNED"
    [] act = "reject" -> "REJECTED"
    [] act = "approve" -> IF topic = "claim" THEN "POSTING" ELSE "APPROVED"
    [] act = "in" -> "IN"
    [] act = "out" -> "OUT"

Accepted(act) ==
  CASE act = "submit" -> {"NONE"}
    [] act = "start" -> {"APPROVED"}
    [] act = "complete" -> {"IN_PROGRESS"}
    [] act \in {"verify", "return"} -> {"SUBMITTED", "RETURNED"}
    [] act = "reject" -> IF topic = "claim" THEN {"SUBMITTED", "VERIFIED"} ELSE {"PENDING"}
    [] act = "approve" -> IF topic = "claim" THEN {"VERIFIED"} ELSE {"PENDING"}
    [] act = "in" -> {"NONE"}
    [] act = "out" -> {"IN"}

\* A rejected leave and a rejected claim refuse the same rejection again.
Done(act) ==
  CASE act \in {"start", "complete", "verify", "return"} -> {Target(act)}
    [] act = "approve" -> {"APPROVED"}
    [] act = "reject" /\ topic = "visit" -> {"REJECTED"}
    [] OTHER -> {}

\* Each route reads the clock (`now`) and the document and judges what it read.
Read(c) ==
  /\ At(c, "sent")
  /\ LET a == call[c].act IN
     call' = [call EXCEPT ![c].seen = doc, ![c].at = IF topic = "day" THEN clock ELSE 0,
                          ![c].pc = IF doc \in Done(a) THEN "ok"
                                    ELSE IF doc \in Accepted(a) THEN "write" ELSE "failed"]
  /\ UNCHANGED <<topic, doc, ledger, day, screens, presses>>

\* Mutant: a decision is written without the status it was taken on.
SwapBlind(c) ==
  /\ At(c, "write") /\ ~Act(c, {"in", "out", "submit"})
  /\ doc' = Target(call[c].act)
  /\ Goto(c, IF doc' = "POSTING" THEN "post" ELSE "ok")
  /\ UNCHANGED <<topic, ledger, day, screens, presses>>

\* The compare-and-set of every decision, on the status that was read.
Swap(c) ==
  /\ At(c, "write") /\ ~Act(c, {"in", "out", "submit"})
  /\ IF doc = call[c].seen
       THEN /\ doc' = Target(call[c].act)
            /\ Goto(c, IF doc' = "POSTING" THEN "post" ELSE "ok")
       ELSE Goto(c, IF Act(c, {"approve"}) /\ topic = "claim" /\ doc = "APPROVED"
                      THEN "ok" ELSE "failed") /\ UNCHANGED doc
  /\ UNCHANGED <<topic, ledger, day, screens, presses>>

\* The document is inserted (a second one would be another document).
Insert(c) ==
  /\ At(c, "write") /\ Act(c, {"submit"})
  /\ doc' = (IF doc = "NONE" THEN Target("submit") ELSE doc) /\ Goto(c, "ok")
  /\ UNCHANGED <<topic, ledger, day, screens, presses>>

\* Mutant: the time of the write is recorded.
PunchInNow(c) ==
  /\ At(c, "write") /\ Act(c, {"in"})
  /\ in' = clock /\ doc' = (IF out = 0 THEN "IN" ELSE "OUT") /\ Goto(c, "ok")
  /\ UNCHANGED <<topic, ledger, out, clock, screens, presses>>

\* The upsert sets check_in without looking at the record again.
PunchIn(c) ==
  /\ At(c, "write") /\ Act(c, {"in"})
  /\ in' = call[c].at /\ doc' = (IF out = 0 THEN "IN" ELSE "OUT") /\ Goto(c, "ok")
  /\ UNCHANGED <<topic, ledger, out, clock, screens, presses>>

PunchOut(c) ==
  /\ At(c, "write") /\ Act(c, {"out"})
  /\ IF out = 0 THEN out' = call[c].at /\ doc' = "OUT" /\ Goto(c, "ok")
                ELSE Goto(c, "failed") /\ UNCHANGED <<out, doc>>
  /\ UNCHANGED <<topic, ledger, in, clock, screens, presses>>

\* The ledger's unique index makes a posting of an earlier attempt the row of
\* this one; an insert that raises may have been stored.
Post(c) ==
  /\ At(c, "post")
  /\ \/ posted' = TRUE /\ Goto(c, "finish") /\ UNCHANGED unsure
     \/ /\ ~posted /\ Goto(c, "undo")
        /\ \/ posted' = TRUE /\ unsure' = TRUE
           \/ UNCHANGED ledger
  /\ UNCHANGED <<topic, doc, day, screens, presses>>

Undo(c) ==
  /\ At(c, "undo") /\ Goto(c, "failed")
  /\ doc' = (IF doc = "POSTING" THEN "VERIFIED" ELSE doc)
  /\ UNCHANGED <<topic, ledger, day, screens, presses>>

Finish(c) ==
  /\ At(c, "finish")
  /\ IF doc = "POSTING" THEN doc' = "APPROVED" /\ Goto(c, "ok")
                        ELSE Goto(c, "failed") /\ UNCHANGED doc
  /\ UNCHANGED <<topic, ledger, day, screens, presses>>

\* The backend's process ends: what it was serving fails where it is.
Crash ==
  /\ \E c \in Calls : call[c].pc \in Serving \ {"ok", "failed"}
  /\ call' = [c \in Calls |-> IF call[c].pc \in Serving \ {"ok", "failed"}
                                THEN [call[c] EXCEPT !.pc = "failed", !.seen = "NONE", !.at = 0]
                                ELSE call[c]]
  /\ UNCHANGED <<topic, doc, ledger, day, screens, presses>>

Tick ==
  /\ topic = "day" /\ clock < MaxClock /\ clock' = clock + 1
  /\ UNCHANGED <<topic, doc, ledger, in, out, screens, call, presses>>

Acts == Located \cup {"submit", "verify", "return", "reject", "approve"}
Step(c) ==
  \/ LocationEvidence(c) \/ Answered(c) \/ GiveUp(c) \/ Load(c)
  \/ Read(c) \/ Swap(c) \/ Insert(c) \/ PunchIn(c) \/ PunchOut(c)
  \/ Post(c) \/ Undo(c) \/ Finish(c)

Next ==
  \/ QuickAction \/ Crash \/ Tick
  \/ \E r \in Roles : Open(r) \/ \E act \in Acts : Press(r, act)
  \/ \E c \in Calls : Step(c)

Spec == Init /\ [][Next]_vars

-----------------------------------------------------------------------------
\* An approved claim is in the finance ledger, and a claim in the ledger is
\* approved or being approved: however decisions of the accountant and of the
\* owner overlap, fail or die, none of them gets between the claim and its
\* posting.  Left aside is a row that the ledger took while reporting an error.
LedgerFollowsClaims ==
  /\ topic = "claim" /\ doc = "APPROVED" => posted
  /\ posted /\ ~unsure => doc \in {"POSTING", "APPROVED"}

\* A decision stands: no request that was judged earlier, or sent by a screen
\* that shows an older status, changes a document that is decided.
Decided ==
  doc \in {"REJECTED", "COMPLETED"} \/ (doc = "APPROVED" /\ topic # "visit")

DecisionsStand == [][Decided => UNCHANGED doc]_vars

\* Two presses of Punch In can both find no record, and the later write replaces
\* the earlier one, even after the employee has punched out: the day still
\* starts before it ends, because each request takes its time before it looks.
CheckInBeforeOut == in # 0 /\ out # 0 => in <= out
=============================================================================
