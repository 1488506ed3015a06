--------------------------- MODULE AccountDeletion ---------------------------
(***************************************************************************)
(* A person asks for the deletion of an account: signed in, or on the      *)
(* public page with a one-time code sent to the mobile number or the email *)
(* of the account (frontend/app/account-deletion.tsx).  The backend checks *)
(* and consumes the code, looks for a pending request and inserts one in   *)
(* separate steps (backend/routers/account_deletion.py, auth.py).  The     *)
(* route that completes a request refuses everyone who may call it         *)
(* (security.py), so no request is ever completed.                         *)
(***************************************************************************)
EXTENDS Naturals, Sequences

CONSTANTS
  None,
  Identifiers,            \* the account's mobile number and email
  Calls,
  MaxAttempts,            \* at a code (5 in the code)
  MaxCodes, MaxPresses    \* bounds: codes sent; buttons that send

VARIABLES
  rows,                   \* the requests recorded: who asked, and the status
  active, attempts,       \* of each identifier: its unconsumed code (0: none), and the wrong tries at it
  issued,                 \* the codes sent so far, numbered
  calls,
  token,                  \* the screen has a session
  shown,                  \* the status it last fetched
  confirm, identifier, code, phase, busy,
  presses

server == <<rows, active, attempts, issued>>
screen == <<token, shown, confirm, identifier, code, phase, busy>>
vars == <<server, calls, screen, presses>>

Free == [by |-> "nobody", does |-> "", asks |-> <<>>, to |-> None, code |-> 0, pc |-> "free"]
Pending == {i \in DOMAIN rows : rows[i].status = "PENDING"}
Latest == IF rows = <<>> THEN None ELSE rows[Len(rows)].status

Init ==
  /\ rows = <<>> /\ active = [i \in Identifiers |-> 0] /\ attempts = [i \in Identifiers |-> 0]
  /\ issued = 0 /\ calls = [c \in Calls |-> Free]
  /\ token \in BOOLEAN /\ shown = None /\ confirm = FALSE /\ identifier = None /\ code = None
  /\ phase = "identify" /\ busy = FALSE /\ presses = 0

-----------------------------------------------------------------------------
(* The screen. *)
Refetch ==
  /\ token /\ shown' = Latest
  /\ UNCHANGED <<server, calls, token, confirm, identifier, code, phase, busy, presses>>

\* The session ends elsewhere while the screen is open: it becomes the public one,
\* with everything typed in it.
LoseSession ==
  /\ token /\ token' = FALSE
  /\ UNCHANGED <<server, calls, shown, confirm, identifier, code, phase, busy, presses>>

TypeConfirm ==
  /\ IF token THEN shown # "PENDING" ELSE phase = "verify"
  /\ confirm' = TRUE
  /\ UNCHANGED <<server, calls, token, shown, identifier, code, phase, busy, presses>>

\* The field stays open while a code is on its way.
TypeIdentifier(i) ==
  /\ ~token /\ phase = "identify" /\ identifier' = i
  /\ UNCHANGED <<server, calls, token, shown, confirm, code, phase, busy, presses>>

TypeCode(k) ==
  /\ ~token /\ phase = "verify" /\ code' = k
  /\ UNCHANGED <<server, calls, token, shown, confirm, identifier, phase, busy, presses>>

ChangeIdentifier ==
  /\ ~token /\ phase = "verify" /\ ~busy /\ phase' = "identify" /\ code' = None
  /\ UNCHANGED <<server, calls, token, shown, confirm, identifier, busy, presses>>

Send(does) ==
  /\ ~busy /\ busy' = TRUE /\ presses < MaxPresses /\ presses' = presses + 1
  /\ \E c \in Calls :
       /\ calls[c] = Free
       /\ calls' = [calls EXCEPT ![c] = [by |-> "screen", does |-> does, asks |-> <<"press", presses>>,
                      to |-> identifier, code |-> IF does = "submit" THEN code ELSE 0, pc |-> "sent"]]
  /\ UNCHANGED <<server, token, shown, confirm, identifier, code, phase>>

RequestSignedInDeletion == token /\ shown # "PENDING" /\ confirm /\ Send("request")
Cancel == token /\ shown = "PENDING" /\ Send("cancel")
SendPublicCode == ~token /\ phase = "identify" /\ identifier # None /\ Send("code")
SubmitPublicDeletion == ~token /\ phase = "verify" /\ confirm /\ code # None /\ Send("submit")

\* What comes back is applied to the screen as it is by then.
Answered(c, ok) ==
  LET k == calls[c] IN
  /\ k.by = "screen" /\ (ok => k.pc = "ok")
  /\ busy' = FALSE
  /\ shown' = IF ok /\ k.does \in {"request", "cancel"} /\ token THEN Latest ELSE shown
  /\ confirm' = (confirm /\ ~(ok /\ k.does \in {"request", "submit"}))
  /\ code' = IF ok /\ k.does \in {"code", "submit"} THEN None ELSE code
  /\ phase' = CASE ok /\ k.does = "code" -> "verify"
                [] ok /\ k.does = "submit" -> "submitted" [] OTHER -> phase
  /\ calls' = [calls EXCEPT ![c] = IF k.pc \in {"ok", "failed"} THEN Free ELSE [k EXCEPT !.by = "nobody"]]
  /\ UNCHANGED <<server, token, identifier, presses>>

Ended(c) ==
  /\ calls[c].by = "nobody" /\ calls[c].pc \in {"ok", "failed"}
  /\ calls' = [calls EXCEPT ![c] = Free] /\ UNCHANGED <<server, screen, presses>>

-----------------------------------------------------------------------------
(* The backend. *)
At(c, does, pc) == calls[c].does = does /\ calls[c].pc = pc
To(c, pc) == calls' = [calls EXCEPT ![c].pc = pc]

\* A new code takes the place of the one before, unless that was sent just now.
RequestOtp(c) ==
  LET i == calls[c].to IN
  /\ At(c, "code", "sent")
  /\ \/ /\ issued < MaxCodes /\ issued' = issued + 1
        /\ active' = [active EXCEPT ![i] = issued'] /\ attempts' = [attempts EXCEPT ![i] = 0]
        /\ To(c, "ok")
     \/ active[i] # 0 /\ To(c, "failed") /\ UNCHANGED <<active, attempts, issued>>
  /\ UNCHANGED <<rows, screen, presses>>

Expire(i) ==
  /\ active[i] # 0 /\ active' = [active EXCEPT ![i] = 0]
  /\ UNCHANGED <<rows, attempts, issued, calls, screen, presses>>

Usable(i) == active[i] # 0 /\ attempts[i] < MaxAttempts

CheckCode(c) ==
  LET k == calls[c] IN
  /\ At(c, "submit", "sent")
  /\ IF Usable(k.to) /\ k.code = active[k.to]
       THEN To(c, "checked") /\ UNCHANGED attempts
       ELSE /\ To(c, "failed")
            /\ attempts' = IF Usable(k.to) THEN [attempts EXCEPT ![k.to] = @ + 1] ELSE attempts
  /\ UNCHANGED <<rows, active, issued, screen, presses>>

\* Mutant: the code that was checked is consumed whether it still can be or not.
Checked(k) == TRUE

\* It is consumed only as what was checked: unconsumed, with tries left.
Consumable(k) == active[k.to] = k.code /\ Usable(k.to)

ConsumeCode(c) ==
  LET k == calls[c] IN
  /\ At(c, "submit", "checked")
  /\ IF Consumable(k)
       THEN /\ active' = [active EXCEPT ![k.to] = IF @ = k.code THEN 0 ELSE @]
            /\ calls' = [calls EXCEPT ![c].pc = "entitled", ![c].asks = <<"code", k.code>>]
       ELSE To(c, "failed") /\ UNCHANGED active
  /\ UNCHANGED <<rows, attempts, issued, screen, presses>>

FindRow(c) ==
  /\ At(c, "request", "sent") \/ At(c, "submit", "entitled")
  /\ To(c, IF Pending # {} THEN "ok" ELSE "insert")
  /\ UNCHANGED <<server, screen, presses>>

\* An account has one pending request at most: the index refuses a second, and
\* the first is the answer.
InsertRow(c) ==
  /\ calls[c].pc = "insert" /\ To(c, "ok")
  /\ rows' = IF Pending = {} THEN Append(rows, [by |-> calls[c].asks, status |-> "PENDING"]) ELSE rows
  /\ UNCHANGED <<active, attempts, issued, screen, presses>>

CancelRow(c) ==
  /\ At(c, "cancel", "sent")
  /\ IF Pending = {} THEN To(c, "failed") /\ UNCHANGED rows
     ELSE /\ To(c, "ok")
          /\ rows' = [i \in DOMAIN rows |-> IF i \in Pending THEN [rows[i] EXCEPT !.status = "CANCELLED"]
                                                             ELSE rows[i]]
  /\ UNCHANGED <<active, attempts, issued, screen, presses>>

\* Another device of the person, signed in, cancels.
CancelElsewhere ==
  /\ Pending # {} /\ presses < MaxPresses /\ presses' = presses + 1
  /\ rows' = [i \in DOMAIN rows |-> [rows[i] EXCEPT !.status = "CANCELLED"]]
  /\ UNCHANGED <<active, attempts, issued, calls, screen>>

Dies(c) ==
  /\ calls[c].pc \in {"sent", "checked", "entitled", "insert"} /\ To(c, "failed")
  /\ UNCHANGED <<server, screen, presses>>

Next ==
  \/ Refetch \/ LoseSession \/ TypeConfirm \/ ChangeIdentifier \/ CancelElsewhere
  \/ RequestSignedInDeletion \/ Cancel \/ SendPublicCode \/ SubmitPublicDeletion
  \/ \E i \in Identifiers : TypeIdentifier(i) \/ Expire(i)
  \/ \E k \in 0..issued : TypeCode(k)
  \/ \E c \in Calls :
       \/ Answered(c, TRUE) \/ Answered(c, FALSE) \/ Ended(c) \/ RequestOtp(c) \/ CheckCode(c)
       \/ ConsumeCode(c) \/ FindRow(c) \/ InsertRow(c) \/ CancelRow(c) \/ Dies(c)

Spec == Init /\ [][Next]_vars

-----------------------------------------------------------------------------
\* A person is asked once for what is recorded once: at most one request is
\* pending, and none comes from the confirmation, or the code, that another one
\* came from -- so a late or repeated submission does not bring back a request
\* the person has cancelled.
RecordedAsAsked ==
  \A i, j \in DOMAIN rows : i # j => /\ rows[i].by # rows[j].by
                                     /\ {rows[i].status, rows[j].status} # {"PENDING"}
=============================================================================
