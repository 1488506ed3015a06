---------------------------- MODULE StaffSecurity ----------------------------
(***************************************************************************)
(* A member of the plant's staff, signed in on one or more phones, sets    *)
(* the account's authenticator up (frontend/app/mfa-setup.tsx) and then a  *)
(* passkey (passkey-setup.tsx), made in the system's browser               *)
(* (passkey-ceremony.tsx, src/auth/webauthn.ts).  The backend answers in   *)
(* several steps (backend/routers/staff_mfa.py, staff_passkeys.py).  The   *)
(* registration is modelled, the login with a passkey is not.              *)
(***************************************************************************)
EXTENDS Naturals, FiniteSets

CONSTANTS
  None,
  Screens,                \* phones the person is signed in on
  Secrets, Handles,       \* what the backend draws
  Requests,               \* passkey registrations
  Calls,
  MaxPasskeys,            \* of an account (10 in the code)
  MaxPresses              \* bound: presses that send something

VARIABLES
  central,                \* the person is a central administrator
  enabled, secret, pending, recovery, handle, passkeys,   \* the account
  sessions,               \* of each screen: "bootstrap", "full" or "revoked"
  reqs, challenges,       \* of each request: its state; the handle of its open challenge
  drawn,                  \* secrets and handles drawn so far
  held,                   \* the secrets in the person's authenticator application
  scr,                    \* the screens
  tabs,                   \* the browser page of each request
  calls, presses

account == <<enabled, secret, pending, recovery, handle, passkeys, sessions>>
server == <<account, reqs, challenges, drawn>>
vars == <<central, server, held, scr, tabs, calls, presses>>

Free == [by |-> None, does |-> "", code |-> None, n |-> 0, q |-> None, handle |-> None, heard |-> FALSE, pc |-> "free"]

Screen(page) == [page |-> page, key |-> None, code |-> None, codes |-> 0,
                 loading |-> page = "opening", session |-> None, registered |-> FALSE]

\* A first login leads to the authenticator page; a later one, without a passkey
\* yet, can lead to the passkey page.
Init ==
  /\ central \in BOOLEAN
  /\ \/ /\ enabled = FALSE /\ secret = None /\ drawn = {}
        /\ sessions = [s \in Screens |-> "bootstrap"] /\ scr = [s \in Screens |-> Screen("opening")]
     \/ /\ ~central /\ enabled = TRUE /\ secret = (CHOOSE k \in Secrets : TRUE) /\ drawn = {secret}
        /\ sessions = [s \in Screens |-> "full"] /\ scr = [s \in Screens |-> Screen("passkey")]
  /\ held = {secret} \ {None} /\ pending = None /\ recovery = 0 /\ handle = None /\ passkeys = {}
  /\ reqs = [q \in Requests |-> "unused"] /\ challenges = [q \in Requests |-> None]
  /\ tabs = [q \in Requests |-> "none"] /\ calls = [c \in Calls |-> Free] /\ presses = 0

-----------------------------------------------------------------------------
(* The screens. *)
Sends(s, does, code, q) ==
  /\ presses < MaxPresses /\ presses' = presses + 1
  /\ \E c \in Calls : calls[c] = Free /\ calls' = [calls EXCEPT ![c] =
       [by |-> s, does |-> does, code |-> code, n |-> presses', q |-> q, handle |-> None, heard |-> TRUE, pc |-> "sent"]]

\* The effect of the authenticator page asks for a key at once.
Open(s) ==
  /\ scr[s].page = "opening" /\ scr' = [scr EXCEPT ![s].page = "mfa"] /\ Sends(s, "start", None, None)
  /\ UNCHANGED <<central, server, held, tabs>>

Setup(s) == scr[s].page = "mfa" /\ scr[s].key # None /\ scr[s].codes = 0

\* "Restart setup" can be pressed while a code is being confirmed.
RestartSetup(s) ==
  /\ Setup(s) /\ scr' = [scr EXCEPT ![s].loading = TRUE] /\ Sends(s, "restart", None, None)
  /\ UNCHANGED <<central, server, held, tabs>>

\* The person adds the key shown to the authenticator.
AddKey(s) ==
  /\ Setup(s) /\ held' = held \cup {scr[s].key} /\ UNCHANGED <<central, server, scr, tabs, calls, presses>>

\* A current code of one of the keys the authenticator holds.
TypeCode(s, k) ==
  /\ Setup(s) \/ (scr[s].page = "passkey" /\ ~scr[s].registered)
  /\ scr' = [scr EXCEPT ![s].code = k] /\ UNCHANGED <<central, server, held, tabs, calls, presses>>

Confirm(s) ==
  /\ Setup(s) /\ scr[s].code # None /\ ~scr[s].loading
  /\ scr' = [scr EXCEPT ![s].loading = TRUE] /\ Sends(s, "confirm", scr[s].code, None)
  /\ UNCHANGED <<central, server, held, tabs>>

\* The page's effect sees the refreshed user too, and leads to the dashboard: one
\* of the two replacements comes last.
Finish(s) ==
  /\ scr[s].page = "mfa" /\ scr[s].codes # 0
  /\ \E p \in (IF central \/ sessions[s] = "revoked" THEN {"login"} ELSE {"passkey", "dashboard"}) :
       scr' = [scr EXCEPT ![s].page = p, ![s].code = None, ![s].loading = FALSE]
  /\ UNCHANGED <<central, server, held, tabs, calls, presses>>

SignOut(s) ==
  /\ scr[s].page = "mfa" /\ scr[s].codes = 0 /\ scr' = [scr EXCEPT ![s].page = "login"]
  /\ UNCHANGED <<central, server, held, tabs, calls, presses>>

CreatePasskey(s) ==
  /\ scr[s].page = "passkey" /\ ~scr[s].registered /\ scr[s].code # None /\ ~scr[s].loading
  /\ scr' = [scr EXCEPT ![s].loading = TRUE] /\ Sends(s, "register", scr[s].code, None)
  /\ UNCHANGED <<central, server, held, tabs>>

\* The browser closes: with its success, or because the person closed it.
BrowserCloses(s) ==
  LET q == scr[s].session IN
  /\ q # None
  /\ scr' = [scr EXCEPT ![s].session = None, ![s].loading = FALSE,
                        ![s].registered = @ \/ tabs[q] = "done"]
  /\ tabs' = [tabs EXCEPT ![q] = "closed"]
  /\ UNCHANGED <<central, server, held, calls, presses>>

ContinueToDashboard(s) ==
  /\ scr[s].page = "passkey" /\ scr[s].session = None /\ scr' = [scr EXCEPT ![s].page = "dashboard"]
  /\ UNCHANGED <<central, server, held, tabs, calls, presses>>

-----------------------------------------------------------------------------
(* The browser's page. *)
AskOptions(q) ==
  /\ tabs[q] = "open" /\ tabs' = [tabs EXCEPT ![q] = "asking"] /\ Sends(None, "options", None, q)
  /\ UNCHANGED <<central, server, held, scr>>

\* The device makes the passkey, or the person declines.
CreateBrowserPasskey(q) ==
  /\ tabs[q] = "ready"
  /\ \/ tabs' = [tabs EXCEPT ![q] = "verifying"] /\ Sends(None, "verify", None, q)
     \/ tabs' = [tabs EXCEPT ![q] = "failed"] /\ UNCHANGED <<calls, presses>>
  /\ UNCHANGED <<central, server, held, scr>>

-----------------------------------------------------------------------------
(* What comes back.  A page that has been left does nothing with it. *)
TabAnswer(c, ok) ==
  LET k == calls[c] IN
  tabs' = IF k.does \in {"options", "verify"} /\ tabs[k.q] # "closed"
            THEN [tabs EXCEPT ![k.q] = CASE ~ok -> "failed" [] k.does = "options" -> "ready" [] OTHER -> "done"]
          ELSE IF k.does = "register" /\ ok /\ scr[k.by].page = "passkey" THEN [tabs EXCEPT ![k.q] = "open"]
          ELSE tabs

ScreenAnswer(c, ok) ==
  LET k == calls[c]  s == k.by IN
  scr' = CASE k.does \in {"start", "restart", "confirm"} /\ scr[s].page = "mfa" ->
                [scr EXCEPT ![s].loading = FALSE,
                   ![s].key = IF ok /\ k.does # "confirm" THEN k.code ELSE @,
                   ![s].code = IF ok /\ k.does = "restart" THEN None ELSE @,
                   ![s].codes = IF ok /\ k.does = "confirm" THEN k.n ELSE @]
           [] k.does = "register" /\ scr[s].page = "passkey" ->
                [scr EXCEPT ![s].loading = ok, ![s].code = IF ok THEN None ELSE @,
                            ![s].session = IF ok THEN k.q ELSE None]
           [] OTHER -> scr

\* The answer arrives, or the request fails for the one who waits -- before or
\* after the backend's work.
Answered(c, ok) ==
  /\ calls[c].heard /\ calls[c].pc \in (IF ok THEN {"ok"} ELSE {"sent", "ok", "failed"})
  /\ TabAnswer(c, ok) /\ ScreenAnswer(c, ok)
  /\ calls' = [calls EXCEPT ![c] = IF @.pc \in {"ok", "failed"} THEN Free ELSE [@ EXCEPT !.heard = FALSE]]
  /\ UNCHANGED <<central, server, held, presses>>

Ended(c) ==
  /\ ~calls[c].heard /\ calls[c].pc \in {"ok", "failed"}
  /\ calls' = [calls EXCEPT ![c] = Free] /\ UNCHANGED <<central, server, held, scr, tabs, presses>>

-----------------------------------------------------------------------------
(* The backend. *)
At(c, does, pc) == calls[c].does \in does /\ calls[c].pc = pc
To(c, pc) == calls' = [calls EXCEPT ![c].pc = pc]
Admitted(c) == sessions[calls[c].by] # "revoked"
Elsewhere == UNCHANGED <<central, held, scr, tabs, presses>>

StartRead(c) ==
  /\ At(c, {"start", "restart"}, "sent") /\ To(c, IF Admitted(c) /\ ~enabled THEN "read" ELSE "failed")
  /\ UNCHANGED server /\ Elsewhere

\* A new key takes the place of the pending one, whoever waits for that.
StartTotpEnrollment(c) ==
  /\ At(c, {"start", "restart"}, "read")
  /\ \E k \in Secrets \ drawn :
       /\ drawn' = drawn \cup {k} /\ pending' = k
       /\ calls' = [calls EXCEPT ![c].code = k, ![c].pc = "ok"]
  /\ UNCHANGED <<enabled, secret, recovery, handle, passkeys, sessions, reqs, challenges>> /\ Elsewhere

ExpirePending ==
  /\ pending # None /\ pending' = None
  /\ UNCHANGED <<enabled, secret, recovery, handle, passkeys, sessions, reqs, challenges, drawn, calls>>
  /\ Elsewhere

ConfirmRead(c) ==
  /\ At(c, {"confirm"}, "sent")
  /\ To(c, IF Admitted(c) /\ ~enabled /\ pending # None /\ pending = calls[c].code THEN "verified" ELSE "failed")
  /\ UNCHANGED server /\ Elsewhere

\* Mutant: the key that is pending by then is activated.
KeyPending(c) == pending

\* The key activated is the one the code was verified with.
KeyVerified(c) == calls[c].code

ConfirmTotpEnrollment(c) ==
  /\ At(c, {"confirm"}, "verified") /\ To(c, "written")
  /\ enabled' = TRUE /\ secret' = KeyVerified(c) /\ recovery' = calls[c].n /\ pending' = None
  /\ UNCHANGED <<handle, passkeys, sessions, reqs, challenges, drawn>> /\ Elsewhere

RevokeOthers(c) ==
  /\ At(c, {"confirm"}, "written") /\ To(c, "revoked")
  /\ sessions' = [s \in Screens |-> IF s = calls[c].by THEN sessions[s] ELSE "revoked"]
  /\ UNCHANGED <<enabled, secret, pending, recovery, handle, passkeys, reqs, challenges, drawn>> /\ Elsewhere

\* The session that enrolled becomes a full one; a central administrator's ends.
EndBootstrap(c) ==
  /\ At(c, {"confirm"}, "revoked") /\ To(c, "ok")
  /\ sessions' = [sessions EXCEPT ![calls[c].by] =
                    IF @ # "bootstrap" THEN @ ELSE IF central THEN "revoked" ELSE "full"]
  /\ UNCHANGED <<enabled, secret, pending, recovery, handle, passkeys, reqs, challenges, drawn>> /\ Elsewhere

RegisterStart(c) ==
  /\ At(c, {"register"}, "sent")
  /\ IF /\ sessions[calls[c].by] = "full" /\ enabled /\ calls[c].code = secret
        /\ Cardinality(passkeys) < MaxPasskeys
       THEN \E q \in Requests :
              /\ reqs[q] = "unused" /\ reqs' = [reqs EXCEPT ![q] = "open"]
              /\ calls' = [calls EXCEPT ![c].q = q, ![c].pc = "ok"]
       ELSE To(c, "failed") /\ UNCHANGED reqs
  /\ UNCHANGED <<account, challenges, drawn>> /\ Elsewhere

ExpireRequest(q) ==
  /\ reqs[q] = "open" /\ reqs' = [reqs EXCEPT ![q] = "gone"] /\ challenges' = [challenges EXCEPT ![q] = None]
  /\ UNCHANGED <<account, drawn, calls>> /\ Elsewhere

\* An account without a handle gets a fresh one ...
OptionsRead(c) ==
  /\ At(c, {"options"}, "sent")
  /\ IF reqs[calls[c].q] # "open" \/ ~enabled \/ Cardinality(passkeys) >= MaxPasskeys
       THEN To(c, "failed") /\ UNCHANGED drawn
       ELSE IF handle # None
         THEN calls' = [calls EXCEPT ![c].handle = handle, ![c].pc = "options"] /\ UNCHANGED drawn
         ELSE \E h \in Handles \ drawn :
                /\ drawn' = drawn \cup {h} /\ calls' = [calls EXCEPT ![c].handle = h, ![c].pc = "claim"]
  /\ UNCHANGED <<account, reqs, challenges>> /\ Elsewhere

NoHandleYet == handle = None

\* ... unless another call has given it one meanwhile.
ClaimHandle(c) ==
  /\ At(c, {"options"}, "claim")
  /\ handle' = IF NoHandleYet THEN calls[c].handle ELSE handle
  /\ calls' = [calls EXCEPT ![c].handle = handle', ![c].pc = "options"]
  /\ UNCHANGED <<enabled, secret, pending, recovery, passkeys, sessions, reqs, challenges, drawn>> /\ Elsewhere

StoreChallenge(c) ==
  /\ At(c, {"options"}, "options") /\ To(c, "ok")
  /\ challenges' = [challenges EXCEPT ![calls[c].q] = calls[c].handle]
  /\ UNCHANGED <<account, reqs, drawn>> /\ Elsewhere

ConsumeChallenge(c) ==
  LET q == calls[c].q IN
  /\ At(c, {"verify"}, "sent")
  /\ IF reqs[q] = "open" /\ challenges[q] # None
       THEN /\ challenges' = [challenges EXCEPT ![q] = None]
            /\ calls' = [calls EXCEPT ![c].handle = challenges[q], ![c].pc = "consumed"]
       ELSE To(c, "failed") /\ UNCHANGED challenges
  /\ UNCHANGED <<account, reqs, drawn>> /\ Elsewhere

TakeRequest(c) ==
  /\ At(c, {"verify"}, "consumed")
  /\ To(c, IF reqs[calls[c].q] = "open" /\ enabled THEN "taken" ELSE "failed")
  /\ reqs' = [reqs EXCEPT ![calls[c].q] = "gone"]
  /\ UNCHANGED <<account, challenges, drawn>> /\ Elsewhere

VerifyRegistration(c) ==
  /\ At(c, {"verify"}, "taken") /\ To(c, "ok")
  /\ passkeys' = passkeys \cup {[of |-> calls[c].q, handle |-> calls[c].handle]}
  /\ UNCHANGED <<enabled, secret, pending, recovery, handle, sessions, reqs, challenges, drawn>> /\ Elsewhere

Dies(c) ==
  /\ calls[c].pc \notin {"free", "sent", "ok", "failed"} /\ To(c, "failed") /\ UNCHANGED server /\ Elsewhere

Next ==
  \/ ExpirePending
  \/ \E s \in Screens :
       \/ Open(s) \/ RestartSetup(s) \/ AddKey(s) \/ Confirm(s) \/ Finish(s) \/ SignOut(s)
       \/ CreatePasskey(s) \/ BrowserCloses(s) \/ ContinueToDashboard(s)
       \/ \E k \in held : TypeCode(s, k)
  \/ \E q \in Requests : AskOptions(q) \/ CreateBrowserPasskey(q) \/ ExpireRequest(q)
  \/ \E c \in Calls :
       \/ Answered(c, TRUE) \/ Answered(c, FALSE) \/ Ended(c) \/ Dies(c)
       \/ StartRead(c) \/ StartTotpEnrollment(c) \/ ConfirmRead(c) \/ ConfirmTotpEnrollment(c)
       \/ RevokeOthers(c) \/ EndBootstrap(c) \/ RegisterStart(c) \/ OptionsRead(c) \/ ClaimHandle(c)
       \/ StoreChallenge(c) \/ ConsumeChallenge(c) \/ TakeRequest(c) \/ VerifyRegistration(c)

Spec == Init /\ [][Next]_vars

-----------------------------------------------------------------------------
\* Whatever is restarted, on whichever phone, while a code is being confirmed: an
\* activated account is protected with a key the person's authenticator holds, and
\* all its passkeys, made or about to be made, are of the account's one handle.
SecuredWithWhatIsHeld ==
  /\ enabled => secret \in held
  /\ \A p \in passkeys : p.handle = handle
  /\ \A q \in Requests : challenges[q] \in {None, handle}

\* The recovery codes shown to be saved are those the account accepts.
ShownCodesWork ==
  \A s \in Screens : scr[s].page = "mfa" /\ scr[s].codes # 0 => recovery = scr[s].codes
=============================================================================
