----------------------------- MODULE LoginFlow -----------------------------
(***************************************************************************)
(* Signing in on the mobile application: the login screen                  *)
(* (frontend/src/screens/LoginScreen.tsx) with its one-time code, passkey  *)
(* and recovery forms, and the six-digit input that submits itself at the  *)
(* end of an animation (src/components/auth/OtpOrbitVerification.tsx).     *)
(*                                                                         *)
(* Calls are numbered slots.  The backend accepts or refuses a call in one *)
(* step and its outcome lands in another; which it does is its own affair. *)
(* All of the screen's calls share one loading flag, and a resend does not *)
(* look at it, so that calls overlap.  A code is a number, 0 while it is   *)
(* not complete.                                                           *)
(***************************************************************************)
EXTENDS Integers

CONSTANTS
  Mobiles, Emails, \* identifiers a person can type
  None,            \* a field without a valid identifier
  Slots,           \* bound: calls of this screen in flight
  MaxCodes         \* bound: different codes typed

Maybe(S) == S \cup {None}
Part == 0 \* fewer than six digits
OtpPhases == {"user_otp", "staff_email_otp", "staff_totp"}
StaffPhases == {"staff_email_otp", "staff_totp", "staff_passkey", "staff_recovery"}

VARIABLES
  mode, phase, mobile, plantEmail, identifier, code,
  loading, otpVisual,
  countdown,  \* the resend timer runs
  play,       \* the animation and what its completion will submit, or NoPlay
  last,       \* lastCompleted
  call,       \* the calls
  me,         \* the identifier signed in with
  gone,       \* the screen has been replaced
  dropped     \* ghost: a complete code met a send in flight

form == <<mode, mobile, plantEmail>>
entry == <<phase, identifier, code, loading, otpVisual>>
orbit == <<play, last>>
vars == <<form, entry, countdown, orbit, call, me, gone, dropped>>

NoPlay == [code |-> Part, phase |-> "enter", id |-> None]
NoCall == [pc |-> "idle", kind |-> "none", id |-> None, code |-> Part]

Init ==
  /\ mode = "user" /\ phase = "enter" /\ mobile = None /\ plantEmail = None
  /\ identifier = None /\ code = Part /\ loading = FALSE /\ otpVisual = "idle"
  /\ countdown = FALSE /\ play = NoPlay /\ last = Part
  /\ call = [c \in Slots |-> NoCall]
  /\ me = None /\ gone = FALSE
  /\ dropped = FALSE

At(c, pc) == call[c].pc = pc
Goto(c, pc) == call' = [call EXCEPT ![c].pc = pc]
End(c) == call' = [call EXCEPT ![c] = NoCall]
Begin(kind, id, typed) ==
  \E c \in Slots : /\ At(c, "idle")
                   /\ call' = [call EXCEPT ![c] =
                        [pc |-> "sent", kind |-> kind, id |-> id, code |-> typed]]

\* The orbit's effect after a render: whatever it depends on stops the
\* animation, and an empty input forgets the code submitted last.
Orbit ==
  /\ play' = IF <<entry, me>>' = <<entry, me>> THEN play ELSE NoPlay
  /\ last' = IF phase' \notin OtpPhases \/ (otpVisual' = "idle" /\ code' = Part)
               THEN Part ELSE last
  /\ dropped' = (dropped \/ (play # NoPlay /\ play' = NoPlay /\ code' # Part))

-----------------------------------------------------------------------------
(* The entry forms. *)

TypeMobile(m) ==
  /\ phase = "enter" /\ mode = "user" /\ mobile # m /\ mobile' = m
  /\ UNCHANGED <<mode, plantEmail, entry, countdown, orbit, call, me, gone, dropped>>

TypeEmail(e) ==
  /\ phase = "enter" /\ mode = "plant" /\ plantEmail # e /\ plantEmail' = e
  /\ UNCHANGED <<mode, mobile, entry, countdown, orbit, call, me, gone, dropped>>

\* The tabs, and the links back to the form; loading stays as it is.
ResetEntry(next) ==
  /\ (phase # "enter" \/ mode # next)
  /\ mode' = next /\ phase' = "enter" /\ code' = Part /\ otpVisual' = "idle"
  /\ countdown' = FALSE
  /\ UNCHANGED <<mobile, plantEmail, identifier, loading, call, me, gone>>
  /\ Orbit

\* handleSendUserOtp and handleStartPlantLogin.
Send(kind, id) == id # None /\ loading' = TRUE /\ Begin(kind, id, Part)

Continue ==
  /\ phase = "enter" /\ ~loading
  /\ IF mode = "user" THEN Send("user", mobile) ELSE Send("staff", plantEmail)
  /\ UNCHANGED <<form, phase, identifier, code, otpVisual, countdown, me, gone>>
  /\ Orbit

\* Shown once the timer has ended; it sends to the number in the form.
Resend ==
  /\ ~countdown /\ play = NoPlay /\ otpVisual \notin {"checking", "success"}
  /\ \/ phase = "user_otp" /\ Send("user", mobile)
     \/ phase = "staff_email_otp" /\ Send("staff", plantEmail)
  /\ UNCHANGED <<form, phase, identifier, code, otpVisual, countdown, me, gone>>
  /\ Orbit

CountdownEnds ==
  /\ countdown /\ countdown' = FALSE
  /\ UNCHANGED <<form, entry, orbit, call, me, gone, dropped>>

-----------------------------------------------------------------------------
(* The answer to a send. *)

\* An OTP screen for the identifier the code went to.
Prompt(c, next) ==
  /\ phase' = next /\ identifier' = call[c].id /\ code' = Part /\ otpVisual' = "idle"

SentUser(c) ==
  /\ At(c, "ok") /\ call[c].kind = "user" /\ End(c) /\ loading' = FALSE
  /\ Prompt(c, "user_otp") /\ countdown' = TRUE
  /\ UNCHANGED <<form, me, gone>>
  /\ Orbit

SentStaff(c) ==
  /\ At(c, "ok") /\ call[c].kind = "staff" /\ End(c) /\ loading' = FALSE
  /\ Prompt(c, "staff_email_otp") /\ countdown' = TRUE
  /\ plantEmail' = call[c].id /\ UNCHANGED <<mode, mobile, me, gone>>
  /\ Orbit

\* The account has an authenticator, or a passkey too.
SecondFactor(c) ==
  /\ At(c, "factor") /\ End(c) /\ loading' = FALSE
  /\ \E next \in {"staff_passkey", "staff_totp"} : Prompt(c, next)
  /\ plantEmail' = call[c].id
  /\ UNCHANGED <<mode, mobile, countdown, me, gone>>
  /\ Orbit

\* Refused, lost, or to be onboarded first: only the message changes.
NotSent(c) ==
  /\ At(c, "failed") /\ call[c].kind \in {"user", "staff"} /\ End(c)
  /\ loading' = FALSE
  /\ UNCHANGED <<form, phase, identifier, code, otpVisual, countdown, me, gone>>
  /\ Orbit

-----------------------------------------------------------------------------
(* The code. *)

\* Mutant: a complete code has to be confirmed.
TypeCodeOnly(n) ==
  /\ phase \in OtpPhases /\ otpVisual = "idle" /\ play = NoPlay /\ n # code
  /\ code' = n /\ last' = n /\ play' = NoPlay
  /\ UNCHANGED <<form, phase, identifier, loading, otpVisual, countdown, call, me, gone,
                 dropped>>

\* Six digits at once start the animation, which submits them at its end.
TypeCode(n) ==
  /\ phase \in OtpPhases /\ otpVisual = "idle" /\ play = NoPlay /\ n # code
  /\ code' = n /\ last' = n
  /\ play' = IF n \in {Part, last} THEN NoPlay
                                   ELSE [code |-> n, phase |-> phase, id |-> identifier]
  /\ UNCHANGED <<form, phase, identifier, loading, otpVisual, countdown, call, me, gone,
                 dropped>>

\* handleVerify*: nothing is sent while the screen is loading.
Complete ==
  /\ play # NoPlay /\ play' = NoPlay
  /\ IF loading
       THEN dropped' = TRUE /\ UNCHANGED <<loading, otpVisual, call>>
       ELSE /\ otpVisual' = "checking" /\ loading' = TRUE
            /\ Begin(play.phase, play.id, play.code) /\ UNCHANGED dropped
  /\ UNCHANGED <<form, phase, identifier, code, countdown, last, me, gone>>

\* The buttons of the passkey and recovery forms, disabled while loading.
VerifyOther ==
  /\ phase \in {"staff_passkey", "staff_recovery"} /\ ~loading
  /\ loading' = TRUE /\ Begin(phase, identifier, Part)
  /\ UNCHANGED <<form, phase, identifier, code, otpVisual, countdown, me, gone>>
  /\ Orbit

\* The links between the second factors.
UseOther ==
  /\ code' = Part
  /\ \/ phase = "staff_totp" /\ phase' = "staff_recovery" /\ UNCHANGED otpVisual
     \/ phase = "staff_passkey" /\ phase' = "staff_totp" /\ UNCHANGED otpVisual
     \/ phase = "staff_recovery" /\ phase' = "staff_totp" /\ otpVisual' = "idle"
  /\ UNCHANGED <<form, identifier, loading, countdown, call, me, gone>>
  /\ Orbit

\* The session is accepted and the code's success shown for 700 ms; a passkey
\* or a recovery code leaves at once.
Verified(c) ==
  /\ At(c, "ok") /\ call[c].kind \in OtpPhases \cup {"staff_passkey", "staff_recovery"}
  /\ me' = call[c].id
  /\ IF call[c].kind \in OtpPhases
       THEN Goto(c, "leaving") /\ otpVisual' = "success" /\ UNCHANGED <<loading, gone>>
       ELSE End(c) /\ loading' = FALSE /\ gone' = TRUE /\ UNCHANGED otpVisual
  /\ UNCHANGED <<form, phase, identifier, code, countdown>>
  /\ Orbit

\* finishLogin, or the effect that finds a session on the entry form.
Leave ==
  /\ ~gone /\ gone' = TRUE
  /\ \/ \E c \in Slots : At(c, "leaving") /\ End(c) /\ loading' = FALSE
     \/ /\ me # None /\ phase = "enter" /\ otpVisual # "success"
        /\ UNCHANGED <<loading, call>>
  /\ UNCHANGED <<form, phase, identifier, code, otpVisual, countdown, me>>
  /\ Orbit

\* failOtp: the error is shown for 850 ms, then the input is emptied.
FailOtp(c) ==
  /\ At(c, "failed") /\ call[c].kind \in OtpPhases /\ Goto(c, "erring")
  /\ otpVisual' = "error"
  /\ UNCHANGED <<form, phase, identifier, code, loading, countdown, me, gone>>
  /\ Orbit

ErrorShown(c) ==
  /\ At(c, "erring") /\ End(c) /\ code' = Part /\ otpVisual' = "idle" /\ loading' = FALSE
  /\ UNCHANGED <<form, phase, identifier, countdown, me, gone>>
  /\ Orbit

FailOther(c) ==
  /\ At(c, "failed") /\ call[c].kind \in {"staff_passkey", "staff_recovery"} /\ End(c)
  /\ loading' = FALSE
  /\ UNCHANGED <<form, phase, identifier, code, otpVisual, countdown, me, gone>>
  /\ Orbit

-----------------------------------------------------------------------------
(* The backend. *)

\* request_otp or the staff's start: a code is sent, the staff's account has a
\* second factor, or the call is refused or lost.
Answer(c) ==
  /\ At(c, "sent")
  /\ \/ Goto(c, "ok") \/ Goto(c, "failed")
     \/ call[c].kind = "staff" /\ Goto(c, "factor")
  /\ UNCHANGED <<form, entry, countdown, orbit, me, gone, dropped>>

-----------------------------------------------------------------------------
Lands(c) ==
  \/ SentUser(c) \/ SentStaff(c) \/ SecondFactor(c) \/ NotSent(c)
  \/ Verified(c) \/ FailOtp(c) \/ ErrorShown(c) \/ FailOther(c)

Step ==
  \/ \E m \in Maybe(Mobiles) : TypeMobile(m)
  \/ \E e \in Maybe(Emails) : TypeEmail(e)
  \/ \E next \in {"user", "plant"} : ResetEntry(next)
  \/ Continue \/ Resend \/ CountdownEnds \/ Complete \/ VerifyOther \/ UseOther \/ Leave
  \/ \E n \in 0..MaxCodes : TypeCode(n)
  \/ \E c \in Slots : Answer(c) \/ Lands(c)

\* The model ends with the screen.
Next == ~gone /\ Step

Spec == Init /\ [][Next]_vars

-----------------------------------------------------------------------------
\* Every variable has its type; in particular each form of the second step is
\* about an identifier of its own kind.
TypeOK ==
  /\ mode \in {"user", "plant"} /\ phase \in {"enter", "user_otp"} \cup StaffPhases
  /\ mobile \in Maybe(Mobiles) /\ plantEmail \in Maybe(Emails)
  /\ (phase = "user_otp" => identifier \in Mobiles)
  /\ (phase \in StaffPhases => identifier \in Emails)
  /\ code \in 0..MaxCodes /\ last \in 0..MaxCodes
  /\ otpVisual \in {"idle", "checking", "success", "error"}
  /\ {loading, countdown, gone, dropped} \subseteq BOOLEAN
  /\ me \in Maybe(Mobiles \cup Emails)

\* A complete code that is shown is on its way: the animation that will submit
\* it runs, or the screen says that it is being checked.  Nothing else would
\* submit it, since the input reacts to a change of the digits only.  The
\* exception is a code that met a send in flight: it is dropped.
CodeOnItsWay ==
  phase \in OtpPhases /\ code # Part /\ otpVisual = "idle" /\ play = NoPlay => dropped

\* What is sent for verification is what the screen shows at that moment: the
\* code, for the identifier and by the method of the form, although the
\* animation captured all three when it started.
VerifiesShown ==
  [][\A c \in Slots : At(c, "idle") /\ call'[c].kind \in OtpPhases =>
       call'[c].id = identifier /\ call'[c].kind = phase /\ call'[c].code = code]_vars
=============================================================================
