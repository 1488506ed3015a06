----------------------------- MODULE CustomerKyc -----------------------------
(***************************************************************************)
(* A customer proves who they are: the KYC screen                          *)
(* (frontend/app/kyc.tsx), which starts a DigiLocker session and asks for  *)
(* the outcome whenever the app comes back, and the backend's two routes   *)
(* (backend/routers/customer.py), which keep one KYC record per customer   *)
(* and talk to DigiLocker in between.  Every call is taken apart at its    *)
(* reads, writes and questions to the provider.  Decisions of an Authority *)
(* are modelled in BillingDesk.                                            *)
(***************************************************************************)
EXTENDS Naturals

CONSTANTS
  None,
  Sessions,       \* of DigiLocker; each of them proves the name of one person
  Calls,
  MaxPresses      \* bound: requests of the screen

VARIABLES
  kyc,            \* the record: status, session, name proven, name still to be fetched
  account,        \* the customer's name
  consent,        \* DigiLocker: what became of each session
  calls,
  shown, latest,  \* the status on the screen; the read whose answer it takes
  profile,        \* the customer's status as the signed-in app knows it
  phase,          \* of startKyc: "idle", "starting", "me" or "reading"
  me,             \* the profile is being asked for
  synced,         \* syncedRef
  presses

backend == <<kyc, account>>
screen == <<shown, latest, profile, phase, me, synced, presses>>
vars == <<backend, consent, calls, screen>>

Free == [does |-> "", session |-> None, name |-> None, pc |-> "free", res |-> None]
Record(status, session, name, pending) == [status |-> status, session |-> session, name |-> name, pending |-> pending]

\* A customer starts anew, waits for an Authority, or was verified before names were kept.
Init ==
  /\ kyc \in {Record("NOT_STARTED", None, None, FALSE), Record("PENDING", None, None, FALSE),
              Record("VERIFIED", None, None, FALSE)}
              \cup {Record("VERIFIED", s, None, TRUE) : s \in Sessions}
  /\ account = None
  /\ consent = [s \in Sessions |-> IF s = kyc.session THEN "given" ELSE "unused"]
  /\ calls = [c \in Calls |-> Free]
  /\ shown = "NOT_STARTED" /\ latest = None /\ profile = kyc.status
  /\ phase = "idle" /\ me = FALSE /\ synced = FALSE /\ presses = 0

-----------------------------------------------------------------------------
(* The screen. *)
Sends(c, does) ==
  /\ presses < MaxPresses /\ presses' = presses + 1
  /\ calls[c] = Free /\ calls' = [calls EXCEPT ![c] = [Free EXCEPT !.does = does, !.pc = "sent"]]

\* The app comes back, or the customer asks for the status.
Refetch(c) ==
  /\ Sends(c, "get") /\ latest' = c
  /\ UNCHANGED <<backend, consent, shown, profile, phase, me, synced>>

StartKyc(c) ==
  /\ shown \notin {"VERIFIED", "PENDING"} /\ phase = "idle" /\ Sends(c, "start") /\ phase' = "starting"
  /\ UNCHANGED <<backend, consent, shown, latest, profile, me, synced>>

\* With the link open, startKyc refreshes the profile and then the status.
Started(c, ok) ==
  /\ calls[c].does = "start" /\ phase = "starting" /\ calls[c].pc # "free"
  /\ ok => (calls[c].pc = "done" /\ calls[c].res = "ok")
  /\ phase' = (IF ok THEN "me" ELSE "idle") /\ me' = (me \/ ok)
  /\ calls' = [calls EXCEPT ![c].does = "unheard"]
  /\ UNCHANGED <<backend, consent, shown, latest, profile, synced, presses>>

\* The profile arrives, or its refresh fails and the one known stays.
MeLands(ok) ==
  /\ me /\ me' = FALSE /\ profile' = IF ok THEN kyc.status ELSE profile
  /\ IF phase # "me" THEN UNCHANGED <<phase, latest, calls, presses>>
     ELSE /\ phase' = "reading"
          /\ \E c \in Calls : Sends(c, "get") /\ latest' = c
  /\ UNCHANGED <<backend, consent, shown, synced>>

\* Only the latest read lands; a first VERIFIED refreshes the profile, once.
StatusLands(c, ok) ==
  LET status == IF ok THEN calls[c].res ELSE shown IN
  /\ calls[c].does = "get" /\ calls[c].pc # "free" /\ (ok => calls[c].pc = "done")
  /\ IF c = latest
       THEN /\ shown' = status /\ latest' = None /\ synced' = (status = "VERIFIED")
            /\ me' = (me \/ (status = "VERIFIED" /\ ~synced))
            /\ phase' = IF phase = "reading" THEN "idle" ELSE phase
       ELSE UNCHANGED <<shown, latest, synced, me, phase>>
  /\ calls' = [calls EXCEPT ![c].does = "unheard"]
  /\ UNCHANGED <<backend, consent, profile, presses>>

Ended(c) ==
  /\ calls[c].does = "unheard" /\ calls[c].pc = "done" /\ calls' = [calls EXCEPT ![c] = Free]
  /\ UNCHANGED <<backend, consent, screen>>

-----------------------------------------------------------------------------
(* DigiLocker: the customer consents or refuses there; an old session is forgotten. *)
Consent(s, what) ==
  /\ \/ consent[s] = "open" /\ what \in {"given", "denied"}
     \/ consent[s] \in {"open", "given"} /\ what = "gone"
  /\ consent' = [consent EXCEPT ![s] = what] /\ UNCHANGED <<backend, calls, screen>>

-----------------------------------------------------------------------------
(* The backend.  A call goes on whether or not the screen still waits for it. *)
To(c, pc) == calls' = [calls EXCEPT ![c].pc = pc]
Answer(c, res) == calls' = [calls EXCEPT ![c].pc = "done", ![c].res = res]
Elsewhere == UNCHANGED <<consent, screen>>

\* start_kyc
StartRead(c) ==
  /\ calls[c].does = "start" /\ calls[c].pc = "sent"
  /\ IF kyc.status \in {"VERIFIED", "PENDING"} THEN Answer(c, "refused") ELSE To(c, "initiate")
  /\ UNCHANGED backend /\ Elsewhere

InitiateSession(c) ==
  /\ calls[c].pc = "initiate"
  /\ \/ \E s \in Sessions : /\ consent[s] = "unused" /\ consent' = [consent EXCEPT ![s] = "open"]
                            /\ calls' = [calls EXCEPT ![c].session = s, ![c].pc = "store"]
     \/ Answer(c, "refused") /\ UNCHANGED consent
  /\ UNCHANGED <<backend, screen>>

StoreSession(c) ==
  /\ calls[c].pc = "store" /\ Answer(c, "ok")
  /\ kyc' = [kyc EXCEPT !.status = "IN_PROGRESS", !.session = calls[c].session] /\ UNCHANGED account /\ Elsewhere

\* get_kyc
GetRead(c) ==
  /\ calls[c].does = "get" /\ calls[c].pc = "sent"
  /\ LET with(pc) == calls' = [calls EXCEPT ![c].session = kyc.session, ![c].res = kyc.status, ![c].pc = pc]
     IN IF kyc.status = "VERIFIED" /\ kyc.name = None /\ kyc.session = None THEN with("lapse")
        ELSE IF kyc.status = "VERIFIED" /\ kyc.pending /\ kyc.session # None THEN with("fetch")
        ELSE IF kyc.status = "IN_PROGRESS" /\ kyc.session # None THEN with("ask")
        ELSE with("done")
  /\ UNCHANGED backend /\ Elsewhere

Lapse(c) ==
  /\ calls[c].pc = "lapse" /\ Answer(c, "REQUIRES_REVERIFICATION")
  /\ kyc' = IF kyc.status # "VERIFIED" THEN kyc ELSE [kyc EXCEPT !.status = "REQUIRES_REVERIFICATION", !.pending = FALSE]
  /\ UNCHANGED account /\ Elsewhere

\* What DigiLocker says of the session that was read; an error changes nothing.
AskProvider(c) ==
  /\ calls[c].pc = "ask" /\ UNCHANGED backend /\ Elsewhere
  /\ \/ Answer(c, "IN_PROGRESS")
     \/ consent[calls[c].session] \in {"given", "denied", "gone"} /\ To(c, consent[calls[c].session])

\* The writes look at the record's status, not at its session.
SessionGone(c) ==
  /\ calls[c].pc = "gone" /\ Answer(c, "NOT_STARTED")
  /\ kyc' = IF kyc.status # "IN_PROGRESS" THEN kyc ELSE [kyc EXCEPT !.status = "NOT_STARTED", !.session = None]
  /\ UNCHANGED account /\ Elsewhere

SessionDenied(c) ==
  /\ calls[c].pc = "denied" /\ Answer(c, "REQUIRES_REVERIFICATION")
  /\ kyc' = IF kyc.status # "IN_PROGRESS" THEN kyc ELSE [kyc EXCEPT !.status = "REQUIRES_REVERIFICATION"]
  /\ UNCHANGED account /\ Elsewhere

\* The name is fetched for the session the record has by then.
ConsentGiven(c) ==
  /\ calls[c].pc = "given"
  /\ kyc' = IF kyc.status # "IN_PROGRESS" THEN kyc ELSE [kyc EXCEPT !.pending = TRUE]
  /\ calls' = [calls EXCEPT ![c].session = kyc.session, ![c].pc = IF kyc.session = None THEN "reread" ELSE "fetch"]
  /\ UNCHANGED account /\ Elsewhere

FetchName(c) ==
  /\ calls[c].pc = "fetch"
  /\ \/ /\ consent[calls[c].session] = "given" /\ UNCHANGED kyc
        /\ calls' = [calls EXCEPT ![c].name = calls[c].session, ![c].pc = "account"]
     \/ kyc' = [kyc EXCEPT !.pending = TRUE] /\ To(c, "reread")
     \/ /\ consent[calls[c].session] = "gone" /\ To(c, "reread")
        /\ kyc' = [kyc EXCEPT !.pending = TRUE, !.status = "REQUIRES_REVERIFICATION", !.session = None]
  /\ UNCHANGED account /\ Elsewhere

NameAccount(c) ==
  /\ calls[c].pc = "account" /\ To(c, "name") /\ account' = calls[c].name /\ UNCHANGED kyc /\ Elsewhere

NameRecord(c) ==
  /\ calls[c].pc = "name" /\ kyc' = [kyc EXCEPT !.name = calls[c].name, !.pending = FALSE]
  /\ IF calls[c].res = "VERIFIED" THEN To(c, "done") ELSE To(c, "verify")
  /\ UNCHANGED account /\ Elsewhere

\* Mutant: consent is enough, the name may come later.
VerifiesUnnamed(c) == calls[c].pc \in {"verify", "fetch"}

Verifies(c) == calls[c].pc = "verify"

\* The answer is VERIFIED even when the record has moved on.
Verify(c) ==
  /\ Verifies(c) /\ Answer(c, "VERIFIED")
  /\ kyc' = IF kyc.status = "IN_PROGRESS" /\ (calls[c].pc = "verify" => ~kyc.pending)
              THEN [kyc EXCEPT !.status = "VERIFIED"] ELSE kyc
  /\ UNCHANGED account /\ Elsewhere

Reread(c) ==
  /\ calls[c].pc = "reread" /\ Answer(c, kyc.status) /\ UNCHANGED backend /\ Elsewhere

Next ==
  \/ MeLands(TRUE) \/ MeLands(FALSE)
  \/ \E s \in Sessions, what \in {"given", "denied", "gone"} : Consent(s, what)
  \/ \E c \in Calls :
       \/ Refetch(c) \/ StartKyc(c) \/ Started(c, TRUE) \/ Started(c, FALSE)
       \/ StatusLands(c, TRUE) \/ StatusLands(c, FALSE) \/ Ended(c)
       \/ StartRead(c) \/ InitiateSession(c) \/ StoreSession(c) \/ GetRead(c) \/ Lapse(c) \/ AskProvider(c)
       \/ SessionGone(c) \/ SessionDenied(c) \/ ConsentGiven(c) \/ FetchName(c)
       \/ NameAccount(c) \/ NameRecord(c) \/ Verify(c) \/ Reread(c)

Spec == Init /\ [][Next]_vars

-----------------------------------------------------------------------------
\* "Consent success alone is insufficient: obtain a usable verified identity before
\* exposing VERIFIED or unlocking ordering" (customer.py): whatever sessions and
\* questions overlap, a record becomes VERIFIED only with the name that DigiLocker
\* proved for a session the customer consented to.
VerifiedWithIdentity ==
  [][(kyc.status # "VERIFIED" /\ kyc'.status = "VERIFIED") =>
       (kyc'.name # None /\ consent[kyc'.name] \in {"given", "gone"})]_vars

\* "KYC already verified" (customer.py): a verified customer is not sent to DigiLocker again.
VerifiedIsKept == [][kyc.status = "VERIFIED" => kyc'.status # "IN_PROGRESS"]_vars
=============================================================================
