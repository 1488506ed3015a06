---------------------------- MODULE NearbyPlants ----------------------------
(***************************************************************************)
(* How the nearby-plants screen finds where the phone is                   *)
(* (frontend/app/customer/plants.tsx), with the disclosure that comes      *)
(* before the system's own question                                        *)
(* (frontend/src/location/BackgroundLocationConsent.tsx).  A run of        *)
(* applyLocation walks through its awaits; runs overlap, since the screen  *)
(* marks itself as locating only after the network provider was asked for, *)
(* and there is one dialog for all of them.                                *)
(***************************************************************************)
EXTENDS Naturals, FiniteSets

CONSTANTS
  None,
  Runs,           \* bound: the runs of applyLocation
  FirstRun        \* the one the screen's effect makes

VARIABLES
  at,             \* where each run is waiting
  forced,         \* it passes the cache over, and refetches the plants
  canAskAgain,    \* what the permission it read said of asking again
  dialog,         \* the run whose resolver the disclosure holds
  permission,     \* the system's: "granted", "ask" or "blocked"
  cached,         \* the position remembered is younger than its TTL
  userLocation,   \* a position has been applied
  locating, locationStatus

vars == <<at, forced, canAskAgain, dialog, permission, cached, userLocation, locating,
          locationStatus>>

Statuses == {"ok", "denied", "services-disabled", "timeout", "unavailable"}

Init ==
  /\ at = [r \in Runs |-> IF r = FirstRun THEN "mount" ELSE "idle"]
  /\ forced = [r \in Runs |-> r # FirstRun] /\ canAskAgain = [r \in Runs |-> TRUE]
  /\ dialog = None /\ permission \in {"granted", "ask", "blocked"}
  /\ cached \in BOOLEAN /\ userLocation = FALSE
  /\ locating = FALSE /\ locationStatus = None

At(r, p) == at' = [at EXCEPT ![r] = p]

-----------------------------------------------------------------------------
Begin(r) == At(r, "permission") /\ locating' = TRUE

\* What applyLocation does with a result; without coordinates the position
\* applied before stays.
Result(r, status, coords) ==
  /\ locationStatus' = status /\ userLocation' = (userLocation \/ coords)
  /\ IF status = "ok" /\ forced[r]
       THEN At(r, "refetch") /\ UNCHANGED locating
       ELSE At(r, "done") /\ locating' = FALSE

\* The screen's effect; a fresh position is taken without asking anybody.
Mount ==
  /\ at[FirstRun] = "mount" /\ Begin(FirstRun)
  /\ UNCHANGED <<forced, canAskAgain, dialog, permission, cached, userLocation, locationStatus>>

\* The refresh button and "Retry" wait for the run that is locating.
RefreshLocation(r) ==
  /\ at[r] = "idle" /\ dialog = None /\ ~locating /\ Begin(r)
  /\ UNCHANGED <<forced, canAskAgain, dialog, permission, cached, userLocation, locationStatus>>

\* "Enable Location" first asks for the network provider.
EnableLocation(r) ==
  /\ at[r] = "idle" /\ dialog = None /\ ~locating
  /\ locationStatus \in {"denied", "services-disabled"} /\ At(r, "provider")
  /\ UNCHANGED <<forced, canAskAgain, dialog, permission, cached, userLocation, locating,
                 locationStatus>>

ProviderAnswers(r) ==
  /\ at[r] = "provider" /\ Begin(r)
  /\ UNCHANGED <<forced, canAskAgain, dialog, permission, cached, userLocation, locationStatus>>

-----------------------------------------------------------------------------
\* requestConsent: the dialog holds one resolver, the latest.
Ask(r) == dialog' = r /\ At(r, "consent")

FromCache(r) ==
  /\ at[r] = "permission" /\ ~forced[r] /\ cached /\ Result(r, "ok", TRUE)
  /\ UNCHANGED <<forced, canAskAgain, dialog, permission, cached>>

PermissionRead(r) ==
  /\ at[r] = "permission" /\ (forced[r] \/ ~cached)
  /\ canAskAgain' = [canAskAgain EXCEPT ![r] = permission # "blocked"]
  /\ \/ /\ permission = "granted" /\ At(r, "services")
        /\ UNCHANGED <<dialog, userLocation, locating, locationStatus>>
     \/ /\ permission = "ask" /\ Ask(r) /\ UNCHANGED <<userLocation, locating, locationStatus>>
     \/ permission = "blocked" /\ Result(r, "denied", cached) /\ UNCHANGED dialog
     \/ Result(r, "unavailable", cached) /\ UNCHANGED dialog
  /\ UNCHANGED <<forced, permission, cached>>

\* "Use my location" or "Not now", of the request the dialog shows.
Settle(granted) ==
  /\ dialog # None /\ dialog' = None
  /\ IF granted
       THEN At(dialog, "prompt") /\ UNCHANGED <<userLocation, locating, locationStatus>>
       ELSE Result(dialog, "denied", cached)
  /\ UNCHANGED <<forced, canAskAgain, permission, cached>>

PromptAnswered(r) ==
  /\ at[r] = "prompt" /\ permission' \in {"granted", "ask", "blocked"}
  /\ canAskAgain' = [canAskAgain EXCEPT ![r] = permission' # "blocked"]
  /\ IF permission' = "granted"
       THEN At(r, "services") /\ UNCHANGED <<userLocation, locating, locationStatus>>
       ELSE Result(r, "denied", cached)
  /\ UNCHANGED <<forced, dialog, cached>>

ServicesRead(r) ==
  /\ at[r] = "services"
  /\ \/ At(r, "fix") /\ UNCHANGED <<userLocation, locating, locationStatus>>
     \/ Result(r, "services-disabled", cached)
  /\ UNCHANGED <<forced, canAskAgain, dialog, permission, cached>>

\* A position may never come.
Fixed(r) ==
  /\ at[r] = "fix" /\ cached' = TRUE /\ Result(r, "ok", TRUE)
  /\ UNCHANGED <<forced, canAskAgain, dialog, permission>>

\* The last known position stands for one that failed or is late.
LastKnown(r, status) ==
  \/ cached' = TRUE /\ Result(r, "ok", TRUE)
  \/ UNCHANGED cached /\ Result(r, status, cached)

\* Mutant: a position is awaited for as long as it takes.
AwaitPosition(r) ==
  /\ FALSE
  /\ UNCHANGED vars

\* withLocationTimeout, which a position that is late loses its race to.
TimedOut(r) ==
  /\ at[r] = "fix" /\ LastKnown(r, "timeout")
  /\ UNCHANGED <<forced, canAskAgain, dialog, permission>>

FixFailed(r) ==
  /\ at[r] = "fix" /\ LastKnown(r, "unavailable")
  /\ UNCHANGED <<forced, canAskAgain, dialog, permission>>

Refetched(r) ==
  /\ at[r] = "refetch" /\ At(r, "done") /\ locating' = FALSE
  /\ UNCHANGED <<forced, canAskAgain, dialog, permission, cached, userLocation, locationStatus>>

-----------------------------------------------------------------------------
\* A denied run that cannot ask again opens the settings of the phone.
Settings ==
  /\ \E r \in Runs : forced[r] /\ at[r] = "done" /\ ~canAskAgain[r]
  /\ permission' \in {"granted", "ask", "blocked"}
  /\ UNCHANGED <<at, forced, canAskAgain, dialog, cached, userLocation, locating, locationStatus>>

Expire ==
  /\ cached /\ cached' = FALSE
  /\ UNCHANGED <<at, forced, canAskAgain, dialog, permission, userLocation, locating, locationStatus>>

Proceeds(r) ==
  \/ ProviderAnswers(r) \/ FromCache(r) \/ PermissionRead(r) \/ PromptAnswered(r)
  \/ ServicesRead(r) \/ Refetched(r)

Next ==
  \/ Mount \/ Settings \/ Expire \/ (\E g \in BOOLEAN : Settle(g))
  \/ \E r \in Runs : \/ RefreshLocation(r) \/ EnableLocation(r) \/ Proceeds(r)
                     \/ Fixed(r) \/ TimedOut(r) \/ FixFailed(r)

\* The system's calls answer, the timer fires and the dialogs are answered; a
\* position need not come.
Fairness ==
  /\ WF_vars(\E g \in BOOLEAN : Settle(g))
  /\ \A r \in Runs : WF_vars(Proceeds(r)) /\ WF_vars(TimedOut(r))

Spec == Init /\ [][Next]_vars /\ Fairness

-----------------------------------------------------------------------------
\* The screen never goes on locating: neither for a position that does not come
\* nor for a run whose question another run's has replaced.
LocatingEnds == locating ~> ~locating
=============================================================================
