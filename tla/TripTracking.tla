---------------------------- MODULE TripTracking ----------------------------
(***************************************************************************)
(* The driver's application turning location tracking on and off           *)
(* (frontend/src/location/tripTracking.ts, the trip screen                 *)
(* frontend/app/trip/[id].tsx, the POD screen frontend/app/pod/[id].tsx    *)
(* and the consent dialog BackgroundLocationConsent.tsx), on Android.      *)
(*                                                                         *)
(* JavaScript runs one task at a time, and every `await` lets another one  *)
(* run: a call of startTripLocationTracking (a run) waits for permissions, *)
(* a position, the driver's consent and the network, while a status        *)
(* change, a POD, a visit to another trip or a sign-out may stop tracking  *)
(* (a halt).  A pc names the step that comes next.                         *)
(***************************************************************************)
EXTENDS Integers, FiniteSets

CONSTANTS
  Trips,  \* the driver's trips
  First,  \* the status of each trip at the start
  Runs,   \* bound: calls of startTripLocationTracking in flight at once
  None    \* no trip, no run, no status

Active == {"EN_ROUTE", "UNLOADING"}
Statuses == Active \cup {"ASSIGNED", "DELIVERED"}

ASSUME TrackingAssumption ==
  /\ First \in [Trips -> Statuses]
  /\ None \notin Trips \cup Runs \cup Statuses
  /\ {"home", "pod"} \cap Trips = {}

VARIABLES
  status,     \* the backend's status of each trip
  mounted,    \* trips whose screen is mounted, perhaps under other screens
  shown,      \* the status a trip's screen shows, or None
  loading,    \* trips whose screen waits for a GET
  asking,     \* trips whose effect waits for the permission query
  disclosure, \* trips whose screen shows its own disclosure
  top,        \* the visible screen: "home", "pod" or a trip
  podOf,      \* the trip the POD screen is about, or None
  run,        \* each run: [pc, trip, stale, gone]
  halt,       \* each caller's halt: the step that comes next, or "none"
  watch,      \* trips whose screen's foregroundWatch holds a live watcher
  orphans,    \* trips with a live watcher that no mounted screen holds
  key,        \* ACTIVE_TRIP_KEY
  native,     \* the trip the native service tracks
  expo,       \* whether the Expo background task is registered
  dialog,     \* the run the consent dialog will resolve, or None
  bgGranted,  \* Android's background permission
  signedIn,
  quiet,      \* ghost: a halt has ended and no run has begun since
  overlap,    \* ghost: a run and a halt were in flight together
  refused,    \* ghost: a permission or a disclosure was refused
  late        \* ghost: a run got a watcher after its effect was cleaned up

screen == <<mounted, shown, loading, asking, disclosure>>
place == <<top, podOf, signedIn>>
background == <<key, native, expo>>
foreground == <<watch, orphans>>
ghosts == <<quiet, overlap, refused, late>>
vars == <<status, screen, place, run, halt, background, foreground, dialog,
          bgGranted, ghosts>>

Callers == {"screen", "pod", "signOut"}
Idle == [pc |-> "idle", trip |-> None, stale |-> FALSE, gone |-> FALSE]
Flying == {r \in Runs : run[r].pc # "idle"}
Halting == {c \in Callers : halt[c] # "none"}

Init ==
  /\ status = First
  /\ mounted = {} /\ shown = [t \in Trips |-> None]
  /\ loading = {} /\ asking = {} /\ disclosure = {}
  /\ top = "home" /\ podOf = None /\ signedIn = TRUE
  /\ run = [r \in Runs |-> Idle] /\ halt = [c \in Callers |-> "none"]
  /\ key = None /\ native = None /\ expo = FALSE
  /\ watch = {} /\ orphans = {} /\ dialog = None
  /\ bgGranted \in BOOLEAN
  /\ quiet = FALSE /\ overlap = FALSE /\ refused = FALSE /\ late = FALSE

-----------------------------------------------------------------------------
(* The trip screen. *)

\* A halt begins: it has yet to remove the key.
StartHalt(c) ==
  /\ halt[c] = "none" /\ halt' = [halt EXCEPT ![c] = "key"]
  /\ overlap' = (overlap \/ Flying # {})

\* A run begins, for trip t.
StartRun(t) ==
  /\ \E r \in Runs :
       /\ run[r].pc = "idle"
       /\ run' = [run EXCEPT ![r] = [Idle EXCEPT !.pc = "ask", !.trip = t]]
  /\ quiet' = FALSE /\ overlap' = (overlap \/ Halting # {})

\* The runs once the effect of the screens in T has been cleaned up, and once
\* those screens are unmounted: a run in flight goes on, but no longer for them.
Left(T) == [r \in Runs |-> IF run[r].trip \in T THEN [run[r] EXCEPT !.stale = TRUE]
                                                ELSE run[r]]
Gone(T) == [r \in Runs |-> IF run[r].trip \in T
                             THEN [run[r] EXCEPT !.stale = TRUE, !.gone = TRUE]
                             ELSE run[r]]

\* The driver is on the home screen, and stays there once he signs out.
AtHome == signedIn /\ top = "home" /\ halt["signOut"] = "none"

Open(t) ==
  /\ AtHome /\ t \notin mounted
  /\ top' = t /\ mounted' = mounted \cup {t} /\ loading' = loading \cup {t}
  /\ UNCHANGED <<status, shown, asking, disclosure, podOf, signedIn, run, halt,
                 background, foreground, dialog, bgGranted, ghosts>>

\* The GET answers; when that changes the status the effect runs again: the
\* old one's query is cancelled and its watcher removed, then a terminal status
\* stops tracking and an active one asks for the permission's state.
Show(t, s) ==
  IF shown[t] = s
    THEN UNCHANGED <<shown, asking, disclosure, watch, run, halt, ghosts>>
    ELSE /\ shown' = [shown EXCEPT ![t] = s]
         /\ watch' = watch \ {t} /\ run' = Left({t})
         /\ asking' = IF s \in Active THEN asking \cup {t} ELSE asking \ {t}
         /\ UNCHANGED <<quiet, refused, late>>
         /\ IF s = "DELIVERED"
              THEN disclosure' = disclosure \ {t} /\ StartHalt("screen")
              ELSE UNCHANGED <<disclosure, halt, overlap>>

Load(t) ==
  /\ t \in loading /\ loading' = loading \ {t}
  /\ Show(t, status[t])
  /\ UNCHANGED <<status, mounted, place, background, orphans, dialog, bgGranted>>

\* hasBackgroundLocationPermission answers: start at once, or disclose first.
PermissionKnown(t) ==
  /\ t \in asking /\ asking' = asking \ {t}
  /\ IF bgGranted
       THEN StartRun(t) /\ UNCHANGED disclosure
       ELSE disclosure' = disclosure \cup {t} /\ UNCHANGED <<run, quiet, overlap>>
  /\ UNCHANGED <<status, mounted, shown, loading, place, halt, background,
                 foreground, dialog, bgGranted, refused, late>>

AcceptDisclosure(t) ==
  /\ t \in disclosure /\ top = t /\ disclosure' = disclosure \ {t}
  /\ StartRun(t)
  /\ UNCHANGED <<status, mounted, shown, loading, asking, place, halt, background,
                 foreground, dialog, bgGranted, refused, late>>

DeclineDisclosure(t) ==
  /\ t \in disclosure /\ top = t /\ disclosure' = disclosure \ {t}
  /\ refused' = TRUE
  /\ UNCHANGED <<status, mounted, shown, loading, asking, place, run, halt, background,
                 foreground, dialog, bgGranted, quiet, overlap, late>>

\* advance: the backend moves the trip; the screen reloads when told so.
Advance(t) ==
  /\ top = t /\ t \notin loading /\ shown[t] \in {"ASSIGNED", "EN_ROUTE"}
  /\ status' = [status EXCEPT ![t] = CASE shown[t] # @ -> @
                                      [] @ = "ASSIGNED" -> "EN_ROUTE"
                                      [] OTHER -> "UNLOADING"]
  /\ \/ loading' = loading \cup {t}
     \/ UNCHANGED loading
  /\ UNCHANGED <<mounted, shown, asking, disclosure, place, run, halt, background,
                 foreground, dialog, bgGranted, ghosts>>

\* Mutant: the effect has no cleanup.
BackUncleaned(t) ==
  /\ top = t /\ top' = "home"
  /\ mounted' = mounted \ {t} /\ shown' = [shown EXCEPT ![t] = None]
  /\ loading' = loading \ {t} /\ asking' = asking \ {t}
  /\ disclosure' = disclosure \ {t}
  /\ run' = Gone({t}) /\ watch' = watch \ {t}
  /\ orphans' = orphans \cup (watch \cap {t})
  /\ UNCHANGED <<status, podOf, signedIn, halt, background, dialog, bgGranted, ghosts>>

\* The driver leaves the screen.  Only the effect of an active status has a
\* cleanup; the watcher a late run left under a terminal one stays behind.
Back(t) ==
  /\ top = t /\ top' = "home"
  /\ mounted' = mounted \ {t} /\ shown' = [shown EXCEPT ![t] = None]
  /\ loading' = loading \ {t} /\ asking' = asking \ {t}
  /\ disclosure' = disclosure \ {t}
  /\ run' = Gone({t}) /\ watch' = watch \ {t}
  /\ orphans' = IF t \in watch /\ shown[t] \notin Active THEN orphans \cup {t} ELSE orphans
  /\ UNCHANGED <<status, podOf, signedIn, halt, background, dialog, bgGranted, ghosts>>

\* The screen that a completed POD left under the home screen.
BackToBuried(t) ==
  /\ AtHome /\ t \in mounted /\ top' = t
  /\ UNCHANGED <<status, screen, podOf, signedIn, run, halt, background, foreground,
                 dialog, bgGranted, ghosts>>

-----------------------------------------------------------------------------
(* The POD screen, pushed over the trip's. *)

OpenPod(t) ==
  /\ top = t /\ shown[t] = "UNLOADING" /\ top' = "pod" /\ podOf' = t
  /\ UNCHANGED <<status, screen, signedIn, run, halt, background, foreground, dialog,
                 bgGranted, ghosts>>

\* submit: the backend settles the delivery; when it says so tracking stops.
SubmitPod ==
  /\ top = "pod" /\ halt["pod"] = "none"
  /\ status' = [status EXCEPT ![podOf] = "DELIVERED"]
  /\ \/ status[podOf] = "UNLOADING" /\ StartHalt("pod")
     \/ UNCHANGED <<halt, overlap>>
  /\ UNCHANGED <<screen, place, run, background, foreground, dialog, bgGranted,
                 quiet, refused, late>>

LeavePod ==
  /\ top = "pod" /\ halt["pod"] = "none" /\ top' = podOf /\ podOf' = None
  /\ UNCHANGED <<status, screen, signedIn, run, halt, background, foreground, dialog,
                 bgGranted, ghosts>>

\* signOut, from the home screen.
SignOut ==
  /\ AtHome /\ StartHalt("signOut")
  /\ UNCHANGED <<status, screen, place, run, background, foreground, dialog, bgGranted,
                 quiet, refused, late>>

-----------------------------------------------------------------------------
(* stopTripLocationTracking. *)

RemoveKey(c) ==
  /\ halt[c] = "key" /\ halt' = [halt EXCEPT ![c] = "native"] /\ key' = None
  /\ UNCHANGED <<status, screen, place, run, native, expo, foreground, dialog,
                 bgGranted, ghosts>>

\* Mutant: only the Expo task is stopped.
SkipNative(c) ==
  /\ halt[c] = "native" /\ halt' = [halt EXCEPT ![c] = "expo"]
  /\ UNCHANGED <<status, screen, place, run, background, foreground, dialog,
                 bgGranted, ghosts>>


StopNative(c) ==
  /\ halt[c] = "native" /\ halt' = [halt EXCEPT ![c] = "expo"] /\ native' = None
  /\ UNCHANGED <<status, screen, place, run, key, expo, foreground, dialog,
                 bgGranted, ghosts>>

\* The last step, and what its caller does next: the POD screen is replaced by
\* the home screen, over the trip's; a sign-out drops the token, so that every
\* mounted screen shows nothing.
StopExpo(c) ==
  /\ halt[c] = "expo" /\ halt' = [halt EXCEPT ![c] = "none"]
  /\ expo' = FALSE /\ quiet' = (Flying = {})
  /\ CASE c = "pod" -> /\ top' = "home" /\ podOf' = None
                       /\ UNCHANGED <<signedIn, screen, run, watch>>
       [] c = "signOut" -> /\ signedIn' = FALSE /\ top' = "home"
                           /\ shown' = [t \in Trips |-> None]
                           /\ run' = Left(mounted)
                           /\ watch' = {} /\ asking' = {} /\ loading' = {}
                           /\ UNCHANGED <<podOf, mounted, disclosure>>
       [] OTHER -> UNCHANGED <<place, screen, run, watch>>
  /\ UNCHANGED <<status, key, native, orphans, dialog, bgGranted, overlap, refused,
                 late>>

-----------------------------------------------------------------------------
(* startTripLocationTracking and beginTracking. *)

At(r, pc) == run[r].pc = pc
Goto(r, pc) == run' = [run EXCEPT ![r].pc = pc]
End(r) == run' = [run EXCEPT ![r] = Idle]
others == <<status, screen, place, halt>>

\* Location services and the foreground permission; with both, the key is set.
Ask(r) ==
  /\ At(r, "ask")
  /\ \/ Goto(r, "position") /\ key' = run[r].trip /\ UNCHANGED refused
     \/ End(r) /\ refused' = TRUE /\ UNCHANGED key
  /\ UNCHANGED <<others, native, expo, foreground, dialog, bgGranted, quiet, overlap,
                 late>>

\* The position is read and posted, a failure of either ignored.  Without the
\* background permission the consent dialog follows; its request replaces one
\* that is still unanswered.
Position(r) ==
  /\ At(r, "position")
  /\ IF bgGranted THEN Goto(r, "prompt") /\ UNCHANGED dialog
                  ELSE Goto(r, "consent") /\ dialog' = r
  /\ UNCHANGED <<others, background, foreground, bgGranted, ghosts>>

Settle(granted) ==
  /\ dialog # None /\ dialog' = None
  /\ Goto(dialog, IF granted THEN "prompt" ELSE "watch")
  /\ refused' = (refused \/ ~granted)
  /\ UNCHANGED <<others, background, foreground, bgGranted, quiet, overlap, late>>

PromptBackground(r) ==
  /\ At(r, "prompt")
  /\ \/ Goto(r, "native") /\ bgGranted' = TRUE /\ UNCHANGED refused
     \/ ~bgGranted /\ Goto(r, "watch") /\ refused' = TRUE /\ UNCHANGED bgGranted
  /\ UNCHANGED <<others, background, foreground, dialog, quiet, overlap, late>>

\* Mutant: no fallback when the native service does not start.
StartNativeOnly(r) ==
  /\ At(r, "native")
  /\ \/ signedIn /\ native' = run[r].trip /\ Goto(r, "unexpo")
     \/ End(r) /\ UNCHANGED native
  /\ UNCHANGED <<others, key, expo, foreground, dialog, bgGranted, ghosts>>

\* The native service starts with the stored token; otherwise the Expo task is
\* the fallback.
StartNative(r) ==
  /\ At(r, "native")
  /\ \/ signedIn /\ native' = run[r].trip /\ Goto(r, "unexpo")
     \/ Goto(r, "expo") /\ UNCHANGED native
  /\ UNCHANGED <<others, key, expo, foreground, dialog, bgGranted, ghosts>>

DropExpo(r) ==
  /\ At(r, "unexpo") /\ End(r) /\ expo' = FALSE
  /\ UNCHANGED <<others, key, native, foreground, dialog, bgGranted, ghosts>>

StartExpo(r) ==
  /\ At(r, "expo")
  /\ \/ End(r) /\ expo' = TRUE
     \/ Goto(r, "watch") /\ UNCHANGED expo
  /\ UNCHANGED <<others, key, native, foreground, dialog, bgGranted, ghosts>>

\* The foreground watcher goes to the screen's foregroundWatch, in place of
\* the one it holds, whether or not that screen is still mounted.
Watch(r) ==
  /\ At(r, "watch") /\ End(r)
  /\ IF run[r].gone THEN orphans' = orphans \cup {run[r].trip} /\ UNCHANGED watch
                    ELSE watch' = watch \cup {run[r].trip} /\ UNCHANGED orphans
  /\ late' = (late \/ run[r].stale)
  /\ UNCHANGED <<others, background, dialog, bgGranted, quiet, overlap, refused>>

-----------------------------------------------------------------------------
Starting(r) ==
  \/ Ask(r) \/ Position(r) \/ PromptBackground(r)
  \/ StartNative(r) \/ DropExpo(r) \/ StartExpo(r) \/ Watch(r)

Stopping(c) == RemoveKey(c) \/ StopNative(c) \/ StopExpo(c)

Driver(t) ==
  Open(t) \/ DeclineDisclosure(t) \/ Advance(t) \/ Back(t) \/ BackToBuried(t) \/ OpenPod(t)

Next ==
  \/ \E t \in Trips : Driver(t) \/ Load(t) \/ PermissionKnown(t) \/ AcceptDisclosure(t)
  \/ SubmitPod \/ LeavePod \/ SignOut
  \/ \E granted \in BOOLEAN : Settle(granted)
  \/ \E c \in Callers : Stopping(c)
  \/ \E r \in Runs : Starting(r)

Spec == Init /\ [][Next]_vars

\* Calls of the system and the network answer, and the driver, having opened
\* a trip that asks for it, answers the disclosure and the dialog.
FairSpec ==
  /\ Spec
  /\ \A t \in Trips : /\ WF_vars(Load(t)) /\ WF_vars(PermissionKnown(t))
                      /\ WF_vars(AcceptDisclosure(t) \/ DeclineDisclosure(t))
  /\ WF_vars(\E granted \in BOOLEAN : Settle(granted))
  /\ \A c \in Callers : WF_vars(Stopping(c))
  /\ \A r \in Runs : WF_vars(Starting(r))

-----------------------------------------------------------------------------
PCs == {"idle", "ask", "position", "consent", "prompt", "native",
        "unexpo", "expo", "watch"}

\* Every variable has its type; in particular the consent dialog always answers
\* a run that waits for it, and what a screen holds it holds while mounted.
TypeOK ==
  /\ status \in [Trips -> Statuses] /\ shown \in [Trips -> Statuses \cup {None}]
  /\ {loading, asking, disclosure, watch} \subseteq SUBSET mounted
  /\ mounted \subseteq Trips /\ orphans \subseteq Trips
  /\ top \in Trips \cup {"home", "pod"} /\ podOf \in Trips \cup {None}
  /\ (top = "pod") = (podOf # None)
  /\ run \in [Runs -> [pc : PCs, trip : Trips \cup {None}, stale : BOOLEAN,
                       gone : BOOLEAN]]
  /\ halt \in [Callers -> {"none", "key", "native", "expo"}]
  /\ key \in Trips \cup {None} /\ native \in Trips \cup {None}
  /\ dialog \in Runs \cup {None} /\ (dialog # None => At(dialog, "consent"))
  /\ {expo, bgGranted, signedIn, quiet, overlap, refused, late} \subseteq BOOLEAN

\* Once stopTripLocationTracking has returned and no start was in flight with
\* it, nothing in the background tracks the driver: not the native service, not
\* the Expo task, and no trip is left under ACTIVE_TRIP_KEY.
OffAfterHalt ==
  quiet /\ ~overlap => key = None /\ native = None /\ ~expo

\* A foreground watcher is held by the screen of an active trip and is removed
\* with it, by the effect's cleanup; the exception is the watcher that a start
\* gets after that cleanup.
WatcherEndsWithScreen ==
  ~late => /\ orphans = {}
           /\ \A t \in watch : shown[t] \in Active

Tracked(t) == native = t \/ (expo /\ key = t) \/ t \in watch \cup orphans

OnlyActive(t) ==
  /\ status[t] \in Active
  /\ \A u \in Trips \ {t} : status[u] \notin Active /\ u \notin mounted

\* A driver who stays on the screen of his one active trip, has refused nothing
\* and meets no stop is tracked in the end, by one of the three mechanisms.
KeepsTracking ==
  \A t \in Trips :
    <>[](top = t /\ shown[t] \in Active /\ OnlyActive(t) /\ ~overlap /\ ~refused)
      => <>[]Tracked(t)
=============================================================================
