------------------------------- MODULE UseGet -------------------------------
(***************************************************************************)
(* The hook every screen of the application reads the backend with         *)
(* (frontend/src/hooks/useApi.ts): one GET bound to a request key (a path  *)
(* and a token), reloaded by a refresh, by the tracking screen's poll and  *)
(* by the screen's own writes, over the request of src/api/client.ts.      *)
(*                                                                         *)
(* A load is numbered by requestId.  Its answer is read on the backend in  *)
(* one step and lands in another; loads, renders and writes happen between.*)
(* What the backend holds is a version, which every write increases.       *)
(***************************************************************************)
EXTENDS Integers

CONSTANTS
  Keys,       \* request keys: a path under a token
  None,       \* no key: signed out, or no path yet
  Handlers,   \* handlers of the screen that write and then refetch
  MaxLoads,   \* bound: calls of load
  MaxVersion  \* bound: what the backend goes through

ASSUME UseGetAssumption ==
  /\ None \notin Keys
  /\ MaxLoads \in Nat \ {0} /\ MaxVersion \in Nat \ {0}

Ids == 1..MaxLoads
MaybeKey == Keys \cup {None}

VARIABLES
  key,       \* requestKey of the last render
  effect,    \* that render's effect has still to run
  st,        \* the hook's state
  requestId,
  request,   \* the requests, by the number of their load
  handler,   \* the handlers: [pc, key]; key is the one of their render
  version,   \* backend: the version it holds
  wrote,     \* ghost: the version held when a handler last refetched the key
  usurped    \* ghost: a handler refetched with the key of an older render

screen == <<key, effect, st, requestId>>
vars == <<screen, request, handler, version, wrote, usurped>>

\* Data is the version it shows and the key it was fetched for; version 0 is none.
NoData == [of |-> None, at |-> 0]
NoState == [key |-> None, data |-> NoData, loading |-> FALSE, error |-> FALSE]
NoRequest == [pc |-> "none", key |-> None, at |-> 0]

\* What the screen sees.
Current == st.key = key
Visible == IF Current THEN st.data ELSE NoData
Loading == key # None /\ (~Current \/ st.loading)
Failed == Current /\ st.error

Init ==
  /\ key \in MaybeKey /\ effect = TRUE
  /\ st = [key |-> None, data |-> NoData, loading |-> key # None, error |-> FALSE]
  /\ requestId = 0 /\ request = [n \in Ids |-> NoRequest]
  /\ handler = [h \in Handlers |-> [pc |-> "idle", key |-> None]]
  /\ version = 1 /\ wrote = [k \in Keys |-> 0] /\ usurped = FALSE

-----------------------------------------------------------------------------
(* load: the previous request is aborted, the state taken over, and the GET  *)
(* sent.  An answer that has already come in can no longer be aborted.       *)

\* Mutant: the state is not bound to the key.
KeptAlways(k) == st.data

Kept(k) == IF st.key = k THEN st.data ELSE NoData

\* The requests once the active one is aborted.
Aborted == [n \in Ids |-> IF n = requestId /\ request[n].pc = "sent"
                            THEN [request[n] EXCEPT !.pc = "failed"] ELSE request[n]]

\* Mutant: a load without a spinner is not numbered while another one runs.
LoadKeyShared(k, showSpinner) ==
  /\ requestId < MaxLoads
  /\ IF k = None
       THEN st' = NoState /\ request' = Aborted /\ requestId' = requestId + 1
       ELSE /\ st' = [key |-> k, data |-> Kept(k), error |-> FALSE,
                      loading |-> showSpinner \/ st.key # k \/ st.loading]
            /\ IF ~showSpinner /\ requestId # 0 /\ request[requestId].pc # "none"
                 THEN UNCHANGED <<request, requestId>>
                 ELSE /\ requestId' = requestId + 1
                      /\ request' = [Aborted EXCEPT ![requestId + 1] =
                                       [pc |-> "sent", key |-> k, at |-> 0]]

LoadKey(k, showSpinner) ==
  /\ requestId < MaxLoads /\ requestId' = requestId + 1
  /\ IF k = None
       THEN st' = NoState /\ request' = Aborted
       ELSE /\ st' = [key |-> k, data |-> Kept(k), error |-> FALSE,
                      loading |-> showSpinner \/ st.key # k \/ st.loading]
            /\ request' = [Aborted EXCEPT ![requestId + 1] =
                             [pc |-> "sent", key |-> k, at |-> 0]]

-----------------------------------------------------------------------------
(* The screen. *)

\* Another path or another session is rendered.
Render(k) ==
  /\ k # key /\ key' = k /\ effect' = TRUE
  /\ requestId < MaxLoads
  /\ UNCHANGED <<st, requestId, request, handler, version, wrote, usurped>>

\* The effect of that render; its predecessor's cleanup aborts as load does.
RunEffect ==
  /\ effect /\ effect' = FALSE /\ LoadKey(key, TRUE)
  /\ UNCHANGED <<key, handler, version, wrote, usurped>>

\* reload() or refetch() from the current render: a pull to refresh, a retry.
Refresh(showSpinner) ==
  /\ ~effect /\ LoadKey(key, showSpinner)
  /\ UNCHANGED <<key, effect, handler, version, wrote, usurped>>

\* The tracking screen polls while what it shows is active.
Poll ==
  /\ ~effect /\ Visible # NoData /\ LoadKey(key, FALSE)
  /\ UNCHANGED <<key, effect, handler, version, wrote, usurped>>

\* A handler sends its write, holding the refetch of its render.
Submit(h) ==
  /\ ~effect /\ key # None /\ handler[h].pc = "idle"
  /\ handler' = [handler EXCEPT ![h] = [pc |-> "sent", key |-> key]]
  /\ UNCHANGED <<screen, request, version, wrote, usurped>>

\* The backend takes it, or it fails; a failed one is not followed by a load.
Write(h) ==
  /\ handler[h].pc = "sent"
  /\ \/ /\ version < MaxVersion /\ version' = version + 1
        /\ handler' = [handler EXCEPT ![h].pc = "done"]
     \/ /\ handler' = [handler EXCEPT ![h] = [pc |-> "idle", key |-> None]]
        /\ UNCHANGED version
  /\ UNCHANGED <<screen, request, wrote, usurped>>

\* (Within the bound, the last load is left to a pending effect.)
Refetch(h) ==
  /\ handler[h].pc = "done" /\ (effect => requestId + 1 < MaxLoads)
  /\ handler' = [handler EXCEPT ![h] = [pc |-> "idle", key |-> None]]
  /\ LoadKey(handler[h].key, FALSE)
  /\ wrote' = [wrote EXCEPT ![handler[h].key] = version]
  /\ usurped' = (usurped \/ handler[h].key # key)
  /\ UNCHANGED <<key, effect, version>>

-----------------------------------------------------------------------------
(* The request. *)

\* The backend answers with what it holds; or the request fails, or times out.
Answer(n) ==
  /\ request[n].pc = "sent"
  /\ \/ request' = [request EXCEPT ![n].pc = "answered", ![n].at = version]
     \/ request' = [request EXCEPT ![n].pc = "failed"]
  /\ UNCHANGED <<screen, handler, version, wrote, usurped>>

\* Mutant: a failure of the last load leaves the spinner.
LandSpinning(n) ==
  LET r == request[n] IN
  /\ r.pc \in {"answered", "failed"}
  /\ request' = [request EXCEPT ![n] = NoRequest]
  /\ IF n # requestId THEN UNCHANGED st
     ELSE IF r.pc = "answered"
       THEN st' = [key |-> r.key, data |-> [of |-> r.key, at |-> r.at],
                   loading |-> FALSE, error |-> FALSE]
       ELSE st' = [key |-> r.key, data |-> Kept(r.key), loading |-> st.loading, error |-> TRUE]
  /\ UNCHANGED <<key, effect, requestId, handler, version, wrote, usurped>>

\* The outcome lands; only the last load's is taken.
Land(n) ==
  LET r == request[n] IN
  /\ r.pc \in {"answered", "failed"}
  /\ request' = [request EXCEPT ![n] = NoRequest]
  /\ IF n # requestId THEN UNCHANGED st
     ELSE IF r.pc = "answered"
       THEN st' = [key |-> r.key, data |-> [of |-> r.key, at |-> r.at],
                   loading |-> FALSE, error |-> FALSE]
       ELSE st' = [key |-> r.key, data |-> Kept(r.key), loading |-> FALSE, error |-> TRUE]
  /\ UNCHANGED <<key, effect, requestId, handler, version, wrote, usurped>>

\* Somebody else writes.
Elsewhere ==
  /\ version < MaxVersion /\ version' = version + 1
  /\ UNCHANGED <<screen, request, handler, wrote, usurped>>

Next ==
  \/ \E k \in MaybeKey : Render(k)
  \/ RunEffect \/ Poll \/ Elsewhere
  \/ \E showSpinner \in BOOLEAN : Refresh(showSpinner)
  \/ \E h \in Handlers : Submit(h) \/ Write(h) \/ Refetch(h)
  \/ \E n \in Ids : Answer(n) \/ Land(n)

Spec == Init /\ [][Next]_vars

\* React runs the effect of a render, and a request ends within its timeout.
FairSpec ==
  /\ Spec /\ WF_vars(RunEffect)
  /\ \A n \in Ids : WF_vars(Answer(n)) /\ WF_vars(Land(n))

-----------------------------------------------------------------------------
Request == [pc : {"none", "sent", "answered", "failed"}, key : MaybeKey, at : 0..MaxVersion]
Data == [of : MaybeKey, at : 0..MaxVersion]

\* Every variable has its type.
TypeOK ==
  /\ key \in MaybeKey /\ effect \in BOOLEAN
  /\ st \in [key : MaybeKey, data : Data, loading : BOOLEAN, error : BOOLEAN]
  /\ requestId \in 0..MaxLoads /\ request \in [Ids -> Request]
  /\ handler \in [Handlers -> [pc : {"idle", "sent", "done"}, key : MaybeKey]]
  /\ version \in 1..MaxVersion
  /\ wrote \in [Keys -> 0..MaxVersion] /\ usurped \in BOOLEAN

\* What a screen shows was fetched for the path and the session it is rendered
\* with, however late an answer or a handler of an older render comes.
DataOfKey == Visible # NoData => Visible.of = key

\* A screen that has settled shows at least what the backend held when the
\* screen's own write of that key had been answered: a slower answer from
\* before the write is not taken.
ReadsItsWrites ==
  key # None /\ ~effect /\ Current /\ ~Loading /\ ~Failed
    /\ (\A n \in Ids : n = requestId => request[n].pc = "none") =>
    Visible.at >= wrote[key]

\* A screen that stays on one key stops loading, unless a handler of an older
\* render takes the hook's state over for its own key.
SpinnerEnds ==
  \A k \in Keys : <>[](key = k /\ ~usurped) => []<>(~Loading)
=============================================================================
