------------------------ MODULE MobileScreensProofs ------------------------
(***************************************************************************)
(* Theorems about the mobile application's screens, as MCMobileScreens     *)
(* composes them.  What a screen shows belongs to its key, and is no older *)
(* than the screen's own last write (UseGet); the records of the session   *)
(* agree, and pushes follow it (MobileSession, one login at a time: the    *)
(* login screen's `loading` keeps a second verification from being sent,   *)
(* LoginScreen.tsx:218, :233, :248); a complete code is on its way, and is *)
(* sent as it is shown (LoginFlow); a proof of delivery is what was signed *)
(* for (DeliveryScreens).  They hold for any number of keys, handlers,     *)
(* loads, versions, tokens, people, calls, codes, forms and presses.       *)
(***************************************************************************)
EXTENDS MCMobileScreens, TLAPS

\* The state's data is of its key.
Bound == st.data # NoData => st.data.of = st.key

\* The last load serves the state: it asked for the state's key, and neither
\* its answer nor what it has left behind is older than the last own write.
Serves ==
  \A n \in Ids : n = requestId =>
    /\ request[n].pc # "none" => request[n].key = st.key
    /\ st.key # None /\ request[n].pc = "answered" => request[n].at >= wrote[st.key]
    /\ st.key # None /\ request[n].pc = "none" =>
         st.error \/ st.data.at >= wrote[st.key]

Unsent == \A n \in Ids : n > requestId => request[n] = NoRequest
Loaded == st.key # None => requestId >= 1
Written == \A k \in Keys : wrote[k] <= version

IInv == TypeOK /\ Bound /\ Serves /\ Unsent /\ Loaded /\ Written

States == [key : MaybeKey, data : Data, loading : BOOLEAN, error : BOOLEAN]

\* The empty values of the hook's state are of their types.
LEMMA Types ==
  /\ NoData \in Data /\ NoState \in States /\ NoRequest \in Request
  /\ NoData.at = 0 /\ NoState.key = None /\ NoState.data = NoData
  /\ NoRequest.pc = "none"
  BY UseGetAssumption DEF NoData, NoState, NoRequest, Data, States, Request, MaybeKey

\* A state made of its four parts is a state.
LEMMA StateType ==
  ASSUME NEW k \in MaybeKey, NEW d \in Data, NEW l \in BOOLEAN, NEW e \in BOOLEAN
  PROVE  [key |-> k, data |-> d, loading |-> l, error |-> e] \in States
  BY DEF States

\* The initial states satisfy the inductive invariant.
LEMMA InitInv == Init => IInv
  <1> SUFFICES ASSUME Init PROVE IInv
    OBVIOUS
  <1>1. st \in States /\ st.key = None /\ st.data = NoData
    <2>1. None \in MaybeKey /\ FALSE \in BOOLEAN /\ (key # None) \in BOOLEAN
      BY DEF MaybeKey
    <2> QED
      BY <2>1, Types, StateType DEF Init
  <1>2. request \in [Ids -> Request] /\ \A n \in Ids : request[n] = NoRequest
    BY Types DEF Init
  <1>3. None \in MaybeKey
    BY DEF MaybeKey
  <1>4. handler \in [Handlers -> [pc : {"idle", "sent", "done"}, key : MaybeKey]]
    BY <1>3 DEF Init
  <1>5. /\ 0 \in 0..MaxLoads /\ 0 \in 0..MaxVersion /\ 1 \in 1..MaxVersion
        /\ \A n \in Ids : n # 0
    BY UseGetAssumption DEF Ids
  <1>6. wrote \in [Keys -> 0..MaxVersion]
    BY <1>5 DEF Init
  <1>7. TypeOK
    BY <1>1, <1>2, <1>4, <1>5, <1>6 DEF Init, TypeOK, States
  <1>8. Bound /\ Serves /\ Unsent /\ Loaded
    BY <1>1, <1>2, <1>5 DEF Init, Bound, Serves, Unsent, Loaded
  <1>9. Written
    <2>1. version \in 1..MaxVersion /\ wrote = [k \in Keys |-> 0]
      BY <1>5 DEF Init
    <2>2. \A k \in Keys : wrote[k] = 0
      BY <2>1
    <2>3. 0 <= version
      BY <2>1
    <2> QED
      BY <2>2, <2>3 DEF Written
  <1> QED
    BY <1>7, <1>8, <1>9 DEF IInv

-----------------------------------------------------------------------------
(* load, whoever calls it. *)

\* A load keeps the types.
LEMMA LoadType ==
  ASSUME TypeOK, NEW k \in MaybeKey, NEW showSpinner \in BOOLEAN,
         LoadKey(k, showSpinner)
  PROVE  /\ st' \in States /\ requestId' \in 0..MaxLoads
         /\ request' \in [Ids -> Request]
  <1>1. requestId \in 0..MaxLoads /\ requestId < MaxLoads /\ requestId' = requestId + 1
    BY DEF LoadKey, TypeOK
  <1>2. requestId' \in 0..MaxLoads
    BY <1>1, UseGetAssumption
  <1>3. Aborted \in [Ids -> Request]
    BY DEF Aborted, TypeOK, Request
  <1>4. Kept(k) \in Data /\ st.loading \in BOOLEAN
    BY Types DEF Kept, TypeOK
  <1>5. CASE k = None
    BY <1>2, <1>3, <1>5, Types DEF LoadKey
  <1>6. CASE k # None
    <2>1. [pc |-> "sent", key |-> k, at |-> 0] \in Request
      BY UseGetAssumption DEF Request
    <2>2. request' \in [Ids -> Request]
      BY <1>3, <1>6, <2>1 DEF LoadKey
    <2>3. st' \in States
      <3>1. (showSpinner \/ st.key # k \/ st.loading) \in BOOLEAN /\ FALSE \in BOOLEAN
        OBVIOUS
      <3> QED
        BY <1>4, <1>6, <3>1, StateType DEF LoadKey
    <2> QED
      BY <1>2, <2>2, <2>3
  <1> QED
    BY <1>5, <1>6

\* A load keeps each request bound to the key it was sent for.
LEMMA LoadStep ==
  ASSUME IInv, NEW k \in MaybeKey, NEW showSpinner \in BOOLEAN,
         LoadKey(k, showSpinner)
  PROVE  Bound' /\ Serves' /\ Unsent' /\ Loaded'
  <1>1. /\ requestId \in 0..MaxLoads /\ requestId < MaxLoads
        /\ requestId' = requestId + 1 /\ requestId' \in Ids
    BY UseGetAssumption DEF LoadKey, IInv, TypeOK, Ids
  <1>2. Loaded'
    BY <1>1 DEF Loaded
  <1>3. \A n \in Ids : n > requestId => Aborted[n] = NoRequest
    BY <1>1 DEF IInv, Unsent, Aborted, Ids
  <1>4. CASE k = None
    <2>1. st' = NoState /\ request' = Aborted
      BY <1>4 DEF LoadKey
    <2>2. \A n \in Ids : n = requestId' => request'[n].pc = "none"
      BY <1>1, <1>3, <2>1, Types
    <2>3. Unsent'
      BY <1>1, <1>3, <2>1 DEF Unsent, Ids
    <2>4. Bound' /\ Serves'
      BY <2>1, <2>2, Types DEF Bound, Serves
    <2> QED
      BY <1>2, <2>3, <2>4
  <1>5. CASE k # None
    <2> DEFINE r == [pc |-> "sent", key |-> k, at |-> 0]
    <2>1. /\ st' = [key |-> k, data |-> Kept(k), error |-> FALSE,
                    loading |-> showSpinner \/ st.key # k \/ st.loading]
          /\ request' = [Aborted EXCEPT ![requestId + 1] = r]
      BY <1>5 DEF LoadKey
    <2>2. \A n \in Ids : request'[n] = IF n = requestId' THEN r ELSE Aborted[n]
      BY <1>1, <2>1 DEF Aborted
    <2>3. Bound' /\ st'.key = k
      BY <2>1 DEF Bound, Kept, IInv
    <2>4. Serves'
      BY <2>2, <2>3 DEF Serves
    <2>5. Unsent'
      BY <1>1, <1>3, <2>2 DEF Unsent, Ids
    <2> QED
      BY <1>2, <2>3, <2>4, <2>5
  <1> QED
    BY <1>4, <1>5

-----------------------------------------------------------------------------
\* Every step keeps the inductive invariant.
LEMMA NextInv == IInv /\ [Next]_vars => IInv'
  <1> SUFFICES ASSUME IInv, [Next]_vars PROVE IInv'
    OBVIOUS
  <1> USE DEF IInv
  <1>t. /\ key \in MaybeKey /\ effect \in BOOLEAN /\ st \in States
        /\ requestId \in 0..MaxLoads /\ request \in [Ids -> Request]
        /\ handler \in [Handlers -> [pc : {"idle", "sent", "done"}, key : MaybeKey]]
        /\ version \in 1..MaxVersion /\ wrote \in [Keys -> 0..MaxVersion]
        /\ usurped \in BOOLEAN
    BY DEF TypeOK, States
  <1>1. ASSUME NEW k \in MaybeKey, Render(k) PROVE IInv'
    BY <1>1 DEF Render, TypeOK, Bound, Serves, Unsent, Loaded, Written
  <1>2. ASSUME NEW k \in MaybeKey, NEW b \in BOOLEAN, LoadKey(k, b),
               UNCHANGED <<key, handler, version, wrote, usurped>>, effect' \in BOOLEAN
        PROVE  IInv'
    <2>1. st' \in States /\ requestId' \in 0..MaxLoads /\ request' \in [Ids -> Request]
      BY <1>2, LoadType
    <2>2. TypeOK'
      BY <1>2, <1>t, <2>1 DEF TypeOK, States
    <2>3. Bound' /\ Serves' /\ Unsent' /\ Loaded'
      BY <1>2, LoadStep
    <2>4. Written'
      BY <1>2 DEF Written
    <2> QED
      BY <2>2, <2>3, <2>4
  <1>3. CASE RunEffect
    BY <1>2, <1>3, <1>t DEF RunEffect
  <1>4. CASE Poll
    BY <1>2, <1>4, <1>t DEF Poll
  <1>5. ASSUME NEW b \in BOOLEAN, Refresh(b) PROVE IInv'
    BY <1>2, <1>5, <1>t DEF Refresh
  <1>6. CASE Elsewhere
    <2>1. version' \in 1..MaxVersion /\ version' > version
      BY <1>6, <1>t, UseGetAssumption DEF Elsewhere
    <2>2. TypeOK'
      BY <1>6, <1>t, <2>1 DEF Elsewhere, TypeOK, screen, States
    <2>3. Written'
      BY <1>6, <1>t, <2>1 DEF Elsewhere, Written
    <2>4. Bound' /\ Serves' /\ Unsent' /\ Loaded'
      BY <1>6 DEF Elsewhere, screen, Bound, Serves, Unsent, Loaded
    <2> QED
      BY <2>2, <2>3, <2>4
  <1>7. ASSUME NEW h \in Handlers, Submit(h) PROVE IInv'
    <2>1. handler' \in [Handlers -> [pc : {"idle", "sent", "done"}, key : MaybeKey]]
      BY <1>7, <1>t DEF Submit
    <2>2. TypeOK'
      BY <1>7, <1>t, <2>1 DEF Submit, TypeOK, screen, States
    <2>3. Bound' /\ Serves' /\ Unsent' /\ Loaded' /\ Written'
      BY <1>7 DEF Submit, screen, Bound, Serves, Unsent, Loaded, Written
    <2> QED
      BY <2>2, <2>3
  <1>8. ASSUME NEW h \in Handlers, Write(h) PROVE IInv'
    <2>1. handler' \in [Handlers -> [pc : {"idle", "sent", "done"}, key : MaybeKey]]
      BY <1>8, <1>t DEF Write, MaybeKey
    <2>2. version' \in 1..MaxVersion /\ version' >= version
      BY <1>8, <1>t, UseGetAssumption DEF Write
    <2>3. TypeOK'
      BY <1>8, <1>t, <2>1, <2>2 DEF Write, TypeOK, screen, States
    <2>4. Written'
      BY <1>8, <1>t, <2>2 DEF Write, Written
    <2>5. Bound' /\ Serves' /\ Unsent' /\ Loaded'
      BY <1>8 DEF Write, screen, Bound, Serves, Unsent, Loaded
    <2> QED
      BY <2>3, <2>4, <2>5
  <1>9. ASSUME NEW h \in Handlers, Refetch(h) PROVE IInv'
    <2> DEFINE k == handler[h].key
    <2>1. k \in MaybeKey /\ LoadKey(k, FALSE)
      BY <1>9, <1>t DEF Refetch
    <2> HIDE DEF k
    <2>2. st' \in States /\ requestId' \in 0..MaxLoads /\ request' \in [Ids -> Request]
      BY <2>1, LoadType
    <2>3. handler' \in [Handlers -> [pc : {"idle", "sent", "done"}, key : MaybeKey]]
      BY <1>9, <1>t DEF Refetch, MaybeKey
    <2>4. /\ wrote' = [wrote EXCEPT ![k] = version] /\ UNCHANGED <<key, effect, version>>
          /\ usurped' \in BOOLEAN
      BY <1>9, <1>t DEF Refetch, k
    <2>5. wrote' \in [Keys -> 0..MaxVersion]
      <3>1. version \in 0..MaxVersion
        BY <1>t, UseGetAssumption
      <3>2. wrote \in [Keys -> 0..MaxVersion] /\ wrote' = [wrote EXCEPT ![k] = version]
        BY <1>t, <2>4
      <3> QED
        BY <3>1, <3>2
    <2>6. TypeOK'
      BY <1>t, <2>2, <2>3, <2>4, <2>5 DEF TypeOK, States
    <2>7. Bound' /\ Serves' /\ Unsent' /\ Loaded'
      BY <2>1, LoadStep
    <2>8. Written'
      BY <1>t, <2>4 DEF Written
    <2> QED
      BY <2>6, <2>7, <2>8
  <1>10. ASSUME NEW n \in Ids, Answer(n) PROVE IInv'
    <2>1. request' \in [Ids -> Request]
      BY <1>10, <1>t DEF Answer, Request
    <2>2. TypeOK'
      BY <1>10, <1>t, <2>1 DEF Answer, TypeOK, screen, States
    <2>3. \A m \in Ids \ {n} : request'[m] = request[m]
      BY <1>10, <1>t DEF Answer
    <2>4. /\ request'[n].pc \in {"answered", "failed"} /\ request[n].pc = "sent"
          /\ request'[n].key = request[n].key
          /\ request'[n].pc = "answered" => request'[n].at = version
      BY <1>10, <1>t DEF Answer, Request
    <2>5. UNCHANGED <<st, requestId, wrote, version>>
      BY <1>10 DEF Answer, screen
    <2>6. Serves'
      <3> SUFFICES ASSUME NEW m \in Ids, m = requestId
                   PROVE  /\ request'[m].pc # "none" => request'[m].key = st.key
                          /\ st.key # None /\ request'[m].pc = "answered" =>
                               request'[m].at >= wrote[st.key]
                          /\ st.key # None /\ request'[m].pc = "none" =>
                               st.error \/ st.data.at >= wrote[st.key]
        BY <2>5 DEF Serves
      <3>1. CASE m = n
        <4>1. st.key # None => version >= wrote[st.key]
          BY <1>t DEF Written, States, MaybeKey
        <4> QED
          BY <2>4, <3>1, <4>1 DEF Serves
      <3>2. CASE m # n
        BY <2>3, <3>2 DEF Serves
      <3> QED
        BY <3>1, <3>2
    <2>7. Unsent'
      BY <2>3, <2>4, <2>5, Types DEF Unsent
    <2>8. Bound' /\ Loaded' /\ Written'
      BY <2>5 DEF Bound, Loaded, Written
    <2> QED
      BY <2>2, <2>6, <2>7, <2>8
  <1>11. ASSUME NEW n \in Ids, Land(n) PROVE IInv'
    <2> DEFINE r == request[n]
               d == [of |-> r.key, at |-> r.at]
    <2>1. r \in Request /\ r.pc \in {"answered", "failed"}
      BY <1>11, <1>t DEF Land
    <2>2. request' = [request EXCEPT ![n] = NoRequest]
      BY <1>11 DEF Land
    <2>3. request' \in [Ids -> Request]
      BY <1>t, <2>2, Types
    <2>4. UNCHANGED <<key, effect, requestId, handler, version, wrote, usurped>>
      BY <1>11 DEF Land
    <2>5. CASE n # requestId
      <3>1. UNCHANGED st
        BY <1>11, <2>5 DEF Land
      <3>2. TypeOK'
        BY <1>t, <2>3, <2>4, <3>1 DEF TypeOK, States
      <3>3. Serves'
        BY <1>t, <2>2, <2>4, <2>5, <3>1 DEF Serves
      <3>4. Unsent'
        BY <1>t, <2>2, <2>4 DEF Unsent
      <3>5. Bound' /\ Loaded' /\ Written'
        BY <2>4, <3>1 DEF Bound, Loaded, Written
      <3> QED
        BY <3>2, <3>3, <3>4, <3>5
    <2>6. CASE n = requestId
      <3>1. /\ st' \in States /\ st'.key = r.key
            /\ st'.data = NoData \/ st'.data.of = r.key
            /\ \/ st'.error
               \/ r.pc = "answered" /\ st'.data.at = r.at
        <4>1. CASE r.pc = "answered"
          <5>1. st' = [key |-> r.key, data |-> d, loading |-> FALSE, error |-> FALSE]
            BY <1>11, <2>6, <4>1 DEF Land
          <5>2. d \in Data
            BY <2>1 DEF Request, Data
          <5> QED
            BY <2>1, <4>1, <5>1, <5>2 DEF States, Request
        <4>2. CASE r.pc = "failed"
          <5>1. st' = [key |-> r.key, data |-> Kept(r.key), loading |-> FALSE, error |-> TRUE]
            BY <1>11, <2>6, <4>2 DEF Land
          <5>2. Kept(r.key) \in Data
            BY <1>t, Types DEF Kept, States
          <5>3. Kept(r.key) = NoData \/ Kept(r.key).of = r.key
            BY DEF Kept, Bound
          <5> QED
            BY <2>1, <5>1, <5>2, <5>3 DEF States, Request
        <4> QED
          BY <2>1, <4>1, <4>2
      <3>2. TypeOK'
        BY <1>t, <2>3, <2>4, <3>1 DEF TypeOK, States
      <3>3. r.key = st.key
        BY <2>1, <2>6 DEF Serves
      <3>4. Serves'
        <4>1. request'[n].pc = "none"
          BY <1>t, <2>2, Types
        <4>2. st.key # None /\ ~st'.error => st'.data.at >= wrote[st.key]
          BY <2>6, <3>1 DEF Serves
        <4> QED
          BY <2>4, <2>6, <3>1, <3>3, <4>1, <4>2 DEF Serves
      <3>5. Unsent'
        BY <1>t, <2>2, <2>4 DEF Unsent
      <3>6. Bound' /\ Loaded' /\ Written'
        BY <2>4, <3>1, <3>3 DEF Bound, Loaded, Written
      <3> QED
        BY <3>2, <3>4, <3>5, <3>6
    <2> QED
      BY <2>5, <2>6
  <1>12. CASE UNCHANGED vars
    BY <1>12 DEF vars, screen, TypeOK, Bound, Serves, Unsent, Loaded, Written
  <1> QED
    BY <1>1, <1>3, <1>4, <1>5, <1>6, <1>7, <1>8, <1>9, <1>10, <1>11, <1>12 DEF Next

\* The invariant of the hook holds throughout.
LEMMA Invariance == Spec => []IInv
  BY InitInv, NextInv, PTL DEF Spec

\* The hook's variables keep their types (useApi.ts).
THEOREM TypeCorrect == Spec => []TypeOK
  <1>1. IInv => TypeOK
    BY DEF IInv
  <1> QED
    BY Invariance, <1>1, PTL

\* What a screen shows was fetched for the path and the session it is rendered
\* with: the state is bound to its key, and the render compares the two.
THEOREM ShowsItsKey == Spec => []DataOfKey
  <1>1. IInv => DataOfKey
    BY DEF IInv, Bound, DataOfKey, Visible, Current
  <1> QED
    BY Invariance, <1>1, PTL

\* Once settled, a screen shows no less than its own last write: only the last
\* load's answer is taken, and the write's refetch is numbered after it.
THEOREM ShowsItsWrites == Spec => []ReadsItsWrites
  <1>1. IInv => ReadsItsWrites
    <2> SUFFICES ASSUME IInv, key # None, Current, ~Loading, ~Failed,
                        \A n \in Ids : n = requestId => request[n].pc = "none"
                 PROVE  Visible.at >= wrote[key]
      BY DEF ReadsItsWrites
    <2>1. st.key = key /\ ~st.error /\ Visible = st.data
      BY DEF Current, Failed, Visible
    <2>2. requestId \in Ids
      BY <2>1, UseGetAssumption DEF IInv, TypeOK, Loaded, Ids
    <2> QED
      BY <2>1, <2>2 DEF IInv, Serves
  <1> QED
    BY Invariance, <1>1, PTL

-----------------------------------------------------------------------------
(* The session, as the run composes it with the other screens.             *)

\* The flows are told apart, and no token is the absent one.
Named ==
  /\ None \notin Tokens /\ Saved \subseteq Tokens
  /\ {"boot", "out"} \cap (Logins \cup Refreshes) = {}
  /\ Logins \cap Refreshes = {}

OneLogin == \A a, b \in Logins : a = b

PCs == {"idle", "read", "sent", "ok", "denied", "lost", "store",
        "remove", "clear", "unregister", "logout"}

FlowRec == [pc : PCs, tok : Session!MaybeToken]

Active(f) == flow[f].pc # "idle"
Waiting == {"sent", "ok", "denied", "lost"}

\* Nobody made up a token.
Known == {stored, token} \subseteq issued \cup {None}

\* Which awaits each flow has.
Places ==
  /\ flow["boot"].pc \in {"idle", "read", "clear"} \cup Waiting
  /\ flow["out"].pc \in {"idle", "remove", "clear", "unregister", "logout"}
  /\ \A l \in Logins : flow[l].pc \in {"idle", "store", "clear"} \cup Waiting
  /\ \A r \in Refreshes : flow[r].pc \in {"idle", "clear"} \cup Waiting

\* Nothing else runs during the start-up.
BootAlone ==
  /\ hydrating <=> Active("boot")
  /\ hydrating => token = None /\ \A f \in Session!Flows \ {"boot"} : ~Active(f)

\* A login runs while nobody is signed in, with a token no other flow has.
LoginFresh ==
  \A l \in Logins : Active(l) =>
    /\ token = None
    /\ \A g \in Session!Flows \ {l} : Active(g) => flow[g].tok # flow[l].tok

\* A sign-out is through with its token.
Closed ==
  /\ Session!SignOutFailsClosed
  /\ Session!At("out", "clear") => flow["out"].tok # stored

\* What a start-up or a login has stored is there until it is taken over, and the
\* stored token is the state's unless a drop is between its two writes.
Agree ==
  /\ user = token
  /\ \A f \in {"boot"} \cup Logins : flow[f].pc \in Waiting => stored = flow[f].tok
  /\ token # None => stored = token \/ (stored = None /\ \E f \in Session!Flows : Session!At(f, "clear"))

\* Whoever gets the pushes is signed in, starting up, or about to be unregistered.
Follows ==
  /\ registering \subseteq {token}
  /\ \/ device = None
     \/ token # None /\ device = MCOwner[token]
     \/ Session!At("boot", "read") /\ stored # None /\ device = MCOwner[stored]
     \/ Active("boot") /\ ~Session!At("boot", "read") /\ device = MCOwner[flow["boot"].tok]
     \/ Session!At("out", "unregister") /\ device = MCOwner[flow["out"].tok]

SessionInv ==
  /\ Session!TypeOK /\ Known /\ Places /\ BootAlone /\ LoginFresh /\ Closed
  /\ ~crossed => Agree
  /\ ~crossed /\ ~left => Follows

-----------------------------------------------------------------------------
\* The flows are functions from names to records.
LEMMA FlowType == ASSUME Session!TypeOK PROVE flow \in [Session!Flows -> FlowRec]
  BY DEF Session!TypeOK, FlowRec, PCs, Session!MaybeToken

\* Flow f moves to pc with token tok; the others stay where they are.
Moved(f, pc, tok) ==
  /\ flow' \in [Session!Flows -> FlowRec]
  /\ flow'[f].pc = pc /\ flow'[f].tok = tok
  /\ \A g \in Session!Flows \ {f} : flow'[g] = flow[g]

\* One flow goes to its next await.
LEMMA GotoMoves ==
  ASSUME Session!TypeOK, NEW f \in Session!Flows, NEW pc \in PCs, Session!Goto(f, pc)
  PROVE  Moved(f, pc, flow[f].tok)
<1>1. flow \in [Session!Flows -> FlowRec]
  BY FlowType
<1>2. PICK r : r = [flow[f] EXCEPT !.pc = pc]
  OBVIOUS
<1>3. r \in FlowRec /\ r.pc = pc /\ r.tok = flow[f].tok
  BY <1>1, <1>2 DEF FlowRec
<1>4. flow' = [flow EXCEPT ![f] = r]
  BY <1>2 DEF Session!Goto
<1> QED
  BY <1>1, <1>3, <1>4 DEF Moved

\* One flow starts.
LEMMA StartMoves ==
  ASSUME Session!TypeOK, NEW f \in Session!Flows, NEW pc \in PCs, NEW t \in Session!MaybeToken,
         flow' = [flow EXCEPT ![f] = [pc |-> pc, tok |-> t]]
  PROVE  Moved(f, pc, t)
<1>1. flow \in [Session!Flows -> FlowRec]
  BY FlowType
<1> QED
  BY <1>1 DEF FlowRec, Moved

\* One flow ends.
LEMMA EndMoves ==
  ASSUME Session!TypeOK, NEW f \in Session!Flows, Session!End(f)
  PROVE  Moved(f, "idle", None)
<1>1. flow' = [flow EXCEPT ![f] = [pc |-> "idle", tok |-> None]]
  BY DEF Session!End, Session!Idle
<1> QED
  BY <1>1, StartMoves DEF PCs, Session!MaybeToken

\* The names of the flows.
LEMMA Names ==
  ASSUME Named
  PROVE  /\ "boot" \in Session!Flows /\ "out" \in Session!Flows /\ Logins \subseteq Session!Flows
            /\ Refreshes \subseteq Session!Flows
         /\ "boot" \notin Logins /\ "boot" \notin Refreshes
         /\ "out" \notin Logins /\ "out" \notin Refreshes
         /\ \A l \in Logins : l \notin Refreshes
         /\ \A f \in Session!Flows : f \in {"boot", "out"} \/ f \in Logins \/ f \in Refreshes
  BY DEF Named, Session!Flows

-----------------------------------------------------------------------------
(* One lemma per kind of step. *)

\* A step that only moves a flow, from a request to its answer or to its end.
LEMMA QuietMove ==
  ASSUME Named, SessionInv, NEW f \in Session!Flows, NEW pc \in PCs, NEW tok \in Session!MaybeToken,
         Moved(f, pc, tok), valid' \subseteq valid,
         UNCHANGED <<stored, token, user, hydrating, issued, registering, device, crossed, left>>,
         \/ flow[f].pc = "sent" /\ pc \in {"ok", "denied", "lost"} /\ tok = flow[f].tok
         \/ f \in Refreshes /\ flow[f].pc = "lost" /\ pc = "idle"
         \/ f = "out" /\ flow[f].pc = "logout" /\ pc = "idle"
  PROVE  SessionInv'
<1>1. Session!TypeOK' /\ Known'
  BY DEF SessionInv, Session!TypeOK, Known, Moved, FlowRec, PCs, Session!At, Session!MaybeToken
<1>2. Places'
  BY Names DEF SessionInv, Places, Moved, Waiting
<1>3. BootAlone'
  BY Names DEF SessionInv, Places, BootAlone, Moved, Active, Waiting
<1>4. LoginFresh'
  BY Names DEF SessionInv, Places, LoginFresh, Moved, Active, Waiting
<1>5. Closed'
  BY Names DEF SessionInv, Places, Closed, Session!SignOutFailsClosed, Moved, Session!At, Waiting
<1>6. ~crossed' => Agree'
  <2> SUFFICES ASSUME ~crossed PROVE Agree'
    OBVIOUS
  <2>1. \A g \in Session!Flows : Session!At(g, "clear") => Session!At(g, "clear")'
    BY Names DEF SessionInv, Places, Moved, Session!At, Waiting
  <2> QED
    BY <2>1, Names DEF SessionInv, Places, Agree, Moved, Waiting
<1>7. ~crossed' /\ ~left' => Follows'
  BY Names DEF SessionInv, Places, Follows, Moved, Active, Session!At, Waiting
<1> QED
  BY <1>1, <1>2, <1>3, <1>4, <1>5, <1>6, <1>7 DEF SessionInv

\* Decisions of the backend, a refresh that keeps the session, the last call of a
\* sign-out, and a session's end on the backend.
LEMMA QuietInv ==
  ASSUME Named, SessionInv,
         (\E f \in Session!Flows : Session!Decide(f) \/ Session!KeepSession(f)) \/ Session!Logout
         \/ (\E t \in Tokens : Session!Revoke(t))
  PROVE  SessionInv'
<1>1. Session!TypeOK
  BY DEF SessionInv
<1>2. ASSUME NEW f \in Session!Flows, Session!Decide(f) PROVE SessionInv'
  <2>1. PICK pc \in {"ok", "denied", "lost"} : Session!Goto(f, pc)
    BY <1>2 DEF Session!Decide
  <2>2. Moved(f, pc, flow[f].tok)
    BY <1>1, <2>1, GotoMoves DEF PCs
  <2>3. flow[f].tok \in Session!MaybeToken
    BY <1>1, FlowType DEF FlowRec
  <2> QED
    BY <1>2, <2>2, <2>3, QuietMove DEF Session!Decide, Session!At, Session!react, PCs
<1>3. ASSUME NEW f \in Session!Flows, Session!KeepSession(f) PROVE SessionInv'
  <2>1. Moved(f, "idle", None)
    BY <1>1, <1>3, EndMoves DEF Session!KeepSession
  <2> QED
    BY <1>3, <2>1, QuietMove DEF Session!KeepSession, Session!At, Session!react, PCs, Session!MaybeToken
<1>4. CASE Session!Logout
  <2>1. Moved("out", "idle", None)
    BY <1>1, <1>4, Names, EndMoves DEF Session!Logout
  <2>2. valid' \subseteq valid
    BY <1>4 DEF Session!Logout
  <2> QED
    BY <1>4, <2>1, <2>2, Names, QuietMove DEF Session!Logout, Session!At, Session!react, PCs, Session!MaybeToken
<1>5. ASSUME NEW t \in Tokens, Session!Revoke(t) PROVE SessionInv'
  <2>1. UNCHANGED <<stored, token, user, hydrating, flow, issued, registering, device, crossed, left>>
    BY <1>5 DEF Session!Revoke, Session!react
  <2>2. valid' \subseteq valid
    BY <1>5 DEF Session!Revoke
  <2>3. Session!TypeOK' /\ Known'
    BY <1>1, <2>1, <2>2 DEF SessionInv, Session!TypeOK, Known, Session!At
  <2> QED
    BY <2>1, <2>3 DEF SessionInv, Places, BootAlone, LoginFresh, Closed, Session!SignOutFailsClosed, Agree, Follows,
       Active, Session!At
<1> QED
  BY <1>2, <1>3, <1>4, <1>5

\* The start-up reads what is stored.
LEMMA ReadStoredInv == ASSUME Named, SessionInv, Session!ReadStored PROVE SessionInv'
<1>1. Session!TypeOK /\ Known /\ Places /\ BootAlone /\ flow["boot"].pc = "read"
  BY DEF SessionInv, Session!ReadStored, Session!At
<1>2. UNCHANGED <<stored, token, user, valid, issued, registering, device, crossed, left>>
  BY DEF Session!ReadStored
<1>3. hydrating /\ token = None /\ \A f \in Session!Flows \ {"boot"} : flow[f].pc = "idle"
  BY <1>1, Names DEF BootAlone, Active
<1>4. CASE stored = None
  <2>1. Moved("boot", "idle", None) /\ hydrating' = FALSE
    BY <1>1, <1>4, Names, EndMoves DEF Session!ReadStored
  <2>2. Session!TypeOK' /\ Known'
    BY <1>1, <1>2, <2>1, Names DEF Session!TypeOK, Known, Moved, FlowRec, PCs, Session!At, Session!MaybeToken
  <2>3. Places' /\ BootAlone'
    BY <1>1, <1>2, <1>3, <2>1, Names DEF Places, BootAlone, Moved, Active, Waiting
  <2>4. LoginFresh' /\ Closed'
    BY <1>2, <1>3, <2>1, Names DEF LoginFresh, Closed, Session!SignOutFailsClosed, Moved, Active, Session!At
  <2>5. ~crossed' => Agree'
    BY <1>2, <1>3, <2>1, Names DEF SessionInv, Agree, Moved, Session!At, Waiting
  <2>6. ~crossed' /\ ~left' => Follows'
    BY <1>1, <1>2, <1>3, <1>4, <2>1, Names DEF SessionInv, Follows, Moved, Active, Session!At
  <2> QED
    BY <2>2, <2>3, <2>4, <2>5, <2>6 DEF SessionInv
<1>5. CASE stored # None
  <2>1. stored \in Session!MaybeToken
    BY <1>1 DEF Session!TypeOK
  <2>2. Moved("boot", "sent", stored) /\ hydrating' = hydrating
    BY <1>1, <1>5, <2>1, Names, StartMoves DEF Session!ReadStored, PCs
  <2>3. Session!TypeOK' /\ Known'
    BY <1>1, <1>2, <1>5, <2>1, <2>2, Names DEF Session!TypeOK, Known, Moved, FlowRec, PCs, Session!At,
       Session!MaybeToken
  <2>4. Places' /\ BootAlone'
    BY <1>1, <1>2, <1>3, <2>2, Names DEF Places, BootAlone, Moved, Active, Waiting
  <2>5. LoginFresh' /\ Closed'
    BY <1>2, <1>3, <2>2, Names DEF LoginFresh, Closed, Session!SignOutFailsClosed, Moved, Active, Session!At
  <2>6. ~crossed' => Agree'
    BY <1>2, <1>3, <2>2, Names DEF SessionInv, Agree, Moved, Session!At, Waiting
  <2>7. ~crossed' /\ ~left' => Follows'
    BY <1>1, <1>2, <1>3, <1>5, <2>2, Names DEF SessionInv, Follows, Moved, Active, Session!At
  <2> QED
    BY <2>3, <2>4, <2>5, <2>6, <2>7 DEF SessionInv
<1> QED
  BY <1>4, <1>5

\* A login gets its token, or cannot store it.
LEMMA VerifiedInv ==
  ASSUME Named, OneLogin, SessionInv, NEW l \in Logins, NEW t \in Tokens, Session!Verified(l, t)
  PROVE  SessionInv'
<1>1. /\ Session!TypeOK /\ Known /\ Places /\ BootAlone /\ LoginFresh /\ Closed /\ token = None /\ ~hydrating
      /\ flow[l].pc = "idle" /\ t \notin issued /\ issued' = issued \cup {t} /\ valid' = valid \cup {t}
      /\ UNCHANGED <<stored, token, user, hydrating, registering, device, crossed, left>>
  BY DEF SessionInv, Session!Verified, Session!Idle, Session!react
<1>2. CASE flow' = flow
  <2>1. Session!TypeOK' /\ Known'
    BY <1>1, <1>2 DEF SessionInv, Session!TypeOK, Known, Session!At
  <2> QED
    BY <1>1, <1>2, <2>1 DEF SessionInv, Places, BootAlone, LoginFresh, Closed, Session!SignOutFailsClosed, Agree,
       Follows, Active, Session!At
<1>3. CASE flow' = [flow EXCEPT ![l] = [pc |-> "store", tok |-> t]]
  <2>1. Moved(l, "store", t)
    BY <1>1, <1>3, Names, StartMoves DEF PCs, Session!MaybeToken
  <2>2. Session!TypeOK' /\ Known'
    BY <1>1, <2>1, Names DEF Session!TypeOK, Known, Moved, FlowRec, PCs, Session!At, Session!MaybeToken
  <2>3. Places' /\ BootAlone'
    BY <1>1, <2>1, Names DEF Places, BootAlone, Moved, Active, Waiting
  <2>4. LoginFresh'
    <3>1. \A g \in Session!Flows : Active(g) /\ flow[g].pc # "read" => flow[g].tok # t
      BY <1>1 DEF Session!TypeOK, Active, Session!At
    <3>2. \A g \in Session!Flows : flow[g].pc # "read"
      BY <1>1, Names DEF Places, BootAlone, Active, Waiting
    <3> SUFFICES ASSUME NEW a \in Logins, NEW g \in Session!Flows \ {a}, Active(a)', Active(g)'
                 PROVE  token' = None /\ flow'[g].tok # flow'[a].tok
      BY <1>1 DEF LoginFresh
    <3>3. a = l
      BY DEF OneLogin
    <3> QED
      BY <1>1, <2>1, <3>1, <3>2, <3>3 DEF Moved, Active
  <2>5. Closed'
    BY <1>1, <2>1, Names DEF Closed, Session!SignOutFailsClosed, Moved, Session!At
  <2>6. ~crossed' => Agree'
    BY <1>1, <2>1, Names DEF SessionInv, Agree, Moved, Session!At, Waiting
  <2>7. ~crossed' /\ ~left' => Follows'
    BY <1>1, <2>1, Names DEF SessionInv, Follows, Moved, Active, Session!At
  <2> QED
    BY <2>2, <2>3, <2>4, <2>5, <2>6, <2>7 DEF SessionInv
<1> QED
  BY <1>2, <1>3 DEF Session!Verified

\* A login stores its token over whatever is there.
LEMMA StoreTokenInv ==
  ASSUME Named, OneLogin, SessionInv, NEW l \in Logins, Session!StoreToken(l)
  PROVE  SessionInv'
<1>1. /\ Session!TypeOK /\ Known /\ Places /\ BootAlone /\ LoginFresh /\ Closed
      /\ flow[l].pc = "store" /\ stored' = flow[l].tok
      /\ UNCHANGED <<token, user, hydrating, valid, issued, registering, device, crossed, left>>
  BY DEF SessionInv, Session!StoreToken, Session!react, Session!At
<1>2. Moved(l, "sent", flow[l].tok)
  BY <1>1, Names, GotoMoves DEF Session!StoreToken, PCs
<1>3. token = None /\ ~hydrating /\ flow["boot"].pc = "idle"
  BY <1>1, Names DEF LoginFresh, BootAlone, Active
<1>4. flow["out"].pc # "idle" => flow["out"].tok # flow[l].tok
  BY <1>1, Names DEF LoginFresh, Active
<1>5. flow[l].tok \in issued /\ flow[l].tok \in Tokens
  BY <1>1, Names DEF Session!TypeOK, Session!At
<1>6. Session!TypeOK' /\ Known'
  BY <1>1, <1>2, <1>5, Names DEF Session!TypeOK, Known, Moved, FlowRec, PCs, Session!At, Session!MaybeToken
<1>7. Places' /\ BootAlone'
  BY <1>1, <1>2, <1>3, Names DEF Places, BootAlone, Moved, Active, Waiting
<1>8. LoginFresh'
  BY <1>1, <1>2, Names DEF LoginFresh, Moved, Active
<1>9. Closed'
  BY <1>1, <1>2, <1>3, <1>4, <1>5, Names DEF Named, Closed, Session!SignOutFailsClosed, Moved, Session!At
<1>10. ~crossed' => Agree'
  BY <1>1, <1>2, <1>3, Names DEF SessionInv, OneLogin, Agree, Moved, Session!At, Waiting
<1>11. ~crossed' /\ ~left' => Follows'
  BY <1>1, <1>2, <1>3, Names DEF SessionInv, Follows, Moved, Active, Session!At
<1> QED
  BY <1>6, <1>7, <1>8, <1>9, <1>10, <1>11 DEF SessionInv

\* A start-up or a login takes its session over: nobody else is signed in.
LEMMA AcceptInv ==
  ASSUME Named, OneLogin, SessionInv, NEW f \in Session!Flows, Session!Accept(f)
  PROVE  SessionInv'
<1>1. /\ Session!TypeOK /\ Known /\ Places /\ BootAlone /\ LoginFresh /\ Closed
      /\ f \in {"boot"} \cup Logins /\ flow[f].pc = "ok"
      /\ token' = flow[f].tok /\ user' = flow[f].tok
      /\ hydrating' = (hydrating /\ f # "boot")
      /\ registering' = registering \cup {flow[f].tok}
      /\ UNCHANGED <<stored, valid, issued, device, left>>
  BY DEF SessionInv, Session!Accept, Session!At
<1>2. crossed' = (crossed \/ stored \notin {flow[f].tok, None})
  BY DEF Session!Accept, Session!ActOn
<1>3. Moved(f, "idle", None)
  BY <1>1, EndMoves DEF Session!Accept
<1>4. flow[f].tok \in issued /\ flow[f].tok \in Tokens
  BY <1>1 DEF Session!TypeOK, Session!At
<1>5. token = None
  BY <1>1, Names DEF BootAlone, LoginFresh, Active
<1>6. \A l \in Logins : flow'[l].pc = "idle"
  <2>1. CASE f = "boot"
    <3>1. \A l \in Logins : l \in Session!Flows \ {"boot"}
      BY Names
    <3>2. \A l \in Logins : flow[l].pc = "idle"
      BY <1>1, <2>1, <3>1 DEF BootAlone, Active
    <3> QED
      BY <1>3, <2>1, <3>1, <3>2 DEF Moved
  <2>2. CASE f \in Logins
    BY <1>3, <2>2 DEF OneLogin, Moved
  <2> QED
    BY <1>1, <2>1, <2>2
<1>7. flow["out"].pc # "idle" => flow["out"].tok # flow[f].tok
  BY <1>1, Names DEF BootAlone, LoginFresh, Active
<1>8. Session!TypeOK' /\ Known'
  BY <1>1, <1>2, <1>3, <1>4, Names DEF Session!TypeOK, Known, Moved, FlowRec, PCs, Session!At, Session!MaybeToken
<1>9. Places' /\ BootAlone'
  <2>1. \A g \in Session!Flows : flow'[g].pc \in {"idle", flow[g].pc}
    BY <1>3 DEF Moved
  <2>2. Places'
    BY <1>1, <2>1, Names DEF Places, Waiting
  <2>3. f # "boot" => flow["boot"].pc = "idle" /\ ~hydrating
    BY <1>1 DEF BootAlone, Active
  <2>4. ~hydrating' /\ flow'["boot"].pc = "idle"
    BY <1>1, <1>3, <2>3, Names DEF Moved
  <2>5. BootAlone'
    BY <2>4 DEF BootAlone, Active
  <2> QED
    BY <2>2, <2>5
<1>10. LoginFresh'
  BY <1>6 DEF LoginFresh, Active
<1>11. Closed'
  BY <1>1, <1>3, <1>7, Names DEF Closed, Session!SignOutFailsClosed, Moved, Session!At
<1>12. ~crossed' => Agree'
  <2> SUFFICES ASSUME ~crossed' PROVE Agree'
    OBVIOUS
  <2>1. stored = flow[f].tok
    BY <1>1, <1>2 DEF SessionInv, Agree, Waiting
  <2>2. flow'["boot"].pc = "idle"
    BY <1>1, <1>3, Names DEF BootAlone, Moved, Active
  <2> QED
    BY <1>1, <1>6, <2>1, <2>2 DEF Agree, Waiting
<1>13. ~crossed' /\ ~left' => Follows'
  <2> SUFFICES ASSUME ~crossed', ~left' PROVE Follows'
    OBVIOUS
  <2>1. Follows
    BY <1>1, <1>2 DEF SessionInv
  <2>2. registering' \subseteq {token'}
    BY <1>1, <1>4, <1>5, <2>1 DEF Named, Follows, Session!TypeOK
  <2>3. CASE f = "boot"
    BY <1>1, <1>4, <1>5, <2>1, <2>2, <2>3, Names DEF Named, BootAlone, Follows, Active, Session!At
  <2>4. CASE f # "boot"
    BY <1>1, <1>3, <1>4, <1>5, <2>1, <2>2, <2>4, Names DEF Named, BootAlone, Follows, Moved, Active, Session!At
  <2> QED
    BY <2>3, <2>4
<1> QED
  BY <1>8, <1>9, <1>10, <1>11, <1>12, <1>13 DEF SessionInv

\* A call that starts with the token of the state.
LEMMA CallMove ==
  ASSUME Named, SessionInv, NEW f \in Session!Flows, NEW pc \in PCs, Moved(f, pc, token),
         flow[f].pc = "idle", token # None,
         (f \in Refreshes /\ pc = "sent") \/ (f = "out" /\ pc = "remove"),
         UNCHANGED <<stored, token, user, hydrating, valid, issued, registering, device, crossed, left>>
  PROVE  SessionInv'
<1>1. /\ Session!TypeOK /\ Known /\ Places /\ BootAlone /\ LoginFresh /\ Closed
      /\ token \in Tokens /\ token \in issued
  BY DEF SessionInv, Session!TypeOK, Known, Session!MaybeToken
<1>2. \A l \in Logins : l \in Session!Flows \ {f} /\ flow[l].pc = "idle"
  BY <1>1, Names DEF LoginFresh, Active
<1>3. "boot" \in Session!Flows \ {f} /\ flow["boot"].pc = "idle" /\ ~hydrating
  BY <1>1, Names DEF BootAlone, Active
<1>4. \A l \in Logins : flow'[l].pc = "idle"
  BY <1>2 DEF Moved
<1>5. flow'["boot"].pc = "idle"
  BY <1>3 DEF Moved
<1>6. Session!TypeOK' /\ Known'
  BY <1>1, Names DEF Session!TypeOK, Known, Moved, FlowRec, PCs, Session!At, Session!MaybeToken
<1>7. Places' /\ BootAlone'
  BY <1>1, <1>2, <1>3, <1>4, <1>5, Names DEF Places, BootAlone, Moved, Active, Waiting
<1>8. LoginFresh' /\ Closed'
  BY <1>1, <1>4, Names DEF LoginFresh, Closed, Session!SignOutFailsClosed, Moved, Active, Session!At
<1>9. ~crossed' => Agree'
  <2> SUFFICES ASSUME ~crossed PROVE Agree'
    BY <1>1
  <2>1. \A g \in Session!Flows : Session!At(g, "clear") => Session!At(g, "clear")'
    BY DEF Moved, Session!At
  <2> QED
    BY <1>1, <1>4, <1>5, <2>1 DEF SessionInv, Agree, Waiting
<1>10. ~crossed' /\ ~left' => Follows'
  BY <1>1, <1>2, <1>3, <1>4, <1>5, Names DEF SessionInv, Follows, Moved, Active, Session!At
<1> QED
  BY <1>6, <1>7, <1>8, <1>9, <1>10 DEF SessionInv

\* A refresh or a sign-out starts.
LEMMA CallInv ==
  ASSUME Named, SessionInv, (\E r \in Refreshes : Session!Refresh(r)) \/ Session!SignOut
  PROVE  SessionInv'
<1>1. Session!TypeOK /\ token \in Session!MaybeToken
  BY DEF SessionInv, Session!TypeOK
<1>2. ASSUME NEW r \in Refreshes, Session!Refresh(r) PROVE SessionInv'
  <2>1. Moved(r, "sent", token)
    BY <1>1, <1>2, Names, StartMoves DEF Session!Refresh, PCs
  <2> QED
    BY <1>2, <2>1, Names, CallMove DEF Session!Refresh, Session!Idle, Session!react, PCs
<1>3. CASE Session!SignOut
  <2>1. Moved("out", "remove", token)
    BY <1>1, <1>3, Names, StartMoves DEF Session!SignOut, PCs
  <2> QED
    BY <1>3, <2>1, Names, CallMove DEF Session!SignOut, Session!Idle, Session!react, PCs
<1> QED
  BY <1>2, <1>3

\* A refresh that is answered names the user of the token it asked with.
LEMMA RefreshedInv ==
  ASSUME Named, SessionInv, NEW f \in Session!Flows, Session!Refreshed(f)
  PROVE  SessionInv'
<1>1. /\ Session!TypeOK /\ Known /\ Places /\ BootAlone /\ LoginFresh /\ Closed
      /\ f \in Refreshes /\ flow[f].pc = "ok"
      /\ user' = flow[f].tok
      /\ registering' = IF token = None THEN registering ELSE registering \cup {token}
      /\ crossed' = (crossed \/ token # flow[f].tok)
      /\ UNCHANGED <<stored, token, hydrating, valid, issued, device, left>>
  BY DEF SessionInv, Session!Refreshed, Session!At
<1>2. Moved(f, "idle", None)
  BY <1>1, EndMoves DEF Session!Refreshed
<1>3. flow[f].tok \in Tokens
  BY <1>1 DEF Session!TypeOK, Session!At
<1>4. Session!TypeOK' /\ Known'
  BY <1>1, <1>2, <1>3, Names DEF Session!TypeOK, Known, Moved, FlowRec, PCs, Session!At, Session!MaybeToken
<1>5. Places' /\ BootAlone'
  BY <1>1, <1>2, Names DEF Places, BootAlone, Moved, Active, Waiting
<1>6. LoginFresh' /\ Closed'
  BY <1>1, <1>2, Names DEF LoginFresh, Closed, Session!SignOutFailsClosed, Moved, Active, Session!At
<1>7. ~crossed' => Agree'
  <2> SUFFICES ASSUME ~crossed' PROVE Agree'
    OBVIOUS
  <2>1. Agree /\ user' = token
    BY <1>1 DEF SessionInv
  <2>2. \A g \in Session!Flows : Session!At(g, "clear") => Session!At(g, "clear")'
    BY <1>1, <1>2 DEF Moved, Session!At
  <2> QED
    BY <1>1, <1>2, <2>1, <2>2, Names DEF Agree, Moved, Waiting
<1>8. ~crossed' /\ ~left' => Follows'
  BY <1>1, <1>2, Names DEF SessionInv, Follows, Moved, Active, Session!At
<1> QED
  BY <1>4, <1>5, <1>6, <1>7, <1>8 DEF SessionInv

\* The stored token goes, for a flow that means its own.
LEMMA RemoveStoredInv ==
  ASSUME Named, SessionInv, NEW f \in Session!Flows, Session!RemoveStored(f)
  PROVE  SessionInv'
<1>1. /\ Session!TypeOK /\ Known /\ Places /\ BootAlone /\ LoginFresh /\ Closed
      /\ flow[f].pc \in {"remove", "denied", "lost"} /\ stored' = None
      /\ crossed' = (crossed \/ stored \notin {flow[f].tok, None})
      /\ UNCHANGED <<token, user, hydrating, valid, issued, registering, device, left>>
  BY DEF SessionInv, Session!RemoveStored, Session!Dropping, Session!ActOn, Session!react, Session!At
<1>2. Moved(f, "clear", flow[f].tok)
  BY <1>1, GotoMoves DEF Session!RemoveStored, PCs
<1>3. flow[f].tok \in issued /\ flow[f].tok \in Tokens
  BY <1>1 DEF Session!TypeOK, Session!At
<1>4. Session!TypeOK' /\ Known'
  BY <1>1, <1>2, <1>3, Names DEF Session!TypeOK, Known, Moved, FlowRec, PCs, Session!At, Session!MaybeToken
<1>5. Places' /\ BootAlone'
  BY <1>1, <1>2, Names DEF Places, BootAlone, Moved, Active, Waiting
<1>6. LoginFresh'
  BY <1>1, <1>2, Names DEF LoginFresh, Moved, Active
<1>7. Closed'
  BY <1>1, <1>2, <1>3, Names DEF Named, Session!TypeOK, Closed, Session!SignOutFailsClosed, Moved, Session!At
<1>8. ~crossed' => Agree'
  <2> SUFFICES ASSUME ~crossed' PROVE Agree'
    OBVIOUS
  <2>1. Agree
    BY <1>1 DEF SessionInv
  <2>2. \A g \in {"boot"} \cup Logins : flow'[g].pc \in Waiting => stored' = flow'[g].tok
    <3> SUFFICES ASSUME NEW g \in {"boot"} \cup Logins, flow'[g].pc \in Waiting PROVE FALSE
      OBVIOUS
    <3>1. g # f /\ g \in Session!Flows /\ flow[g].pc \in Waiting
      BY <1>2, Names DEF Moved, Waiting
    <3>2. stored = flow[g].tok /\ flow[g].tok \in Tokens
      BY <1>1, <2>1, <3>1 DEF Agree, Session!TypeOK, Session!At, Waiting
    <3>3. flow[g].tok # flow[f].tok
      BY <1>1, <3>1, Names DEF BootAlone, LoginFresh, Active, Waiting
    <3> QED
      BY <1>1, <3>2, <3>3 DEF Named
  <2>3. Session!At(f, "clear")'
    BY <1>2 DEF Moved, Session!At
  <2> QED
    BY <1>1, <2>1, <2>2, <2>3 DEF Agree
<1>9. ~crossed' /\ ~left' => Follows'
  <2> SUFFICES ASSUME ~crossed', ~left' PROVE Follows'
    OBVIOUS
  <2>1. Follows /\ (stored = flow[f].tok \/ stored = None)
    BY <1>1 DEF SessionInv
  <2>2. registering' \subseteq {token'}
    BY <1>1, <2>1 DEF Follows
  <2>3. CASE Session!At("boot", "read")
    <3>1. f = "boot"
      BY <1>1, <2>3, Names DEF BootAlone, Active, Session!At
    <3> QED
      BY <1>1, <2>3, <3>1 DEF Session!At
  <2>4. CASE Active("boot") /\ ~Session!At("boot", "read") /\ device = MCOwner[flow["boot"].tok]
    <3>1. f = "boot"
      BY <1>1, <2>4, Names DEF BootAlone, Active
    <3> QED
      BY <1>1, <1>2, <2>2, <2>4, <3>1 DEF Follows, Moved, Active, Session!At
  <2>5. CASE Session!At("out", "unregister") /\ device = MCOwner[flow["out"].tok]
    <3>1. f # "out"
      BY <1>1, <2>5 DEF Session!At
    <3> QED
      BY <1>1, <1>2, <2>2, <2>5, <3>1, Names DEF Follows, Moved, Session!At
  <2>6. CASE device = None \/ (token # None /\ device = MCOwner[token])
    BY <1>1, <2>2, <2>6 DEF Follows
  <2> QED
    BY <2>1, <2>3, <2>4, <2>5, <2>6 DEF Follows
<1> QED
  BY <1>4, <1>5, <1>6, <1>7, <1>8, <1>9 DEF SessionInv

\* The state goes, and a sign-out keeps its token for the remote clean-up.
LEMMA ClearStateInv ==
  ASSUME Named, SessionInv, NEW f \in Session!Flows, Session!ClearState(f)
  PROVE  SessionInv'
<1>1. /\ Session!TypeOK /\ Known /\ Places /\ BootAlone /\ LoginFresh /\ Closed
      /\ flow[f].pc = "clear" /\ token' = None /\ user' = None
      /\ hydrating' = (hydrating /\ f # "boot")
      /\ crossed' = (crossed \/ token \notin {flow[f].tok, None})
      /\ left' = (left \/ f # "out" \/ registering # {})
      /\ UNCHANGED <<stored, valid, issued, registering, device>>
  BY DEF SessionInv, Session!ClearState, Session!ActOn, Session!At
<1>2. flow[f].tok \in issued /\ flow[f].tok \in Tokens
  BY <1>1 DEF Session!TypeOK, Session!At
<1>3. PICK pc \in {"idle", "unregister"}, tok \in Session!MaybeToken :
        /\ Moved(f, pc, tok)
        /\ f = "out" => pc = "unregister" /\ tok = flow[f].tok
        /\ f # "out" => pc = "idle"
  BY <1>1, <1>2, GotoMoves, EndMoves DEF Session!ClearState, PCs, Session!MaybeToken
<1>4. Session!TypeOK' /\ Known'
  BY <1>1, <1>2, <1>3, Names DEF Session!TypeOK, Known, Moved, FlowRec, PCs, Session!At, Session!MaybeToken
<1>5. Places' /\ BootAlone'
  BY <1>1, <1>3, Names DEF Places, BootAlone, Moved, Active, Waiting
<1>6. LoginFresh'
  BY <1>1, <1>3, Names DEF LoginFresh, Moved, Active
<1>7. Closed'
  <2>1. flow["out"].pc \in {"clear", "unregister", "logout"} => flow["out"].tok # None
    BY <1>1, Names DEF Named, Session!TypeOK, Session!At
  <2>2. CASE f = "out"
    BY <1>1, <1>3, <2>1, <2>2 DEF Closed, Session!SignOutFailsClosed, Moved, Session!At
  <2>3. CASE f # "out"
    BY <1>1, <1>3, <2>1, <2>3, Names DEF Closed, Session!SignOutFailsClosed, Moved, Session!At
  <2> QED
    BY <2>2, <2>3
<1>8. ~crossed' => Agree'
  BY <1>1, <1>3, Names DEF SessionInv, Agree, Moved, Waiting
<1>9. ~crossed' /\ ~left' => Follows'
  <2> SUFFICES ASSUME ~crossed', ~left' PROVE Follows'
    OBVIOUS
  <2>1. f = "out" /\ registering = {} /\ Follows /\ token \in {flow["out"].tok, None}
    BY <1>1 DEF SessionInv
  <2>2. ~hydrating /\ flow["boot"].pc = "idle"
    BY <1>1, <2>1, Names DEF BootAlone, Active
  <2>3. flow'["out"].pc = "unregister" /\ flow'["out"].tok = flow["out"].tok
    BY <1>3, <2>1 DEF Moved
  <2> QED
    BY <1>1, <2>1, <2>2, <2>3 DEF Follows, Active, Session!At
<1> QED
  BY <1>4, <1>5, <1>6, <1>7, <1>8, <1>9 DEF SessionInv

\* The remote clean-up of the push registration.
LEMMA UnregisterInv == ASSUME Named, SessionInv, Session!Unregister PROVE SessionInv'
<1>1. /\ Session!TypeOK /\ Known /\ Places /\ BootAlone /\ LoginFresh /\ Closed
      /\ flow["out"].pc = "unregister"
      /\ \/ device' = (IF device = MCOwner[flow["out"].tok] THEN None ELSE device) /\ left' = left
         \/ left' = TRUE /\ device' = device
      /\ UNCHANGED <<stored, token, user, hydrating, valid, issued, registering, crossed>>
  BY DEF SessionInv, Session!Unregister, Session!react, Session!At
<1>2. Moved("out", "logout", flow["out"].tok)
  BY <1>1, Names, GotoMoves DEF Session!Unregister, PCs
<1>3. Session!TypeOK' /\ Known'
  BY <1>1, <1>2, Names DEF Session!TypeOK, Known, Moved, FlowRec, PCs, Session!At, Session!MaybeToken
<1>4. Places' /\ BootAlone'
  BY <1>1, <1>2, Names DEF Places, BootAlone, Moved, Active, Waiting
<1>5. LoginFresh' /\ Closed'
  BY <1>1, <1>2, Names DEF LoginFresh, Closed, Session!SignOutFailsClosed, Moved, Active, Session!At
<1>6. ~crossed' => Agree'
  <2> SUFFICES ASSUME ~crossed PROVE Agree'
    BY <1>1
  <2>1. \A g \in Session!Flows : Session!At(g, "clear") => Session!At(g, "clear")'
    BY <1>1, <1>2 DEF Moved, Session!At
  <2> QED
    BY <1>1, <1>2, <2>1, Names DEF SessionInv, Agree, Moved, Waiting
<1>7. ~crossed' /\ ~left' => Follows'
  BY <1>1, <1>2, Names DEF SessionInv, BootAlone, Follows, Moved, Active, Session!At
<1> QED
  BY <1>3, <1>4, <1>5, <1>6, <1>7 DEF SessionInv

\* A registration lands.
LEMMA RegisterInv == ASSUME Named, SessionInv, NEW t \in Tokens, Session!Register(t) PROVE SessionInv'
<1>1. /\ t \in registering /\ registering' = registering \ {t} /\ device' \in {device, MCOwner[t]}
      /\ UNCHANGED <<stored, token, user, hydrating, flow, valid, issued, crossed, left>>
  BY DEF Session!Register, Session!react
<1>2. Session!TypeOK' /\ Known'
  BY <1>1 DEF SessionInv, Session!TypeOK, Known, Session!At
<1>3. ~crossed' /\ ~left' => Follows'
  BY <1>1 DEF Named, SessionInv, Follows, Active, Session!At
<1> QED
  BY <1>1, <1>2, <1>3 DEF SessionInv, Places, BootAlone, LoginFresh, Closed, Session!SignOutFailsClosed, Agree,
     Active, Session!At

-----------------------------------------------------------------------------
(* The theorems. *)

\* At the start nothing runs but the start-up.
LEMMA SessionStarts == ASSUME Named, Session!Init PROVE SessionInv
<1>1. /\ stored \in Tokens \cup {None} /\ issued = Saved /\ valid \subseteq Saved /\ stored \in issued \cup {None}
      /\ token = None /\ user = None /\ hydrating = TRUE /\ registering = {}
      /\ crossed = FALSE /\ left = FALSE
      /\ device = None \/ (stored # None /\ device = MCOwner[stored])
  BY DEF Session!Init, Named
<1>2. /\ flow \in [Session!Flows -> FlowRec] /\ flow["boot"].pc = "read"
      /\ \A f \in Session!Flows \ {"boot"} : flow[f].pc = "idle"
  BY Names DEF Session!Init, Session!Idle, FlowRec, PCs, Session!MaybeToken
<1>3. Session!TypeOK /\ Known
  <2>1. device \in {MCOwner[t] : t \in Tokens} \cup {None}
    BY <1>1
  <2>2. \A f \in Session!Flows : flow[f].pc \in {"idle", "read"}
    BY <1>2
  <2> QED
    BY <1>1, <1>2, <2>1, <2>2 DEF Named, Session!TypeOK, Known, FlowRec, PCs, Session!At, Session!MaybeToken
<1>4. Places /\ BootAlone /\ LoginFresh /\ Closed
  BY <1>1, <1>2, Names DEF Places, BootAlone, LoginFresh, Closed, Session!SignOutFailsClosed, Active, Session!At,
     Waiting
<1>5. Agree /\ Follows
  BY <1>1, <1>2, Names DEF Agree, Follows, Session!At, Waiting
<1> QED
  BY <1>3, <1>4, <1>5 DEF SessionInv

\* Every step keeps the invariant.
LEMMA SessionSteady == Named /\ OneLogin /\ SessionInv /\ [Session!Next]_(Session!vars) => SessionInv'
<1> SUFFICES ASSUME Named, OneLogin, SessionInv, [Session!Next]_(Session!vars) PROVE SessionInv'
  OBVIOUS
<1>1. CASE UNCHANGED Session!vars
  BY <1>1 DEF Session!vars, Session!react, SessionInv, Session!TypeOK, Known, Places, BootAlone, LoginFresh,
     Closed, Session!SignOutFailsClosed,
     Agree, Follows, Active, Session!At
<1>2. CASE Session!ReadStored
  BY <1>2, ReadStoredInv
<1>3. CASE \E l \in Logins : Session!StoreToken(l) \/ \E t \in Tokens : Session!Verified(l, t)
  BY <1>3, StoreTokenInv, VerifiedInv
<1>4. CASE (\E r \in Refreshes : Session!Refresh(r)) \/ Session!SignOut
  BY <1>4, Names, CallInv
<1>5. CASE Session!Unregister
  BY <1>5, UnregisterInv
<1>6. CASE Session!Logout \/ \E t \in Tokens : Session!Register(t) \/ Session!Revoke(t)
  BY <1>6, QuietInv, RegisterInv
<1>7. CASE \E f \in Session!Flows : Session!Run(f)
  BY <1>7, QuietInv, AcceptInv, RefreshedInv, RemoveStoredInv, ClearStateInv DEF Session!Run
<1> QED
  BY <1>1, <1>2, <1>3, <1>4, <1>5, <1>6, <1>7 DEF Session!Next

\* At rest, the device's pushes go to the user signed in, or to nobody.
LEMMA PushesOfSession == SessionInv => Session!PushFollowsSession
<1> SUFFICES ASSUME SessionInv, Session!Busy = {}, ~left, ~crossed
             PROVE  device = None \/ (token # None /\ device = MCOwner[token])
  BY DEF Session!PushFollowsSession
<1>1. Follows /\ \A f \in Session!Flows : flow[f].pc = "idle"
  BY DEF SessionInv, Session!Busy
<1> QED
  BY <1>1 DEF Follows, Active, Session!At, Session!Flows
-----------------------------------------------------------------------------
(* The session among the other screens.                                    *)

\* A step of the screens is a step of the session, or leaves it alone.
LEMMA SessionMoves == [ScreensNext]_allVars => [Session!Next]_(Session!vars)
  BY DEF ScreensNext, Only, allVars, parts, sessionVars, Session!vars, Session!react

\* Every flow is at one of its own awaits, and the records are in order, whatever
\* calls are in flight, fail or land late on any screen.
THEOREM SessionInvariance == ASSUME Named, OneLogin PROVE ScreensSpec => []SessionInv
<1>1. ScreensInit => SessionInv
  BY SessionStarts DEF ScreensInit
<1>2. SessionInv /\ [ScreensNext]_allVars => SessionInv'
  BY SessionMoves, SessionSteady
<1> QED
  BY <1>1, <1>2, PTL DEF ScreensSpec

\* While nothing is changing it, the stored token, the token in use and the user
\* shown are of one session, whatever refreshes, sign-outs and the start of the
\* application interleave, for any number of tokens and refreshes.
THEOREM SessionAgrees == ASSUME Named, OneLogin PROVE ScreensSpec => []SessionConsistent
<1>1. SessionInv => SessionConsistent
  BY DEF SessionInv, Agree, SessionConsistent, Session!SessionConsistent
<1> QED
  BY <1>1, SessionInvariance, PTL

\* At rest, the device's pushes are registered for the user signed in, or for nobody.
THEOREM PushesFollowSession == ASSUME Named, OneLogin PROVE ScreensSpec => []PushFollowsSession
<1>1. SessionInv => PushFollowsSession
  BY PushesOfSession DEF PushFollowsSession
<1> QED
  BY <1>1, SessionInvariance, PTL

\* A sign-out that waits for the network has left nothing of its session behind.
THEOREM SignOutLeavesNothing == ASSUME Named, OneLogin PROVE ScreensSpec => []Session!SignOutFailsClosed
<1>1. SessionInv => Session!SignOutFailsClosed
  BY DEF SessionInv, Closed
<1> QED
  BY <1>1, SessionInvariance, PTL

-----------------------------------------------------------------------------
(* The login screen, as the run composes it with the other screens.  The   *)
(* animation holds what was typed, for the form it was typed into, as long *)
(* as it runs; a call that is not in flight is empty; and the input has    *)
(* reacted to the digits it shows.                                         *)

People == Login!Maybe(Mobiles \cup Emails)
Phases == {"enter", "user_otp"} \cup Login!StaffPhases
Kinds == {"none", "user", "staff"} \cup Phases
Underway == {"sent", "ok", "failed", "factor", "leaving", "erring"}
LoginCalls == [pc : Underway \cup {"idle"}, kind : Kinds, id : People, code : Int]

LoginTypes ==
  /\ mobile \in People /\ plantEmail \in People /\ identifier \in People
  /\ phase \in Phases /\ code \in Int /\ dropped \in BOOLEAN
  /\ play \in [code : Int, phase : Phases, id : People]
  /\ call \in [Slots -> LoginCalls]

Captured ==
  play # Login!NoPlay => /\ phase \in Login!OtpPhases
                         /\ play = [code |-> code, phase |-> phase, id |-> identifier]

Resting == \A c \in Slots : Login!At(c, "idle") => call[c] = Login!NoCall

Reacted == phase \in Login!OtpPhases /\ otpVisual = "idle" => last = code

LoginInv == LoginTypes /\ Captured /\ Resting /\ Reacted /\ CodeOnItsWay

\* The values the definitions name are of their types.
LEMMA LoginWords ==
  /\ Login!NoCall \in LoginCalls
  /\ Login!NoPlay \in [code : Int, phase : Phases, id : People]
  /\ Login!NoCall.kind \notin Login!OtpPhases /\ Login!OtpPhases \subseteq Phases
  /\ None \in People /\ Login!Part \in Int
<1>1. None \in People /\ Login!Part \in Int
  BY DEF People, Login!Maybe, Login!Part
<1>2. Login!OtpPhases \subseteq Phases
  BY DEF Phases, Login!OtpPhases, Login!StaffPhases
<1>3. Login!NoCall \in LoginCalls
  BY <1>1 DEF Login!NoCall, LoginCalls, Kinds
<1>4. Login!NoCall.kind \notin Login!OtpPhases
  BY DEF Login!NoCall, Login!OtpPhases
<1>5. Login!NoPlay \in [code : Int, phase : Phases, id : People]
  BY <1>1 DEF Login!NoPlay, Phases
<1> QED
  BY <1>1, <1>2, <1>3, <1>4, <1>5

\* The screen starts that way.
LEMMA LoginStarts == ScreensInit => LoginInv
<1> SUFFICES ASSUME Login!Init PROVE LoginInv
  BY DEF ScreensInit
<1>1. /\ phase = "enter" /\ mobile = None /\ plantEmail = None /\ identifier = None /\ code = Login!Part
      /\ play = Login!NoPlay /\ last = Login!Part /\ call = [c \in Slots |-> Login!NoCall] /\ dropped = FALSE
  BY DEF Login!Init
<1>2. LoginTypes
  BY <1>1, LoginWords DEF LoginTypes, Phases
<1>3. Captured /\ Resting
  BY <1>1 DEF Captured, Resting
<1>4. Reacted /\ CodeOnItsWay
  BY <1>1 DEF Reacted, CodeOnItsWay, Login!CodeOnItsWay
<1> QED
  BY <1>2, <1>3, <1>4 DEF LoginInv

\* What a call becomes.
LEMMA CallMoves ==
  ASSUME NEW c \in Slots, NEW pc \in Underway, LoginTypes, Resting,
         Login!End(c) \/ (~Login!At(c, "idle") /\ Login!Goto(c, pc))
  PROVE  /\ call' \in [Slots -> LoginCalls]
         /\ Resting' /\ \A d \in Slots : Login!At(d, "idle") => call'[d] = Login!NoCall
<1> DEFINE R == LoginCalls
<1>1. ASSUME Login!Goto(c, pc), ~Login!At(c, "idle")
      PROVE  /\ call' \in [Slots -> R]
             /\ Resting' /\ \A d \in Slots : Login!At(d, "idle") => call'[d] = Login!NoCall
  <2>1. call'[c] \in R /\ call'[c].pc = pc
    BY <1>1 DEF Login!Goto, LoginTypes, LoginCalls, Underway
  <2>2. \A d \in Slots : d # c => call'[d] = call[d]
    BY <1>1 DEF Login!Goto, LoginTypes, LoginCalls, Underway
  <2>3. call' \in [Slots -> R]
    BY <1>1, <2>1 DEF Login!Goto, LoginTypes
  <2> QED
    BY <1>1, <2>1, <2>2, <2>3 DEF Resting, Login!At, Underway
<1>2. ASSUME Login!End(c)
      PROVE  /\ call' \in [Slots -> R]
             /\ Resting' /\ \A d \in Slots : Login!At(d, "idle") => call'[d] = Login!NoCall
  <2>1. call' \in [Slots -> R]
    BY <1>2, LoginWords DEF Login!End, LoginTypes
  <2>2. \A d \in Slots : call'[d] = IF d = c THEN Login!NoCall ELSE call[d]
    BY <1>2 DEF Login!End, LoginTypes
  <2> QED
    BY <2>1, <2>2 DEF Resting, Login!At
<1> QED
  BY <1>1, <1>2

\* A call begins in a free slot, with what it is told.
LEMMA CallBegins ==
  ASSUME NEW kind \in Kinds, NEW id \in People, NEW typed \in Int, LoginTypes, Resting, Login!Begin(kind, id, typed)
  PROVE  /\ call' \in [Slots -> LoginCalls]
         /\ Resting'
         /\ \A d \in Slots : Login!At(d, "idle") =>
              \/ call'[d] = Login!NoCall
              \/ call'[d].kind = kind /\ call'[d].id = id /\ call'[d].code = typed
<1>1. PICK c \in Slots : call' = [call EXCEPT ![c] = [pc |-> "sent", kind |-> kind, id |-> id, code |-> typed]]
  BY DEF Login!Begin
<1>2. call' \in [Slots -> LoginCalls]
  <2>1. [pc |-> "sent", kind |-> kind, id |-> id, code |-> typed] \in LoginCalls
    BY DEF LoginCalls, Underway
  <2> QED
    BY <1>1, <2>1 DEF LoginTypes
<1>3. \A d \in Slots : call'[d] = IF d = c THEN [pc |-> "sent", kind |-> kind, id |-> id, code |-> typed] ELSE call[d]
  BY <1>1 DEF LoginTypes
<1> QED
  BY <1>2, <1>3 DEF Resting, Login!At

\* The orbit's effect keeps the animation with its form, and drops a code only by stopping it.
LEMMA OrbitKeeps ==
  ASSUME Login!Orbit, LoginInv,
         \/ phase' \notin Login!OtpPhases \/ code' = Login!Part \/ otpVisual' # "idle"
         \/ phase \in Login!OtpPhases /\ otpVisual = "idle" /\ code' = code
  PROVE  /\ Captured' /\ Reacted' /\ CodeOnItsWay' /\ dropped' \in BOOLEAN
         /\ play' \in [code : Int, phase : Phases, id : People]
<1>1. /\ play' = play /\ phase' = phase /\ identifier' = identifier /\ code' = code /\ otpVisual' = otpVisual
      \/ play' = Login!NoPlay
  BY DEF Login!Orbit, Login!entry
<1>2. Login!NoPlay \in [code : Int, phase : Phases, id : People]
  BY LoginWords
<1>3. play' \in [code : Int, phase : Phases, id : People]
  BY <1>1, <1>2 DEF LoginInv, LoginTypes
<1>4. dropped' \in BOOLEAN /\ (dropped => dropped') /\ (play # Login!NoPlay /\ play' = Login!NoPlay /\ code' # Login!Part => dropped')
  BY DEF Login!Orbit, LoginInv, LoginTypes
<1>5. Captured'
  BY <1>1 DEF Captured, LoginInv
<1>6. Reacted'
  BY DEF Reacted, LoginInv, Login!Orbit, Login!Part
<1>7. CodeOnItsWay'
  BY <1>1, <1>4 DEF CodeOnItsWay, Login!CodeOnItsWay, LoginInv
<1> QED
  BY <1>3, <1>4, <1>5, <1>6, <1>7

\* What is sent for verification is what the screen shows.
Verifies ==
  \A c \in Slots : Login!At(c, "idle") /\ call'[c].kind \in Login!OtpPhases =>
    call'[c].id = identifier /\ call'[c].kind = phase /\ call'[c].code = code

\* A step of the form, of the resend timer or of the clock leaves the second step alone.
LEMMA FormSteps ==
  ASSUME LoginInv, UNCHANGED <<phase, identifier, code, otpVisual, play, last, call, dropped>>,
         mobile' \in People, plantEmail' \in People
  PROVE  LoginInv' /\ Verifies
<1>1. LoginInv'
  BY DEF LoginInv, LoginTypes, Captured, Resting, Reacted, CodeOnItsWay, Login!CodeOnItsWay, Login!At
<1>2. Verifies
  BY LoginWords DEF Verifies, LoginInv, Resting
<1> QED
  BY <1>1, <1>2

\* The steps after which the orbit's effect runs.
LEMMA OrbitSteps ==
  ASSUME LoginInv, Login!Orbit,
         \/ phase' \notin Login!OtpPhases \/ code' = Login!Part \/ otpVisual' # "idle"
         \/ phase \in Login!OtpPhases /\ otpVisual = "idle" /\ code' = code,
         mobile' \in People, plantEmail' \in People, identifier' \in People, phase' \in Phases, code' \in Int,
         call' \in [Slots -> LoginCalls],
         Resting', \A d \in Slots : Login!At(d, "idle") => call'[d].kind \notin Login!OtpPhases
  PROVE  LoginInv' /\ Verifies
<1>1. /\ Captured' /\ Reacted' /\ CodeOnItsWay' /\ dropped' \in BOOLEAN
      /\ play' \in [code : Int, phase : Phases, id : People]
  BY OrbitKeeps
<1>2. LoginInv'
  BY <1>1 DEF LoginInv, LoginTypes
<1>3. Verifies
  BY DEF Verifies
<1> QED
  BY <1>2, <1>3

\* The buttons that send a code.
LEMMA SendSteps ==
  ASSUME LoginInv, Login!Continue \/ Login!Resend \/ Login!VerifyOther PROVE LoginInv' /\ Verifies
<1>1. PICK kind \in Kinds \ Login!OtpPhases, id \in People : Login!Begin(kind, id, Login!Part)
  <2>1. "user" \in Kinds \ Login!OtpPhases /\ "staff" \in Kinds \ Login!OtpPhases
        /\ {"staff_passkey", "staff_recovery"} \subseteq Kinds \ Login!OtpPhases
    BY DEF Login!OtpPhases, Kinds, Phases, Login!StaffPhases
  <2>2. \/ Login!Begin("user", mobile, Login!Part) \/ Login!Begin("staff", plantEmail, Login!Part)
        \/ phase \in {"staff_passkey", "staff_recovery"} /\ Login!Begin(phase, identifier, Login!Part)
    BY DEF Login!Continue, Login!Resend, Login!VerifyOther, Login!Send
  <2> QED
    BY <2>1, <2>2 DEF LoginInv, LoginTypes
<1>2. /\ call' \in [Slots -> LoginCalls]
      /\ Resting'
      /\ \A d \in Slots : Login!At(d, "idle") => call'[d] = Login!NoCall \/ call'[d].kind = kind
  BY <1>1, CallBegins, LoginWords DEF LoginInv
<1>3. \A d \in Slots : Login!At(d, "idle") => call'[d].kind \notin Login!OtpPhases
  BY <1>1, <1>2, LoginWords
<1>4. UNCHANGED <<mode, mobile, plantEmail, phase, identifier, code, otpVisual>> /\ Login!Orbit
  BY DEF Login!Continue, Login!Resend, Login!VerifyOther, Login!form
<1>5. \/ phase' \notin Login!OtpPhases \/ code' = Login!Part \/ otpVisual' # "idle"
      \/ phase \in Login!OtpPhases /\ otpVisual = "idle" /\ code' = code
  BY <1>4
<1>6. mobile' \in People /\ plantEmail' \in People /\ identifier' \in People /\ phase' \in Phases /\ code' \in Int
  BY <1>4 DEF LoginInv, LoginTypes
<1> QED
  BY <1>2, <1>3, <1>4, <1>5, <1>6, OrbitSteps

\* What an answer does.
LEMMA AnswerSteps ==
  ASSUME LoginInv, NEW c \in Slots, Login!Answer(c) \/ Login!Lands(c) PROVE LoginInv' /\ Verifies
<1>1. PICK pc \in Underway : Login!End(c) \/ (~Login!At(c, "idle") /\ Login!Goto(c, pc))
  <2>1. CASE Login!Answer(c)
    <3>1. ~Login!At(c, "idle")
      BY <2>1 DEF Login!Answer, Login!At
    <3>2. Login!Goto(c, "ok") \/ Login!Goto(c, "failed") \/ Login!Goto(c, "factor")
      BY <2>1 DEF Login!Answer
    <3> QED
      BY <3>1, <3>2 DEF Underway
  <2>2. CASE Login!Lands(c)
    <3>1. ~Login!At(c, "idle") /\ (Login!End(c) \/ Login!Goto(c, "leaving") \/ Login!Goto(c, "erring"))
      BY <2>2 DEF Login!Lands, Login!SentUser, Login!SentStaff, Login!SecondFactor, Login!NotSent, Login!Verified,
        Login!FailOtp, Login!ErrorShown, Login!FailOther, Login!At
    <3> QED
      BY <3>1 DEF Underway
  <2> QED
    BY <2>1, <2>2
<1>2. /\ call' \in [Slots -> LoginCalls]
      /\ Resting' /\ \A d \in Slots : Login!At(d, "idle") => call'[d] = Login!NoCall
  BY <1>1, CallMoves DEF LoginInv
<1>3. CASE Login!Answer(c)
  <2>1. UNCHANGED <<phase, identifier, code, otpVisual, play, last, dropped, mobile, plantEmail>>
    BY <1>3 DEF Login!Answer, Login!form, Login!entry, Login!orbit
  <2>2. LoginInv'
    BY <1>2, <2>1 DEF LoginInv, LoginTypes, Captured, Reacted, CodeOnItsWay, Login!CodeOnItsWay
  <2>3. Verifies
    BY <1>2, LoginWords DEF Verifies
  <2> QED
    BY <2>2, <2>3
<1>4. CASE Login!Lands(c)
  <2>1. Login!Orbit
    BY <1>4 DEF Login!Lands, Login!SentUser, Login!SentStaff, Login!SecondFactor, Login!NotSent, Login!Verified,
      Login!FailOtp, Login!ErrorShown, Login!FailOther
  <2>2. call[c].id \in People
    BY DEF LoginInv, LoginTypes, LoginCalls
  <2>3. /\ mobile' \in People /\ plantEmail' \in People /\ identifier' \in People /\ phase' \in Phases
        /\ code' \in Int
    BY <1>4, <2>2, LoginWords DEF Login!Lands, Login!SentUser, Login!SentStaff, Login!SecondFactor, Login!NotSent,
      Login!Verified, Login!FailOtp, Login!ErrorShown, Login!FailOther, Login!Prompt, Login!form, LoginInv, LoginTypes,
      Phases, Login!StaffPhases
  <2>4. \/ phase' \notin Login!OtpPhases \/ code' = Login!Part \/ otpVisual' # "idle"
        \/ phase \in Login!OtpPhases /\ otpVisual = "idle" /\ code' = code
    BY <1>4 DEF Login!Lands, Login!SentUser, Login!SentStaff, Login!SecondFactor, Login!NotSent,
      Login!Verified, Login!FailOtp, Login!ErrorShown, Login!FailOther, Login!Prompt
  <2>5. \A d \in Slots : Login!At(d, "idle") => call'[d].kind \notin Login!OtpPhases
    BY <1>2, LoginWords
  <2> QED
    BY <1>2, <2>1, <2>3, <2>4, <2>5, OrbitSteps
<1> QED
  BY <1>3, <1>4

\* Every step of the login screen keeps the invariant and verifies what is shown.
LEMMA LoginStep == ASSUME LoginInv, Login!Next PROVE LoginInv' /\ Verifies
<1>1. Login!Step
  BY DEF Login!Next
<1>2. ASSUME NEW m \in Login!Maybe(Mobiles), Login!TypeMobile(m) PROVE LoginInv' /\ Verifies
  BY <1>2, FormSteps DEF Login!TypeMobile, Login!entry, Login!orbit, LoginInv, LoginTypes, People, Login!Maybe
<1>3. ASSUME NEW e \in Login!Maybe(Emails), Login!TypeEmail(e) PROVE LoginInv' /\ Verifies
  BY <1>3, FormSteps DEF Login!TypeEmail, Login!entry, Login!orbit, LoginInv, LoginTypes, People, Login!Maybe
<1>4. CASE Login!CountdownEnds
  BY <1>4, FormSteps DEF Login!CountdownEnds, Login!form, Login!entry, Login!orbit, LoginInv, LoginTypes
<1>5. CASE Login!Continue \/ Login!Resend \/ Login!VerifyOther
  BY <1>5, SendSteps
<1>6. ASSUME NEW next \in {"user", "plant"}, Login!ResetEntry(next) PROVE LoginInv' /\ Verifies
  <2>1. /\ phase' = "enter" /\ code' = Login!Part /\ UNCHANGED <<mobile, plantEmail, identifier, call>>
        /\ Login!Orbit
    BY <1>6 DEF Login!ResetEntry
  <2>2. Resting' /\ \A d \in Slots : Login!At(d, "idle") => call'[d].kind \notin Login!OtpPhases
    BY <2>1, LoginWords DEF LoginInv, Resting, Login!At
  <2>3. /\ mobile' \in People /\ plantEmail' \in People /\ identifier' \in People /\ phase' \in Phases /\ code' \in Int
        /\ call' \in [Slots -> LoginCalls]
    BY <2>1, LoginWords DEF LoginInv, LoginTypes, Phases
  <2> QED
    BY <2>1, <2>2, <2>3, OrbitSteps
<1>7. CASE Login!UseOther
  <2>1. /\ code' = Login!Part /\ UNCHANGED <<mobile, plantEmail, identifier, call>> /\ phase' \in Phases
        /\ Login!Orbit
    BY <1>7 DEF Login!UseOther, Login!form, Phases, Login!StaffPhases
  <2>2. Resting' /\ \A d \in Slots : Login!At(d, "idle") => call'[d].kind \notin Login!OtpPhases
    BY <2>1, LoginWords DEF LoginInv, Resting, Login!At
  <2>3. /\ mobile' \in People /\ plantEmail' \in People /\ identifier' \in People /\ code' \in Int
        /\ call' \in [Slots -> LoginCalls]
    BY <2>1, LoginWords DEF LoginInv, LoginTypes
  <2> QED
    BY <2>1, <2>2, <2>3, OrbitSteps
<1>8. CASE Login!Leave
  <2>1. UNCHANGED <<mobile, plantEmail, phase, identifier, code, otpVisual>> /\ Login!Orbit
    BY <1>8 DEF Login!Leave, Login!form
  <2>2. /\ call' \in [Slots -> LoginCalls] /\ Resting'
        /\ \A d \in Slots : Login!At(d, "idle") => call'[d] = Login!NoCall
    <3>1. CASE UNCHANGED call
      BY <3>1 DEF LoginInv, LoginTypes, Resting, Login!At
    <3>2. CASE \E c \in Slots : Login!End(c)
      <4>1. PICK c \in Slots : Login!End(c)
        BY <3>2
      <4>2. "leaving" \in Underway
        BY DEF Underway
      <4> QED
        BY <4>1, <4>2, CallMoves DEF LoginInv
    <3> QED
      BY <1>8, <3>1, <3>2 DEF Login!Leave
  <2>3. mobile' \in People /\ plantEmail' \in People /\ identifier' \in People /\ phase' \in Phases /\ code' \in Int
    BY <2>1 DEF LoginInv, LoginTypes
  <2>4. \A d \in Slots : Login!At(d, "idle") => call'[d].kind \notin Login!OtpPhases
    BY <2>2, LoginWords
  <2>5. \/ phase' \notin Login!OtpPhases \/ code' = Login!Part \/ otpVisual' # "idle"
        \/ phase \in Login!OtpPhases /\ otpVisual = "idle" /\ code' = code
    BY <2>1
  <2> QED
    BY <2>1, <2>2, <2>3, <2>4, <2>5, OrbitSteps
<1>9. ASSUME NEW n \in 0..MaxCodes, Login!TypeCode(n) PROVE LoginInv' /\ Verifies
  <2>1. /\ phase \in Login!OtpPhases /\ otpVisual = "idle" /\ n # code /\ code' = n /\ last' = n
        /\ play' = IF n \in {Login!Part, last} THEN Login!NoPlay
                   ELSE [code |-> n, phase |-> phase, id |-> identifier]
        /\ UNCHANGED <<mobile, plantEmail, phase, identifier, otpVisual, call, dropped>>
    BY <1>9 DEF Login!TypeCode, Login!form
  <2>2. LoginTypes'
    BY <2>1, LoginWords DEF LoginInv, LoginTypes, Login!NoPlay, Phases
  <2>3. last = code
    BY <2>1 DEF LoginInv, Reacted
  <2>4. Captured' /\ Reacted' /\ CodeOnItsWay'
    BY <2>1, <2>3 DEF Captured, Reacted, CodeOnItsWay, Login!CodeOnItsWay, Login!NoPlay, Login!Part
  <2>5. Resting' /\ Verifies
    BY <2>1, LoginWords DEF LoginInv, Resting, Login!At, Verifies
  <2> QED
    BY <2>2, <2>4, <2>5 DEF LoginInv
<1>10. CASE Login!Complete
  <2>1. /\ play # Login!NoPlay /\ play' = Login!NoPlay
        /\ UNCHANGED <<mobile, plantEmail, phase, identifier, code, last>>
    BY <1>10 DEF Login!Complete, Login!form
  <2>2. phase \in Login!OtpPhases /\ play = [code |-> code, phase |-> phase, id |-> identifier]
    BY <2>1 DEF LoginInv, Captured
  <2>3. Captured'
    BY <2>1 DEF Captured
  <2>4. Login!NoPlay \in [code : Int, phase : Phases, id : People]
    BY LoginWords
  <2>5. CASE loading
    <3>1. dropped' = TRUE /\ UNCHANGED <<otpVisual, call>>
      BY <1>10, <2>5 DEF Login!Complete
    <3>2. LoginTypes' /\ Reacted' /\ CodeOnItsWay'
      BY <2>1, <2>4, <3>1 DEF LoginInv, LoginTypes, Reacted, CodeOnItsWay, Login!CodeOnItsWay
    <3>3. Resting' /\ Verifies
      BY <3>1, LoginWords DEF LoginInv, Resting, Login!At, Verifies
    <3> QED
      BY <2>3, <3>2, <3>3 DEF LoginInv
  <2>6. CASE ~loading
    <3>1. otpVisual' = "checking" /\ Login!Begin(phase, identifier, code) /\ UNCHANGED dropped
      BY <1>10, <2>2, <2>6 DEF Login!Complete
    <3>2. /\ call' \in [Slots -> LoginCalls] /\ Resting'
          /\ \A d \in Slots : Login!At(d, "idle") =>
               \/ call'[d] = Login!NoCall
               \/ call'[d].kind = phase /\ call'[d].id = identifier /\ call'[d].code = code
      <4>1. phase \in Kinds /\ identifier \in People /\ code \in Int /\ LoginTypes /\ Resting
        BY DEF LoginInv, LoginTypes, Kinds
      <4> QED
        BY <3>1, <4>1, CallBegins
    <3>3. LoginTypes' /\ Reacted' /\ CodeOnItsWay'
      BY <2>1, <2>4, <3>1, <3>2 DEF LoginInv, LoginTypes, Reacted, CodeOnItsWay, Login!CodeOnItsWay
    <3>4. Verifies
      BY <3>2, LoginWords DEF Verifies
    <3> QED
      BY <2>3, <3>2, <3>3, <3>4 DEF LoginInv
  <2> QED
    BY <2>5, <2>6
<1>11. ASSUME NEW c \in Slots, Login!Answer(c) \/ Login!Lands(c) PROVE LoginInv' /\ Verifies
  BY <1>11, AnswerSteps
<1> QED
  BY <1>1, <1>2, <1>3, <1>4, <1>5, <1>6, <1>7, <1>8, <1>9, <1>10, <1>11 DEF Login!Step

\* While another screen moves, the login screen waits.
LEMMA LoginWaits == ASSUME LoginInv, UNCHANGED loginVars PROVE LoginInv' /\ Verifies
  BY FormSteps DEF loginVars, LoginInv, LoginTypes

LEMMA LoginMoves == ASSUME LoginInv, [ScreensNext]_allVars PROVE LoginInv' /\ Verifies
<1>1. Login!Next \/ UNCHANGED loginVars
  BY DEF ScreensNext, Only, allVars, parts
<1> QED
  BY <1>1, LoginStep, LoginWaits

\* A complete code on the screen is on its way, for any number of people, calls
\* and codes: nothing leaves a user looking at six digits that nobody will send.
THEOREM CodeGetsSent == ScreensSpec => []CodeOnItsWay
<1>1. LoginInv => CodeOnItsWay
  BY DEF LoginInv
<1>2. LoginInv /\ [ScreensNext]_allVars => LoginInv'
  BY LoginMoves
<1> QED
  BY <1>1, <1>2, LoginStarts, PTL DEF ScreensSpec

\* What the login screen sends for verification is what it shows at that moment:
\* the code, for the identifier and by the method of the form.
THEOREM CodeSentAsShown == ScreensSpec => Login!VerifiesShown
<1>1. LoginInv /\ [ScreensNext]_allVars => LoginInv'
  BY LoginMoves
<1>2. LoginInv /\ [ScreensNext]_allVars => [Verifies]_(Login!vars)
  BY LoginMoves
<1>3. ScreensSpec => [][Verifies]_(Login!vars)
  BY <1>1, <1>2, LoginStarts, PTL DEF ScreensSpec
<1> QED
  BY <1>3 DEF Login!VerifiesShown, Verifies

-----------------------------------------------------------------------------
(* The driver's screens, as the run composes them with the others.  What a *)
(* submission carries was noted when Submit was pressed, and stays as it   *)
(* was through the upload until it is posted.                              *)

Submissions == {"uploading", "uploaded", "posting"}
CallWords == {"free", "sent", "ok", "refused", "not uploaded"} \cup Submissions
Deeds == {"", "start", "arrive", "unload", "submit"}
Signed == ReceiverForms \cup {None}
Pictures == SitePhotos \cup {None}
DriverCalls == [does : Deeds, pc : CallWords, live : BOOLEAN, form : Signed, photo : Pictures]

DriverTypes ==
  /\ driverCalls \in [DriverRequests -> DriverCalls]
  /\ driverForm \in Signed /\ driverPhoto \in Pictures

Noted ==
  \A c \in DriverRequests :
    driverCalls[c].pc \in Submissions => <<driverCalls[c].form, driverCalls[c].photo>> \in driverSubmitted

DriverInv == DriverTypes /\ Noted /\ PodAsSubmitted

\* A call's fields, before and after one of them changes.
LEMMA CallFields ==
  ASSUME NEW k \in DriverCalls
  PROVE  /\ k.pc \in CallWords /\ k.form \in Signed /\ k.photo \in Pictures
         /\ \A pc \in CallWords : /\ [k EXCEPT !.pc = pc] \in DriverCalls
                                  /\ [k EXCEPT !.pc = pc].pc = pc
                                  /\ [k EXCEPT !.pc = pc].form = k.form /\ [k EXCEPT !.pc = pc].photo = k.photo
         /\ [k EXCEPT !.live = FALSE] \in DriverCalls /\ [k EXCEPT !.live = FALSE].pc = k.pc
         /\ [k EXCEPT !.live = FALSE].form = k.form /\ [k EXCEPT !.live = FALSE].photo = k.photo
  BY DEF DriverCalls

\* A free call.
LEMMA FreeCall == Delivering!Free \in DriverCalls /\ Delivering!Free.pc = "free"
  BY DEF Delivering!Free, DriverCalls, Deeds, CallWords, Signed, Pictures

\* A step keeps what the submissions under way carry, when each call it leaves
\* under way was so before, with the same content.
LEMMA Carried ==
  ASSUME DriverInv, driverCalls' \in [DriverRequests -> DriverCalls], driverForm' \in Signed, driverPhoto' \in Pictures,
         driverSubmitted \subseteq driverSubmitted',
         \A c \in DriverRequests : driverCalls'[c].pc \in Submissions =>
           /\ driverCalls[c].pc \in Submissions
           /\ driverCalls'[c].form = driverCalls[c].form /\ driverCalls'[c].photo = driverCalls[c].photo,
         driverPod' = driverPod
  PROVE  DriverInv'
  BY DEF DriverInv, DriverTypes, Noted, PodAsSubmitted, Delivering!PodAsSubmitted

\* The same for a step that changes nothing of all this ...
LEMMA DriverRests ==
  ASSUME DriverInv, UNCHANGED <<driverCalls, driverPod, driverSubmitted>>, driverForm' \in Signed, driverPhoto' \in Pictures
  PROVE  DriverInv'
<1>1. driverCalls' \in [DriverRequests -> DriverCalls] /\ driverSubmitted \subseteq driverSubmitted'
  BY DEF DriverInv, DriverTypes
<1> QED
  BY <1>1, Carried

\* ... for one that leaves a screen, so that its calls end without it ...
LEMMA LeftBehind ==
  ASSUME DriverInv, driverCalls' = [c \in DriverRequests |-> [driverCalls[c] EXCEPT !.live = FALSE]],
         UNCHANGED <<driverPod, driverSubmitted, driverForm, driverPhoto>>
  PROVE  DriverInv'
<1>1. \A c \in DriverRequests : driverCalls[c] \in DriverCalls
  BY DEF DriverInv, DriverTypes
<1>2. \A c \in DriverRequests : /\ driverCalls'[c] \in DriverCalls /\ driverCalls'[c].pc = driverCalls[c].pc
                         /\ driverCalls'[c].form = driverCalls[c].form /\ driverCalls'[c].photo = driverCalls[c].photo
  BY <1>1, CallFields
<1>3. driverCalls' \in [DriverRequests -> DriverCalls]
  BY <1>2
<1> QED
  BY <1>2, <1>3, Carried DEF DriverInv, DriverTypes

\* ... and for one that changes a call and no proof.
LEMMA OneCallMoves ==
  ASSUME DriverInv, NEW c \in DriverRequests, NEW k \in DriverCalls, driverCalls' = [driverCalls EXCEPT ![c] = k],
         k.pc \in Submissions => /\ driverCalls[c].pc \in Submissions
                                 /\ k.form = driverCalls[c].form /\ k.photo = driverCalls[c].photo,
         UNCHANGED <<driverPod, driverSubmitted, driverForm, driverPhoto>>
  PROVE  DriverInv'
<1>1. driverCalls' \in [DriverRequests -> DriverCalls]
  BY DEF DriverInv, DriverTypes
<1>2. \A d \in DriverRequests : driverCalls'[d] = IF d = c THEN k ELSE driverCalls[d]
  BY DEF DriverInv, DriverTypes
<1> QED
  BY <1>1, <1>2, Carried DEF DriverInv, DriverTypes

\* Submit notes what is signed for.
LEMMA SubmitNotes == ASSUME DriverInv, Delivering!Submit PROVE DriverInv'
<1> DEFINE k == [does |-> "submit", pc |-> "uploading", live |-> TRUE, form |-> driverForm, photo |-> driverPhoto]
<1>1. PICK c \in DriverRequests : driverCalls' = [driverCalls EXCEPT ![c] = k]
  BY DEF Delivering!Submit, Delivering!Press
<1>2. driverForm \in Signed /\ driverPhoto \in Pictures
  BY DEF DriverInv, DriverTypes
<1>3. k \in DriverCalls
  BY <1>2 DEF DriverCalls, Deeds, CallWords, Submissions
<1>4. /\ driverSubmitted' = driverSubmitted \cup {<<driverForm, driverPhoto>>}
      /\ UNCHANGED <<driverPod, driverForm, driverPhoto>>
  BY DEF Delivering!Submit, Delivering!server
<1>5. driverCalls' \in [DriverRequests -> DriverCalls] /\ \A d \in DriverRequests : driverCalls'[d] = IF d = c THEN k ELSE driverCalls[d]
  BY <1>1, <1>3 DEF DriverInv, DriverTypes
<1>6. k.form = driverForm /\ k.photo = driverPhoto
  OBVIOUS
<1> HIDE DEF k
<1>7. Noted'
  BY <1>4, <1>5, <1>6 DEF DriverInv, Noted
<1>8. PodAsSubmitted'
  BY <1>4 DEF DriverInv, PodAsSubmitted, Delivering!PodAsSubmitted
<1> QED
  BY <1>2, <1>4, <1>5, <1>7, <1>8 DEF DriverInv, DriverTypes

\* The backend's proof is the one that was posted.
LEMMA PodArrives == ASSUME DriverInv, NEW c \in DriverRequests, Delivering!SubmitPod(c) PROVE DriverInv'
<1>1. /\ driverCalls[c].pc = "posting" /\ driverCalls[c] \in DriverCalls
      /\ UNCHANGED <<driverSubmitted, driverForm, driverPhoto>>
  BY DEF Delivering!SubmitPod, Delivering!driver, Delivering!podScreen, DriverInv, DriverTypes
<1>2. PICK pc \in {"ok", "refused"} : driverCalls' = [driverCalls EXCEPT ![c].pc = pc]
  BY DEF Delivering!SubmitPod, Delivering!To
<1>3. driverPod' = driverPod \/ driverPod' = [form |-> driverCalls[c].form, photo |-> driverCalls[c].photo]
  BY DEF Delivering!SubmitPod
<1>4. pc \in CallWords /\ pc \notin Submissions
  BY <1>2 DEF CallWords, Submissions
<1>5. /\ driverCalls' \in [DriverRequests -> DriverCalls]
      /\ \A d \in DriverRequests : driverCalls'[d] = IF d = c THEN [driverCalls[c] EXCEPT !.pc = pc] ELSE driverCalls[d]
  BY <1>1, <1>2, <1>4, CallFields DEF DriverInv, DriverTypes
<1>6. driverCalls'[c].pc = pc
  <2>1. PICK e \in DriverCalls : e = driverCalls[c]
    BY <1>1
  <2>2. [e EXCEPT !.pc = pc].pc = pc
    BY <1>4, CallFields
  <2> QED
    BY <1>5, <2>1, <2>2
<1>7. Noted'
  BY <1>1, <1>4, <1>5, <1>6 DEF DriverInv, Noted
<1>8. <<driverCalls[c].form, driverCalls[c].photo>> \in driverSubmitted
  BY <1>1 DEF DriverInv, Noted, Submissions
<1>9. PodAsSubmitted'
  BY <1>1, <1>3, <1>8 DEF DriverInv, PodAsSubmitted, Delivering!PodAsSubmitted
<1> QED
  BY <1>1, <1>5, <1>7, <1>9 DEF DriverInv, DriverTypes

\* The other steps of a call.
LEMMA CallSteps ==
  ASSUME DriverInv, NEW c \in DriverRequests,
         \/ Delivering!AdvanceAnswered(c, TRUE) \/ Delivering!AdvanceAnswered(c, FALSE) \/ Delivering!UploadEnds(c)
         \/ Delivering!SubmitSucceeds(c) \/ Delivering!SubmitFails(c) \/ Delivering!Ended(c)
         \/ Delivering!AdvanceTrip(c) \/ Delivering!UploadPhoto(c)
  PROVE  DriverInv'
<1>1. PICK e \in DriverCalls : e = driverCalls[c]
  BY DEF DriverInv, DriverTypes
<1>2. e.pc \in CallWords /\ \A pc \in CallWords :
        /\ [e EXCEPT !.pc = pc] \in DriverCalls /\ [e EXCEPT !.pc = pc].pc = pc
        /\ [e EXCEPT !.pc = pc].form = e.form /\ [e EXCEPT !.pc = pc].photo = e.photo
  BY CallFields
<1>3. /\ [e EXCEPT !.live = FALSE] \in DriverCalls /\ [e EXCEPT !.live = FALSE].pc = e.pc
      /\ [e EXCEPT !.live = FALSE].form = e.form /\ [e EXCEPT !.live = FALSE].photo = e.photo
  BY CallFields
<1>4. Delivering!Free \in DriverCalls /\ Delivering!Free.pc \notin Submissions
  BY FreeCall DEF Submissions
<1>5. ASSUME NEW ok \in BOOLEAN, Delivering!AdvanceAnswered(c, ok) PROVE DriverInv'
  <2>1. driverCalls' = [driverCalls EXCEPT ![c] = [e EXCEPT !.live = FALSE]] \/ driverCalls' = [driverCalls EXCEPT ![c] = Delivering!Free]
    BY <1>1, <1>5 DEF Delivering!AdvanceAnswered
  <2>2. UNCHANGED <<driverPod, driverSubmitted, driverForm, driverPhoto>>
    BY <1>5 DEF Delivering!AdvanceAnswered, Delivering!server, Delivering!podScreen
  <2>3. CASE driverCalls' = [driverCalls EXCEPT ![c] = Delivering!Free]
    BY <1>4, <2>2, <2>3, OneCallMoves
  <2>4. CASE driverCalls' = [driverCalls EXCEPT ![c] = [e EXCEPT !.live = FALSE]]
    BY <1>1, <1>3, <2>2, <2>4, OneCallMoves
  <2> QED
    BY <2>1, <2>3, <2>4
<1>6. CASE Delivering!UploadEnds(c)
  <2>1. e.pc = "uploaded" /\ driverCalls' = [driverCalls EXCEPT ![c] = [e EXCEPT !.pc = "posting"]]
    BY <1>1, <1>6 DEF Delivering!UploadEnds, Delivering!Held
  <2>2. UNCHANGED <<driverPod, driverSubmitted, driverForm, driverPhoto>>
    BY <1>6 DEF Delivering!UploadEnds, Delivering!server, Delivering!driver, Delivering!podScreen
  <2>3. "posting" \in CallWords /\ e.pc \in Submissions
    BY <2>1 DEF CallWords, Submissions
  <2>4. PICK k \in DriverCalls : /\ k = [e EXCEPT !.pc = "posting"] /\ k.form = e.form /\ k.photo = e.photo
    BY <1>2, <2>3
  <2> QED
    BY <1>1, <2>1, <2>2, <2>3, <2>4, OneCallMoves
<1>7. CASE Delivering!SubmitSucceeds(c)
  <2>1. /\ driverCalls' = [d \in DriverRequests |-> IF d = c THEN Delivering!Free ELSE [driverCalls[d] EXCEPT !.live = FALSE]]
        /\ UNCHANGED <<driverPod, driverSubmitted, driverForm, driverPhoto>>
    BY <1>7 DEF Delivering!SubmitSucceeds, Delivering!server
  <2>2. \A d \in DriverRequests : d # c => /\ driverCalls'[d] \in DriverCalls /\ driverCalls'[d].pc = driverCalls[d].pc
                                    /\ driverCalls'[d].form = driverCalls[d].form /\ driverCalls'[d].photo = driverCalls[d].photo
    BY <2>1, CallFields DEF DriverInv, DriverTypes
  <2>3. driverCalls'[c] = Delivering!Free
    BY <2>1
  <2>4. driverCalls' \in [DriverRequests -> DriverCalls]
    BY <1>4, <2>1, <2>2, <2>3
  <2> QED
    BY <1>4, <2>1, <2>2, <2>3, <2>4, Carried DEF DriverInv, DriverTypes
<1>8. CASE Delivering!SubmitFails(c)
  <2>1. driverCalls' = [driverCalls EXCEPT ![c] = [e EXCEPT !.live = FALSE]] \/ driverCalls' = [driverCalls EXCEPT ![c] = Delivering!Free]
    BY <1>1, <1>8 DEF Delivering!SubmitFails
  <2>2. UNCHANGED <<driverPod, driverSubmitted, driverForm, driverPhoto>>
    BY <1>8 DEF Delivering!SubmitFails, Delivering!server
  <2>3. CASE driverCalls' = [driverCalls EXCEPT ![c] = Delivering!Free]
    BY <1>4, <2>2, <2>3, OneCallMoves
  <2>4. CASE driverCalls' = [driverCalls EXCEPT ![c] = [e EXCEPT !.live = FALSE]]
    BY <1>1, <1>3, <2>2, <2>4, OneCallMoves
  <2> QED
    BY <2>1, <2>3, <2>4
<1>9. CASE Delivering!Ended(c)
  <2>1. driverCalls' = [driverCalls EXCEPT ![c] = Delivering!Free]
    BY <1>9 DEF Delivering!Ended
  <2>2. UNCHANGED <<driverPod, driverSubmitted, driverForm, driverPhoto>>
    BY <1>9 DEF Delivering!Ended, Delivering!server, Delivering!driver, Delivering!podScreen
  <2> QED
    BY <1>4, <2>1, <2>2, OneCallMoves
<1>10. CASE Delivering!AdvanceTrip(c) \/ Delivering!UploadPhoto(c)
  <2>1. PICK pc \in {"ok", "refused", "uploaded", "not uploaded"} :
          /\ driverCalls' = [driverCalls EXCEPT ![c].pc = pc] /\ (pc = "uploaded" => e.pc = "uploading")
    BY <1>1, <1>10 DEF Delivering!AdvanceTrip, Delivering!UploadPhoto, Delivering!To
  <2>2. UNCHANGED <<driverPod, driverSubmitted, driverForm, driverPhoto>>
    BY <1>10 DEF Delivering!AdvanceTrip, Delivering!UploadPhoto, Delivering!server, Delivering!driver, Delivering!podScreen
  <2>3. driverCalls' = [driverCalls EXCEPT ![c] = [e EXCEPT !.pc = pc]]
    BY <1>1, <2>1
  <2>4. pc \in CallWords /\ (pc \in Submissions => e.pc \in Submissions)
    BY <2>1 DEF CallWords, Submissions
  <2>5. PICK k \in DriverCalls : /\ k = [e EXCEPT !.pc = pc] /\ k.pc = pc
                                 /\ k.form = e.form /\ k.photo = e.photo
    BY <1>2, <2>4
  <2>6. driverCalls' = [driverCalls EXCEPT ![c] = k]
    BY <2>3, <2>5
  <2> QED
    BY <1>1, <2>2, <2>4, <2>5, <2>6, OneCallMoves
<1> QED
  BY <1>5, <1>6, <1>7, <1>8, <1>9, <1>10

\* Every step of the driver's screens and of the backend keeps the invariant.
LEMMA DriverStep == ASSUME DriverInv, Delivering!Next PROVE DriverInv'
<1>1. driverForm \in Signed /\ driverPhoto \in Pictures
  BY DEF DriverInv, DriverTypes
<1>2. CASE \/ Delivering!HomeLoaded \/ Delivering!OpenTrip \/ Delivering!TripLoaded \/ Delivering!OpenPod
           \/ Delivering!RemovePhoto \/ Delivering!Sign
  <2>1. UNCHANGED <<driverCalls, driverPod, driverSubmitted>>
    BY <1>2 DEF Delivering!HomeLoaded, Delivering!OpenTrip, Delivering!TripLoaded, Delivering!OpenPod,
      Delivering!RemovePhoto, Delivering!Sign, Delivering!server
  <2>2. driverForm' \in Signed /\ driverPhoto' \in Pictures
    BY <1>1, <1>2 DEF Delivering!HomeLoaded, Delivering!OpenTrip, Delivering!TripLoaded, Delivering!OpenPod,
      Delivering!RemovePhoto, Delivering!Sign, Delivering!podScreen, Signed, Pictures
  <2> QED
    BY <2>1, <2>2, DriverRests
<1>3. ASSUME NEW f \in ReceiverForms, Delivering!TypeForm(f) PROVE DriverInv'
  BY <1>1, <1>3, DriverRests DEF Delivering!TypeForm, Delivering!server, Signed
<1>4. ASSUME NEW p \in SitePhotos, Delivering!PickImage(p) PROVE DriverInv'
  BY <1>1, <1>4, DriverRests DEF Delivering!PickImage, Delivering!server, Pictures
<1>5. CASE \/ Delivering!CustomerHomeLoaded \/ Delivering!OpenTracking \/ Delivering!CloseTracking
           \/ Delivering!TrackOrder \/ Delivering!TrackLoaded \/ Delivering!TrackFails \/ Delivering!Retry
           \/ Delivering!Tick
  <2>1. UNCHANGED <<driverCalls, driverPod, driverSubmitted, driverForm, driverPhoto>>
    BY <1>5 DEF Delivering!CustomerHomeLoaded, Delivering!OpenTracking, Delivering!CloseTracking,
      Delivering!TrackOrder, Delivering!TrackLoaded, Delivering!TrackFails, Delivering!Retry, Delivering!Tick,
      Delivering!server, Delivering!driver, Delivering!podScreen
  <2> QED
    BY <1>1, <2>1, DriverRests
<1>6. ASSUME NEW l \in Delivering!Loads,
             \/ Delivering!DispatchLoad(l) \/ Delivering!OtherDriver(l) \/ Delivering!PostLocation(l)
             \/ Delivering!SelectLoad(l)
      PROVE  DriverInv'
  <2>1. UNCHANGED <<driverCalls, driverPod, driverSubmitted, driverForm, driverPhoto>>
    BY <1>6 DEF Delivering!DispatchLoad, Delivering!OtherDriver, Delivering!PostLocation, Delivering!SelectLoad,
      Delivering!server, Delivering!driver, Delivering!podScreen
  <2> QED
    BY <1>1, <2>1, DriverRests
<1>7. CASE Delivering!BackHome \/ Delivering!ClosePod
  BY <1>7, LeftBehind DEF Delivering!BackHome, Delivering!ClosePod, Delivering!Leave, Delivering!server,
    Delivering!podScreen
<1>8. CASE Delivering!Advance
  <2> DEFINE k == [Delivering!Free EXCEPT !.does = Delivering!Step(driverTripShown), !.pc = "sent", !.live = TRUE]
  <2>1. PICK c \in DriverRequests : driverCalls' = [driverCalls EXCEPT ![c] = k]
    BY <1>8 DEF Delivering!Advance, Delivering!Press
  <2>2. UNCHANGED <<driverPod, driverSubmitted, driverForm, driverPhoto>>
    BY <1>8 DEF Delivering!Advance, Delivering!server, Delivering!podScreen
  <2>3. Delivering!Step(driverTripShown) \in Deeds
    BY <1>8 DEF Delivering!Advance, Delivering!Step, Deeds
  <2>4. k \in DriverCalls /\ k.pc \notin Submissions
    BY <2>3 DEF Delivering!Free, DriverCalls, CallWords, Submissions, Signed, Pictures
  <2> HIDE DEF k
  <2> QED
    BY <2>1, <2>2, <2>4, OneCallMoves
<1>9. CASE Delivering!Submit
  BY <1>9, SubmitNotes
<1>10. ASSUME NEW c \in DriverRequests,
              \/ Delivering!AdvanceAnswered(c, TRUE) \/ Delivering!AdvanceAnswered(c, FALSE)
              \/ Delivering!UploadEnds(c) \/ Delivering!SubmitSucceeds(c) \/ Delivering!SubmitFails(c)
              \/ Delivering!Ended(c) \/ Delivering!AdvanceTrip(c) \/ Delivering!UploadPhoto(c)
       PROVE  DriverInv'
  BY <1>10, CallSteps
<1>11. ASSUME NEW c \in DriverRequests, Delivering!SubmitPod(c) PROVE DriverInv'
  BY <1>11, PodArrives
<1> QED
  BY <1>2, <1>3, <1>4, <1>5, <1>6, <1>7, <1>8, <1>9, <1>10, <1>11 DEF Delivering!Next

LEMMA DriverStarts == ScreensInit => DriverInv
<1> SUFFICES ASSUME Delivering!Init PROVE DriverInv
  BY DEF ScreensInit
<1>1. /\ driverCalls = [c \in DriverRequests |-> Delivering!Free] /\ driverForm = None /\ driverPhoto = None /\ driverPod = None
  BY DEF Delivering!Init
<1>2. DriverTypes
  BY <1>1, FreeCall DEF DriverTypes, Signed, Pictures
<1>3. Noted
  BY <1>1, FreeCall DEF Noted, Submissions
<1>4. PodAsSubmitted
  BY <1>1 DEF PodAsSubmitted, Delivering!PodAsSubmitted
<1> QED
  BY <1>2, <1>3, <1>4 DEF DriverInv

LEMMA DriverMoves == ASSUME DriverInv, [ScreensNext]_allVars PROVE DriverInv'
<1>1. Delivering!Next \/ UNCHANGED driverVars
  BY DEF ScreensNext, Only, allVars, parts
<1>2. CASE UNCHANGED driverVars
  BY <1>2, DriverRests DEF driverVars, DriverInv, DriverTypes
<1> QED
  BY <1>1, <1>2, DriverStep

\* The proof of delivery on file is what the receiver had signed for when the
\* driver pressed Submit, for any number of presses: neither an edit during the
\* upload nor another submission changes it.
THEOREM PodIsAsSigned == ScreensSpec => []PodAsSubmitted
<1>1. DriverInv => PodAsSubmitted
  BY DEF DriverInv
<1>2. DriverInv /\ [ScreensNext]_allVars => DriverInv'
  BY DriverMoves
<1> QED
  BY <1>1, <1>2, DriverStarts, PTL DEF ScreensSpec
=============================================================================
