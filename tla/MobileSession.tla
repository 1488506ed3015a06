---------------------------- MODULE MobileSession ----------------------------
(***************************************************************************)
(* The session of the mobile application (frontend/src/auth/AuthContext,   *)
(* the request timeouts of src/api/client.ts, and the push registration of *)
(* src/notifications): what the secure storage, the React state and the    *)
(* backend each believe about who is signed in.                            *)
(*                                                                         *)
(* A flow is one call in progress: the start-up, an acceptSession, a       *)
(* refreshMe or a signOut.  Each holds the token it was called with and    *)
(* runs to its next await; the flows interleave there.  A /me request is   *)
(* decided by the backend in one step and lands in another, so an answer   *)
(* may be old when it lands.  A user is named by the token it was read with.*)
(***************************************************************************)
EXTENDS FiniteSets

CONSTANTS
  Tokens,    \* access tokens, one per login
  None,      \* no token, no user
  Owner,     \* the user each token belongs to
  Saved,     \* the tokens that may be stored when the application starts
  Logins,    \* bound: acceptSession calls in flight at once
  Refreshes  \* bound: refreshMe calls in flight at once

Flows == {"boot", "out"} \cup Logins \cup Refreshes

VARIABLES
  stored,      \* the token in secure storage
  token, user, \* the React state
  hydrating,   \* the start-up has not settled yet
  flow,        \* each flow: [pc, tok]
  valid,       \* tokens the backend accepts
  issued,      \* tokens the backend has issued
  registering, \* tokens whose push registration is in flight
  device,      \* the user the backend sends this device's pushes to
  crossed,     \* ghost: a flow acted on a session that was not its own any more
  left         \* ghost: a push registration was knowingly left behind

react == <<token, user, hydrating>>
vars == <<stored, react, flow, valid, issued, registering, device, crossed, left>>

Idle == [pc |-> "idle", tok |-> None]
At(f, pc) == flow[f].pc = pc
Goto(f, pc) == flow' = [flow EXCEPT ![f].pc = pc]
End(f) == flow' = [flow EXCEPT ![f] = Idle]
Busy == {f \in Flows : flow[f].pc # "idle"}

Init ==
  /\ stored \in Saved \cup {None} /\ issued = Saved
  /\ token = None /\ user = None /\ hydrating = TRUE
  /\ flow = [f \in Flows |-> IF f = "boot" THEN [pc |-> "read", tok |-> None] ELSE Idle]
  /\ valid \in SUBSET Saved
  /\ registering = {} /\ device \in {None} \cup {Owner[t] : t \in {stored} \ {None}}
  /\ crossed = FALSE /\ left = FALSE

\* Flow f acts on what it takes for its own session, and now is t.
ActOn(f, t) == crossed' = (crossed \/ t \notin {flow[f].tok, None})

-----------------------------------------------------------------------------
(* Requests: the backend decides /me, or the request fails or times out. *)

Decide(f) ==
  /\ At(f, "sent")
  /\ \/ flow[f].tok \in valid /\ Goto(f, "ok")
     \/ flow[f].tok \notin valid /\ Goto(f, "denied")
     \/ Goto(f, "lost")
  /\ UNCHANGED <<stored, react, valid, issued, registering, device, crossed, left>>

\* A session ends on the backend: expired, revoked, or its user suspended.
Revoke(t) ==
  /\ t \in valid /\ valid' = valid \ {t}
  /\ UNCHANGED <<stored, react, flow, issued, registering, device, crossed, left>>

-----------------------------------------------------------------------------
(* AuthContext. *)

\* The start-up reads the stored token; without one it has settled.
ReadStored ==
  /\ At("boot", "read")
  /\ IF stored = None
       THEN End("boot") /\ hydrating' = FALSE
       ELSE /\ flow' = [flow EXCEPT !["boot"] = [pc |-> "sent", tok |-> stored]]
            /\ UNCHANGED hydrating
  /\ UNCHANGED <<stored, token, user, valid, issued, registering, device, crossed, left>>

\* verify*: the backend issues a token, which acceptSession stores first; when
\* it cannot be stored the login fails.
Verified(l, t) ==
  /\ flow[l] = Idle /\ ~hydrating /\ token = None
  /\ t \in Tokens \ issued /\ issued' = issued \cup {t} /\ valid' = valid \cup {t}
  /\ \/ flow' = [flow EXCEPT ![l] = [pc |-> "store", tok |-> t]]
     \/ UNCHANGED flow
  /\ UNCHANGED <<stored, react, registering, device, crossed, left>>

StoreToken(l) ==
  /\ At(l, "store") /\ Goto(l, "sent") /\ stored' = flow[l].tok
  /\ UNCHANGED <<react, valid, issued, registering, device, crossed, left>>

\* /me answered for the start-up or a login: the session is taken over, and
\* the push bridge, whose effect depends on it, starts a registration.
Accept(f) ==
  /\ f \in {"boot"} \cup Logins /\ At(f, "ok") /\ End(f)
  /\ token' = flow[f].tok /\ user' = flow[f].tok
  /\ hydrating' = (hydrating /\ f # "boot")
  /\ registering' = registering \cup {flow[f].tok}
  /\ ActOn(f, stored) /\ UNCHANGED <<stored, valid, issued, device, left>>

\* refreshMe's call; its answer goes to the user state whatever the token is.
Refresh(r) ==
  /\ flow[r] = Idle /\ token # None
  /\ flow' = [flow EXCEPT ![r] = [pc |-> "sent", tok |-> token]]
  /\ UNCHANGED <<stored, react, valid, issued, registering, device, crossed, left>>

Refreshed(r) ==
  /\ r \in Refreshes /\ At(r, "ok") /\ End(r)
  /\ user' = flow[r].tok
  /\ registering' = IF token = None THEN registering ELSE registering \cup {token}
  /\ crossed' = (crossed \/ token # flow[r].tok)
  /\ UNCHANGED <<stored, token, hydrating, valid, issued, device, left>>

\* A refresh that fails for want of the network keeps the session.
KeepSession(r) ==
  /\ r \in Refreshes /\ At(r, "lost") /\ End(r)
  /\ UNCHANGED <<stored, react, valid, issued, registering, device, crossed, left>>

\* signOut's call; the token it cleans up after is the one of its render.
SignOut ==
  /\ flow["out"] = Idle /\ token # None
  /\ flow' = [flow EXCEPT !["out"] = [pc |-> "remove", tok |-> token]]
  /\ UNCHANGED <<stored, react, valid, issued, registering, device, crossed, left>>

\* Tracking is stopped, then the stored token goes: at a sign-out, when a
\* refresh is denied, and when a start-up or a login fails for any reason.
Dropping(f) ==
  \/ At(f, "remove")
  \/ At(f, "denied")
  \/ At(f, "lost") /\ f \notin Refreshes

RemoveStored(f) ==
  /\ Dropping(f) /\ Goto(f, "clear") /\ stored' = None
  /\ ActOn(f, stored)
  /\ UNCHANGED <<react, valid, issued, registering, device, left>>

\* Mutant: the user stays.
ClearTokenOnly(f) ==
  /\ At(f, "clear")
  /\ token' = None /\ UNCHANGED user /\ hydrating' = (hydrating /\ f # "boot")
  /\ IF f = "out" THEN Goto(f, "unregister") ELSE End(f)
  /\ ActOn(f, token)
  /\ left' = (left \/ f # "out" \/ registering # {})
  /\ UNCHANGED <<stored, valid, issued, registering, device>>

\* Then the state; a sign-out goes on with the backend.
ClearState(f) ==
  /\ At(f, "clear")
  /\ token' = None /\ user' = None /\ hydrating' = (hydrating /\ f # "boot")
  /\ IF f = "out" THEN Goto(f, "unregister") ELSE End(f)
  /\ ActOn(f, token)
  /\ left' = (left \/ f # "out" \/ registering # {})
  /\ UNCHANGED <<stored, valid, issued, registering, device>>

\* Mutant: the push registration is left.
SkipUnregister ==
  /\ At("out", "unregister") /\ Goto("out", "logout")
  /\ UNCHANGED <<stored, react, valid, issued, registering, device, crossed, left>>

\* The two calls of the remote clean-up, each best effort.
Unregister ==
  /\ At("out", "unregister") /\ Goto("out", "logout")
  /\ LET t == flow["out"].tok IN
     \/ /\ t \in valid /\ device' = (IF device = Owner[t] THEN None ELSE device)
        /\ UNCHANGED left
     \/ left' = TRUE /\ UNCHANGED device
  /\ UNCHANGED <<stored, react, valid, issued, registering, crossed>>

Logout ==
  /\ At("out", "logout") /\ End("out")
  /\ \/ valid' = valid \ {flow["out"].tok}
     \/ UNCHANGED valid
  /\ UNCHANGED <<stored, react, issued, registering, device, crossed, left>>

\* The push bridge's registration lands, whoever is signed in by then; it may
\* fail, and without the permission it is not even sent.
Register(t) ==
  /\ t \in registering /\ registering' = registering \ {t}
  /\ \/ t \in valid /\ device' = Owner[t]
     \/ UNCHANGED device
  /\ UNCHANGED <<stored, react, flow, valid, issued, crossed, left>>

-----------------------------------------------------------------------------
Run(f) ==
  \/ Decide(f) \/ Accept(f) \/ Refreshed(f) \/ KeepSession(f)
  \/ RemoveStored(f) \/ ClearState(f)

Next ==
  \/ ReadStored
  \/ \E l \in Logins : StoreToken(l) \/ \E t \in Tokens : Verified(l, t)
  \/ \E r \in Refreshes : Refresh(r)
  \/ SignOut \/ Unregister \/ Logout
  \/ \E f \in Flows : Run(f)
  \/ \E t \in Tokens : Register(t) \/ Revoke(t)

Spec == Init /\ [][Next]_vars

-----------------------------------------------------------------------------
MaybeToken == Tokens \cup {None}

\* Every variable has its type; in particular a flow past its first step holds a
\* token the backend has issued.
TypeOK ==
  /\ {stored, token, user} \subseteq MaybeToken /\ hydrating \in BOOLEAN
  /\ flow \in [Flows -> [pc : {"idle", "read", "sent", "ok", "denied", "lost", "store",
                               "remove", "clear", "unregister", "logout"},
                         tok : MaybeToken]]
  /\ \A f \in Flows : ~At(f, "idle") /\ ~At(f, "read") => flow[f].tok \in issued
  /\ valid \subseteq issued /\ issued \subseteq Tokens /\ registering \subseteq issued
  /\ device \in {Owner[t] : t \in Tokens} \cup {None}
  /\ crossed \in BOOLEAN /\ left \in BOOLEAN

\* The three records of who is signed in agree: the user shown is the one whose
\* token the requests carry, and, unless a drop is between its two writes, a
\* restart of the application would find the same token.  The exception is a
\* flow that lands after its session was dropped or replaced: refreshMe does
\* not look at the token when its answer comes.
SessionConsistent ==
  ~crossed =>
    /\ user = token
    /\ (\A f \in Flows : ~At(f, "clear")) /\ token # None => stored = token

\* While a sign-out is still waiting for the network its token is gone from the
\* device: signOut fails closed, whatever the remote clean-up does.
SignOutFailsClosed ==
  At("out", "unregister") \/ At("out", "logout") =>
    flow["out"].tok \notin {token, stored}

\* With nothing in flight, the backend sends this device's pushes to the user
\* signed in on it or to nobody: a sign-out unregisters before the next login
\* can be shown another person's notifications.  Left aside are sessions that
\* end without a sign-out and clean-ups that failed.
PushFollowsSession ==
  Busy = {} /\ registering = {} /\ ~left /\ ~crossed =>
    device = None \/ (token # None /\ device = Owner[token])
=============================================================================
