--------------------------- MODULE AutomationQueue ---------------------------
(***************************************************************************)
(* The durable queue that turns order-status history rows into customer    *)
(* notifications (backend/order_automation.py), together with the workers  *)
(* that drain it (backend/automation_worker.py and the HTTP worker routes  *)
(* of backend/routers/automation.py).                                      *)
(*                                                                         *)
(* Every MongoDB call is one step; a process may be overtaken between any  *)
(* two of them, because every call is an `await`.  A session is one        *)
(* execution of claim -> deliver -> ack/fail for one event; the sessions   *)
(* of one worker process share its worker id.                              *)
(*                                                                         *)
(* Time: lease_expires_at and next_attempt_at are countdowns (ticks left,  *)
(* 0 = the instant is not in the future), so no absolute clock is needed.  *)
(***************************************************************************)
EXTENDS Integers, Sequences, FiniteSets

CONSTANTS
  Events,         \* order_status_history rows; one event per row
  Premade,        \* events whose queue document and action rows already exist
  Materializers,  \* concurrent runs of materialize_history_event
  Sessions,       \* concurrent claim/deliver/ack executions
  WorkerOf,       \* the worker_id each session presents
  Tokens,         \* lease tokens (token_urlsafe(24))
  NoEvent, NoToken, NoWorker,
  Policy,         \* AUTOMATION_POLICIES[status].channels, in order
  Requests,       \* channel lists a deliver call may ask for
  Enabled,        \* channels switched on by the AUTOMATION_* flags
  Skipped,        \* channels the customer opted out of, or vapi on a non-COD order
  Misconfigured,  \* channels whose adapter raises ProviderConfigurationError
  Quietable,      \* channels subject to the customer's quiet hours
  MaxAttempts,    \* max_attempts of the policy (5)
  AttemptCap,     \* bound: attempts saturates here, above MaxAttempts
  LeaseTicks,     \* lease_seconds
  RetryBase,      \* retry_after_seconds
  RetryCap,       \* the 3600 s ceiling of the retry delay
  SendCap,        \* bound: the ghost counter sends saturates here
  Faults          \* which of "overrun", "crash", "database", "ambiguous" and
                  \* "materialize" happen

Channels == {Policy[i] : i \in DOMAIN Policy}

ASSUME QueueAssumption ==
  /\ IsFiniteSet(Events)
  /\ Premade \subseteq Events
  /\ NoEvent \notin Events
  /\ NoToken \notin Tokens
  /\ \A s \in Sessions : WorkerOf[s] # NoWorker
  /\ Policy \in Seq(Channels)
  /\ Requests \subseteq Seq(Channels) \ {<<>>}
  /\ Policy # <<>>
  /\ MaxAttempts \in Nat \ {0}
  /\ AttemptCap \in Nat /\ AttemptCap > MaxAttempts
  /\ LeaseTicks \in Nat \ {0}
  /\ RetryBase \in Nat \ {0} /\ RetryCap \in Nat \ {0}
  /\ \A a \in 1..AttemptCap : 2 ^ (a - 1) \in Nat
  /\ SendCap \in Nat \ {0}

VARIABLES
  history,   \* rows present in order_status_history
  ev,        \* order_automation_events, by source history row
  row,       \* order_automation_actions, state by event and channel
  mat,       \* local state of the materializers
  ses,       \* local state of the sessions
  sends,     \* ghost: how often a provider accepted (event, channel)
  recorded   \* ghost: channels whose success _finish_action has reported

vars == <<history, ev, row, mat, ses, sends, recorded>>

-----------------------------------------------------------------------------
(* Documents and local states.                                             *)

EventStates == {"ABSENT", "PENDING", "PROCESSING", "RETRY", "COMPLETED", "DEAD_LETTER"}
Terminal == {"COMPLETED", "DEAD_LETTER"}

\* "NONE": the action row does not exist.  "QUIET": state RETRY whose error
\* field is QUIET_HOURS.
RowStates == {"NONE", "PENDING", "PROCESSING", "RETRY", "QUIET",
              "COMPLETED", "DISABLED", "PERMANENT_FAILURE"}
\* Mutant: a row left in PROCESSING by a crashed worker counts as done.
SettledOrStarted == {"PROCESSING", "COMPLETED", "DISABLED", "PERMANENT_FAILURE"}
Settled == {"COMPLETED", "DISABLED", "PERMANENT_FAILURE"}

SessionPCs == {"idle", "lease", "read", "mark", "send", "finish",
               "defer", "retry", "ack", "failRead", "failWrite"}

AbsentEvent == [state |-> "ABSENT", attempts |-> 0, delay |-> 0, lease |-> 0,
                token |-> NoToken, worker |-> NoWorker, born |-> 0]

\* The document build_order_status_event builds: due at once, no attempts yet.
NewEvent(rank) == [AbsentEvent EXCEPT !.state = "PENDING", !.born = rank]

IdleSession == [pc |-> "idle", e |-> NoEvent, tok |-> NoToken, plan |-> <<>>,
                i |-> 0, fin |-> "NONE", sawLive |-> FALSE]

IdleMaterializer == [e |-> NoEvent, i |-> 0]

Init ==
  /\ history = Premade
  /\ ev = [e \in Events |-> IF e \in Premade THEN NewEvent(0) ELSE AbsentEvent]
  /\ row = [e \in Events |-> [c \in Channels |->
              IF e \in Premade THEN "PENDING" ELSE "NONE"]]
  /\ mat = [m \in Materializers |-> IdleMaterializer]
  /\ ses = [s \in Sessions |-> IdleSession]
  /\ sends = [e \in Events |-> [c \in Channels |-> 0]]
  /\ recorded = [e \in Events |-> {}]

-----------------------------------------------------------------------------
(* Materialization: one upsert for the event, then one per channel.        *)

\* transition_order and order creation insert the history row, then start to
\* materialize it.
Transition(m, e) ==
  /\ mat[m] = IdleMaterializer
  /\ e \notin history
  /\ history' = history \union {e}
  /\ mat' = [mat EXCEPT ![m] = [e |-> e, i |-> 0]]
  /\ UNCHANGED <<ev, row, ses, sends, recorded>>

\* reconcile_parent_delivery inserts the DELIVERED row and leaves it at that.
AppendHistory(e) ==
  /\ e \notin history
  /\ history' = history \union {e}
  /\ UNCHANGED <<ev, row, mat, ses, sends, recorded>>

\* Startup backfill picks up a row for which it found no event.
Backfill(m, e) ==
  /\ mat[m] = IdleMaterializer
  /\ e \in history
  /\ ev[e].state = "ABSENT"
  /\ mat' = [mat EXCEPT ![m] = [e |-> e, i |-> 0]]
  /\ UNCHANGED <<history, ev, row, ses, sends, recorded>>

\* created_at orders the queue; the number of events before this one stands for it.
QueueLength == Cardinality({f \in Events : ev[f].state # "ABSENT"})

\* $setOnInsert with upsert: an existing event is left as it is.
UpsertEvent(m) ==
  LET e == mat[m].e IN
  /\ e # NoEvent /\ mat[m].i = 0
  /\ ev' = [ev EXCEPT ![e] = IF @.state = "ABSENT" THEN NewEvent(QueueLength) ELSE @]
  /\ mat' = [mat EXCEPT ![m] = [@ EXCEPT !.i = 1]]
  /\ UNCHANGED <<history, row, ses, sends, recorded>>

UpsertAction(m) ==
  LET e == mat[m].e IN
  /\ e # NoEvent /\ mat[m].i \in DOMAIN Policy
  /\ row' = [row EXCEPT ![e][Policy[mat[m].i]] = IF @ = "NONE" THEN "PENDING" ELSE @]
  /\ mat' = [mat EXCEPT ![m] = IF mat[m].i = Len(Policy) THEN IdleMaterializer
                               ELSE [mat[m] EXCEPT !.i = @ + 1]]
  /\ UNCHANGED <<history, ev, ses, sends, recorded>>

\* A database error (swallowed by transition_order) or a crash part-way.
AbandonMaterialize(m) ==
  /\ "materialize" \in Faults
  /\ mat[m] # IdleMaterializer
  /\ mat' = [mat EXCEPT ![m] = IdleMaterializer]
  /\ UNCHANGED <<history, ev, row, ses, sends, recorded>>

-----------------------------------------------------------------------------
(* Leases.                                                                 *)

\* Mutant: an expired lease is not reclaimed.
ClaimableNoReclaim(e) == ev[e].state \in {"PENDING", "RETRY"} /\ ev[e].delay = 0

\* Mutant: the lease of a PROCESSING event is not looked at.
ClaimableIgnoringLease(e) ==
  ev[e].state \in {"PENDING", "RETRY", "PROCESSING"} /\ ev[e].delay = 0

Claimable(e) ==
  \/ ev[e].state \in {"PENDING", "RETRY"} /\ ev[e].delay = 0
  \/ ev[e].state = "PROCESSING" /\ ev[e].lease = 0

\* The claim sorts by created_at and takes the first match.
OldestClaimable(e) ==
  /\ Claimable(e)
  /\ \A f \in Events : Claimable(f) => ev[e].born <= ev[f].born

\* Mutant: the token is derived from the event instead of drawn afresh.
FreshTokensReused == Tokens

\* token_urlsafe(24) never repeats a token that anybody still holds.
FreshTokens == Tokens \ ({ev[e].token : e \in Events} \union {ses[s].tok : s \in Sessions})

\* Mutant: the filter compares the worker but not the lease token.
HoldsByWorker(s) ==
  LET e == ses[s].e IN
  /\ e # NoEvent
  /\ ev[e].state = "PROCESSING"
  /\ ev[e].worker = WorkerOf[s]

\* The state, worker and token part of the filter every settling update uses.
Holds(s) ==
  LET e == ses[s].e IN
  /\ e # NoEvent
  /\ ev[e].state = "PROCESSING"
  /\ ev[e].worker = WorkerOf[s]
  /\ ev[e].token = ses[s].tok

\* ... and its lease_expires_at > now.
LeaseLive(s) == Holds(s) /\ ev[ses[s].e].lease > 0

\* `now` is read before the query travels: the filter may be evaluated with a
\* clock value between the previous step of the session and this one.
LeaseAccepted(s) == Holds(s) /\ (ev[ses[s].e].lease > 0 \/ ses[s].sawLive)

\* The claimed document: a new holder, a new lease, one more attempt.
Claimed(e, w, t) ==
  [ev[e] EXCEPT !.state = "PROCESSING", !.worker = w, !.token = t, !.lease = LeaseTicks,
                !.attempts = IF @ < AttemptCap THEN @ + 1 ELSE @]

Claim(s) ==
  /\ ses[s].pc = "idle"
  /\ FreshTokens # {}
  /\ \E e \in Events, plan \in Requests :
       LET t == CHOOSE t \in FreshTokens : TRUE IN
       /\ OldestClaimable(e)
       /\ ev' = [ev EXCEPT ![e] = Claimed(e, WorkerOf[s], t)]
       /\ ses' = [ses EXCEPT ![s] = [IdleSession EXCEPT !.pc = "lease", !.e = e,
                                                        !.tok = t, !.plan = plan]]
  /\ UNCHANGED <<history, row, mat, sends, recorded>>

-----------------------------------------------------------------------------
(* deliver_claimed_event: a walk over the requested channels.              *)

Goto(s, pc) == [ses[s] EXCEPT !.pc = pc]

ToFinish(s, fin) == [ses[s] EXCEPT !.pc = "finish", !.fin = fin]

Chan(s) == ses[s].plan[ses[s].i]

\* Mutant: the walk stops one channel early.
AdvancedEarly(s) ==
  IF ses[s].i < Len(ses[s].plan) - 1
  THEN [ses[s] EXCEPT !.pc = "read", !.i = @ + 1, !.fin = "NONE"]
  ELSE [ses[s] EXCEPT !.pc = "ack", !.fin = "NONE", !.sawLive = LeaseLive(s)]

\* Continue with the next channel, or return and acknowledge.
Advanced(s) ==
  IF ses[s].i < Len(ses[s].plan)
  THEN [ses[s] EXCEPT !.pc = "read", !.i = @ + 1, !.fin = "NONE"]
  ELSE [ses[s] EXCEPT !.pc = "ack", !.fin = "NONE", !.sawLive = LeaseLive(s)]

\* Leave the walk by an exception; the caller's handler schedules the retry.
Raised(s) == [ses[s] EXCEPT !.pc = "failRead", !.fin = "NONE", !.sawLive = LeaseLive(s)]

\* Updates of an action row have no upsert: without a row they do nothing.
RowSet(e, c, v) == [row EXCEPT ![e][c] = IF @ = "NONE" THEN @ ELSE v]

\* The lease is read once, before the walk; a stale caller raises ValueError.
CheckLease(s) ==
  /\ ses[s].pc = "lease"
  /\ ses' = [ses EXCEPT ![s] = IF LeaseLive(s)
                               THEN [@ EXCEPT !.pc = "read", !.i = 1]
                               ELSE Raised(s)]
  /\ UNCHANGED <<history, ev, row, mat, sends, recorded>>

\* Skip what is settled; a channel that is switched off is finished at once.
ReadAction(s) ==
  /\ ses[s].pc = "read"
  /\ ses' = [ses EXCEPT ![s] =
       IF row[ses[s].e][Chan(s)] \in Settled THEN Advanced(s)
       ELSE IF Chan(s) \notin Enabled THEN ToFinish(s, "DISABLED")
       ELSE Goto(s, "mark")]
  /\ UNCHANGED <<history, ev, row, mat, sends, recorded>>

\* $inc attempts, state PROCESSING; then opt-out, quiet hours, or the provider.
MarkAction(s) ==
  /\ ses[s].pc = "mark"
  /\ row' = RowSet(ses[s].e, Chan(s), "PROCESSING")
  /\ \/ /\ Chan(s) \in Skipped
        /\ ses' = [ses EXCEPT ![s] = ToFinish(s, "COMPLETED")]
     \/ /\ Chan(s) \in Quietable \ Skipped
        /\ ses' = [ses EXCEPT ![s] = Goto(s, "defer")]
     \/ /\ Chan(s) \notin Skipped
        /\ ses' = [ses EXCEPT ![s] = Goto(s, "send")]
  /\ UNCHANGED <<history, ev, mat, sends, recorded>>

\* The provider accepted the message.
Accepted(s) ==
  sends' = [sends EXCEPT ![ses[s].e][Chan(s)] = IF @ < SendCap THEN @ + 1 ELSE @]

SendOk(s) ==
  /\ ses[s].pc = "send" /\ Chan(s) \notin Misconfigured
  /\ Accepted(s)
  /\ ses' = [ses EXCEPT ![s] = ToFinish(s, "COMPLETED")]
  /\ UNCHANGED <<history, ev, row, mat, recorded>>

\* ProviderConfigurationError is raised before anything is sent.
SendRefused(s) ==
  /\ ses[s].pc = "send" /\ Chan(s) \in Misconfigured
  /\ ses' = [ses EXCEPT ![s] = ToFinish(s, "PERMANENT_FAILURE")]
  /\ UNCHANGED <<history, ev, row, mat, sends, recorded>>

\* Mutant: the provider's exception is swallowed.
SendFailedSwallowed(s) ==
  /\ ses[s].pc = "send" /\ Chan(s) \notin Misconfigured
  /\ ses' = [ses EXCEPT ![s] = ToFinish(s, "COMPLETED")]
  /\ UNCHANGED <<history, ev, row, mat, sends, recorded>>

\* Any other exception; an "ambiguous" one hides an accepted message.
SendFailed(s) ==
  /\ ses[s].pc = "send" /\ Chan(s) \notin Misconfigured
  /\ \/ UNCHANGED sends
     \/ "ambiguous" \in Faults /\ Accepted(s)
  /\ ses' = [ses EXCEPT ![s] = Goto(s, "retry")]
  /\ UNCHANGED <<history, ev, row, mat, recorded>>

FinishAction(s) ==
  /\ ses[s].pc = "finish"
  /\ row' = RowSet(ses[s].e, Chan(s), ses[s].fin)
  /\ recorded' = IF ses[s].fin = "COMPLETED"
                 THEN [recorded EXCEPT ![ses[s].e] = @ \union {Chan(s)}]
                 ELSE recorded
  /\ ses' = [ses EXCEPT ![s] = Advanced(s)]
  /\ UNCHANGED <<history, ev, mat, sends>>

\* Quiet hours: the row is deferred by an hour, the walk raises.
DeferAction(s) ==
  /\ ses[s].pc = "defer"
  /\ row' = RowSet(ses[s].e, Chan(s), "QUIET")
  /\ ses' = [ses EXCEPT ![s] = Raised(s)]
  /\ UNCHANGED <<history, ev, mat, sends, recorded>>

RetryAction(s) ==
  /\ ses[s].pc = "retry"
  /\ row' = RowSet(ses[s].e, Chan(s), "RETRY")
  /\ ses' = [ses EXCEPT ![s] = Raised(s)]
  /\ UNCHANGED <<history, ev, mat, sends, recorded>>

-----------------------------------------------------------------------------
(* Settling the event.                                                     *)

Released(e) == [ev[e] EXCEPT !.lease = 0, !.token = NoToken]

EndSession(s) == ses' = [ses EXCEPT ![s] = IdleSession]

\* complete_order_status_event: one guarded update.
Ack(s) ==
  /\ ses[s].pc = "ack"
  /\ LeaseAccepted(s)
  /\ ev' = [ev EXCEPT ![ses[s].e] = [Released(ses[s].e) EXCEPT !.state = "COMPLETED"]]
  /\ EndSession(s)
  /\ UNCHANGED <<history, row, mat, sends, recorded>>

\* The update matched nothing: lease_lost, or 409 from the HTTP route.
LeaseLost(s) ==
  /\ \/ ses[s].pc \in {"lease", "ack", "failRead"} /\ ~LeaseLive(s)
     \/ ses[s].pc = "failWrite" /\ ~Holds(s)
  /\ EndSession(s)
  /\ UNCHANGED <<history, ev, row, mat, sends, recorded>>

\* retry_after_seconds * 2^(attempts-1), at most an hour.
Backoff(a) ==
  LET d == RetryBase * (2 ^ (a - 1)) IN IF d <= RetryCap THEN d ELSE RetryCap

\* fail_order_status_event reads under the same filter ...
FailRead(s) ==
  /\ ses[s].pc = "failRead"
  /\ LeaseAccepted(s)
  /\ ses' = [ses EXCEPT ![s] = Goto(s, "failWrite")]
  /\ UNCHANGED <<history, ev, row, mat, sends, recorded>>

\* ... and writes with the clock value of the read, so only a new claim can
\* make the update miss.
FailWrite(s) ==
  LET e == ses[s].e IN
  /\ ses[s].pc = "failWrite"
  /\ Holds(s)
  /\ ev' = [ev EXCEPT ![e] =
       [Released(e) EXCEPT
          !.state = IF ev[e].attempts >= MaxAttempts THEN "DEAD_LETTER" ELSE "RETRY",
          !.delay = Backoff(ev[e].attempts)]]
  /\ EndSession(s)
  /\ UNCHANGED <<history, row, mat, sends, recorded>>

-----------------------------------------------------------------------------
(* The environment: time and process death.                                *)

Down(n) == IF n > 0 THEN n - 1 ELSE 0

\* Without the fault "overrun", a session is faster than its lease.
Tick ==
  /\ \E e \in Events : ev[e].lease > 0 \/ ev[e].delay > 0
  /\ "overrun" \notin Faults =>
       \A s \in Sessions : LeaseLive(s) => ev[ses[s].e].lease > 1
  /\ ev' = [e \in Events |-> [ev[e] EXCEPT !.lease = Down(@), !.delay = Down(@)]]
  /\ UNCHANGED <<history, row, mat, ses, sends, recorded>>

\* The process dies, or a database call outside the walk raises: the lease
\* stays behind.
Crash(s) ==
  /\ "crash" \in Faults
  /\ ses[s].pc # "idle"
  /\ EndSession(s)
  /\ UNCHANGED <<history, ev, row, mat, sends, recorded>>

\* A database call of the walk raises: the caller's handler schedules the retry.
\* The success of a send that could not be recorded counts as a failed send.
DatabaseError(s) ==
  /\ "database" \in Faults
  /\ \/ /\ ses[s].pc \in {"lease", "read", "mark", "finish", "defer", "retry"}
        /\ ses' = [ses EXCEPT ![s] = Raised(s)]
     \/ /\ ses[s].pc = "finish" /\ ses[s].fin = "COMPLETED"
        /\ ses' = [ses EXCEPT ![s] = Goto(s, "retry")]
  /\ UNCHANGED <<history, ev, row, mat, sends, recorded>>

Fault(s) == Crash(s) \/ DatabaseError(s)

-----------------------------------------------------------------------------
Deliver(s) == \/ CheckLease(s) \/ ReadAction(s) \/ MarkAction(s)
              \/ SendOk(s) \/ SendRefused(s) \/ SendFailed(s)
              \/ FinishAction(s) \/ DeferAction(s) \/ RetryAction(s)

Settle(s) == Ack(s) \/ LeaseLost(s) \/ FailRead(s) \/ FailWrite(s)

Materialize(m) == UpsertEvent(m) \/ UpsertAction(m)

Next ==
  \/ \E e \in Events : AppendHistory(e)
  \/ \E m \in Materializers, e \in Events : Transition(m, e) \/ Backfill(m, e)
  \/ \E m \in Materializers : Materialize(m) \/ AbandonMaterialize(m)
  \/ \E s \in Sessions : Claim(s) \/ Deliver(s) \/ Settle(s) \/ Fault(s)
  \/ Tick

Spec == Init /\ [][Next]_vars

(***************************************************************************)
(* Fairness.  The scheduler starts a worker every minute and every worker  *)
(* claims until nothing is claimable; a running session and a running      *)
(* materializer keep going; the clock advances.  Nothing is assumed about  *)
(* backfill, which runs only when a server process starts.                 *)
(***************************************************************************)
Fairness ==
  /\ \A s \in Sessions : WF_vars(Claim(s)) /\ WF_vars(Deliver(s) \/ Settle(s))
  /\ \A m \in Materializers : WF_vars(Materialize(m))
  /\ WF_vars(Tick)

FairSpec == Spec /\ Fairness

-----------------------------------------------------------------------------
(* Properties.                                                             *)

EventDoc == [state : EventStates, attempts : 0..AttemptCap, delay : Nat,
             lease : 0..LeaseTicks, token : Tokens \union {NoToken},
             worker : {WorkerOf[s] : s \in Sessions} \union {NoWorker}, born : Nat]

SessionRec == [pc : SessionPCs, e : Events \union {NoEvent},
               tok : Tokens \union {NoToken}, plan : Requests \union {<<>>},
               i : Nat, fin : {"NONE", "COMPLETED", "DISABLED", "PERMANENT_FAILURE"},
               sawLive : BOOLEAN]

\* The documents and the local states keep their shape, and only a session
\* that is at work refers to an event.
TypeOK ==
  /\ history \subseteq Events
  /\ ev \in [Events -> EventDoc]
  /\ row \in [Events -> [Channels -> RowStates]]
  /\ mat \in [Materializers -> [e : Events \union {NoEvent}, i : 0..Len(Policy)]]
  /\ ses \in [Sessions -> SessionRec]
  /\ sends \in [Events -> [Channels -> 0..SendCap]]
  /\ recorded \in [Events -> SUBSET Channels]
  /\ \A s \in Sessions : (ses[s].pc = "idle") <=> (ses[s].e = NoEvent)
  /\ \A e \in Events : ev[e].state = "PROCESSING" => ev[e].attempts >= 1

\* At most one session can settle an event, whatever sessions an expired lease
\* has left running (lease fencing, order_automation.py:376 and :407).
OneHolder ==
  \A s1, s2 \in Sessions :
    Holds(s1) /\ Holds(s2) /\ ses[s1].e = ses[s2].e => s1 = s2

\* An event leaves PROCESSING only when the session of its latest claim ends;
\* a stale worker neither completes nor fails a reclaimed event.
SettledByLatestClaim ==
  [][\A e \in Events :
       ev[e].state = "PROCESSING" /\ ev'[e].state # "PROCESSING" =>
         \E s \in Sessions : /\ ses[s].e = e
                             /\ ses[s].tok = ev[e].token
                             /\ ses'[s].pc = "idle"]_vars

\* A completed or dead-lettered event is never taken up again, by a claim, a
\* late worker or a replayed materialization.
TerminalIsFinal ==
  [][\A e \in Events : ev[e].state \in Terminal => ev'[e].state = ev[e].state]_vars

Deliverable == Enabled \ (Skipped \union Misconfigured)

\* An event is acknowledged only when some provider has accepted the message
\* on every deliverable channel of a permitted request: no interleaving of
\* retries, overlapping workers and missing action rows drops a notification.
NoSilentDrop ==
  \A e \in Events : ev[e].state = "COMPLETED" =>
    \E plan \in Requests :
      \A i \in DOMAIN plan : plan[i] \in Deliverable => sends[e][plan[i]] >= 1

\* A row is settled as COMPLETED only if the message went out or the customer
\* had opted out; a switched-off or misconfigured channel never sends.
RowsTellTheTruth ==
  \A e \in Events, c \in Channels :
    /\ row[e][c] = "COMPLETED" => sends[e][c] >= 1 \/ c \in Skipped
    /\ sends[e][c] >= 1 => c \in Deliverable

(* The inductive strengthening of NoSilentDrop and OneHolder.               *)

Reached(e, c) == c \in Deliverable => sends[e][c] >= 1

\* Sessions at work hold real, pairwise different tokens.
TokensDistinct ==
  \A s1, s2 \in Sessions :
    ses[s1].pc # "idle" => /\ ses[s1].tok \in Tokens
                           /\ ses[s1].tok = ses[s2].tok => s1 = s2

\* A session has seen to every channel before its current one.
WalkOf(s) ==
  /\ ses[s].pc # "idle" => ses[s].plan \in Requests
  /\ ses[s].pc \in {"read", "mark", "send", "finish", "defer", "retry"} =>
       /\ ses[s].i \in DOMAIN ses[s].plan
       /\ \A j \in 1..(ses[s].i - 1) : Reached(ses[s].e, ses[s].plan[j])
  /\ ses[s].pc = "finish" => Reached(ses[s].e, Chan(s))
  /\ ses[s].pc = "ack" =>
       \A j \in DOMAIN ses[s].plan : Reached(ses[s].e, ses[s].plan[j])

WalkDone == \A s \in Sessions : WalkOf(s)

SettledRows == \A e \in Events, c \in Channels : row[e][c] \in Settled => Reached(e, c)

\* Only rows of the history ledger are queued and worked on.
OnlyHistory ==
  /\ \A e \in Events : ev[e].state # "ABSENT" => e \in history
  /\ \A m \in Materializers : mat[m].e # NoEvent => mat[m].e \in history
  /\ \A s \in Sessions : ses[s].pc # "idle" => ev[ses[s].e].state # "ABSENT"

QueueInv == TypeOK /\ TokensDistinct /\ WalkDone /\ SettledRows /\ OnlyHistory /\ NoSilentDrop

\* What a session has found out about its channel when it sends or records.
ToldBy(s) ==
  /\ ses[s].pc \in {"mark", "send", "defer"} => Chan(s) \in Enabled
  /\ ses[s].pc = "send" => Chan(s) \notin Skipped
  /\ ses[s].pc = "finish" /\ ses[s].fin = "COMPLETED" =>
       sends[ses[s].e][Chan(s)] >= 1 \/ Chan(s) \in Skipped

RowsInv == RowsTellTheTruth /\ \A s \in Sessions : ToldBy(s)

\* A retry skips the channels already completed (docs/ORDER_AUTOMATION.md:39-40):
\* once a success has been recorded, that channel is not sent to again.
RetrySkipsCompleted ==
  [][\A e \in Events, c \in Channels :
       c \in recorded[e] => sends'[e][c] = sends[e][c]]_vars

\* No customer is sent the same notification twice on one channel.
SentAtMostOnce == \A e \in Events, c \in Channels : sends[e][c] <= 1

\* An event is claimed at most MaxAttempts times (docs/ORDER_AUTOMATION.md:45).
AttemptsBounded == \A e \in Events : ev[e].attempts <= MaxAttempts

\* An event is not dead-lettered while a channel of it is only waiting for the
\* end of the customer's quiet hours (order_automation.py:508-512).
QuietHoursOnlyDefer ==
  \A e \in Events : ev[e].state = "DEAD_LETTER" =>
    \A c \in Channels : row[e][c] # "QUIET"

(* Refinement: what an observer of the ledger and of the providers sees.    *)

SentOn(e) == {c \in Channels : sends[e][c] >= 1}

Outcome(e) == IF ev[e].state = "COMPLETED" THEN "DONE"
              ELSE IF ev[e].state = "DEAD_LETTER" THEN "DEAD" ELSE "OPEN"

Contract == INSTANCE NotificationDelivery WITH
  Required <- Deliverable,
  submitted <- history,
  got <- [e \in Events |-> SentOn(e)],
  outcome <- [e \in Events |-> Outcome(e)]

\* A request names every deliverable channel, as the worker's does
\* (automation_worker.py:82, policy.channels).
WholeRequests ==
  \A plan \in Requests : Deliverable \subseteq {plan[i] : i \in DOMAIN plan}

\* With whole requests the queue implements the at-least-once contract of
\* NotificationDelivery, under every interleaving and fault.
ImplementsContract == Contract!Spec

\* A session ends and leaves its event behind: it died or was overtaken.
Abandons(s) == ses[s].pc # "idle" /\ ses'[s].pc = "idle" /\ UNCHANGED ev

WorkersSettle == <>[][\A s \in Sessions : ~Abandons(s)]_vars

\* Every queued event is eventually completed or dead-lettered, provided workers
\* stop dying and overrunning their leases from some point on: what dead workers
\* left in PROCESSING is taken up again.
EventuallySettled ==
  WorkersSettle =>
    \A e \in Events : (ev[e].state # "ABSENT") ~> (ev[e].state \in Terminal)

\* The API materializes each history row into a queue record
\* (docs/ORDER_AUTOMATION.md:3-4).
EveryRowQueued ==
  \A e \in Events : (e \in history) ~> (ev[e].state # "ABSENT")

=============================================================================
