------------------------ MODULE NotificationDelivery ------------------------
(***************************************************************************)
(* What the automation queue promises about one history row, whatever the  *)
(* number of workers, retries and crashes: at-least-once delivery on every *)
(* required channel before success is reported, and one final outcome.     *)
(* (backend/order_automation.py; docs/ORDER_AUTOMATION.md.)                *)
(***************************************************************************)
EXTENDS FiniteSets

CONSTANTS Events, Channels, Required

VARIABLES
  submitted,   \* rows of the order status history
  got,         \* channels on which the notification went out
  outcome      \* "OPEN" until the event is "DONE" or "DEAD"

vars == <<submitted, got, outcome>>

\* A history row written before the queue is started may be submitted already.
Init ==
  /\ submitted \subseteq Events
  /\ got = [e \in Events |-> {}]
  /\ outcome = [e \in Events |-> "OPEN"]

Submit(e) ==
  /\ e \notin submitted
  /\ submitted' = submitted \union {e}
  /\ UNCHANGED <<got, outcome>>

\* Also after the outcome: an overtaken worker may still be sending.
Notify(e, c) ==
  /\ e \in submitted
  /\ got' = [got EXCEPT ![e] = @ \union {c}]
  /\ UNCHANGED <<submitted, outcome>>

Finish(e) ==
  /\ e \in submitted /\ outcome[e] = "OPEN" /\ Required \subseteq got[e]
  /\ outcome' = [outcome EXCEPT ![e] = "DONE"]
  /\ UNCHANGED <<submitted, got>>

GiveUp(e) ==
  /\ e \in submitted /\ outcome[e] = "OPEN"
  /\ outcome' = [outcome EXCEPT ![e] = "DEAD"]
  /\ UNCHANGED <<submitted, got>>

Next == \E e \in Events :
  Submit(e) \/ Finish(e) \/ GiveUp(e) \/ \E c \in Channels : Notify(e, c)

Spec == Init /\ [][Next]_vars
=============================================================================
