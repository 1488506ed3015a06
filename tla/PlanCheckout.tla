---------------------------- MODULE PlanCheckout ----------------------------
(***************************************************************************)
(* A plant's paid plan: the owner's checkout                               *)
(* (frontend/app/plans-promotions.tsx), which polls the payment order, the *)
(* payment gateway, whose notifications come at any time and more than     *)
(* once, and the backend that grants the plan when one says the payment    *)
(* succeeded (backend/routers/plant_plans.py).  One product; an authority   *)
(* may grant a plan of its own.  A new order, entitlement or request takes *)
(* the first free identity.                                                *)
(***************************************************************************)
EXTENDS Naturals, FiniteSets

CONSTANTS
  None,
  Plants, Plans, Codes,  \* the owner's plants; the plans offered; promotion codes
  Orders, Grants,        \* identities of payment orders and of entitlements
  Handlers,              \* requests the backend works on
  MaxTries,              \* bound: polls in a row (15 in the code)
  MaxEdits,              \* bound: choices and quotations
  MaxHooks               \* bound: notifications delivered and plans granted freely

VARIABLES
  order,      \* each payment order: its status and the entitlement it names
  events,     \* what happened to the payment at the gateway
  grants,     \* each entitlement: what it was granted for, and its status
  uses,       \* of the promotion code
  handlers,   \* the requests being worked on
  died,       \* ghost: one of them did not finish
  plant, plan, code, quote, quoting, activating,  \* the checkout's form
  paymentOrder, paymentStatus, poll, asked,  \* the payment it follows
  edits, hooks

server == <<order, events, grants, uses, handlers, died>>
form == <<plant, plan, code, quote, quoting, activating>>
payment == <<paymentOrder, paymentStatus, poll, asked>>
vars == <<server, form, payment, edits, hooks>>

NoOrder == [status |-> "NONE", plant |-> None, code |-> None, activation |-> None]
NoGrant == [of |-> None, plant |-> None, status |-> "NONE"]
Idle == [of |-> None, plant |-> None, pc |-> "idle", made |-> None, seen |-> NoOrder]
First(S) == CHOOSE x \in S : TRUE

Init ==
  /\ order = [o \in Orders |-> NoOrder] /\ events = [o \in Orders |-> {}]
  /\ grants = [g \in Grants |-> NoGrant] /\ uses = 0
  /\ handlers = [h \in Handlers |-> Idle] /\ died = FALSE
  /\ plant = First(Plants) /\ plan = First(Plans) /\ code = None /\ quote = None /\ quoting = {} /\ activating = None
  /\ paymentOrder = None /\ paymentStatus = None /\ poll = None /\ asked = {}
  /\ edits = 0 /\ hooks = 0

Edit == edits < MaxEdits /\ edits' = edits + 1

-----------------------------------------------------------------------------
(* The form. *)

\* Another plan, product or plant takes the quotation away; another code does not.
ChoosePlan(p) ==
  /\ p # plan /\ Edit /\ plan' = p /\ quote' = None
  /\ UNCHANGED <<server, plant, code, quoting, activating, payment, hooks>>

ChoosePlant(p) ==
  /\ p # plant /\ Edit /\ plant' = p /\ quote' = None
  /\ UNCHANGED <<server, plan, code, quoting, activating, payment, hooks>>

TypeCode(k) ==
  /\ k # code /\ Edit /\ code' = k
  /\ UNCHANGED <<server, plant, plan, quote, quoting, activating, payment, hooks>>

RequestQuote ==
  /\ Edit /\ quoting' = quoting \cup {[plant |-> plant, plan |-> plan, code |-> code]}
  /\ UNCHANGED <<server, plant, plan, code, quote, activating, payment, hooks>>

Quoted(q) ==
  /\ q \in quoting /\ quoting' = quoting \ {q}
  /\ quote' = q \/ quote' = quote
  /\ UNCHANGED <<server, plant, plan, code, activating, payment, edits, hooks>>

\* The button rests while an order is made and while one is pending.
Activate ==
  /\ activating = None /\ paymentStatus # "PAYMENT_PENDING"
  /\ activating' = [plant |-> plant, plan |-> plan, code |-> code]
  /\ UNCHANGED <<server, plant, plan, code, quote, quoting, payment, edits, hooks>>

-----------------------------------------------------------------------------
(* Following the payment. *)

\* Mutant: the answer on its way when the effect runs again still counts.
Uncancelled == asked

\* The effect's cleanup: no answer of the poll before is heard.
Cancelled == {}

\* The effect on the order and its status.
Follow(o, status) ==
  /\ paymentOrder' = o /\ paymentStatus' = status
  /\ IF <<o, status>> = <<paymentOrder, paymentStatus>>
       THEN UNCHANGED <<poll, asked>>
       ELSE /\ poll' = IF o = None \/ status \in {"PAID", "FAILED"} THEN None
                       ELSE [order |-> o, left |-> MaxTries]
            /\ asked' = Cancelled

\* The backend keeps the order the gateway opened, and the checkout opens on it;
\* or the answer, with or without the order, is lost.
Activated(o) ==
  /\ activating # None /\ order[o] = NoOrder /\ o = First({p \in Orders : order[p] = NoOrder})
  /\ order' = [order EXCEPT ![o] = [status |-> "PAYMENT_PENDING", plant |-> activating.plant,
                                    code |-> activating.code, activation |-> None]]
  /\ \/ Follow(o, "PAYMENT_PENDING") /\ events' = [events EXCEPT ![o] = {"checkout"}] /\ quote' = None
     \/ UNCHANGED <<payment, events, quote>>
  /\ activating' = None
  /\ UNCHANGED <<grants, uses, handlers, died, plant, plan, code, quoting, edits, hooks>>

ActivationFails ==
  /\ activating # None /\ activating' = None
  /\ UNCHANGED <<server, plant, plan, code, quote, quoting, payment, edits, hooks>>

\* The gateway's sheet closes and tells the screen.
CheckoutEnds(o) ==
  /\ "checkout" \in events[o]
  /\ \E event \in {"SUCCESS", "FAILED", "USER_DROPPED"} :
       /\ events' = [events EXCEPT ![o] = {event}]
       /\ Follow(o, IF event = "SUCCESS" THEN "PAYMENT_PENDING" ELSE "USER_DROPPED")
  /\ UNCHANGED <<order, grants, uses, handlers, died, form, edits, hooks>>

\* A dropped payment may still be made from the gateway's own page.
PaidLate(o) ==
  /\ events[o] # {} /\ events[o] \subseteq {"FAILED", "USER_DROPPED"}
  /\ events' = [events EXCEPT ![o] = @ \cup {"SUCCESS"}]
  /\ UNCHANGED <<order, grants, uses, handlers, died, form, payment, edits, hooks>>

Poll ==
  /\ poll # None /\ poll.left > 0 /\ poll.order \notin asked
  /\ asked' = asked \cup {poll.order} /\ poll' = [poll EXCEPT !.left = @ - 1]
  /\ UNCHANGED <<server, form, paymentOrder, paymentStatus, edits, hooks>>

\* An answer becomes the status shown; an error leaves it to the next poll.
PollAnswered(o) ==
  /\ o \in asked
  /\ \/ /\ paymentOrder' = paymentOrder /\ paymentStatus' = order[o].status
        /\ IF paymentStatus' = paymentStatus
             THEN asked' = asked \ {o} /\ UNCHANGED poll
             ELSE /\ poll' = IF paymentStatus' \in {"PAID", "FAILED"} THEN None
                             ELSE [order |-> paymentOrder, left |-> MaxTries]
                  /\ asked' = Cancelled \ {o}
     \/ asked' = asked \ {o} /\ UNCHANGED <<paymentOrder, paymentStatus, poll>>
  /\ UNCHANGED <<server, form, edits, hooks>>

-----------------------------------------------------------------------------
(* The backend. *)
Screens == <<form, payment, edits>>
Hooked(h, f) == handlers' = [handlers EXCEPT ![h] = f]

\* A notification of a payment that succeeded; grant_paid_entitlement answers at
\* once if the order it read is paid.
Notify(h, o) ==
  /\ handlers[h] = Idle /\ h = First({k \in Handlers : handlers[k] = Idle}) /\ hooks < MaxHooks /\ hooks' = hooks + 1
  /\ "SUCCESS" \in events[o] /\ order[o].status # "PAID"
  /\ Hooked(h, [of |-> o, plant |-> order[o].plant, pc |-> "found", made |-> None, seen |-> order[o]])
  /\ UNCHANGED <<order, events, grants, uses, died, Screens>>

\* One of a payment that did not changes an order that is not paid.
NotifyUnpaid(o) ==
  /\ hooks < MaxHooks /\ hooks' = hooks + 1 /\ order[o].status # "PAID"
  /\ \E event \in events[o] \cap {"FAILED", "USER_DROPPED"} :
       order' = [order EXCEPT ![o].status = event]
  /\ UNCHANGED <<events, grants, uses, handlers, died, Screens>>

\* An authority's own grant: of no order.
GrantFreely(h, p) ==
  /\ handlers[h] = Idle /\ h = First({k \in Handlers : handlers[k] = Idle}) /\ hooks < MaxHooks /\ hooks' = hooks + 1
  /\ Hooked(h, [Idle EXCEPT !.plant = p, !.pc = "found"])
  /\ UNCHANGED <<order, events, grants, uses, died, Screens>>

Supersede(h) ==
  /\ handlers[h].pc = "found" /\ Hooked(h, [handlers[h] EXCEPT !.pc = "superseded"])
  /\ grants' = [g \in Grants |-> IF grants[g].status = "ACTIVE" /\ grants[g].plant = handlers[h].plant
                                   THEN [grants[g] EXCEPT !.status = "SUPERSEDED"] ELSE grants[g]]
  /\ UNCHANGED <<order, events, uses, died, Screens, hooks>>

InsertGrant(h) ==
  /\ handlers[h].pc = "superseded"
  /\ \E g \in Grants :
       /\ grants[g] = NoGrant /\ g = First({f \in Grants : grants[f] = NoGrant})
       /\ grants' = [grants EXCEPT ![g] = [of |-> handlers[h].of, plant |-> handlers[h].plant, status |-> "ACTIVE"]]
       /\ Hooked(h, IF handlers[h].of = None THEN Idle
                    ELSE [handlers[h] EXCEPT !.pc = "granted", !.made = g])
  /\ UNCHANGED <<order, events, uses, died, Screens, hooks>>

\* Mutant: whoever finds the order paid leaves its entitlement standing.
KeepGrant(g) == UNCHANGED grants

TakeBack(g) == grants' = [grants EXCEPT ![g] = NoGrant]

\* The first to mark the order paid keeps its entitlement, the others take
\* theirs back.
MarkPaid(h) ==
  LET k == handlers[h] IN
  /\ k.pc = "granted"
  /\ IF order[k.of].status # "PAID"
       THEN /\ order' = [order EXCEPT ![k.of].status = "PAID", ![k.of].activation = k.made]
            /\ Hooked(h, IF k.seen.code = None THEN Idle ELSE [k EXCEPT !.pc = "paid"])
            /\ UNCHANGED grants
       ELSE Hooked(h, Idle) /\ TakeBack(k.made) /\ UNCHANGED order
  /\ UNCHANGED <<events, uses, died, Screens, hooks>>

CountUse(h) ==
  /\ handlers[h].pc = "paid" /\ uses' = uses + 1 /\ Hooked(h, Idle)
  /\ UNCHANGED <<order, events, grants, died, Screens, hooks>>

Dies(h) ==
  /\ handlers[h] # Idle /\ Hooked(h, Idle) /\ died' = TRUE
  /\ UNCHANGED <<order, events, grants, uses, Screens, hooks>>

Next ==
  \/ RequestQuote \/ Activate \/ ActivationFails \/ Poll
  \/ (\E p \in Plans : ChoosePlan(p)) \/ (\E p \in Plants : ChoosePlant(p)) \/ (\E k \in Codes \cup {None} : TypeCode(k))
  \/ \E q \in quoting : Quoted(q)
  \/ \E o \in Orders : Activated(o) \/ CheckoutEnds(o) \/ PaidLate(o) \/ PollAnswered(o) \/ NotifyUnpaid(o)
  \/ \E h \in Handlers :
       \/ Supersede(h) \/ InsertGrant(h) \/ MarkPaid(h) \/ CountUse(h) \/ Dies(h)
       \/ \E o \in Orders : Notify(h, o)
       \/ \E p \in Plants : GrantFreely(h, p)

Spec == Init /\ [][Next]_vars

-----------------------------------------------------------------------------
Granted(o) == {g \in Grants : grants[g].of = o}

\* However often and however late the gateway repeats itself, a payment leaves
\* one entitlement when its handlers have finished, the one its order names, and
\* counts its promotion code once.
OneGrantPerPayment ==
  (\A h \in Handlers : handlers[h] = Idle) /\ ~died =>
    /\ \A o \in Orders : Granted(o) = IF order[o].status = "PAID" THEN {order[o].activation} ELSE {}
    /\ uses = Cardinality({o \in Orders : order[o].status = "PAID" /\ order[o].code # None})

\* A screen that says a payment is made says so of the payment it names.
ShownPaidIsPaid ==
  paymentStatus = "PAID" => order[paymentOrder].status = "PAID"

\* "Idempotently grant exactly one entitlement for one verified payment"
\* (plant_plans.py:64): when the only payment made is settled and nobody granted
\* anything else, the plant paid for has its plan.
PaidGivesAccess ==
  (\A h \in Handlers : handlers[h] = Idle) /\ ~died =>
    \A o \in Orders :
      order[o].status = "PAID" /\ (\A g \in Grants : grants[g] # NoGrant => grants[g].of = o)
        => \E g \in Granted(o) : grants[g].status = "ACTIVE"
=============================================================================
