----------------------------- MODULE OrderForm -----------------------------
(***************************************************************************)
(* Placing an order from the mobile application (frontend/app/new-order),  *)
(* by hand or with the support agent, and what the backend makes of it     *)
(* (backend/routers/assistant.py, create_order of customer.py).            *)
(*                                                                         *)
(* What an order says is its delivery address and the coordinates pinned   *)
(* to it; the plant, grade, quantity, schedule and contact are typed like  *)
(* an address that no place is looked up for.  The screen waits for one    *)
(* request at a time and gives up on it after REQUEST_TIMEOUT_MS, while    *)
(* the backend may still carry it out.                                     *)
(***************************************************************************)
EXTENDS Integers, FiniteSets

CONSTANTS
  Typed,    \* addresses typed by hand
  Places,   \* addresses of the map's places
  None,     \* no coordinates, no text, no summary
  MaxRequests, \* bound: submissions of one visit to the screen
  MaxEdits  \* bound: edits of the address

Requests == 1..MaxRequests
Addresses == Typed \cup Places
Orders == [site : Addresses, at : Places \cup {None}]

VARIABLES
  assistant,    \* assistantMode
  address, coords,
  suggestions,  \* places are suggested, for this or an earlier text
  pending,      \* the debounce timer runs
  asked,        \* suggestions are being fetched
  resolving,    \* places whose details are being fetched
  picked,       \* pickedRef
  submitting,   \* the request the screen waits for, 0 if none
  prepared,     \* the summary shown for confirmation, or NoOrder
  placed,       \* the screen has gone on to the order
  request,      \* every request sent: [pc, kind, order]
  intent,       \* backend: the order stored under the screen's idempotency key
  created,      \* backend: the orders created, by the request that did it
  reviewed,     \* ghost: the summary under which Confirm was pressed
  edits

map == <<suggestions, pending, asked, resolving, picked>>
input == <<address, coords>>
visit == <<assistant, submitting, prepared, placed>>
backend == <<intent, created>>
vars == <<visit, input, map, request, backend, reviewed, edits>>

NoOrder == [site |-> None, at |-> None]
Unsent == [pc |-> "idle", kind |-> "none", order |-> NoOrder]

Init ==
  /\ assistant \in BOOLEAN
  /\ address \in Typed \cup {None} /\ coords = None
  /\ suggestions = FALSE /\ pending = (address # None) /\ asked = FALSE /\ resolving = {}
  /\ picked = FALSE
  /\ submitting = 0 /\ prepared = NoOrder /\ placed = FALSE
  /\ request = [r \in Requests |-> Unsent]
  /\ intent = NoOrder /\ created = [r \in Requests |-> NoOrder]
  /\ reviewed = NoOrder /\ edits = 0

-----------------------------------------------------------------------------
(* The address. *)

\* The effect of the address: it drops the timer, and starts one for the new
\* text unless a place was picked.
Debounce == pending' = ~picked /\ picked' = FALSE

\* Mutant: the coordinates outlive the address.
EditAddressPinned(a) ==
  /\ a # address /\ edits < MaxEdits /\ edits' = edits + 1
  /\ address' = a /\ Debounce
  /\ UNCHANGED <<visit, coords, suggestions, asked, resolving, request, backend, reviewed>>

\* A typed address has no coordinates.
EditAddress(a) ==
  /\ a # address /\ edits < MaxEdits /\ edits' = edits + 1
  /\ address' = a /\ coords' = None /\ Debounce
  /\ UNCHANGED <<visit, suggestions, asked, resolving, request, backend, reviewed>>

TimerFires ==
  /\ pending /\ pending' = FALSE /\ asked' = TRUE
  /\ UNCHANGED <<visit, input, suggestions, resolving, picked, request, backend, reviewed, edits>>

\* Suggestions are shown whatever the address is by then; an earlier fetch may
\* still be in flight.
Suggested ==
  /\ asked /\ asked' \in BOOLEAN /\ suggestions' \in BOOLEAN
  /\ UNCHANGED <<visit, input, pending, resolving, picked, request, backend, reviewed, edits>>

PickPlace(p) ==
  /\ suggestions /\ resolving' = resolving \cup {p} /\ p \notin resolving
  /\ UNCHANGED <<visit, input, suggestions, pending, asked, picked, request, backend,
                 reviewed, edits>>

\* The details take the form over, whatever was typed meanwhile; an address
\* that does not change leaves the picked flag to the next edit.
Resolved(p) ==
  /\ p \in resolving /\ resolving' = resolving \ {p}
  /\ \/ /\ address' = p /\ coords' = p /\ suggestions' = FALSE
        /\ picked' = (address = p)
        /\ pending' = (pending /\ address = p)
     \/ UNCHANGED <<input, suggestions, picked, pending>>
  /\ UNCHANGED <<visit, asked, request, backend, reviewed, edits>>

-----------------------------------------------------------------------------
(* Submitting. *)

Send(r, kind) ==
  /\ submitting = 0 /\ submitting' = r
  /\ request[r].pc = "idle" /\ \A q \in 1..(r - 1) : request[q].pc # "idle"
  /\ request' = [request EXCEPT ![r] =
       [pc |-> "sent", kind |-> kind,
        order |-> IF kind = "confirm" THEN NoOrder ELSE [site |-> address, at |-> coords]]]

\* submit: an assisted order is only prepared; a draft is saved by hand only.
Submit(r) ==
  /\ ~placed /\ prepared = NoOrder /\ address # None
  /\ IF assistant THEN Send(r, "prepare") ELSE Send(r, "order") \/ Send(r, "draft")
  /\ UNCHANGED <<assistant, prepared, placed, input, map, backend, reviewed, edits>>

Confirm(r) ==
  /\ ~placed /\ prepared # NoOrder /\ Send(r, "confirm") /\ reviewed' = prepared
  /\ UNCHANGED <<assistant, prepared, placed, input, map, backend, edits>>

\* The answer lands; the screen goes on, or shows what it will confirm.
Answered ==
  /\ submitting # 0 /\ request[submitting].pc = "done" /\ submitting' = 0
  /\ IF request[submitting].kind = "prepare"
       THEN prepared' = request[submitting].order /\ UNCHANGED placed
       ELSE placed' = TRUE /\ UNCHANGED prepared
  /\ UNCHANGED <<assistant, input, map, request, backend, reviewed, edits>>

\* Refused, lost or timed out: the form is ready again.
GiveUp ==
  /\ submitting # 0 /\ submitting' = 0
  /\ UNCHANGED <<assistant, prepared, placed, input, map, request, backend, reviewed, edits>>

-----------------------------------------------------------------------------
(* The backend. *)

others == <<visit, input, map, reviewed, edits>>
Goto(r, pc) == request' = [request EXCEPT ![r].pc = pc]
At(r, pc, kinds) == request[r].pc = pc /\ request[r].kind \in kinds

\* prepare_order: the first order under the key is kept; the summary in the
\* answer is the one just received.
Prepare(r) ==
  /\ At(r, "sent", {"prepare"}) /\ Goto(r, "done")
  /\ intent' = IF intent = NoOrder THEN request[r].order ELSE intent
  /\ UNCHANGED <<others, created>>

\* create_order looks for an order with the key; an order by hand has none.
Keyed(r) == request[r].kind = "confirm"
Existing == \E r \in Requests : Keyed(r) /\ created[r] # NoOrder

Look(r) ==
  /\ At(r, "sent", {"confirm", "order", "draft"})
  /\ Goto(r, IF Keyed(r) /\ Existing THEN "done" ELSE "insert")
  /\ UNCHANGED <<others, backend>>

\* Mutant: no unique index on the key.
InsertUnindexed(r) ==
  /\ At(r, "insert", {"confirm", "order", "draft"}) /\ Goto(r, "done")
  /\ created' = [created EXCEPT ![r] = IF Keyed(r) THEN intent ELSE request[r].order]
  /\ UNCHANGED <<others, intent>>

\* The unique index on the key lets one insert through.
Insert(r) ==
  /\ At(r, "insert", {"confirm", "order", "draft"}) /\ Goto(r, "done")
  /\ created' = IF Keyed(r) /\ Existing THEN created
                ELSE [created EXCEPT ![r] = IF Keyed(r) THEN intent ELSE request[r].order]
  /\ UNCHANGED <<others, intent>>

\* The request never arrives, or is refused.
Fail(r) ==
  /\ At(r, "sent", {"prepare", "confirm", "order", "draft"}) /\ Goto(r, "failed")
  /\ UNCHANGED <<others, backend>>

-----------------------------------------------------------------------------
\* The visit ends with the order.
Visit ==
  \/ \E a \in Typed : EditAddress(a)
  \/ TimerFires \/ Suggested
  \/ \E p \in Places : PickPlace(p) \/ Resolved(p)
  \/ \E r \in Requests : Submit(r) \/ Confirm(r)
  \/ Answered \/ GiveUp

Next ==
  \/ ~placed /\ Visit
  \/ \E r \in Requests : Prepare(r) \/ Look(r) \/ Insert(r) \/ Fail(r)

Spec == Init /\ [][Next]_vars

-----------------------------------------------------------------------------
\* Coordinates are those of the address they are sent with, whatever is typed
\* while suggestions or a place's details are on their way.
PinnedAddress ==
  /\ coords # None => address = coords
  /\ \A r \in Requests : created[r].at # None => created[r].at = created[r].site

\* An assisted order is placed at most once, however often Confirm is pressed
\* after a lost or late answer.
AssistedOrderOnce ==
  assistant => Cardinality({r \in Requests : created[r] # NoOrder}) <= 1

\* The application says that nothing is placed but the order whose details were
\* reviewed.  The code breaks it: an order prepared again under the same key is
\* summarised anew, and the first one is placed.
OrderAsReviewed ==
  assistant => \A r \in Requests : created[r] # NoOrder => created[r] = reviewed
=============================================================================
