----------------------------- MODULE Quotations -----------------------------
(***************************************************************************)
(* From an estimate to an order: a customer compares the plants for a      *)
(* requirement (frontend/app/customer/compare-plants), asks one for a      *)
(* quotation, the plant's officers answer (owner/quotation-requests), the  *)
(* customer decides (customer/quotations) and orders by the quotation      *)
(* (create_order).  The routes are those of customer.py and finance_ops.py.*)
(*                                                                         *)
(* A requirement is a grade, a quantity, a site and a pump taken together; *)
(* an estimate is named by the requirement it was computed for.            *)
(***************************************************************************)
EXTENDS Integers, FiniteSets

CONSTANTS
  None,
  Wants,       \* requirements a customer types
  Plants,
  Officers,    \* owner, admin or accountant of one plant each
  Requests,    \* bound: quotation requests
  Calls,       \* bound: requests to the server in progress
  MaxNumbers,  \* bound: numbers of quotations
  MaxTouches   \* bound: buttons pressed that send a call

Numbers == 1..MaxNumbers

VARIABLES
  wanted,      \* grade, quantity, siteId and pump
  comparing,   \* the requirement being compared
  results,     \* the requirement the estimates on the screen are for
  requesting,  \* the plant whose "Request Quote" shows it is loading
  plantOf,     \* officer -> plant_id
  active, busy, \* the officers' modals, and the call each waits for
  deciding,    \* the quotation whose decision the customer's screen waits for
  calls, touches,
  request,     \* quotation_requests
  sequence,    \* counters: plant -> the numbers it took
  quote,       \* quotations, by number
  ordered      \* quotation -> the orders created for it

compare == <<wanted, comparing, results, requesting>>
modal == <<active, busy>>
screens == <<compare, plantOf, modal, deciding>>
stores == <<request, sequence, quote, ordered>>
vars == <<screens, calls, touches, stores>>

Free == [pc |-> "free", kind |-> "quote", of |-> None, number |-> 0]
Nothing == [status |-> "NONE", plant |-> None, for |-> None, estimate |-> None]
NoQuote == [status |-> "NONE", of |-> None, late |-> FALSE]

Init ==
  /\ wanted \in Wants /\ comparing = None /\ results = None /\ requesting = None
  /\ plantOf \in [Officers -> Plants]
  /\ active = [o \in Officers |-> None] /\ busy = [o \in Officers |-> None]
  /\ deciding = None
  /\ calls = [c \in Calls |-> Free] /\ touches = 0
  /\ request = [r \in Requests |-> Nothing]
  /\ sequence = [p \in Plants |-> 0]
  /\ quote = [n \in Numbers |-> NoQuote]
  /\ ordered = [n \in Numbers |-> 0]

Press == touches < MaxTouches /\ touches' = touches + 1

-----------------------------------------------------------------------------
(* Comparing and asking. *)

\* Bound: the screen is left when the last request is sent.
Comparing == \E r \in Requests : request[r] = Nothing

\* The chips, the quantity, the site, the pump, or a saved calculation: the
\* estimates on the screen stay.
TypeWant(w) ==
  /\ Comparing /\ w # wanted /\ wanted' = w
  /\ UNCHANGED <<comparing, results, requesting, plantOf, modal, deciding, calls, touches, stores>>

RunComparison ==
  /\ Comparing /\ comparing = None /\ comparing' = wanted
  /\ UNCHANGED <<wanted, results, requesting, plantOf, modal, deciding, calls, touches, stores>>

\* The estimates of the requirement that was sent, or none.
Compared ==
  /\ Comparing /\ comparing # None /\ comparing' = None /\ results' \in {comparing, None}
  /\ UNCHANGED <<wanted, requesting, plantOf, modal, deciding, calls, touches, stores>>

\* The cards of the plants stay while the requirement above them changes.
Estimated == results # None

\* requestQuote sends what is typed now, with the total of the estimate shown.
RequestQuote(r, p) ==
  /\ Estimated /\ requesting # p /\ requesting' = p
  /\ request[r] = Nothing
  /\ request' = [request EXCEPT ![r] =
       [status |-> "SENT", plant |-> p, for |-> wanted, estimate |-> results]]
  /\ UNCHANGED <<wanted, comparing, results, plantOf, modal, deciding, calls, touches, sequence, quote, ordered>>

\* An answer, an error or the client's timeout: of any request in flight.
QuoteRequested ==
  /\ requesting # None /\ requesting' = None
  /\ UNCHANGED <<wanted, comparing, results, plantOf, modal, deciding, calls, touches, stores>>

\* request_quotation: inserted, or refused, or lost.
InsertRequest(r) ==
  /\ request[r].status = "SENT"
  /\ \E to \in {"REQUESTED", "LOST"} : request' = [request EXCEPT ![r].status = to]
  /\ UNCHANGED <<screens, calls, touches, sequence, quote, ordered>>

-----------------------------------------------------------------------------
(* The screens of the officers and of the customer's quotations. *)

Start(kind, of) ==
  LET free == {c \in Calls : calls[c] = Free} IN
  /\ free # {} /\ Press
  /\ calls' = [calls EXCEPT ![CHOOSE c \in free : TRUE] = [Free EXCEPT !.pc = "sent", !.kind = kind, !.of = of]]

Started == CHOOSE c \in Calls : calls[c] = Free

\* The list the officer reads may be old: the request was REQUESTED once.
ListedTo(o, r) == request[r].status \notin {"NONE", "SENT", "LOST"} /\ request[r].plant = plantOf[o]

OpenResponse(o, r) ==
  /\ active[o] = None /\ ListedTo(o, r)
  /\ \E mode \in {"quote", "decline"} : active' = [active EXCEPT ![o] = [mode |-> mode, of |-> r]]
  /\ UNCHANGED <<compare, plantOf, busy, deciding, calls, touches, stores>>

CloseResponse(o) ==
  /\ active[o] # None /\ active' = [active EXCEPT ![o] = None]
  /\ UNCHANGED <<compare, plantOf, busy, deciding, calls, touches, stores>>

SubmitResponse(o) ==
  /\ active[o] # None /\ busy[o] = None
  /\ Start(active[o].mode, active[o].of) /\ busy' = [busy EXCEPT ![o] = Started]
  /\ UNCHANGED <<compare, plantOf, active, deciding, stores>>

\* The answer closes whatever modal is open; an error leaves it.
ResponseLands(o) ==
  /\ busy[o] # None /\ calls[busy[o]].pc \in {"ok", "failed"}
  /\ active' = [active EXCEPT ![o] = IF calls[busy[o]].pc = "ok" THEN None ELSE @]
  /\ calls' = [calls EXCEPT ![busy[o]] = Free] /\ busy' = [busy EXCEPT ![o] = None]
  /\ UNCHANGED <<compare, plantOf, deciding, touches, stores>>

\* The client stops waiting and the server goes on.
GiveUp(o) ==
  /\ busy[o] # None /\ busy' = [busy EXCEPT ![o] = None]
  /\ UNCHANGED <<compare, plantOf, active, deciding, calls, touches, stores>>

\* The customer's list may be old too: an issued quotation was OPEN once.
Offered(n) == quote[n].status # "NONE"

\* decide: the buttons of a quotation that the list shows open; only its own rest
\* meanwhile.
Decide(n) ==
  /\ Offered(n) /\ deciding # n /\ deciding' = n
  /\ Start("accept", n) \/ Start("refuse", n)
  /\ UNCHANGED <<compare, plantOf, modal, stores>>

\* createOrder and the order form: of a quotation that was listed ACCEPTED.
CreateOrder(n) ==
  /\ quote[n].status \in {"ACCEPTED", "ORDER_CREATED"} /\ Start("order", n)
  /\ UNCHANGED <<screens, stores>>

\* Somebody's answer, which is the customer's, or nobody's any more.
CustomerAnswered(c) ==
  /\ calls[c].pc \in {"ok", "failed"} /\ \A o \in Officers : busy[o] # c
  /\ calls' = [calls EXCEPT ![c] = Free]
  /\ deciding' = IF calls[c].kind \in {"accept", "refuse"} THEN None ELSE deciding
  /\ UNCHANGED <<compare, plantOf, modal, touches, stores>>

CustomerGivesUp ==
  /\ deciding # None /\ deciding' = None
  /\ UNCHANGED <<compare, plantOf, modal, calls, touches, stores>>

-----------------------------------------------------------------------------
(* The plant's answer. *)

others == <<screens, touches>>
At(c, pc, kinds) == calls[c].pc = pc /\ calls[c].kind \in kinds
Goto(c, pc) == calls' = [calls EXCEPT ![c].pc = pc]

\* respond_to_quotation_request looks for a pending request.
FindRequest(c) ==
  /\ At(c, "sent", {"quote", "decline"})
  /\ Goto(c, IF request[calls[c].of].status = "REQUESTED" THEN "claim" ELSE "failed")
  /\ UNCHANGED <<others, stores>>

\* Mutant: the request is claimed as it was found.
ClaimRequestFound(c) ==
  /\ At(c, "claim", {"quote", "decline"})
  /\ request' = [request EXCEPT ![calls[c].of].status =
                   IF calls[c].kind = "quote" THEN "PROCESSING" ELSE "DECLINED"]
  /\ Goto(c, IF calls[c].kind = "quote" THEN "number" ELSE "ok")
  /\ UNCHANGED <<others, sequence, quote, ordered>>

\* One officer declines it, or claims it to quote.
ClaimRequest(c) ==
  /\ At(c, "claim", {"quote", "decline"})
  /\ IF request[calls[c].of].status = "REQUESTED"
       THEN /\ request' = [request EXCEPT ![calls[c].of].status =
                             IF calls[c].kind = "quote" THEN "PROCESSING" ELSE "DECLINED"]
            /\ Goto(c, IF calls[c].kind = "quote" THEN "number" ELSE "ok")
       ELSE Goto(c, "failed") /\ UNCHANGED request
  /\ UNCHANGED <<others, sequence, quote, ordered>>

\* next_sequence counts by plant.
TakeNumber(c) ==
  LET p == request[calls[c].of].plant IN
  /\ At(c, "number", {"quote"}) /\ sequence[p] < MaxNumbers
  /\ sequence' = [sequence EXCEPT ![p] = @ + 1]
  /\ calls' = [calls EXCEPT ![c].pc = "insert", ![c].number = sequence[p] + 1]
  /\ UNCHANGED <<others, request, quote, ordered>>

\* The number is unique among the quotations of all plants: a second one fails.
InsertQuote(c) ==
  LET n == calls[c].number IN
  /\ At(c, "insert", {"quote"})
  /\ IF quote[n] = NoQuote
       THEN /\ quote' = [quote EXCEPT ![n] = [NoQuote EXCEPT !.status = "OPEN", !.of = calls[c].of]]
            /\ Goto(c, "link")
       ELSE Goto(c, "failed") /\ UNCHANGED quote
  /\ UNCHANGED <<others, request, sequence, ordered>>

LinkQuote(c) ==
  /\ At(c, "link", {"quote"}) /\ Goto(c, "ok")
  /\ request' = [request EXCEPT ![calls[c].of].status = IF @ = "PROCESSING" THEN "QUOTED" ELSE @]
  /\ UNCHANGED <<others, sequence, quote, ordered>>

-----------------------------------------------------------------------------
(* The customer's decision and the order. *)

\* valid_until passes.
DayPasses(n) ==
  /\ quote[n].status # "NONE" /\ ~quote[n].late /\ quote' = [quote EXCEPT ![n].late = TRUE]
  /\ UNCHANGED <<screens, calls, touches, request, sequence, ordered>>

Expired(n) == quote[n].status = "OPEN" /\ quote[n].late

\* A list of quotations is read, the customer's or a plant's.
ListQuotations(listed) ==
  /\ \E n \in Numbers : listed[n] /\ Expired(n)
  /\ quote' = [n \in Numbers |-> IF listed[n] /\ Expired(n)
                 THEN [quote[n] EXCEPT !.status = "EXPIRED"] ELSE quote[n]]
  /\ UNCHANGED <<screens, calls, touches, request, sequence, ordered>>

OfPlant(p) == [n \in Numbers |-> quote[n].of # None /\ request[quote[n].of].plant = p]
OfCustomer == [n \in Numbers |-> TRUE]

FindQuote(c) ==
  LET n == calls[c].of IN
  /\ At(c, "sent", {"accept", "refuse"})
  /\ Goto(c, IF quote[n].status = "OPEN" /\ ~quote[n].late THEN "decide" ELSE "failed")
  /\ quote' = [quote EXCEPT ![n].status = IF Expired(n) THEN "EXPIRED" ELSE @]
  /\ UNCHANGED <<others, request, sequence, ordered>>

\* Mutant: the decision is written over whatever the quotation has become.
DecideFound(c) ==
  /\ At(c, "decide", {"accept", "refuse"}) /\ Goto(c, "ok")
  /\ quote' = [quote EXCEPT ![calls[c].of].status =
                 IF calls[c].kind = "accept" THEN "ACCEPTED" ELSE "DECLINED"]
  /\ UNCHANGED <<others, request, sequence, ordered>>

DecideOpen(c) ==
  /\ At(c, "decide", {"accept", "refuse"})
  /\ IF quote[calls[c].of].status = "OPEN"
       THEN /\ Goto(c, "ok")
            /\ quote' = [quote EXCEPT ![calls[c].of].status =
                           IF calls[c].kind = "accept" THEN "ACCEPTED" ELSE "DECLINED"]
       ELSE Goto(c, "failed") /\ UNCHANGED quote
  /\ UNCHANGED <<others, request, sequence, ordered>>

FindAccepted(c) ==
  /\ At(c, "sent", {"order"})
  /\ Goto(c, IF quote[calls[c].of].status = "ACCEPTED" THEN "insert" ELSE "failed")
  /\ UNCHANGED <<others, stores>>

\* unique_order_per_quotation.
InsertOrder(c) ==
  LET n == calls[c].of IN
  /\ At(c, "insert", {"order"})
  /\ IF ordered[n] = 0
       THEN ordered' = [ordered EXCEPT ![n] = 1] /\ Goto(c, "mark")
       ELSE Goto(c, "failed") /\ UNCHANGED ordered
  /\ UNCHANGED <<others, request, sequence, quote>>

MarkOrdered(c) ==
  /\ At(c, "mark", {"order"}) /\ Goto(c, "ok")
  /\ quote' = [quote EXCEPT ![calls[c].of].status = IF @ = "ACCEPTED" THEN "ORDER_CREATED" ELSE @]
  /\ UNCHANGED <<others, request, sequence, ordered>>

Next ==
  \/ \E w \in Wants : TypeWant(w)
  \/ RunComparison \/ Compared \/ QuoteRequested \/ CustomerGivesUp
  \/ \E r \in Requests, p \in Plants : RequestQuote(r, p)
  \/ \E r \in Requests : InsertRequest(r)
  \/ \E o \in Officers :
       \/ CloseResponse(o) \/ SubmitResponse(o) \/ ResponseLands(o) \/ GiveUp(o)
       \/ \E r \in Requests : OpenResponse(o, r)
  \/ \E n \in Numbers : Decide(n) \/ CreateOrder(n) \/ DayPasses(n)
  \/ ListQuotations(OfCustomer) \/ \E p \in Plants : ListQuotations(OfPlant(p))
  \/ \E c \in Calls :
       \/ CustomerAnswered(c) \/ FindRequest(c) \/ ClaimRequest(c) \/ TakeNumber(c)
       \/ InsertQuote(c) \/ LinkQuote(c) \/ FindQuote(c) \/ DecideOpen(c)
       \/ FindAccepted(c) \/ InsertOrder(c) \/ MarkOrdered(c)

Spec == Init /\ [][Next]_vars

-----------------------------------------------------------------------------
QuotesOf(r) == {n \in Numbers : quote[n].of = r}

\* Whatever officers answer a request together, and however often after a lost
\* answer, one of them does: it gets one quotation, or is declined and gets none.
OneAnswerPerRequest ==
  \A r \in Requests :
    /\ Cardinality(QuotesOf(r)) <= 1
    /\ request[r].status \in {"REQUESTED", "DECLINED"} => QuotesOf(r) = {}

\* An order stands on a quotation its customer accepted: no decision, expiry or
\* second press takes the acceptance back once there is one.
OrderOnAcceptance ==
  \A n \in Numbers : ordered[n] > 0 => quote[n].status \in {"ACCEPTED", "ORDER_CREATED"}

\* type RequestStatus = "REQUESTED" | "QUOTED" | "DECLINED"
\* (owner/quotation-requests.tsx): a request that nobody is answering is in one
\* of the states that the lists know.
RequestAtRest ==
  \A r \in Requests : request[r].status = "PROCESSING" =>
    \E c \in Calls : calls[c].kind = "quote" /\ calls[c].of = r /\ calls[c].pc \in {"number", "insert", "link"}
=============================================================================
