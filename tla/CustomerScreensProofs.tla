---------------------- MODULE CustomerScreensProofs ----------------------
(***************************************************************************)
(* The parts of the application a customer uses, and an owner's purchase   *)
(* of a plan: what they keep is invariant for every number of customers,   *)
(* calls, places, plans and payments. Every part has an inductive          *)
(* invariant over its own variables; the last section puts them together.  *)
(***************************************************************************)
EXTENDS MCCustomerScreens, FiniteSetTheorems, SequenceTheorems, WellFoundedInduction, TLAPS

-----------------------------------------------------------------------------
(* OrderForm with a place: wherever an order is on its way, its            *)
(* coordinates are those of its address.                                   *)

AtItsSite(o) == o.at # None => o.at = o.site

PinnedRequest == [pc : {"idle", "sent", "insert", "done", "failed"},
                 kind : {"none", "prepare", "confirm", "order", "draft"},
                 order : [site : Order!Addresses \cup {None}, at : Order!Addresses \cup {None}]]

AddressInv == /\ orderAddress \in Order!Addresses \cup {None} /\ orderCoords \in Order!Addresses \cup {None}
              /\ orderCoords # None => orderAddress = orderCoords

PinnedInv ==
  /\ AddressInv
  /\ orderRequest \in [Order!Requests -> PinnedRequest]
     /\ \A r \in Order!Requests : AtItsSite(orderRequest[r].order)
  /\ orderCreated = [r \in Order!Requests |-> orderCreated[r]]
     /\ \A r \in Order!Requests : AtItsSite(orderCreated[r])
  /\ AtItsSite(orderIntent)

\* Nothing is sent when the form opens.
LEMMA PinnedStarts == Order!Init => PinnedInv
<1> SUFFICES ASSUME Order!Init PROVE PinnedInv
  OBVIOUS
<1>1. Order!Unsent \in PinnedRequest /\ AtItsSite(Order!Unsent.order) /\ AtItsSite(Order!NoOrder)
  BY DEF Order!Unsent, PinnedRequest, Order!NoOrder, AtItsSite
<1>2. AddressInv
  BY DEF Order!Init, AddressInv, Order!Addresses
<1> QED
  BY <1>1, <1>2 DEF Order!Init, PinnedInv

\* A request that is sent, or moves on.
LEMMA PinnedRequestMoves ==
  ASSUME PinnedInv, NEW r \in Order!Requests, NEW q \in PinnedRequest,
         orderRequest' = [orderRequest EXCEPT ![r] = q],
         AtItsSite(q.order), UNCHANGED <<orderAddress, orderCoords, orderCreated>>, AtItsSite(orderIntent)'
  PROVE  PinnedInv'
<1>1. orderRequest' \in [Order!Requests -> PinnedRequest]
      /\ \A p \in Order!Requests : orderRequest'[p] = IF p = r THEN q ELSE orderRequest[p]
  BY DEF PinnedInv
<1>2. AddressInv'
  BY DEF PinnedInv, AddressInv
<1> QED
  BY <1>1, <1>2 DEF PinnedInv, AtItsSite

\* Every step keeps the invariant.
LEMMA PinnedSteady == ASSUME PinnedInv, [Order!Next]_(Order!vars) PROVE PinnedInv'
<1>1. \A r \in Order!Requests : orderRequest[r] \in PinnedRequest
  BY DEF PinnedInv
<1>2. ASSUME UNCHANGED <<orderRequest, orderIntent, orderCreated>>, AddressInv' PROVE PinnedInv'
  BY <1>2 DEF PinnedInv, AtItsSite
<1>3. AddressInv
  BY DEF PinnedInv
<1>4. ASSUME NEW a \in TypedAddresses, Order!EditAddress(a) PROVE PinnedInv'
  BY <1>2, <1>4 DEF Order!EditAddress, AddressInv, Order!Addresses, Order!visit, Order!backend
<1>5. ASSUME NEW p \in OrderPlaces, Order!PickPlace(p) \/ Order!Resolved(p) PROVE PinnedInv'
  BY <1>2, <1>3, <1>5 DEF Order!PickPlace, Order!Resolved, AddressInv, Order!Addresses, Order!visit, Order!input,
     Order!backend
<1>6. CASE Order!TimerFires \/ Order!Suggested \/ Order!Answered \/ Order!GiveUp
  BY <1>2, <1>3, <1>6 DEF Order!TimerFires, Order!Suggested, Order!Answered, Order!GiveUp, AddressInv, Order!visit,
     Order!input, Order!backend
<1>7. ASSUME NEW r \in Order!Requests, NEW kind \in {"prepare", "confirm", "order", "draft"}, Order!Send(r, kind),
             UNCHANGED <<orderAddress, orderCoords, orderIntent, orderCreated>>
      PROVE  PinnedInv'
  <2> DEFINE o == IF kind = "confirm" THEN Order!NoOrder ELSE [site |-> orderAddress, at |-> orderCoords]
             q == [pc |-> "sent", kind |-> kind, order |-> o]
  <2>1. o \in [site : Order!Addresses \cup {None}, at : Order!Addresses \cup {None}] /\ AtItsSite(o)
    BY <1>3 DEF Order!NoOrder, AtItsSite, AddressInv
  <2> HIDE DEF o
  <2>2. q \in PinnedRequest /\ q.order = o
    BY <2>1 DEF PinnedRequest
  <2>3. orderRequest' = [orderRequest EXCEPT ![r] = q]
    BY <1>7 DEF Order!Send, o
  <2>4. AtItsSite(orderIntent)'
    BY <1>7 DEF PinnedInv, AtItsSite
  <2> HIDE DEF q
  <2> QED
    BY <1>7, <2>1, <2>2, <2>3, <2>4, PinnedRequestMoves
<1>8. ASSUME NEW r \in Order!Requests, Order!Submit(r) \/ Order!Confirm(r) PROVE PinnedInv'
  BY <1>7, <1>8 DEF Order!Submit, Order!Confirm, Order!input, Order!backend
<1>9. ASSUME NEW r \in Order!Requests, NEW pc \in {"insert", "done", "failed"}, Order!Goto(r, pc)
      PROVE  LET q == [orderRequest[r] EXCEPT !.pc = pc] IN
             /\ q \in PinnedRequest /\ AtItsSite(q.order)
             /\ orderRequest' = [orderRequest EXCEPT ![r] = q]
  BY <1>1, <1>9 DEF Order!Goto, PinnedRequest, PinnedInv
<1>10. ASSUME NEW r \in Order!Requests, Order!Prepare(r) \/ Order!Look(r) \/ Order!Fail(r) PROVE PinnedInv'
  <2>1. PICK pc \in {"insert", "done", "failed"} : Order!Goto(r, pc)
    BY <1>10 DEF Order!Prepare, Order!Look, Order!Fail
  <2> DEFINE q == [orderRequest[r] EXCEPT !.pc = pc]
  <2>2. q \in PinnedRequest /\ AtItsSite(q.order) /\ orderRequest' = [orderRequest EXCEPT ![r] = q]
    BY <1>9, <2>1
  <2>3. UNCHANGED <<orderAddress, orderCoords, orderCreated>>
    BY <1>10 DEF Order!Prepare, Order!Look, Order!Fail, Order!others, Order!backend, Order!visit, Order!input
  <2>4. AtItsSite(orderIntent)'
    BY <1>10 DEF Order!Prepare, Order!Look, Order!Fail, Order!backend, PinnedInv, AtItsSite
  <2> HIDE DEF q
  <2> QED
    BY <2>1, <2>2, <2>3, <2>4, PinnedRequestMoves
<1>11. ASSUME NEW r \in Order!Requests, Order!Insert(r) PROVE PinnedInv'
  <2> DEFINE q == [orderRequest[r] EXCEPT !.pc = "done"]
  <2>1. q \in PinnedRequest /\ AtItsSite(q.order) /\ orderRequest' = [orderRequest EXCEPT ![r] = q]
    BY <1>9, <1>11 DEF Order!Insert
  <2> HIDE DEF q
  <2>2. orderRequest' \in [Order!Requests -> PinnedRequest]
        /\ \A p \in Order!Requests : orderRequest'[p] = IF p = r THEN q ELSE orderRequest[p]
    BY <2>1 DEF PinnedInv
  <2>3. UNCHANGED <<orderAddress, orderCoords, orderIntent>>
    BY <1>11 DEF Order!Insert, Order!others, Order!visit, Order!input
  <2>4. CASE orderCreated' = orderCreated
    BY <2>1, <2>2, <2>3, <2>4 DEF PinnedInv, AddressInv, AtItsSite
  <2>5. CASE ~(Order!Keyed(r) /\ Order!Existing)
    <3> DEFINE o == IF Order!Keyed(r) THEN orderIntent ELSE orderRequest[r].order
    <3>1. orderCreated' = [orderCreated EXCEPT ![r] = o] /\ AtItsSite(o)
      BY <1>11, <2>5 DEF Order!Insert, PinnedInv
    <3> HIDE DEF o
    <3> QED
      BY <2>1, <2>2, <2>3, <3>1 DEF PinnedInv, AddressInv, AtItsSite
  <2> QED
    BY <1>11, <2>4, <2>5 DEF Order!Insert
<1>12. CASE UNCHANGED Order!vars
  BY <1>2, <1>3, <1>12 DEF Order!vars, Order!visit, Order!input, Order!backend, AddressInv
<1> QED
  BY <1>4, <1>5, <1>6, <1>8, <1>10, <1>11, <1>12 DEF Order!Next, Order!Visit

\* The coordinates on the form, and of every order created, are its address's.
LEMMA OrderPinned == PinnedInv => Order!PinnedAddress
  BY DEF PinnedInv, AddressInv, Order!PinnedAddress, AtItsSite

-----------------------------------------------------------------------------
(* OrderForm with the assistant: only confirmations create an order, and   *)
(* at most one of them does.                                               *)

RequestStates == {"idle", "sent", "insert", "done", "failed"}
RequestKinds == {"none", "prepare", "confirm", "order", "draft"}
RequestShape(k) == k.pc \in RequestStates /\ k.kind \in RequestKinds
/\ k = [pc |-> k.pc, kind |-> k.kind, order |-> k.order]

OnceInv ==
  /\ assistedRequest = [r \in Assisted!Requests |-> assistedRequest[r]]
     /\ \A r \in Assisted!Requests : RequestShape(assistedRequest[r])
  /\ assistedCreated = [r \in Assisted!Requests |-> assistedCreated[r]]
  /\ \A r \in Assisted!Requests :
       /\ assistedCreated[r] # Assisted!NoOrder => assistedRequest[r].pc # "idle"
          /\ assistedRequest[r].kind # "prepare"
       /\ assistedAssistant /\ assistedRequest[r].pc # "idle" => assistedRequest[r].kind \in {"prepare", "confirm"}
  /\ assistedAssistant => \A r, q \in Assisted!Requests : assistedCreated[r] # Assisted!NoOrder
     /\ assistedCreated[q] # Assisted!NoOrder => r = q

\* Nothing is sent when the form opens.
LEMMA OnceStarts == Assisted!Init => OnceInv
  BY DEF Assisted!Init, OnceInv, Assisted!Unsent, RequestShape, RequestStates, RequestKinds

\* A request that is sent, or moves on.
LEMMA OnceRequestMoves ==
  ASSUME OnceInv, NEW r \in Assisted!Requests, NEW q, RequestShape(q),
         assistedRequest' = [assistedRequest EXCEPT ![r] = q],
         q.pc # "idle", UNCHANGED <<assistedCreated, assistedAssistant>>,
         \/ assistedRequest[r].pc # "idle" /\ q.kind = assistedRequest[r].kind
         \/ assistedCreated[r] = Assisted!NoOrder /\ (assistedAssistant => q.kind \in {"prepare", "confirm"})
  PROVE  OnceInv'
<1>1. assistedRequest' = [p \in Assisted!Requests |-> assistedRequest'[p]]
      /\ \A p \in Assisted!Requests : assistedRequest'[p] = IF p = r THEN q ELSE assistedRequest[p]
  BY DEF OnceInv
<1> QED
  BY <1>1 DEF OnceInv

\* Every step keeps the invariant.
LEMMA OnceSteady == ASSUME OnceInv, [Assisted!Next]_(Assisted!vars) PROVE OnceInv'
<1>1. ASSUME UNCHANGED <<assistedAssistant, assistedRequest, assistedCreated>> PROVE OnceInv'
  BY <1>1 DEF OnceInv
<1>2. ASSUME NEW x, Assisted!EditAddress(x) \/ Assisted!PickPlace(x) \/ Assisted!Resolved(x) PROVE OnceInv'
  BY <1>1, <1>2 DEF Assisted!EditAddress, Assisted!PickPlace, Assisted!Resolved, Assisted!visit, Assisted!input,
     Assisted!backend
<1>3. CASE Assisted!TimerFires \/ Assisted!Suggested \/ Assisted!Answered \/ Assisted!GiveUp
  BY <1>1, <1>3 DEF Assisted!TimerFires, Assisted!Suggested, Assisted!Answered, Assisted!GiveUp, Assisted!visit,
     Assisted!input, Assisted!backend
<1>4. ASSUME NEW r \in Assisted!Requests, NEW kind \in RequestKinds, Assisted!Send(r, kind),
             assistedAssistant => kind \in {"prepare", "confirm"}, UNCHANGED <<assistedCreated, assistedAssistant>>
      PROVE  OnceInv'
  <2> DEFINE q == [pc |-> "sent", kind |-> kind,
                   order |-> IF kind = "confirm" THEN Assisted!NoOrder ELSE [site |-> assistedAddress,
                                                                             at |-> assistedCoords]]
  <2>1. q.kind = kind /\ q.pc = "sent" /\ RequestShape(q)
    BY DEF RequestShape, RequestStates
  <2>2. assistedRequest' = [assistedRequest EXCEPT ![r] = q] /\ assistedCreated[r] = Assisted!NoOrder
    BY <1>4 DEF Assisted!Send, OnceInv
  <2> HIDE DEF q
  <2> QED
    BY <1>4, <2>1, <2>2, OnceRequestMoves
<1>5. ASSUME NEW r \in Assisted!Requests, Assisted!Submit(r) \/ Assisted!Confirm(r) PROVE OnceInv'
  BY <1>4, <1>5 DEF Assisted!Submit, Assisted!Confirm, Assisted!input, Assisted!backend, RequestKinds
<1>6. ASSUME NEW r \in Assisted!Requests, NEW pc \in {"insert", "done", "failed"}, Assisted!Goto(r, pc)
      PROVE  LET q == [assistedRequest[r] EXCEPT !.pc = pc] IN
             RequestShape(q) /\ q.pc = pc /\ q.kind = assistedRequest[r].kind
             /\ assistedRequest' = [assistedRequest EXCEPT ![r] = q]
  BY <1>6 DEF Assisted!Goto, RequestShape, RequestStates, OnceInv
<1>7. ASSUME NEW r \in Assisted!Requests, Assisted!Prepare(r) \/ Assisted!Look(r) \/ Assisted!Fail(r) PROVE OnceInv'
  <2>1. PICK pc \in {"insert", "done", "failed"} : Assisted!Goto(r, pc) /\ assistedRequest[r].pc = "sent"
    BY <1>7 DEF Assisted!Prepare, Assisted!Look, Assisted!Fail, Assisted!At
  <2> DEFINE q == [assistedRequest[r] EXCEPT !.pc = pc]
  <2>2. RequestShape(q) /\ q.pc = pc /\ q.kind = assistedRequest[r].kind
        /\ assistedRequest' = [assistedRequest EXCEPT ![r] = q]
    BY <1>6, <2>1
  <2>3. UNCHANGED <<assistedCreated, assistedAssistant>>
    BY <1>7 DEF Assisted!Prepare, Assisted!Look, Assisted!Fail, Assisted!others, Assisted!backend, Assisted!visit,
       Assisted!input
  <2> HIDE DEF q
  <2> QED
    BY <2>1, <2>2, <2>3, OnceRequestMoves
<1>8. ASSUME NEW r \in Assisted!Requests, Assisted!Insert(r) PROVE OnceInv'
  <2> DEFINE q == [assistedRequest[r] EXCEPT !.pc = "done"]
  <2>1. RequestShape(q) /\ q.pc = "done" /\ q.kind = assistedRequest[r].kind
        /\ assistedRequest' = [assistedRequest EXCEPT ![r] = q]
    BY <1>6, <1>8 DEF Assisted!Insert
  <2> HIDE DEF q
  <2>2. assistedRequest' = [p \in Assisted!Requests |-> assistedRequest'[p]]
        /\ \A p \in Assisted!Requests : assistedRequest'[p] = IF p = r THEN q ELSE assistedRequest[p]
    BY <2>1 DEF OnceInv
  <2>3. assistedAssistant' = assistedAssistant /\ assistedRequest[r].kind # "prepare"
        /\ assistedRequest[r].pc = "insert"
    BY <1>8 DEF Assisted!Insert, Assisted!At, Assisted!others, Assisted!visit, Assisted!input
  <2>4. CASE assistedCreated' = assistedCreated
    BY <2>1, <2>2, <2>3, <2>4 DEF OnceInv
  <2>5. CASE ~(Assisted!Keyed(r) /\ Assisted!Existing)
    <3>1. PICK o : assistedCreated' = [assistedCreated EXCEPT ![r] = o]
      BY <1>8, <2>5 DEF Assisted!Insert
    <3>2. assistedCreated' = [p \in Assisted!Requests |-> assistedCreated'[p]]
          /\ \A p \in Assisted!Requests : assistedCreated'[p] = IF p = r THEN o ELSE assistedCreated[p]
      BY <3>1 DEF OnceInv
    <3>3. assistedAssistant => \A p \in Assisted!Requests : p # r => assistedCreated[p] = Assisted!NoOrder
      BY <2>3, <2>5 DEF Assisted!Keyed, Assisted!Existing, OnceInv
    <3> QED
      BY <2>1, <2>2, <2>3, <3>2, <3>3 DEF OnceInv
  <2> QED
    BY <1>8, <2>4, <2>5 DEF Assisted!Insert
<1>9. CASE UNCHANGED Assisted!vars
  BY <1>1, <1>9 DEF Assisted!vars, Assisted!visit, Assisted!input, Assisted!backend
<1> QED
  BY <1>2, <1>3, <1>5, <1>7, <1>8, <1>9 DEF Assisted!Next, Assisted!Visit

\* At most one member makes a set of at most one.
LEMMA OnceOrdered == OnceInv => Assisted!AssistedOrderOnce
<1> SUFFICES ASSUME OnceInv, assistedAssistant
             PROVE  Cardinality({r \in Assisted!Requests : assistedCreated[r] # Assisted!NoOrder}) <= 1
  BY DEF Assisted!AssistedOrderOnce, Assisted!Cardinality, Cardinality
<1>1. CASE {r \in Assisted!Requests : assistedCreated[r] # Assisted!NoOrder} = {}
  BY <1>1, FS_EmptySet
<1>2. ASSUME NEW r \in Assisted!Requests, assistedCreated[r] # Assisted!NoOrder
      PROVE  Cardinality({q \in Assisted!Requests : assistedCreated[q] # Assisted!NoOrder}) <= 1
  <2>1. {q \in Assisted!Requests : assistedCreated[q] # Assisted!NoOrder} = {r}
    BY <1>2 DEF OnceInv
  <2>2. Cardinality({r}) = 1
    BY FS_Singleton
  <2> QED
    BY <2>1, <2>2
<1> QED
  BY <1>1, <1>2

-----------------------------------------------------------------------------
(* Quotations: at most one call is past the claim of a request, the claim  *)
(* leaves REQUESTED before the quotation is inserted, and an acceptance is *)
(* taken back by nobody.                                                   *)

Unanswered == {"NONE", "SENT", "LOST", "REQUESTED", "DECLINED"}
Accepted == {"ACCEPTED", "ORDER_CREATED"}
QuoteCallShape(k) == k = [pc |-> k.pc, kind |-> k.kind, of |-> k.of, number |-> k.number]
QuoteCall(k) == k.kind = "quote" /\ k.pc \in {"number", "insert"}
OrderCall(k) == k.kind = "order" /\ k.pc \in {"insert", "mark"}

ShapesInv ==
  /\ decideCalls = [c \in Calls |-> decideCalls[c]] /\ \A c \in Calls : QuoteCallShape(decideCalls[c])
  /\ decideRequest = [r \in Wishes |-> decideRequest[r]]
  /\ \A r \in Wishes : decideRequest[r] = [status |-> decideRequest[r].status, plant |-> decideRequest[r].plant,
                                           for |-> decideRequest[r].for, estimate |-> decideRequest[r].estimate]
  /\ decideQuote = [n \in Deciding!Numbers |-> decideQuote[n]]
     /\ decideOrdered = [n \in Deciding!Numbers |-> decideOrdered[n]]
  /\ \A n \in Deciding!Numbers : decideQuote[n] = [status |-> decideQuote[n].status, of |-> decideQuote[n].of,
                                                   late |-> decideQuote[n].late]

AnswersInv ==
  /\ \A c \in Calls : QuoteCall(decideCalls[c]) /\ decideCalls[c].of \in Wishes =>
       /\ decideRequest[decideCalls[c].of].status \notin Unanswered
       /\ \A n \in Deciding!Numbers : decideQuote[n].of # decideCalls[c].of
       /\ \A d \in Calls : QuoteCall(decideCalls[d]) /\ decideCalls[d].of = decideCalls[c].of => d = c
  /\ \A n \in Deciding!Numbers : decideQuote[n].of \in Wishes =>
       /\ decideRequest[decideQuote[n].of].status \notin Unanswered
       /\ \A m \in Deciding!Numbers : decideQuote[m].of = decideQuote[n].of => m = n

AcceptedInv ==
  /\ \A c \in Calls : OrderCall(decideCalls[c]) /\ decideCalls[c].of \in Deciding!Numbers =>
       decideQuote[decideCalls[c].of].status \in Accepted
  /\ \A n \in Deciding!Numbers : decideOrdered[n] > 0 => decideQuote[n].status \in Accepted

QuoteInv == ShapesInv /\ AnswersInv /\ AcceptedInv

\* There is no quotation and no call.
LEMMA QuoteStarts == ASSUME None \notin Wishes, Deciding!Init PROVE QuoteInv
<1>1. ShapesInv
  BY DEF Deciding!Init, ShapesInv, QuoteCallShape, Deciding!Free, Deciding!Nothing, Deciding!NoQuote
<1>2. AnswersInv
  BY DEF Deciding!Init, AnswersInv, QuoteCall, Deciding!Free, Deciding!NoQuote
<1>3. AcceptedInv
  <2>1. ~(0 > 0)
    OBVIOUS
  <2> QED
    BY <2>1 DEF Deciding!Init, AcceptedInv, OrderCall, Deciding!Free
<1> QED
  BY <1>1, <1>2, <1>3 DEF QuoteInv

\* A call that is made, moves on, or ends, and neither claims nor finds an
\* acceptance.
LEMMA QuoteCallMoves ==
  ASSUME QuoteInv, UNCHANGED Deciding!stores, NEW c, NEW k, QuoteCallShape(k),
         decideCalls' = [decideCalls EXCEPT ![c] = k],
         QuoteCall(k) => c \in Calls /\ QuoteCall(decideCalls[c]) /\ k.of = decideCalls[c].of,
         OrderCall(k) => (k.of \in Deciding!Numbers => decideQuote[k.of].status \in Accepted)
  PROVE  QuoteInv'
<1>1. decideCalls' = [d \in Calls |-> decideCalls'[d]]
      /\ \A d \in Calls : decideCalls'[d] = IF d = c THEN k ELSE decideCalls[d]
  BY DEF QuoteInv, ShapesInv
<1>2. UNCHANGED <<decideRequest, decideQuote, decideOrdered>>
  BY DEF Deciding!stores
<1>3. ShapesInv'
  BY <1>1, <1>2 DEF QuoteInv, ShapesInv, QuoteCallShape
<1>4. AnswersInv'
  BY <1>1, <1>2 DEF QuoteInv, AnswersInv, QuoteCall
<1>5. AcceptedInv'
  BY <1>1, <1>2 DEF QuoteInv, AcceptedInv, OrderCall
<1> QED
  BY <1>3, <1>4, <1>5 DEF QuoteInv

\* The state of a call that is worked on.
LEMMA QuoteGoto ==
  ASSUME QuoteInv, NEW c \in Calls, NEW pc
  PROVE  LET k == [decideCalls[c] EXCEPT !.pc = pc] IN
         /\ QuoteCallShape(k) /\ k.pc = pc /\ k.kind = decideCalls[c].kind /\ k.of = decideCalls[c].of
         /\ Deciding!Goto(c, pc) => decideCalls' = [decideCalls EXCEPT ![c] = k]
BY DEF QuoteInv, ShapesInv, QuoteCallShape, Deciding!Goto

\* A call that comes to an end, or only looks.
LEMMA QuoteLooks ==
  ASSUME QuoteInv, UNCHANGED Deciding!stores, NEW c \in Calls,
         NEW pc \in {"claim", "decide", "link", "ok", "failed"}, Deciding!Goto(c, pc)
  PROVE  QuoteInv'
<1> DEFINE k == [decideCalls[c] EXCEPT !.pc = pc]
<1>1. QuoteCallShape(k) /\ k.pc = pc /\ decideCalls' = [decideCalls EXCEPT ![c] = k]
  BY QuoteGoto
<1> HIDE DEF k
<1> QED
  BY <1>1, QuoteCallMoves DEF QuoteCall, OrderCall

\* A new call.
LEMMA QuoteCallStarts ==
  ASSUME QuoteInv, UNCHANGED Deciding!stores, NEW kind, NEW of, Deciding!Start(kind, of) PROVE QuoteInv'
<1> DEFINE c == CHOOSE d \in {e \in Calls : decideCalls[e] = Deciding!Free} : TRUE
<1>1. PICK k : k = [Deciding!Free EXCEPT !.pc = "sent", !.kind = kind, !.of = of]
  OBVIOUS
<1>2. QuoteCallShape(k) /\ k.pc = "sent"
  BY <1>1 DEF QuoteCallShape, Deciding!Free
<1>3. decideCalls' = [decideCalls EXCEPT ![c] = k]
  BY <1>1 DEF Deciding!Start
<1> HIDE DEF c
<1> QED
  BY <1>2, <1>3, QuoteCallMoves DEF QuoteCall, OrderCall

\* A call ends and its place is free.
LEMMA QuoteCallEnds ==
  ASSUME QuoteInv, UNCHANGED Deciding!stores, NEW c, decideCalls' = [decideCalls EXCEPT ![c] = Deciding!Free]
  PROVE  QuoteInv'
<1>1. QuoteCallShape(Deciding!Free) /\ Deciding!Free.pc = "free"
  BY DEF QuoteCallShape, Deciding!Free
<1> QED
  BY <1>1, QuoteCallMoves DEF QuoteCall, OrderCall

\* A quotation's status changes, no acceptance is taken back, and at most one call
\* moves.
LEMMA QuoteStatusMoves ==
  ASSUME QuoteInv, UNCHANGED <<decideRequest, decideOrdered>>,
         decideQuote' = [n \in Deciding!Numbers |-> decideQuote'[n]],
         \A n \in Deciding!Numbers :
           /\ decideQuote'[n] = [status |-> decideQuote'[n].status, of |-> decideQuote[n].of,
                                 late |-> decideQuote'[n].late]
           /\ decideQuote[n].status \in Accepted => decideQuote'[n].status \in Accepted,
         \/ decideCalls' = decideCalls
         \/ \E c \in Calls, pc \in {"claim", "decide", "link", "ok", "failed"} : Deciding!Goto(c, pc)
  PROVE  QuoteInv'
<1>1. decideCalls' = [d \in Calls |-> decideCalls'[d]]
      /\ \A d \in Calls : QuoteCallShape(decideCalls'[d]) /\ decideCalls'[d].of = decideCalls[d].of
                          /\ (QuoteCall(decideCalls'[d]) => QuoteCall(decideCalls[d]))
                             /\ (OrderCall(decideCalls'[d]) => OrderCall(decideCalls[d]))
  <2>1. CASE decideCalls' = decideCalls
    BY <2>1 DEF QuoteInv, ShapesInv
  <2>2. ASSUME NEW c \in Calls, NEW pc \in {"claim", "decide", "link", "ok", "failed"}, Deciding!Goto(c, pc)
        PROVE  <1>1
    <3> DEFINE k == [decideCalls[c] EXCEPT !.pc = pc]
    <3>1. QuoteCallShape(k) /\ k.pc = pc /\ k.of = decideCalls[c].of /\ decideCalls' = [decideCalls EXCEPT ![c] = k]
      BY <2>2, QuoteGoto
    <3> HIDE DEF k
    <3> QED
      BY <3>1 DEF QuoteInv, ShapesInv, QuoteCall, OrderCall
  <2> QED
    BY <2>1, <2>2
<1>2. \A n \in Deciding!Numbers : decideQuote'[n].of = decideQuote[n].of
  OBVIOUS
<1>3. ShapesInv'
  BY <1>1, <1>2 DEF QuoteInv, ShapesInv
<1>4. AnswersInv'
  BY <1>1, <1>2 DEF QuoteInv, AnswersInv
<1>5. AcceptedInv'
  BY <1>1, <1>2 DEF QuoteInv, AcceptedInv
<1> QED
  BY <1>3, <1>4, <1>5 DEF QuoteInv

\* The status of one quotation is written, and a call moves on.
LEMMA QuoteStatusMoved ==
  ASSUME QuoteInv, NEW c \in Calls, NEW pc \in {"claim", "decide", "link", "ok", "failed"}, Deciding!Goto(c, pc),
         UNCHANGED <<decideRequest, decideOrdered>>, NEW n, NEW to, decideQuote' =
             [decideQuote EXCEPT ![n].status = to],
         decideQuote[n].status \in Accepted => to \in Accepted
  PROVE  QuoteInv'
<1>1. decideQuote' = [m \in Deciding!Numbers |-> decideQuote'[m]]
      /\ \A m \in Deciding!Numbers : decideQuote'[m] = IF m = n THEN [decideQuote[m] EXCEPT !.status = to]
             ELSE decideQuote[m]
  BY DEF QuoteInv, ShapesInv
<1>2. \A m \in Deciding!Numbers :
           /\ decideQuote'[m] = [status |-> decideQuote'[m].status, of |-> decideQuote[m].of,
                                 late |-> decideQuote'[m].late]
           /\ decideQuote'[m].status = IF m = n THEN to ELSE decideQuote[m].status
  <2> SUFFICES ASSUME NEW m \in Deciding!Numbers
               PROVE  /\ decideQuote'[m] = [status |-> decideQuote'[m].status, of |-> decideQuote[m].of,
                                            late |-> decideQuote'[m].late]
                      /\ decideQuote'[m].status = IF m = n THEN to ELSE decideQuote[m].status
    OBVIOUS
  <2>1. decideQuote[m] = [status |-> decideQuote[m].status, of |-> decideQuote[m].of, late |-> decideQuote[m].late]
    BY DEF QuoteInv, ShapesInv
  <2> QED
    BY <1>1, <2>1
<1> QED
  BY <1>1, <1>2, QuoteStatusMoves

\* A request's status changes where no answer is given.
LEMMA QuoteRequestMoves ==
  ASSUME QuoteInv, UNCHANGED <<decideCalls, decideQuote, decideOrdered>>, NEW r \in Wishes, NEW q,
         q = [status |-> q.status, plant |-> q.plant, for |-> q.for, estimate |-> q.estimate],
         decideRequest' = [decideRequest EXCEPT ![r] = q], decideRequest[r].status \in Unanswered
  PROVE  QuoteInv'
<1>1. decideRequest' = [s \in Wishes |-> decideRequest'[s]]
      /\ \A s \in Wishes : decideRequest'[s] = IF s = r THEN q ELSE decideRequest[s]
  BY DEF QuoteInv, ShapesInv
<1>2. ShapesInv'
  BY <1>1 DEF QuoteInv, ShapesInv, QuoteCallShape
<1>3. AnswersInv'
  BY <1>1 DEF QuoteInv, AnswersInv, QuoteCall
<1>4. AcceptedInv'
  BY DEF QuoteInv, AcceptedInv, OrderCall
<1> QED
  BY <1>2, <1>3, <1>4 DEF QuoteInv

\* The claim of a request.
LEMMA QuoteClaims == ASSUME QuoteInv, NEW c \in Calls, Deciding!ClaimRequest(c) PROVE QuoteInv'
<1> DEFINE r == decideCalls[c].of
           to == IF decideCalls[c].kind = "quote" THEN "PROCESSING" ELSE "DECLINED"
           pc == IF decideCalls[c].kind = "quote" THEN "number" ELSE "ok"
           k == [decideCalls[c] EXCEPT !.pc = pc]
<1>1. CASE decideRequest[r].status # "REQUESTED"
  <2>1. Deciding!Goto(c, "failed") /\ UNCHANGED Deciding!stores
    BY <1>1 DEF Deciding!ClaimRequest, Deciding!stores
  <2> QED
    BY <2>1, QuoteLooks
<1>2. CASE decideRequest[r].status = "REQUESTED"
  <2>1. QuoteCallShape(k) /\ k.pc = pc /\ k.kind = decideCalls[c].kind /\ k.of = r
        /\ decideCalls' = [decideCalls EXCEPT ![c] = k]
    BY <1>2, QuoteGoto DEF Deciding!ClaimRequest
  <2>2. decideRequest' = [decideRequest EXCEPT ![r].status = to] /\ UNCHANGED <<decideQuote, decideOrdered>>
        /\ decideCalls[c].pc = "claim" /\ decideCalls[c].kind \in {"quote", "decline"}
    BY <1>2 DEF Deciding!ClaimRequest, Deciding!At
  <2>3. to = "PROCESSING" \/ (to = "DECLINED" /\ pc = "ok")
    OBVIOUS
  <2> HIDE DEF k, pc, to
  <2>4. decideCalls' = [d \in Calls |-> decideCalls'[d]]
        /\ \A d \in Calls : decideCalls'[d] = IF d = c THEN k ELSE decideCalls[d]
    BY <2>1 DEF QuoteInv, ShapesInv
  <2>5. decideRequest' = [s \in Wishes |-> decideRequest'[s]]
        /\ \A s \in Wishes : decideRequest'[s] = IF s = r THEN [decideRequest[s] EXCEPT !.status = to]
               ELSE decideRequest[s]
    BY <2>2 DEF QuoteInv, ShapesInv
  <2>6. \A s \in Wishes : /\ decideRequest'[s] = [status |-> decideRequest'[s].status,
                                                  plant |-> decideRequest'[s].plant,
                                                  for |-> decideRequest'[s].for,
                                                  estimate |-> decideRequest'[s].estimate]
                          /\ decideRequest'[s].status = IF s = r THEN to ELSE decideRequest[s].status
    BY <2>5 DEF QuoteInv, ShapesInv
  <2>7. ShapesInv'
    BY <2>1, <2>2, <2>4, <2>5, <2>6 DEF QuoteInv, ShapesInv
  <2>8. r \in Wishes => /\ \A n \in Deciding!Numbers : decideQuote[n].of # r
                        /\ \A d \in Calls : QuoteCall(decideCalls[d]) => decideCalls[d].of # r
    BY <1>2 DEF QuoteInv, AnswersInv, Unanswered
  <2>9. QuoteCall(k) => to = "PROCESSING"
    BY <2>1, <2>3 DEF QuoteCall
  <2>10. AnswersInv'
    <3> HIDE DEF r
    <3>1. \A n \in Deciding!Numbers : decideQuote'[n].of \in Wishes =>
             /\ decideRequest'[decideQuote'[n].of].status \notin Unanswered
             /\ \A m \in Deciding!Numbers : decideQuote'[m].of = decideQuote'[n].of => m = n
      BY <2>2, <2>6, <2>8 DEF QuoteInv, AnswersInv
    <3>2. ASSUME NEW d \in Calls, QuoteCall(decideCalls'[d]), decideCalls'[d].of \in Wishes
          PROVE  /\ decideRequest'[decideCalls'[d].of].status \notin Unanswered
                 /\ \A n \in Deciding!Numbers : decideQuote'[n].of # decideCalls'[d].of
                 /\ \A e \in Calls : QuoteCall(decideCalls'[e]) /\ decideCalls'[e].of = decideCalls'[d].of => e = d
      <4>1. CASE d = c
        BY <2>1, <2>2, <2>4, <2>6, <2>8, <2>9, <3>2, <4>1 DEF Unanswered
      <4>2. CASE d # c
        BY <2>1, <2>2, <2>4, <2>6, <2>8, <3>2, <4>2 DEF QuoteInv, AnswersInv
      <4> QED
        BY <4>1, <4>2
    <3> QED
      BY <3>1, <3>2 DEF AnswersInv
  <2>11. AcceptedInv'
    BY <2>1, <2>2, <2>4 DEF QuoteInv, AcceptedInv, OrderCall
  <2> QED
    BY <2>7, <2>10, <2>11 DEF QuoteInv
<1> QED
  BY <1>1, <1>2

\* The quotation is inserted.
LEMMA QuoteInserts == ASSUME QuoteInv, NEW c \in Calls, Deciding!InsertQuote(c) PROVE QuoteInv'
<1> DEFINE m == decideCalls[c].number
           k == [decideCalls[c] EXCEPT !.pc = "link"]
           q == [status |-> "OPEN", of |-> decideCalls[c].of, late |-> FALSE]
<1>1. CASE decideQuote[m] # Deciding!NoQuote
  <2>1. Deciding!Goto(c, "failed") /\ UNCHANGED Deciding!stores
    BY <1>1 DEF Deciding!InsertQuote, Deciding!stores
  <2> QED
    BY <2>1, QuoteLooks
<1>2. CASE decideQuote[m] = Deciding!NoQuote
  <2>1. QuoteCallShape(k) /\ k.pc = "link" /\ k.of = decideCalls[c].of
        /\ decideCalls' = [decideCalls EXCEPT ![c] = k]
    BY <1>2, QuoteGoto DEF Deciding!InsertQuote
  <2>2. decideQuote' = [decideQuote EXCEPT ![m] = q]
        /\ UNCHANGED <<decideRequest, decideOrdered>> /\ QuoteCall(decideCalls[c])
    BY <1>2 DEF Deciding!InsertQuote, Deciding!At, QuoteCall, Deciding!NoQuote
  <2>3. q = [status |-> q.status, of |-> q.of, late |-> q.late] /\ q.of = decideCalls[c].of
    OBVIOUS
  <2>4. ASSUME m \in Deciding!Numbers PROVE decideQuote[m].status \notin Accepted
    BY <1>2 DEF Deciding!NoQuote, Accepted
  <2> HIDE DEF k, q, m
  <2>5. decideCalls' = [d \in Calls |-> decideCalls'[d]]
        /\ \A d \in Calls : decideCalls'[d] = IF d = c THEN k ELSE decideCalls[d]
    BY <2>1 DEF QuoteInv, ShapesInv
  <2>6. decideQuote' = [n \in Deciding!Numbers |-> decideQuote'[n]]
        /\ \A n \in Deciding!Numbers : decideQuote'[n] = IF n = m THEN q ELSE decideQuote[n]
    BY <2>2 DEF QuoteInv, ShapesInv
  <2>7. ShapesInv'
    BY <2>1, <2>2, <2>3, <2>5, <2>6 DEF QuoteInv, ShapesInv
  <2>8. ~QuoteCall(k) /\ ~OrderCall(k)
    BY <2>1 DEF QuoteCall, OrderCall
  <2>9. AnswersInv'
    <3>1. ASSUME NEW n \in Deciding!Numbers, decideQuote'[n].of \in Wishes
          PROVE  /\ decideRequest'[decideQuote'[n].of].status \notin Unanswered
                 /\ \A l \in Deciding!Numbers : decideQuote'[l].of = decideQuote'[n].of => l = n
      BY <2>2, <2>3, <2>6, <3>1 DEF QuoteInv, AnswersInv
    <3>2. ASSUME NEW d \in Calls, QuoteCall(decideCalls'[d]), decideCalls'[d].of \in Wishes
          PROVE  /\ decideRequest'[decideCalls'[d].of].status \notin Unanswered
                 /\ \A n \in Deciding!Numbers : decideQuote'[n].of # decideCalls'[d].of
                 /\ \A e \in Calls : QuoteCall(decideCalls'[e]) /\ decideCalls'[e].of = decideCalls'[d].of => e = d
      BY <2>2, <2>3, <2>5, <2>6, <2>8, <3>2 DEF QuoteInv, AnswersInv
    <3> QED
      BY <3>1, <3>2 DEF AnswersInv
  <2>10. AcceptedInv'
    BY <2>2, <2>4, <2>5, <2>6, <2>8 DEF QuoteInv, AcceptedInv
  <2> QED
    BY <2>7, <2>9, <2>10 DEF QuoteInv
<1> QED
  BY <1>1, <1>2

\* Every step keeps the invariant.
LEMMA QuoteSteady == ASSUME None \notin Wishes, QuoteInv, [Deciding!Next]_(Deciding!vars) PROVE QuoteInv'
<1>1. ASSUME UNCHANGED <<decideCalls, Deciding!stores>> PROVE QuoteInv'
  BY <1>1 DEF Deciding!stores, QuoteInv, ShapesInv, AnswersInv, AcceptedInv, QuoteCallShape, QuoteCall, OrderCall
<1>2. ASSUME NEW w \in DecisionWants, Deciding!TypeWant(w) PROVE QuoteInv'
  BY <1>1, <1>2 DEF Deciding!TypeWant
<1>3. CASE Deciding!RunComparison \/ Deciding!Compared \/ Deciding!QuoteRequested \/ Deciding!CustomerGivesUp
  BY <1>1, <1>3 DEF Deciding!RunComparison, Deciding!Compared, Deciding!QuoteRequested, Deciding!CustomerGivesUp
<1>4. ASSUME NEW r \in Wishes, NEW p \in Plants, Deciding!RequestQuote(r, p) PROVE QuoteInv'
  <2> DEFINE q == [status |-> "SENT", plant |-> p, for |-> decideWanted, estimate |-> decideResults]
  <2>1. q = [status |-> q.status, plant |-> q.plant, for |-> q.for, estimate |-> q.estimate]
    OBVIOUS
  <2>2. decideRequest' = [decideRequest EXCEPT ![r] = q]
        /\ UNCHANGED <<decideCalls, decideQuote, decideOrdered>> /\ decideRequest[r].status \in Unanswered
    BY <1>4 DEF Deciding!RequestQuote, Deciding!Nothing, Unanswered
  <2> HIDE DEF q
  <2> QED
    BY <2>1, <2>2, QuoteRequestMoves
<1>5. ASSUME NEW r \in Wishes, Deciding!InsertRequest(r) PROVE QuoteInv'
  <2>1. PICK to : decideRequest' = [decideRequest EXCEPT ![r].status = to]
    BY <1>5 DEF Deciding!InsertRequest
  <2> DEFINE q == [decideRequest[r] EXCEPT !.status = to]
  <2>2. q = [status |-> q.status, plant |-> q.plant, for |-> q.for, estimate |-> q.estimate]
    BY DEF QuoteInv, ShapesInv
  <2>3. decideRequest' = [decideRequest EXCEPT ![r] = q]
        /\ UNCHANGED <<decideCalls, decideQuote, decideOrdered>> /\ decideRequest[r].status \in Unanswered
    BY <1>5, <2>1 DEF Deciding!InsertRequest, Unanswered
  <2> HIDE DEF q
  <2> QED
    BY <2>2, <2>3, QuoteRequestMoves
<1>6. ASSUME NEW o \in Officers,
             Deciding!CloseResponse(o) \/ Deciding!GiveUp(o) \/ \E r \in Wishes : Deciding!OpenResponse(o, r)
      PROVE  QuoteInv'
  BY <1>1, <1>6 DEF Deciding!CloseResponse, Deciding!GiveUp, Deciding!OpenResponse
<1>7. ASSUME NEW o \in Officers, Deciding!SubmitResponse(o) PROVE QuoteInv'
  BY <1>7, QuoteCallStarts DEF Deciding!SubmitResponse
<1>8. ASSUME NEW o \in Officers, Deciding!ResponseLands(o) PROVE QuoteInv'
  BY <1>8, QuoteCallEnds DEF Deciding!ResponseLands
<1>9. ASSUME NEW n \in Deciding!Numbers, Deciding!Decide(n) \/ Deciding!CreateOrder(n) PROVE QuoteInv'
  BY <1>9, QuoteCallStarts DEF Deciding!Decide, Deciding!CreateOrder
<1>10. ASSUME NEW n \in Deciding!Numbers, Deciding!DayPasses(n) PROVE QuoteInv'
  <2>1. UNCHANGED <<decideCalls, decideRequest, decideOrdered>> /\ decideQuote' = [decideQuote EXCEPT ![n].late =
                                                                                   TRUE]
    BY <1>10 DEF Deciding!DayPasses
  <2>2. decideQuote' = [m \in Deciding!Numbers |-> decideQuote'[m]]
        /\ \A m \in Deciding!Numbers : decideQuote'[m] = IF m = n THEN [decideQuote[m] EXCEPT !.late = TRUE]
               ELSE decideQuote[m]
    BY <2>1 DEF QuoteInv, ShapesInv
  <2>3. \A m \in Deciding!Numbers : /\ decideQuote'[m] = [status |-> decideQuote'[m].status,
                                                          of |-> decideQuote[m].of, late |-> decideQuote'[m].late]
                                    /\ decideQuote'[m].status = decideQuote[m].status
    <3> SUFFICES ASSUME NEW m \in Deciding!Numbers
                 PROVE  /\ decideQuote'[m] = [status |-> decideQuote'[m].status, of |-> decideQuote[m].of,
                                              late |-> decideQuote'[m].late]
                        /\ decideQuote'[m].status = decideQuote[m].status
      OBVIOUS
    <3>1. decideQuote[m] = [status |-> decideQuote[m].status, of |-> decideQuote[m].of,
                            late |-> decideQuote[m].late]
      BY DEF QuoteInv, ShapesInv
    <3> QED
      BY <2>2, <3>1
  <2> QED
    BY <2>1, <2>2, <2>3, QuoteStatusMoves
<1>11. ASSUME NEW listed, Deciding!ListQuotations(listed) PROVE QuoteInv'
  BY <1>11, QuoteStatusMoves DEF Deciding!ListQuotations, Deciding!Expired, Accepted, QuoteInv, ShapesInv
<1>12. ASSUME NEW c \in Calls, Deciding!CustomerAnswered(c) PROVE QuoteInv'
  BY <1>12, QuoteCallEnds DEF Deciding!CustomerAnswered
<1>13. ASSUME NEW c \in Calls, Deciding!FindRequest(c) PROVE QuoteInv'
  BY <1>13, QuoteLooks DEF Deciding!FindRequest
<1>14. ASSUME NEW c \in Calls, Deciding!TakeNumber(c) PROVE QuoteInv'
  <2> DEFINE m == decideSequence[decideRequest[decideCalls[c].of].plant] + 1
  <2> HIDE DEF m
  <2>1. PICK k : k = [decideCalls[c] EXCEPT !.pc = "insert", !.number = m]
    OBVIOUS
  <2>2. QuoteCallShape(k) /\ k.pc = "insert" /\ k.kind = "quote" /\ k.of = decideCalls[c].of
        /\ QuoteCall(decideCalls[c])
    <3>1. QuoteCallShape(decideCalls[c]) /\ decideCalls[c].kind = "quote" /\ decideCalls[c].pc = "number"
      BY <1>14 DEF Deciding!TakeNumber, Deciding!At, QuoteInv, ShapesInv
    <3> QED
      BY <2>1, <3>1 DEF QuoteCallShape, QuoteCall
  <2>3. decideCalls' = [decideCalls EXCEPT ![c] = k] /\ UNCHANGED <<decideRequest, decideQuote, decideOrdered>>
    BY <1>14, <2>1 DEF Deciding!TakeNumber, m, QuoteInv, ShapesInv
  <2>4. decideCalls' = [d \in Calls |-> decideCalls'[d]]
        /\ \A d \in Calls : decideCalls'[d] = IF d = c THEN k ELSE decideCalls[d]
    BY <2>3 DEF QuoteInv, ShapesInv
  <2>5. ShapesInv'
    BY <2>2, <2>3, <2>4 DEF QuoteInv, ShapesInv, QuoteCallShape
  <2>6. AnswersInv'
    BY <2>2, <2>3, <2>4 DEF QuoteInv, AnswersInv
  <2>7. AcceptedInv'
    BY <2>2, <2>3, <2>4 DEF QuoteInv, AcceptedInv, OrderCall
  <2> QED
    BY <2>5, <2>6, <2>7 DEF QuoteInv
<1>15. ASSUME NEW c \in Calls, Deciding!LinkQuote(c) PROVE QuoteInv'
  <2> DEFINE r == decideCalls[c].of
  <2>1. decideRequest' = [decideRequest EXCEPT ![r].status = IF @ = "PROCESSING" THEN "QUOTED" ELSE @]
        /\ UNCHANGED <<decideQuote, decideOrdered>> /\ Deciding!Goto(c, "ok")
    BY <1>15 DEF Deciding!LinkQuote
  <2> DEFINE k == [decideCalls[c] EXCEPT !.pc = "ok"]
  <2>2. QuoteCallShape(k) /\ k.pc = "ok" /\ decideCalls' = [decideCalls EXCEPT ![c] = k]
    BY <2>1, QuoteGoto
  <2> HIDE DEF k, r
  <2>3. decideCalls' = [d \in Calls |-> decideCalls'[d]]
        /\ \A d \in Calls : decideCalls'[d] = IF d = c THEN k ELSE decideCalls[d]
    BY <2>2 DEF QuoteInv, ShapesInv
  <2>4. decideRequest' = [s \in Wishes |-> decideRequest'[s]]
        /\ \A s \in Wishes : /\ decideRequest'[s] = [status |-> decideRequest'[s].status,
                                                     plant |-> decideRequest'[s].plant,
                                                  for |-> decideRequest'[s].for,
                                                  estimate |-> decideRequest'[s].estimate]
                             /\ decideRequest[s].status \notin Unanswered =>
                                  decideRequest'[s].status \notin Unanswered
    BY <2>1 DEF QuoteInv, ShapesInv, Unanswered
  <2>5. ShapesInv'
    BY <2>1, <2>2, <2>3, <2>4 DEF QuoteInv, ShapesInv, QuoteCallShape
  <2>6. \A d \in Calls : QuoteCall(decideCalls'[d]) => QuoteCall(decideCalls[d])
        /\ decideCalls'[d].of = decideCalls[d].of
    BY <2>2, <2>3 DEF QuoteCall
  <2>7. AnswersInv'
    <3>1. ASSUME NEW n \in Deciding!Numbers, decideQuote'[n].of \in Wishes
          PROVE  /\ decideRequest'[decideQuote'[n].of].status \notin Unanswered
                 /\ \A l \in Deciding!Numbers : decideQuote'[l].of = decideQuote'[n].of => l = n
      BY <2>1, <2>4, <3>1 DEF QuoteInv, AnswersInv
    <3>2. ASSUME NEW d \in Calls, QuoteCall(decideCalls'[d]), decideCalls'[d].of \in Wishes
          PROVE  /\ decideRequest'[decideCalls'[d].of].status \notin Unanswered
                 /\ \A n \in Deciding!Numbers : decideQuote'[n].of # decideCalls'[d].of
                 /\ \A e \in Calls : QuoteCall(decideCalls'[e]) /\ decideCalls'[e].of = decideCalls'[d].of => e = d
      <4>1. QuoteCall(decideCalls[d]) /\ decideCalls'[d].of = decideCalls[d].of
        BY <2>6, <3>2
      <4>2. /\ decideRequest[decideCalls[d].of].status \notin Unanswered
            /\ \A n \in Deciding!Numbers : decideQuote[n].of # decideCalls[d].of
            /\ \A e \in Calls : QuoteCall(decideCalls[e]) /\ decideCalls[e].of = decideCalls[d].of => e = d
        BY <3>2, <4>1 DEF QuoteInv, AnswersInv
      <4>3. decideRequest'[decideCalls'[d].of].status \notin Unanswered
        BY <2>4, <3>2, <4>1, <4>2
      <4> QED
        BY <2>1, <2>6, <4>1, <4>2, <4>3
    <3> QED
      BY <3>1, <3>2 DEF AnswersInv
  <2>8. AcceptedInv'
    BY <2>1, <2>2, <2>3 DEF QuoteInv, AcceptedInv, OrderCall
  <2> QED
    BY <2>5, <2>7, <2>8 DEF QuoteInv
<1>16. ASSUME NEW c \in Calls, Deciding!FindQuote(c) PROVE QuoteInv'
  <2>1. PICK pc \in {"decide", "failed"} : Deciding!Goto(c, pc)
    BY <1>16 DEF Deciding!FindQuote
  <2>2. UNCHANGED <<decideRequest, decideOrdered>>
        /\ decideQuote' = [decideQuote EXCEPT ![decideCalls[c].of].status =
                           IF Deciding!Expired(decideCalls[c].of) THEN "EXPIRED" ELSE decideQuote[decideCalls[c].of].status]
    BY <1>16 DEF Deciding!FindQuote
  <2> QED
    BY <2>1, <2>2, QuoteStatusMoved DEF Deciding!Expired, Accepted
<1>17. ASSUME NEW c \in Calls, Deciding!DecideOpen(c) PROVE QuoteInv'
  <2>1. CASE decideQuote[decideCalls[c].of].status # "OPEN"
    BY <1>17, <2>1, QuoteLooks DEF Deciding!DecideOpen, Deciding!stores
  <2>2. CASE decideQuote[decideCalls[c].of].status = "OPEN"
    BY <1>17, <2>2, QuoteStatusMoved DEF Deciding!DecideOpen, Accepted
  <2> QED
    BY <2>1, <2>2
<1>18. ASSUME NEW c \in Calls, Deciding!FindAccepted(c) PROVE QuoteInv'
  <2> DEFINE pc == IF decideQuote[decideCalls[c].of].status = "ACCEPTED" THEN "insert" ELSE "failed"
             k == [decideCalls[c] EXCEPT !.pc = pc]
  <2>1. QuoteCallShape(k) /\ k.pc = pc /\ k.of = decideCalls[c].of /\ k.kind = "order"
        /\ decideCalls' = [decideCalls EXCEPT ![c] = k]
    BY <1>18, QuoteGoto DEF Deciding!FindAccepted, Deciding!At
  <2>2. UNCHANGED Deciding!stores /\ (pc = "failed" \/ decideQuote[decideCalls[c].of].status \in Accepted)
    BY <1>18 DEF Deciding!FindAccepted, Accepted
  <2> HIDE DEF k, pc
  <2> QED
    BY <2>1, <2>2, QuoteCallMoves DEF QuoteCall, OrderCall
<1>19. ASSUME NEW c \in Calls, Deciding!InsertOrder(c) PROVE QuoteInv'
  <2> DEFINE n == decideCalls[c].of
  <2>1. CASE decideOrdered[n] # 0
    BY <1>19, <2>1, QuoteLooks DEF Deciding!InsertOrder, Deciding!stores
  <2>2. CASE decideOrdered[n] = 0
    <3> DEFINE k == [decideCalls[c] EXCEPT !.pc = "mark"]
    <3>1. QuoteCallShape(k) /\ k.pc = "mark" /\ k.of = n /\ k.kind = "order"
          /\ decideCalls' = [decideCalls EXCEPT ![c] = k]
      BY <1>19, <2>2, QuoteGoto DEF Deciding!InsertOrder, Deciding!At
    <3>2. decideOrdered' = [decideOrdered EXCEPT ![n] = 1] /\ UNCHANGED <<decideRequest, decideQuote>>
      BY <1>19, <2>2 DEF Deciding!InsertOrder
    <3>3. OrderCall(decideCalls[c])
      BY <1>19 DEF Deciding!InsertOrder, Deciding!At, OrderCall
    <3> HIDE DEF k
    <3>4. decideCalls' = [d \in Calls |-> decideCalls'[d]]
          /\ \A d \in Calls : decideCalls'[d] = IF d = c THEN k ELSE decideCalls[d]
      BY <3>1 DEF QuoteInv, ShapesInv
    <3>5. decideOrdered' = [m \in Deciding!Numbers |-> decideOrdered'[m]]
          /\ \A m \in Deciding!Numbers : decideOrdered'[m] = IF m = n THEN 1 ELSE decideOrdered[m]
      BY <3>2 DEF QuoteInv, ShapesInv
    <3>6. ShapesInv'
      BY <3>1, <3>2, <3>4, <3>5 DEF QuoteInv, ShapesInv, QuoteCallShape
    <3>7. AnswersInv'
      BY <3>1, <3>2, <3>4 DEF QuoteInv, AnswersInv, QuoteCall
    <3>8. AcceptedInv'
      BY <3>1, <3>2, <3>3, <3>4, <3>5 DEF QuoteInv, AcceptedInv
    <3> QED
      BY <3>6, <3>7, <3>8 DEF QuoteInv
  <2> QED
    BY <2>1, <2>2
<1>20. ASSUME NEW c \in Calls, Deciding!MarkOrdered(c) PROVE QuoteInv'
  <2>1. decideQuote[decideCalls[c].of].status \in Accepted =>
          (IF decideQuote[decideCalls[c].of].status = "ACCEPTED" THEN "ORDER_CREATED"
           ELSE decideQuote[decideCalls[c].of].status) \in Accepted
    BY DEF Accepted
  <2> QED
    BY <1>20, <2>1, QuoteStatusMoved DEF Deciding!MarkOrdered
<1>21. CASE UNCHANGED Deciding!vars
  BY <1>1, <1>21 DEF Deciding!vars
<1> QED
  BY <1>2, <1>3, <1>4, <1>5, <1>6, <1>7, <1>8, <1>9, <1>10, <1>11, <1>12, <1>13, <1>14, <1>15, <1>16, <1>17,
     <1>18, <1>19, <1>20, <1>21, QuoteClaims, QuoteInserts DEF Deciding!Next

\* A request has at most one quotation, and none while it is open or once declined.
LEMMA QuoteOnce == QuoteInv => Deciding!OneAnswerPerRequest
<1> SUFFICES ASSUME QuoteInv, NEW r \in Wishes
             PROVE  /\ Cardinality(Deciding!QuotesOf(r)) <= 1
                    /\ decideRequest[r].status \in {"REQUESTED", "DECLINED"} => Deciding!QuotesOf(r) = {}
  BY DEF Deciding!OneAnswerPerRequest, Deciding!Cardinality, Cardinality
<1>1. decideRequest[r].status \in {"REQUESTED", "DECLINED"} => Deciding!QuotesOf(r) = {}
  BY DEF QuoteInv, AnswersInv, Unanswered, Deciding!QuotesOf
<1>2. CASE Deciding!QuotesOf(r) = {}
  BY <1>1, <1>2, FS_EmptySet
<1>3. ASSUME NEW n \in Deciding!Numbers, decideQuote[n].of = r PROVE Cardinality(Deciding!QuotesOf(r)) <= 1
  <2>1. Deciding!QuotesOf(r) = {n}
    BY <1>3 DEF QuoteInv, AnswersInv, Deciding!QuotesOf
  <2>2. Cardinality({n}) = 1
    BY FS_Singleton
  <2> QED
    BY <2>1, <2>2
<1> QED
  BY <1>1, <1>2, <1>3 DEF Deciding!QuotesOf

\* An order's quotation is accepted.
LEMMA QuoteAccepted == QuoteInv => Deciding!OrderOnAcceptance
  BY DEF QuoteInv, AcceptedInv, Deciding!OrderOnAcceptance, Accepted

-----------------------------------------------------------------------------
(* PlantListing with applications: only the approval that finds no plant   *)
(* of a place makes one.                                                   *)

ListedInv == listingPlants \in [Listing!Keys -> Nat] /\ Listing!OnePlantPerPlace

\* No plant is listed.
LEMMA ListingStarts == Listing!Init => ListedInv
  BY DEF Listing!Init, ListedInv, Listing!OnePlantPerPlace, Listing!Keys

\* Every step keeps the invariant.
LEMMA ListingSteady == ASSUME ListedInv, [Listing!Next]_(Listing!vars) PROVE ListedInv'
<1>1. ASSUME UNCHANGED listingPlants PROVE ListedInv'
  BY <1>1 DEF ListedInv, Listing!OnePlantPerPlace
<1>2. CASE Listing!Discover \/ Listing!Discovered \/ Listing!StopWaiting
  BY <1>1, <1>2 DEF Listing!Discover, Listing!Discovered, Listing!StopWaiting, Listing!stores
<1>3. ASSUME NEW k, NEW who,
             Listing!RequestListing(k) \/ Listing!Import(k) \/ Listing!Apply(k, who) \/ Listing!Assign(k, who)
      PROVE  ListedInv'
  BY <1>1, <1>3 DEF Listing!RequestListing, Listing!Import, Listing!Apply, Listing!Assign, Listing!stores
<1>4. ASSUME NEW k, NEW who, Listing!Review("approve", k, who) \/ Listing!Review("reject", k, who) PROVE ListedInv'
  BY <1>1, <1>4 DEF Listing!Review, Listing!stores
<1>5. ASSUME NEW c \in Calls,
             Listing!FindListing(c) \/ Listing!FindApplication(c) \/ Listing!FindPending(c)
             \/ Listing!FindRejected(c) \/ Listing!FindUnowned(c)
                              \/ Listing!ListingAnswered(c) \/ Listing!Answered(c) PROVE ListedInv'
  BY <1>1, <1>5 DEF Listing!FindListing, Listing!FindApplication, Listing!FindPending, Listing!FindRejected,
     Listing!FindUnowned, Listing!ListingAnswered, Listing!Answered, Listing!stores
<1>6. ASSUME NEW c \in Calls,
             Listing!WriteListing(c) \/ Listing!InsertApplication(c) \/ Listing!Provision(c)
             \/ Listing!GivePlant(c) \/ Listing!Own(c)
                              \/ Listing!MarkApproved(c) \/ Listing!MarkRejected(c) PROVE ListedInv'
  BY <1>1, <1>6 DEF Listing!WriteListing, Listing!InsertApplication, Listing!Provision, Listing!GivePlant,
     Listing!Own, Listing!MarkApproved, Listing!MarkRejected
<1>7. ASSUME NEW c \in Calls, Listing!InsertPlant(c) PROVE ListedInv'
  <2> DEFINE key == listingCalls[c].key
  <2>1. CASE UNCHANGED listingPlants
    BY <1>1, <2>1
  <2>2. CASE ~(key \in ListedPlaces /\ Listing!Registered(key))
        /\ listingPlants' = [listingPlants EXCEPT ![key] = @ + 1]
    <3>1. listingPlants' \in [Listing!Keys -> Nat]
      <4>1. CASE key \in Listing!Keys
        <5>1. listingPlants[key] + 1 \in Nat
          BY <4>1 DEF ListedInv
        <5> QED
          BY <2>2, <5>1 DEF ListedInv
      <4>2. CASE key \notin Listing!Keys
        BY <2>2, <4>2 DEF ListedInv
      <4> QED
        BY <4>1, <4>2
    <3>2. ASSUME NEW k \in ListedPlaces PROVE listingPlants'[k] <= 1
      <4>1. k \in Listing!Keys /\ listingPlants[k] \in Nat /\ listingPlants[k] <= 1
        BY DEF ListedInv, Listing!OnePlantPerPlace, Listing!Keys
      <4>2. listingPlants'[k] = listingPlants[k] \/ (key = k /\ listingPlants'[k] = listingPlants[k] + 1)
        BY <2>2, <4>1 DEF ListedInv
      <4> QED
        BY <2>2, <4>1, <4>2 DEF Listing!Registered
    <3> QED
      BY <3>1, <3>2 DEF ListedInv, Listing!OnePlantPerPlace
  <2> QED
    BY <1>7, <2>1, <2>2 DEF Listing!InsertPlant, Listing!Made
<1>8. CASE UNCHANGED Listing!vars
  BY <1>1, <1>8 DEF Listing!vars, Listing!stores
<1> QED
  BY <1>2, <1>3, <1>4, <1>5, <1>6, <1>7, <1>8 DEF Listing!Next

-----------------------------------------------------------------------------
(* PlantListing with assignments: only a call's own step takes it past the *)
(* giving of the plant, and that step gives one without an owner.          *)

OwningInv == ownCalls = [c \in Calls |-> ownCalls[c]] /\ ownOwner = [k \in Owning!Keys |-> ownOwner[k]]

\* Nobody owns a plant.
LEMMA OwningStarts == Owning!Init => OwningInv
  BY DEF Owning!Init, OwningInv

\* Every step keeps the invariant.
LEMMA OwningSteady == ASSUME OwningInv, [Owning!Next]_(Owning!vars) PROVE OwningInv'
<1>1. ASSUME UNCHANGED ownCalls \/ (\E c \in Calls : \E k : ownCalls' = [ownCalls EXCEPT ![c] = k])
      PROVE  ownCalls' = [c \in Calls |-> ownCalls'[c]]
  BY <1>1 DEF OwningInv
<1>2. ASSUME UNCHANGED ownOwner \/ (\E k, who : ownOwner' = [ownOwner EXCEPT ![k] = who])
      PROVE  ownOwner' = [k \in Owning!Keys |-> ownOwner'[k]]
  BY <1>2 DEF OwningInv
<1>3. ASSUME NEW kind, NEW k, NEW who, Owning!Start(kind, k, who)
      PROVE  \E c \in Calls : \E j : ownCalls' = [ownCalls EXCEPT ![c] = j]
  BY <1>3 DEF Owning!Start
<1>4. CASE Owning!Discover \/ Owning!Discovered \/ Owning!StopWaiting
  BY <1>4 DEF Owning!Discover, Owning!Discovered, Owning!StopWaiting, Owning!stores, OwningInv
<1>5. ASSUME NEW k, NEW who,
             Owning!RequestListing(k) \/ Owning!Import(k) \/ Owning!Apply(k, who) \/ Owning!Assign(k, who)
                             \/ Owning!Review("approve", k, who) \/ Owning!Review("reject", k, who) PROVE OwningInv'
  BY <1>1, <1>3, <1>5 DEF Owning!RequestListing, Owning!Import, Owning!Apply, Owning!Assign, Owning!Review,
     Owning!stores, OwningInv
<1>6. ASSUME NEW c \in Calls, NEW pc, Owning!Goto(c, pc) \/ (\E seen : Owning!Told(c, pc, seen))
      PROVE  \E d \in Calls : \E j : ownCalls' = [ownCalls EXCEPT ![d] = j]
  BY <1>6 DEF Owning!Goto, Owning!Told
<1>7. ASSUME NEW c \in Calls, NEW x, Owning!ListingAnswered(c) \/ Owning!Answered(c) PROVE OwningInv'
  BY <1>1, <1>7 DEF Owning!ListingAnswered, Owning!Answered, Owning!stores, OwningInv
<1>8. ASSUME NEW c \in Calls,
             Owning!FindListing(c) \/ Owning!WriteListing(c) \/ Owning!FindApplication(c)
             \/ Owning!InsertApplication(c)
      PROVE OwningInv'
  BY <1>1, <1>6, <1>8 DEF Owning!FindListing, Owning!WriteListing, Owning!FindApplication,
     Owning!InsertApplication, Owning!stores, OwningInv
<1>9. ASSUME NEW c \in Calls,
             Owning!Provision(c) \/ Owning!MarkApproved(c) \/ Owning!FindRejected(c) \/ Owning!MarkRejected(c)
             \/ Owning!FindUnowned(c)
      PROVE OwningInv'
  BY <1>1, <1>6, <1>9 DEF Owning!Provision, Owning!MarkApproved, Owning!FindRejected, Owning!MarkRejected,
     Owning!FindUnowned, Owning!stores, OwningInv
<1>10. ASSUME NEW c \in Calls, Owning!FindPending(c) PROVE OwningInv'
  BY <1>1, <1>6, <1>10 DEF Owning!FindPending, Owning!stores, OwningInv
<1>11. ASSUME NEW c \in Calls, Owning!InsertPlant(c) \/ Owning!GivePlant(c) \/ Owning!Own(c) PROVE OwningInv'
  BY <1>1, <1>2, <1>6, <1>11 DEF Owning!InsertPlant, Owning!Made, Owning!GivePlant, Owning!Own, OwningInv
<1>12. CASE UNCHANGED Owning!vars
  BY <1>12 DEF Owning!vars, Owning!stores, OwningInv
<1> QED
  BY <1>4, <1>5, <1>7, <1>8, <1>9, <1>10, <1>11, <1>12 DEF Owning!Next

\* Only the call that takes the step leaves its place, and an assignment takes it
\* only to a plant without an owner.
LEMMA OwnersStay ==
  ASSUME OwningInv, [Owning!Next]_(Owning!vars), NEW c \in Calls, ownCalls[c].pc = "own", ownCalls'[c].pc # "own",
         NEW k \in Owning!Keys, ownOwner[k] # None
  PROVE  ownOwner'[k] = ownOwner[k]
<1>1. ASSUME NEW d \in Calls, Owning!Own(d) PROVE ownOwner'[k] = ownOwner[k]
  BY <1>1 DEF Owning!Own, OwningInv
<1>2. ASSUME NEW d \in Calls, Owning!InsertPlant(d) \/ Owning!GivePlant(d) PROVE FALSE
  <2>1. d # c
    BY <1>2 DEF Owning!InsertPlant, Owning!GivePlant, Owning!At
  <2>2. ownCalls'[c] = ownCalls[c]
    BY <1>2, <2>1 DEF Owning!InsertPlant, Owning!GivePlant, Owning!Made, Owning!Goto, OwningInv
  <2> QED
    BY <2>2
<1> QED
  BY <1>1, <1>2 DEF Owning!Next, Owning!vars, Owning!stores, Owning!screen, Owning!others, Owning!Discover,
     Owning!Discovered, Owning!StopWaiting, Owning!RequestListing, Owning!Import, Owning!Apply,
     Owning!Assign, Owning!Review, Owning!ListingAnswered, Owning!FindListing, Owning!WriteListing,
     Owning!FindApplication, Owning!InsertApplication, Owning!FindPending,
     Owning!Provision, Owning!MarkApproved, Owning!FindRejected, Owning!MarkRejected, Owning!FindUnowned,
     Owning!Answered

-----------------------------------------------------------------------------
(* OnboardingForm: the results listed are places.                          *)

PinInv == Onboarding!PinOfItsPlace /\ places \subseteq Places

\* A blank form marks no place.
LEMMA PinStarts == ASSUME None # "google" PROVE Onboarding!Init => PinInv
  BY DEF Onboarding!Init, Onboarding!Blank, PinInv, Onboarding!PinOfItsPlace

\* Every step keeps the invariant.
LEMMA PinSteady == ASSUME None \notin Places \cup {"google"}, PinInv, [Onboarding!Next]_(Onboarding!vars)
PROVE  PinInv'
<1>1. CASE Onboarding!EditOwner \/ Onboarding!EditQuery \/ Onboarding!SearchPlaces \/ Onboarding!Searched
      \/ Onboarding!UseCurrentLocation
  BY <1>1 DEF Onboarding!EditOwner, Onboarding!EditQuery, Onboarding!SearchPlaces, Onboarding!Searched,
     Onboarding!UseCurrentLocation, PinInv, Onboarding!PinOfItsPlace, Onboarding!marks, Onboarding!finding
<1>2. ASSUME NEW p \in Places, Onboarding!ChoosePlace(p) PROVE PinInv'
  BY <1>2 DEF Onboarding!ChoosePlace, Onboarding!Chosen, PinInv, Onboarding!PinOfItsPlace
<1>3. CASE Onboarding!Located
  BY <1>3 DEF Onboarding!Located, Onboarding!MarkedPlace, PinInv, Onboarding!PinOfItsPlace, Onboarding!marks,
     Onboarding!finding
<1>4. CASE Onboarding!EditAddress \/ Onboarding!ApplyManualAddress
  BY <1>4 DEF Onboarding!EditAddress, Onboarding!ApplyManualAddress, PinInv, Onboarding!PinOfItsPlace,
     Onboarding!finding
<1>5. CASE Onboarding!Submit
  BY <1>5 DEF Onboarding!Submit, PinInv, Onboarding!PinOfItsPlace, Onboarding!finding, Onboarding!marks
<1>6. CASE Onboarding!SubmitAnswered \/ Onboarding!SubmitFailed
  BY <1>6 DEF Onboarding!SubmitAnswered, Onboarding!SubmitFailed, Onboarding!Recorded, PinInv,
     Onboarding!PinOfItsPlace, Onboarding!finding, Onboarding!marks
<1>7. CASE Onboarding!Back
  BY <1>7 DEF Onboarding!Back, Onboarding!Recorded, PinInv, Onboarding!PinOfItsPlace
<1>8. CASE UNCHANGED Onboarding!vars
  BY <1>8 DEF Onboarding!vars, PinInv, Onboarding!PinOfItsPlace, Onboarding!finding, Onboarding!marks
<1> QED
  BY <1>1, <1>2, <1>3, <1>4, <1>5, <1>6, <1>7, <1>8 DEF Onboarding!Next

-----------------------------------------------------------------------------
(* SupportDesk: the collection holds cases, no two of one request.         *)

SupportCase == [rid : Nat, topic : Support!Topics \cup {None}, status : Support!Statuses, said : Nat]
SupportAsk == [pc : {"idle", "sent", "insert", "ok", "failed"}, op : {"create", "reply"}, rid : Nat,
               topic : Support!Topics \cup {None}, case : Nat, ui : BOOLEAN]

SupportInv ==
  /\ rid \in Nat /\ category \in Support!Topics \cup {None}
  /\ ask \in [Asks -> SupportAsk] /\ cases \in Seq(SupportCase)
  /\ selected \in 0..Len(cases)
  /\ \A a \in Asks : ask[a].op = "reply" => ask[a].case \in 1..Len(cases)
  /\ Support!OneCasePerRequest

\* There is no case, and no request.
LEMMA SupportStarts == Support!Init => SupportInv
<1> SUFFICES ASSUME Support!Init PROVE SupportInv
  OBVIOUS
<1>1. Support!Quiet \in SupportAsk /\ Support!Quiet.op = "create"
  BY DEF Support!Quiet, SupportAsk
<1>2. cases \in Seq(SupportCase) /\ Len(cases) = 0
  BY DEF Support!Init
<1> QED
  BY <1>1, <1>2 DEF Support!Init, SupportInv, Support!OneCasePerRequest

\* Requests that move on leave the cases alone.
LEMMA SupportAskMoves ==
  ASSUME SupportInv, NEW a \in Asks, NEW k \in SupportAsk, ask' = [ask EXCEPT ![a] = k],
         k.op = "reply" => k.case \in 1..Len(cases),
         rid' \in Nat, category' = category, UNCHANGED <<cases, selected>>
  PROVE  SupportInv'
<1>1. ask' \in [Asks -> SupportAsk] /\ \A b \in Asks : ask'[b] = k \/ ask'[b] = ask[b]
  BY DEF SupportInv
<1> QED
  BY <1>1 DEF SupportInv, Support!OneCasePerRequest

\* Every step keeps the invariant.
LEMMA SupportSteady == ASSUME SupportInv, [Support!Next]_(Support!vars) PROVE SupportInv'
<1> USE DEF SupportInv
<1>1. \A a \in Asks : ask[a] \in SupportAsk
  OBVIOUS
<1>2. Len(cases) \in Nat
  BY LenProperties
<1>3. ASSUME NEW t \in Support!Topics, Support!SelectCategory(t) PROVE SupportInv'
  BY <1>3 DEF Support!SelectCategory, Support!caseView, Support!OneCasePerRequest
<1>4. CASE Support!ChooseOrder \/ Support!TryAnother \/ Support!TypeReply
  BY <1>4 DEF Support!ChooseOrder, Support!TryAnother, Support!TypeReply, Support!caseView, Support!topicState,
     Support!OneCasePerRequest
<1>5. ASSUME NEW s, Support!ChooseScript(s) \/ Support!Solved(s) PROVE SupportInv'
  BY <1>5 DEF Support!ChooseScript, Support!Solved, Support!caseView, Support!OneCasePerRequest
<1>6. ASSUME NEW op \in {"create", "reply"}, NEW case \in Nat, Support!Send(op, case),
             op = "reply" => case \in 1..Len(cases),
             UNCHANGED <<rid, category, cases, selected>>
      PROVE  SupportInv'
  <2>1. PICK a \in Asks :
          ask' = [ask EXCEPT ![a] = [pc |-> "sent", op |-> op, case |-> case, ui |-> TRUE,
                                     rid |-> IF op = "create" THEN rid ELSE 0,
                                     topic |-> IF op = "create" THEN category ELSE None]]
    BY <1>6 DEF Support!Send
  <2> DEFINE k == [pc |-> "sent", op |-> op, case |-> case, ui |-> TRUE, rid |-> IF op = "create" THEN rid ELSE 0,
                   topic |-> IF op = "create" THEN category ELSE None]
  <2>2. k \in SupportAsk /\ k.op = op /\ k.case = case
    BY DEF SupportAsk
  <2>3. ask' = [ask EXCEPT ![a] = k]
    BY <2>1
  <2> HIDE DEF k
  <2> QED
    BY <1>6, <2>2, <2>3, SupportAskMoves
<1>7. CASE Support!CreateSupportCase
  BY <1>6, <1>7 DEF Support!CreateSupportCase, Support!topicState, Support!caseView
<1>8. CASE Support!SendCaseReply
  BY <1>2, <1>6, <1>8 DEF Support!SendCaseReply, Support!topicState
<1>9. ASSUME NEW i, Support!SelectCase(i) PROVE SupportInv'
  BY <1>2, <1>9 DEF Support!SelectCase, Support!topicState, Support!OneCasePerRequest
<1>10. ASSUME NEW i, NEW r \in SupportCase, i \in 1..Len(cases), cases' = [cases EXCEPT ![i] = r],
              r.rid = cases[i].rid
       PROVE  /\ cases' \in Seq(SupportCase) /\ Len(cases') = Len(cases)
              /\ \A j \in 1..Len(cases) : cases'[j].rid = cases[j].rid
  BY <1>10, ExceptSeq
<1>11. \A i \in 1..Len(cases) : cases[i] \in SupportCase
  BY ElementOfSeq
<1>12. ASSUME NEW i \in 1..MaxCases, NEW s \in Support!Statuses, Support!ChangeStatus(i, s) PROVE SupportInv'
  <2>1. [cases[i] EXCEPT !.status = s] \in SupportCase /\ [cases[i] EXCEPT !.status = s].rid = cases[i].rid
    BY <1>11, <1>12 DEF Support!ChangeStatus, SupportCase
  <2>2. cases' = [cases EXCEPT ![i] = [cases[i] EXCEPT !.status = s]]
    BY <1>12 DEF Support!ChangeStatus
  <2>3. cases' \in Seq(SupportCase) /\ Len(cases') = Len(cases)
        /\ \A j \in 1..Len(cases) : cases'[j].rid = cases[j].rid
    BY <1>10, <1>12, <2>1, <2>2 DEF Support!ChangeStatus
  <2> QED
    BY <1>12, <2>3 DEF Support!ChangeStatus, Support!topicState, Support!caseView, Support!OneCasePerRequest
<1>13. ASSUME NEW a \in Asks, NEW pc \in {"insert", "ok", "failed"}
       PROVE  LET k == [ask[a] EXCEPT !.pc = pc] IN k \in SupportAsk /\ k.op = ask[a].op /\ k.case = ask[a].case
  BY <1>1 DEF SupportAsk
<1>14. ASSUME NEW a \in Asks, NEW pc \in {"insert", "ok", "failed"}, Support!Goto(a, pc),
              UNCHANGED <<rid, category, cases, selected>>
       PROVE  SupportInv'
  <2>1. ask' = [ask EXCEPT ![a] = [ask[a] EXCEPT !.pc = pc]]
    BY <1>14 DEF Support!Goto
  <2> QED
    BY <1>13, <1>14, <2>1, SupportAskMoves
<1>15. ASSUME NEW a \in Asks, NEW i \in Nat, ask[a].op = "create",
              ask' = [ask EXCEPT ![a].pc = "ok", ![a].case = i]
       PROVE  \E k \in SupportAsk : ask' = [ask EXCEPT ![a] = k] /\ k.op = "create"
  <2>1. [ask[a] EXCEPT !.pc = "ok", !.case = i] \in SupportAsk
        /\ [ask[a] EXCEPT !.pc = "ok", !.case = i].op = "create"
    BY <1>1, <1>15 DEF SupportAsk
  <2>2. ask' = [ask EXCEPT ![a] = [ask[a] EXCEPT !.pc = "ok", !.case = i]]
    BY <1>15
  <2> QED
    BY <2>1, <2>2
<1>16. ASSUME NEW a \in Asks, Support!FindCase(a) \/ (Support!InsertCase(a) /\ Support!WithRid(ask[a].rid) # {})
       PROVE  SupportInv'
  <2>1. UNCHANGED <<rid, category, cases, selected>> /\ ask[a].op = "create"
    BY <1>16 DEF Support!FindCase, Support!InsertCase, Support!At, Support!topicState, Support!caseView
  <2>2. CASE Support!WithRid(ask[a].rid) # {}
    <3> DEFINE i == CHOOSE i \in Support!WithRid(ask[a].rid) : TRUE
    <3>1. i \in Support!WithRid(ask[a].rid)
      BY <2>2
    <3>2. ask' = [ask EXCEPT ![a].pc = "ok", ![a].case = i]
      BY <1>16, <2>2 DEF Support!FindCase, Support!InsertCase
    <3> HIDE DEF i
    <3>3. i \in Nat
      BY <1>2, <3>1 DEF Support!WithRid
    <3>4. PICK k \in SupportAsk : ask' = [ask EXCEPT ![a] = k] /\ k.op = "create"
      BY <1>15, <2>1, <3>2, <3>3
    <3> QED
      BY <2>1, <3>4, SupportAskMoves
  <2>3. CASE Support!WithRid(ask[a].rid) = {}
    BY <1>14, <1>16, <2>1, <2>3 DEF Support!FindCase
  <2> QED
    BY <2>2, <2>3
<1>17. ASSUME NEW a \in Asks, Support!InsertCase(a), Support!WithRid(ask[a].rid) = {} PROVE SupportInv'
  <2> DEFINE r == [rid |-> ask[a].rid, topic |-> ask[a].topic, status |-> "OPEN", said |-> 0]
  <2>1. r \in SupportCase /\ r.rid = ask[a].rid
    BY <1>1 DEF SupportCase, SupportAsk, Support!Statuses
  <2>2. cases' = Append(cases, r)
    BY <1>17 DEF Support!InsertCase
  <2> HIDE DEF r
  <2>3. /\ cases' \in Seq(SupportCase) /\ Len(cases') = Len(cases) + 1
        /\ cases'[Len(cases) + 1] = r /\ \A j \in 1..Len(cases) : cases'[j] = cases[j]
    BY <2>1, <2>2, AppendProperties
  <2>4. \A j \in 1..Len(cases) : cases[j].rid # ask[a].rid
    BY <1>17 DEF Support!WithRid
  <2>5. Support!OneCasePerRequest'
    BY <1>2, <2>1, <2>3, <2>4 DEF Support!OneCasePerRequest
  <2>6. ask[a].op = "create" /\ UNCHANGED <<rid, category, selected>>
    BY <1>17 DEF Support!InsertCase, Support!At, Support!topicState, Support!caseView
  <2>7. PICK k \in SupportAsk : ask' = [ask EXCEPT ![a] = k] /\ k.op = "create"
    <3>1. ask' = [ask EXCEPT ![a].pc = "ok", ![a].case = Len(cases) + 1]
      BY <1>17, Zenon DEF Support!InsertCase
    <3>2. Len(cases) + 1 \in Nat
      BY <1>2
    <3> QED
      BY <1>15, <2>6, <3>1, <3>2
  <2>8. ask' \in [Asks -> SupportAsk] /\ \A b \in Asks : ask'[b] = k \/ ask'[b] = ask[b]
    BY <2>7
  <2> QED
    BY <1>2, <2>3, <2>5, <2>6, <2>7, <2>8
<1>18. Support!Quiet \in SupportAsk /\ Support!Quiet.op = "create"
  BY DEF Support!Quiet, SupportAsk
<1>19. ASSUME NEW a \in Asks, Support!CaseCreated(a) PROVE SupportInv'
  <2>1. rid' \in Nat /\ UNCHANGED <<category, cases, selected>> /\ ask' = [ask EXCEPT ![a] = Support!Quiet]
    BY <1>19 DEF Support!CaseCreated, Support!caseView
  <2> QED
    BY <1>18, <2>1, SupportAskMoves
<1>20. ASSUME NEW a \in Asks, Support!Replied(a) \/ Support!Forget(a) PROVE SupportInv'
  <2>1. UNCHANGED <<rid, category, cases, selected>> /\ ask' = [ask EXCEPT ![a] = Support!Quiet]
    BY <1>20 DEF Support!Replied, Support!Forget, Support!topicState, Support!caseView
  <2> QED
    BY <1>18, <2>1, SupportAskMoves
<1>21. ASSUME NEW a \in Asks, Support!AddReply(a) PROVE SupportInv'
  <2>1. CASE Support!Goto(a, "failed") /\ UNCHANGED cases
    BY <1>14, <1>21, <2>1 DEF Support!AddReply, Support!topicState, Support!caseView
  <2>2. CASE Support!Goto(a, "ok") /\ cases' = [cases EXCEPT ![ask[a].case].said = @ + 1]
    <3> DEFINE i == ask[a].case
               r == [cases[i] EXCEPT !.said = cases[i].said + 1]
    <3>1. i \in 1..Len(cases)
      BY <1>21 DEF Support!AddReply, Support!At
    <3>2. r \in SupportCase /\ r.rid = cases[i].rid
      <4>1. cases[i] \in SupportCase
        BY <1>11, <3>1
      <4> HIDE DEF i, SupportInv
      <4> QED
        BY <4>1 DEF SupportCase
    <3>3. cases' = [cases EXCEPT ![i] = r]
      BY <2>2
    <3> HIDE DEF i, r
    <3>4. cases' \in Seq(SupportCase) /\ Len(cases') = Len(cases)
          /\ \A j \in 1..Len(cases) : cases'[j].rid = cases[j].rid
      BY <1>10, <3>1, <3>2, <3>3
    <3> DEFINE k == [ask[a] EXCEPT !.pc = "ok"]
    <3>5. k \in SupportAsk /\ k.op = ask[a].op /\ k.case = ask[a].case /\ ask' = [ask EXCEPT ![a] = k]
      BY <1>13, <2>2 DEF Support!Goto
    <3> HIDE DEF k
    <3>6. ask' \in [Asks -> SupportAsk] /\ \A b \in Asks : ask'[b].op = ask[b].op /\ ask'[b].case = ask[b].case
      BY <3>5
    <3>7. UNCHANGED <<rid, category, selected>>
      BY <1>21 DEF Support!AddReply, Support!topicState, Support!caseView
    <3> QED
      BY <3>4, <3>6, <3>7 DEF Support!OneCasePerRequest
  <2> QED
    BY <1>21, <2>1, <2>2 DEF Support!AddReply
<1>22. ASSUME NEW a \in Asks, Support!Lose(a) PROVE SupportInv'
  <2>1. UNCHANGED <<rid, category, cases, selected>>
    BY <1>22 DEF Support!Lose, Support!topicState
  <2>2. CASE Support!Goto(a, "failed")
    BY <1>14, <2>1, <2>2
  <2>3. CASE ask' = [ask EXCEPT ![a].ui = FALSE]
    <3> DEFINE k == [ask[a] EXCEPT !.ui = FALSE]
    <3>1. k \in SupportAsk /\ k.op = ask[a].op /\ k.case = ask[a].case
      BY <1>1 DEF SupportAsk
    <3>2. ask' = [ask EXCEPT ![a] = k]
      BY <2>3
    <3> HIDE DEF k
    <3> QED
      BY <2>1, <3>1, <3>2, SupportAskMoves
  <2> QED
    BY <1>22, <2>2, <2>3 DEF Support!Lose
<1>23. CASE UNCHANGED Support!vars
  BY <1>23 DEF Support!vars, Support!topicState, Support!caseView, Support!OneCasePerRequest
<1> QED
  BY <1>3, <1>4, <1>5, <1>7, <1>8, <1>9, <1>12, <1>16, <1>17, <1>19, <1>20, <1>21, <1>22, <1>23 DEF Support!Next

-----------------------------------------------------------------------------
(* SupportWidget: its invariant is inductive as it stands.                 *)

\* Nothing is open when the widget first shows.
LEMMA PanelsStartClosed == Widget!Init => Widget!PanelBoundary
  BY DEF Widget!Init, Widget!PanelBoundary

\* A change of the user or of the screen folds every panel, and opening one notes both.
LEMMA PanelsFollow == ASSUME Widget!PanelBoundary, [Widget!Next]_(Widget!vars) PROVE Widget!PanelBoundary'
<1>1. ASSUME NEW w, NEW p, Widget!Become(w, p), UNCHANGED openedFor PROVE Widget!PanelBoundary'
  <2>1. CASE Widget!Effect(w, p)
    BY <1>1, <2>1 DEF Widget!Become, Widget!PanelBoundary
  <2>2. CASE ~Widget!Effect(w, p)
    BY <1>1, <2>2 DEF Widget!Become, Widget!Effect, Widget!PanelBoundary, Widget!panels
  <2> QED
    BY <2>1, <2>2
<1>2. CASE Widget!Hydrate
  BY <1>1, <1>2 DEF Widget!Hydrate
<1>3. CASE Widget!SignInOrOut
  BY <1>1, <1>3 DEF Widget!SignInOrOut
<1>4. CASE Widget!TogglePublicHelp
  BY <1>4 DEF Widget!TogglePublicHelp, Widget!Open, Widget!PanelBoundary, Widget!session
<1>5. CASE Widget!ToggleCustomerHelp
  BY <1>5 DEF Widget!ToggleCustomerHelp, Widget!Open, Widget!PanelBoundary, Widget!session
<1>6. CASE Widget!CloseHelp
  BY <1>6 DEF Widget!CloseHelp, Widget!PanelBoundary, Widget!session
<1>7. CASE Widget!TypeDetails
  BY <1>7 DEF Widget!TypeDetails, Widget!PanelBoundary, Widget!session, Widget!panels
<1>8. ASSUME NEW p \in Widget!AllPaths, Widget!Navigate(p) \/ Widget!Leave(p) PROVE Widget!PanelBoundary'
  BY <1>1, <1>8 DEF Widget!Navigate, Widget!Leave
<1>9. ASSUME NEW f, Widget!PublicFlow(f) \/ Widget!CustomerFlow(f) PROVE Widget!PanelBoundary'
  BY <1>9 DEF Widget!PublicFlow, Widget!CustomerFlow, Widget!PanelBoundary, Widget!session
<1>10. CASE UNCHANGED Widget!vars
  BY <1>10 DEF Widget!vars, Widget!session, Widget!panels, Widget!PanelBoundary
<1> QED
  BY <1>2, <1>3, <1>4, <1>5, <1>6, <1>7, <1>8, <1>9, <1>10 DEF Widget!Next

-----------------------------------------------------------------------------
(* CustomerKyc: a call that is about to verify has named the record, and a *)
(* name stands for a session that its customer consented to.               *)

KycStatuses == {"NOT_STARTED", "PENDING", "IN_PROGRESS", "VERIFIED", "REQUIRES_REVERIFICATION"}
MaybeSession == Sessions \cup {None}
KycSteps == {"initiate", "store", "lapse", "ask", "gone", "denied", "given", "fetch", "account", "name",
             "verify", "reread", "sent", "done", "free"}
KycRecord == [status : KycStatuses, session : MaybeSession, name : MaybeSession, pending : BOOLEAN]
KycCall == [does : {"", "start", "get", "unheard"}, session : MaybeSession, name : MaybeSession,
            pc : KycSteps, res : KycStatuses \cup {"ok", "refused", None}]
KycTypes ==
  /\ kyc \in KycRecord /\ kycCalls \in [Calls -> KycCall]
  /\ consent \in [Sessions -> {"unused", "open", "given", "denied", "gone"}]

Proven(s) == s \in Sessions /\ consent[s] \in {"given", "gone"}

\* What a call holds at the steps that use it.
CallHolds(k) ==
  /\ k.pc \in {"store", "fetch"} => k.session \in Sessions
  /\ k.pc \in {"account", "name"} => Proven(k.name)
  /\ k.pc = "verify" => kyc.name # None

KycInv ==
  /\ KycTypes
  /\ kyc.name # None => Proven(kyc.name)
  /\ \A c \in Calls : CallHolds(kycCalls[c])

\* No call is in progress when the screen opens.
LEMMA KycStarts == Kyc!Init => KycInv
<1> SUFFICES ASSUME Kyc!Init PROVE KycInv
  OBVIOUS
<1>1. kyc \in KycRecord /\ kyc.name = None
  <2>1. CASE \E st \in KycStatuses : kyc = Kyc!Record(st, None, None, FALSE)
    BY <2>1 DEF Kyc!Record, KycRecord, MaybeSession
  <2>2. CASE \E s \in Sessions : kyc = Kyc!Record("VERIFIED", s, None, TRUE)
    BY <2>2 DEF Kyc!Record, KycRecord, KycStatuses, MaybeSession
  <2> QED
    BY <2>1, <2>2 DEF Kyc!Init, KycStatuses
<1>2. Kyc!Free \in KycCall /\ Kyc!Free.pc = "free"
  BY DEF Kyc!Free, KycCall, KycSteps, MaybeSession
<1>3. kycCalls = [c \in Calls |-> Kyc!Free]
  BY DEF Kyc!Init
<1>4. consent \in [Sessions -> {"unused", "open", "given", "denied", "gone"}]
  BY DEF Kyc!Init
<1> QED
  BY <1>1, <1>2, <1>3, <1>4 DEF KycInv, KycTypes, CallHolds

\* A step of one call that leaves the names alone.
LEMMA KycCallMoves ==
  ASSUME KycInv, NEW c \in Calls, NEW k \in KycCall, kycCalls' = [kycCalls EXCEPT ![c] = k],
         UNCHANGED <<kyc, consent>>,
         CallHolds(k)
  PROVE  KycInv'
<1>1. kycCalls' \in [Calls -> KycCall]
  BY DEF KycInv, KycTypes
<1>2. \A d \in Calls : kycCalls'[d] = k \/ kycCalls'[d] = kycCalls[d]
  BY DEF KycInv, KycTypes
<1> QED
  BY <1>1, <1>2 DEF KycInv, KycTypes, CallHolds, Proven

\* A step of one call that writes the record and keeps the name in it.
LEMMA KycRecordMoves ==
  ASSUME KycInv, NEW c \in Calls, NEW k \in KycCall, kycCalls' = [kycCalls EXCEPT ![c] = k],
         NEW r \in KycRecord, kyc' = r, UNCHANGED consent,
         r.name = kyc.name \/ (r.name # None /\ Proven(r.name)),
         k.pc \in {"store", "fetch"} => k.session \in Sessions,
         k.pc \in {"account", "name"} => Proven(k.name),
         k.pc = "verify" => r.name # None
  PROVE  KycInv'
<1>1. kycCalls' \in [Calls -> KycCall]
  BY DEF KycInv, KycTypes
<1>2. \A d \in Calls : kycCalls'[d] = k \/ kycCalls'[d] = kycCalls[d]
  BY DEF KycInv, KycTypes
<1>3. Proven(k.name) => Proven(k.name)'
  BY DEF Proven
<1>4. \A d \in Calls : Proven(kycCalls[d].name) =>
        (consent'[kycCalls[d].name] \in {"given", "gone"} /\ kycCalls[d].name \in Sessions)
  BY DEF Proven
<1> QED
  BY <1>1, <1>2, <1>4 DEF KycInv, KycTypes, CallHolds, Proven

\* A call's record with some of its fields changed is one.
LEMMA KycCallEdits ==
  ASSUME KycInv, NEW c \in Calls
  PROVE  /\ kycCalls[c] \in KycCall /\ Kyc!Free \in KycCall /\ Kyc!Free.pc = "free"
         /\ \A pc \in KycSteps : [kycCalls[c] EXCEPT !.pc = pc] \in KycCall
         /\ \A res \in KycStatuses \cup {"ok", "refused", None} :
              [kycCalls[c] EXCEPT !.pc = "done", !.res = res] \in KycCall
         /\ [kycCalls[c] EXCEPT !.does = "unheard"] \in KycCall
<1>1. kycCalls[c] \in KycCall
  BY DEF KycInv, KycTypes
<1> QED
  BY <1>1 DEF KycCall, KycSteps, Kyc!Free, MaybeSession

\* The invariant is inductive.
LEMMA KycSteady == ASSUME None \notin Sessions, KycInv, [Kyc!Next]_(Kyc!vars) PROVE KycInv'
<1>1. ASSUME NEW c \in Calls, NEW does \in {"get", "start"}, Kyc!Sends(c, does), UNCHANGED <<kyc, consent>>
      PROVE  KycInv'
  <2>1. [Kyc!Free EXCEPT !.does = does, !.pc = "sent"] \in KycCall
    BY <1>1 DEF Kyc!Free, KycCall, KycSteps, MaybeSession
  <2>2. [Kyc!Free EXCEPT !.does = does, !.pc = "sent"].pc = "sent"
    BY DEF Kyc!Free
  <2> QED
    BY <1>1, <2>1, <2>2, KycCallMoves DEF Kyc!Sends, CallHolds
<1>2. ASSUME NEW c \in Calls, NEW pc \in KycSteps, Kyc!To(c, pc), UNCHANGED <<kyc, consent>>,
             pc \in {"store", "fetch", "account", "name", "verify"} => kycCalls[c].pc = pc
      PROVE  KycInv'
  <2> DEFINE k == [kycCalls[c] EXCEPT !.pc = pc]
  <2>1. k \in KycCall /\ kycCalls[c] \in KycCall
    BY KycCallEdits
  <2>2. CallHolds(k)
    BY <1>2, <2>1 DEF CallHolds, KycCall, KycInv
  <2>3. kycCalls' = [kycCalls EXCEPT ![c] = k]
    BY <1>2 DEF Kyc!To, KycInv, KycTypes
  <2> QED
    BY <1>2, <2>1, <2>2, <2>3, KycCallMoves
<1>3. ASSUME NEW c \in Calls, NEW res \in KycStatuses \cup {"ok", "refused"}, Kyc!Answer(c, res), UNCHANGED consent,
             NEW r \in KycRecord, kyc' = r, r.name = kyc.name
      PROVE  KycInv'
  <2> DEFINE k == [kycCalls[c] EXCEPT !.pc = "done", !.res = res]
  <2>1. k \in KycCall /\ kycCalls[c] \in KycCall
    BY KycCallEdits
  <2>2. k.pc = "done"
    BY <2>1 DEF KycCall
  <2>3. kycCalls' = [kycCalls EXCEPT ![c] = k]
    BY <1>3 DEF Kyc!Answer, KycInv, KycTypes
  <2> HIDE DEF k
  <2> QED
    BY <1>3, <2>1, <2>2, <2>3, KycRecordMoves
<1>4. kyc \in KycRecord /\ \A c \in Calls : kycCalls[c] \in KycCall
  BY DEF KycInv, KycTypes
<1>5. ASSUME NEW ok \in BOOLEAN, Kyc!MeLands(ok) PROVE KycInv'
  <2>1. CASE kycPhase # "me"
    BY <1>5, <2>1 DEF Kyc!MeLands, KycInv, KycTypes, CallHolds, Proven, Kyc!backend
  <2>2. CASE kycPhase = "me"
    BY <1>1, <1>5, <2>2 DEF Kyc!MeLands, Kyc!backend
  <2> QED
    BY <2>1, <2>2
<1>6. ASSUME NEW s \in Sessions, NEW what \in {"given", "denied", "gone"}, Kyc!Consent(s, what) PROVE KycInv'
  <2>1. consent' \in [Sessions -> {"unused", "open", "given", "denied", "gone"}]
    BY <1>6 DEF Kyc!Consent, KycInv, KycTypes
  <2>2. \A t : Proven(t) => Proven(t)'
    BY <1>6 DEF Kyc!Consent, Proven, KycInv, KycTypes
  <2> QED
    BY <1>6, <2>1, <2>2 DEF Kyc!Consent, KycInv, KycTypes, CallHolds, Kyc!backend
<1>7. ASSUME NEW c \in Calls, Kyc!Refetch(c) \/ Kyc!StartKyc(c) PROVE KycInv'
  BY <1>1, <1>7 DEF Kyc!Refetch, Kyc!StartKyc, Kyc!backend
<1>8. ASSUME NEW c \in Calls, NEW ok \in BOOLEAN, Kyc!Started(c, ok) \/ Kyc!StatusLands(c, ok) PROVE KycInv'
  <2> DEFINE k == [kycCalls[c] EXCEPT !.does = "unheard"]
  <2>1. k \in KycCall
    BY KycCallEdits
  <2>2. kycCalls' = [kycCalls EXCEPT ![c] = k] /\ UNCHANGED <<kyc, consent>>
    BY <1>8 DEF Kyc!Started, Kyc!StatusLands, Kyc!backend, KycInv, KycTypes
  <2>3. CallHolds(k)
    BY <1>4 DEF KycCall, CallHolds, KycInv
  <2> HIDE DEF k
  <2> QED
    BY <2>1, <2>2, <2>3, KycCallMoves
<1>9. ASSUME NEW c \in Calls, Kyc!Ended(c) PROVE KycInv'
  BY <1>9, KycCallEdits, KycCallMoves DEF Kyc!Ended, Kyc!backend, CallHolds
<1>10. ASSUME NEW c \in Calls, Kyc!StartRead(c) PROVE KycInv'
  <2>1. CASE Kyc!Answer(c, "refused")
    BY <1>3, <1>4, <1>10, <2>1 DEF Kyc!StartRead, Kyc!backend, Kyc!Elsewhere
  <2>2. CASE Kyc!To(c, "initiate")
    BY <1>2, <1>10, <2>2 DEF Kyc!StartRead, Kyc!backend, Kyc!Elsewhere, KycSteps
  <2> QED
    BY <1>10, <2>1, <2>2 DEF Kyc!StartRead
<1>11. ASSUME NEW c \in Calls, Kyc!InitiateSession(c) PROVE KycInv'
  <2>1. CASE Kyc!Answer(c, "refused") /\ UNCHANGED consent
    BY <1>3, <1>4, <1>11, <2>1 DEF Kyc!InitiateSession, Kyc!backend
  <2>2. ASSUME NEW s \in Sessions, consent[s] = "unused", consent' = [consent EXCEPT ![s] = "open"],
               kycCalls' = [kycCalls EXCEPT ![c].session = s, ![c].pc = "store"]
        PROVE  KycInv'
    <3> DEFINE k == [kycCalls[c] EXCEPT !.session = s, !.pc = "store"]
    <3>1. k \in KycCall /\ k.session = s /\ k.pc = "store"
      BY <1>4 DEF KycCall, KycSteps, MaybeSession
    <3>2. kycCalls' = [kycCalls EXCEPT ![c] = k]
      BY <2>2 DEF KycInv, KycTypes
    <3> HIDE DEF k
    <3>3. kycCalls' \in [Calls -> KycCall] /\ \A d \in Calls : kycCalls'[d] = k \/ kycCalls'[d] = kycCalls[d]
      BY <3>1, <3>2 DEF KycInv, KycTypes
    <3>4. consent' \in [Sessions -> {"unused", "open", "given", "denied", "gone"}]
      BY <2>2 DEF KycInv, KycTypes
    <3>5. \A t : Proven(t) => Proven(t)'
      BY <2>2 DEF Proven, KycInv, KycTypes
    <3> QED
      BY <1>11, <3>1, <3>3, <3>4, <3>5 DEF Kyc!InitiateSession, Kyc!backend, KycInv, KycTypes, CallHolds
  <2> QED
    BY <1>11, <2>1, <2>2 DEF Kyc!InitiateSession
<1>12. ASSUME NEW c \in Calls, Kyc!StoreSession(c) PROVE KycInv'
  <2> DEFINE r == [kyc EXCEPT !.status = "IN_PROGRESS", !.session = kycCalls[c].session]
  <2>1. r \in KycRecord /\ r.name = kyc.name
    BY <1>4, <1>12 DEF KycRecord, KycCall, KycStatuses
  <2> QED
    BY <1>3, <1>12, <2>1 DEF Kyc!StoreSession, Kyc!Elsewhere
<1>13. ASSUME NEW c \in Calls, Kyc!GetRead(c) PROVE KycInv'
  <2>1. PICK pc \in {"lapse", "fetch", "ask", "done"} :
          /\ kycCalls' = [kycCalls EXCEPT ![c].session = kyc.session, ![c].res = kyc.status, ![c].pc = pc]
          /\ pc = "fetch" => kyc.session # None
    BY <1>13 DEF Kyc!GetRead
  <2> DEFINE k == [kycCalls[c] EXCEPT !.session = kyc.session, !.res = kyc.status, !.pc = pc]
  <2>2. k \in KycCall /\ k.session = kyc.session /\ k.pc = pc
    BY <1>4 DEF KycCall, KycRecord, KycSteps
  <2>3. kycCalls' = [kycCalls EXCEPT ![c] = k]
    BY <2>1 DEF KycInv, KycTypes
  <2>4. CallHolds(k)
    BY <1>4, <2>1, <2>2 DEF CallHolds, KycRecord, MaybeSession
  <2> HIDE DEF k
  <2> QED
    BY <1>13, <2>2, <2>3, <2>4, KycCallMoves DEF Kyc!GetRead, Kyc!backend, Kyc!Elsewhere
<1>14. ASSUME NEW c \in Calls, Kyc!Lapse(c) \/ Kyc!SessionGone(c) \/ Kyc!SessionDenied(c) PROVE KycInv'
  <2>1. kyc' \in KycRecord /\ kyc'.name = kyc.name
    BY <1>4, <1>14 DEF Kyc!Lapse, Kyc!SessionGone, Kyc!SessionDenied, KycRecord, KycStatuses, MaybeSession
  <2> QED
    BY <1>3, <1>14, <2>1 DEF Kyc!Lapse, Kyc!SessionGone, Kyc!SessionDenied, KycStatuses, Kyc!Elsewhere
<1>15. ASSUME NEW c \in Calls, Kyc!AskProvider(c) PROVE KycInv'
  <2>1. CASE Kyc!Answer(c, "IN_PROGRESS")
    BY <1>3, <1>4, <1>15, <2>1 DEF Kyc!AskProvider, Kyc!backend, Kyc!Elsewhere, KycStatuses
  <2>2. ASSUME NEW pc \in {"given", "denied", "gone"}, Kyc!To(c, pc) PROVE KycInv'
    BY <1>2, <1>15, <2>2 DEF Kyc!AskProvider, Kyc!backend, Kyc!Elsewhere, KycSteps
  <2> QED
    BY <1>15, <2>1, <2>2 DEF Kyc!AskProvider
<1>16. ASSUME NEW c \in Calls, Kyc!ConsentGiven(c) PROVE KycInv'
  <2> DEFINE pc == IF kyc.session = None THEN "reread" ELSE "fetch"
             k == [kycCalls[c] EXCEPT !.session = kyc.session, !.pc = pc]
  <2>1. k \in KycCall /\ k.session = kyc.session /\ k.pc = pc
    BY <1>4 DEF KycCall, KycRecord, KycSteps
  <2>2. kycCalls' = [kycCalls EXCEPT ![c] = k]
    BY <1>16 DEF Kyc!ConsentGiven, KycInv, KycTypes
  <2>3. kyc' \in KycRecord /\ kyc'.name = kyc.name
    BY <1>4, <1>16 DEF Kyc!ConsentGiven, KycRecord
  <2>4. k.pc = "fetch" => k.session \in Sessions
    BY <1>4, <2>1 DEF KycRecord, MaybeSession
  <2>5. k.pc \notin {"store", "account", "name", "verify"}
    BY <2>1
  <2> HIDE DEF k
  <2> QED
    BY <1>16, <2>1, <2>2, <2>3, <2>4, <2>5, KycRecordMoves DEF Kyc!ConsentGiven, Kyc!Elsewhere
<1>17. ASSUME NEW c \in Calls, Kyc!FetchName(c) PROVE KycInv'
  <2>1. ASSUME consent[kycCalls[c].session] = "given", UNCHANGED kyc,
               kycCalls' = [kycCalls EXCEPT ![c].name = kycCalls[c].session, ![c].pc = "account"]
        PROVE  KycInv'
    <3> DEFINE k == [kycCalls[c] EXCEPT !.name = kycCalls[c].session, !.pc = "account"]
    <3>1. k \in KycCall /\ k.name = kycCalls[c].session /\ k.pc = "account"
      BY <1>4 DEF KycCall, KycSteps
    <3>2. kycCalls' = [kycCalls EXCEPT ![c] = k]
      BY <2>1 DEF KycInv, KycTypes
    <3>3. CallHolds(k)
      BY <1>17, <2>1, <3>1 DEF Kyc!FetchName, CallHolds, Proven, KycInv
    <3> HIDE DEF k
    <3> QED
      BY <1>17, <2>1, <3>1, <3>2, <3>3, KycCallMoves DEF Kyc!FetchName, Kyc!Elsewhere
  <2>2. ASSUME kyc' \in KycRecord, kyc'.name = kyc.name, Kyc!To(c, "reread") PROVE KycInv'
    <3> DEFINE k == [kycCalls[c] EXCEPT !.pc = "reread"]
    <3>1. k \in KycCall /\ k.pc = "reread"
      BY <1>4 DEF KycCall, KycSteps
    <3>2. kycCalls' = [kycCalls EXCEPT ![c] = k]
      BY <2>2 DEF Kyc!To, KycInv, KycTypes
    <3> HIDE DEF k
    <3> QED
      BY <1>17, <2>2, <3>1, <3>2, KycRecordMoves DEF Kyc!FetchName, Kyc!Elsewhere
  <2>3. [kyc EXCEPT !.pending = TRUE] \in KycRecord /\ [kyc EXCEPT !.pending = TRUE].name = kyc.name
    BY <1>4 DEF KycRecord
  <2> DEFINE r == [kyc EXCEPT !.pending = TRUE, !.status = "REQUIRES_REVERIFICATION", !.session = None]
  <2>4. r \in KycRecord /\ r.name = kyc.name
    BY <1>4 DEF KycRecord, KycStatuses, MaybeSession
  <2> QED
    BY <1>17, <2>1, <2>2, <2>3, <2>4 DEF Kyc!FetchName
<1>18. ASSUME NEW c \in Calls, Kyc!NameAccount(c) PROVE KycInv'
  <2> DEFINE k == [kycCalls[c] EXCEPT !.pc = "name"]
  <2>1. k \in KycCall /\ k.name = kycCalls[c].name /\ k.pc = "name"
    BY <1>4 DEF KycCall, KycSteps
  <2>2. kycCalls' = [kycCalls EXCEPT ![c] = k]
    BY <1>18 DEF Kyc!NameAccount, Kyc!To, KycInv, KycTypes
  <2>3. CallHolds(k)
    BY <1>18, <2>1 DEF Kyc!NameAccount, CallHolds, KycInv
  <2> HIDE DEF k
  <2> QED
    BY <1>18, <2>1, <2>2, <2>3, KycCallMoves DEF Kyc!NameAccount, Kyc!Elsewhere
<1>19. ASSUME NEW c \in Calls, Kyc!NameRecord(c) PROVE KycInv'
  <2> DEFINE r == [kyc EXCEPT !.name = kycCalls[c].name, !.pending = FALSE]
  <2>1. Proven(kycCalls[c].name)
    BY <1>19 DEF Kyc!NameRecord, KycInv, CallHolds
  <2>2. r \in KycRecord /\ r.name = kycCalls[c].name /\ r.name # None
    BY <1>4, <1>19, <2>1 DEF KycRecord, KycCall, Proven
  <2>3. PICK pc \in {"done", "verify"} : Kyc!To(c, pc)
    BY <1>19 DEF Kyc!NameRecord
  <2> DEFINE k == [kycCalls[c] EXCEPT !.pc = pc]
  <2>4. k \in KycCall /\ k.pc = pc
    BY <1>4 DEF KycCall, KycSteps
  <2>5. kycCalls' = [kycCalls EXCEPT ![c] = k]
    BY <2>3 DEF Kyc!To, KycInv, KycTypes
  <2>6. kyc' = r /\ UNCHANGED consent
    BY <1>19 DEF Kyc!NameRecord, Kyc!Elsewhere
  <2> HIDE DEF k, r
  <2> QED
    BY <2>1, <2>2, <2>4, <2>5, <2>6, KycRecordMoves
<1>20. ASSUME NEW c \in Calls, Kyc!Verify(c) PROVE KycInv'
  <2>1. kyc' \in KycRecord /\ kyc'.name = kyc.name
    BY <1>4, <1>20 DEF Kyc!Verify, KycRecord, KycStatuses
  <2> QED
    BY <1>3, <1>20, <2>1 DEF Kyc!Verify, KycStatuses, Kyc!Elsewhere
<1>21. ASSUME NEW c \in Calls, Kyc!Reread(c) PROVE KycInv'
  BY <1>3, <1>4, <1>21 DEF Kyc!Reread, Kyc!backend, Kyc!Elsewhere, KycRecord
<1>22. CASE UNCHANGED Kyc!vars
  BY <1>22 DEF Kyc!vars, Kyc!backend, KycInv, KycTypes, CallHolds, Proven
<1> QED
  BY <1>5, <1>6, <1>7, <1>8, <1>9, <1>10, <1>11, <1>12, <1>13, <1>14, <1>15, <1>16, <1>17, <1>18, <1>19, <1>20,
     <1>21, <1>22 DEF Kyc!Next

\* Only a call that named the record, by a session consented to, verifies it.
LEMMA KycVerifies ==
  ASSUME None \notin Sessions, KycInv, [Kyc!Next]_(Kyc!vars), kyc.status # "VERIFIED", kyc'.status = "VERIFIED"
  PROVE  kyc'.name # None /\ consent[kyc'.name] \in {"given", "gone"}
<1>1. kyc \in KycRecord /\ \A c \in Calls : kycCalls[c] \in KycCall
  BY DEF KycInv, KycTypes
<1>2. ASSUME NEW c \in Calls, Kyc!Verify(c) PROVE kyc'.name # None /\ consent[kyc'.name] \in {"given", "gone"}
  <2>1. kyc.name # None
    BY <1>2 DEF Kyc!Verify, Kyc!Verifies, KycInv, CallHolds
  <2>2. kyc'.name = kyc.name
    BY <1>1, <1>2 DEF Kyc!Verify, KycRecord
  <2> QED
    BY <2>1, <2>2 DEF KycInv, Proven
<1>3. UNCHANGED Kyc!vars => kyc' = kyc
  BY DEF Kyc!vars, Kyc!backend
<1>4. ASSUME NEW c \in Calls,
             \/ Kyc!StoreSession(c) \/ Kyc!Lapse(c) \/ Kyc!SessionGone(c) \/ Kyc!SessionDenied(c)
                \/ Kyc!ConsentGiven(c) \/ Kyc!FetchName(c)
             \/ Kyc!NameRecord(c)
      PROVE  kyc'.status \in {"IN_PROGRESS", "NOT_STARTED", "REQUIRES_REVERIFICATION", kyc.status}
  BY <1>1, <1>4 DEF Kyc!StoreSession, Kyc!Lapse, Kyc!SessionGone, Kyc!SessionDenied, Kyc!ConsentGiven,
     Kyc!FetchName, Kyc!NameRecord, KycRecord
<1> QED
  BY <1>2, <1>3, <1>4 DEF Kyc!Next, Kyc!MeLands, Kyc!Consent, Kyc!Refetch, Kyc!StartKyc, Kyc!Started,
     Kyc!StatusLands, Kyc!Ended, Kyc!StartRead,
     Kyc!InitiateSession, Kyc!GetRead, Kyc!AskProvider, Kyc!NameAccount, Kyc!Reread, Kyc!backend

-----------------------------------------------------------------------------
(* PourPlanning: the backend's loads are those previewed and carry the     *)
(* whole volume; the last list on its way to the device is the one shown.  *)

\* A set of naturals has a least member.
LEMMA LeastOf == ASSUME NEW F \in SUBSET Nat, F # {} PROVE \E m \in F : \A k \in F : ~(k < m)
<1> DEFINE R == OpToRel(<, Nat)
<1>1. IsWellFoundedOn(R, Nat)
  BY NatLessThanWellFounded, Zenon
<1>2. \A k, m \in Nat : k < m => <<k, m>> \in R
  BY DEF OpToRel
<1> HIDE DEF R
<1>3. \E m \in F : \A k \in F : ~(<<k, m>> \in R)
  BY <1>1, WFMin
<1> QED
  BY <1>2, <1>3

\* upTo is the table of what the first loads carry.
Carried(loads, upTo) ==
  upTo = [i \in 0..Len(loads) |-> IF i = 0 THEN 0 ELSE upTo[i - 1] + loads[i].quantity]

\* A table is the only one.
LEMMA VolumeIs ==
  ASSUME NEW loads, Len(loads) \in Nat, NEW h, Carried(loads, h)
  PROVE  Planning!Volume(loads) = h[Len(loads)]
<1> DEFINE g == CHOOSE upTo : Carried(loads, upTo)
<1>1. Planning!Volume(loads) = g[Len(loads)]
  BY DEF Planning!Volume, Carried
<1>2. Carried(loads, g)
  OBVIOUS
<1> HIDE DEF g
<1> DEFINE F == {i \in 0..Len(loads) : g[i] # h[i]}
<1>3. ASSUME NEW m \in F, \A k \in F : ~(k < m) PROVE FALSE
  <2>1. CASE m = 0
    BY <1>2, <2>1 DEF Carried
  <2>2. CASE m # 0
    <3>1. m - 1 \in 0..Len(loads) /\ m - 1 < m
      BY <2>2
    <3>2. g[m - 1] = h[m - 1]
      BY <1>3, <3>1
    <3> QED
      BY <1>2, <2>2, <3>2 DEF Carried
  <2> QED
    BY <2>1, <2>2
<1>4. F = {}
  <2>1. F \in SUBSET Nat
    OBVIOUS
  <2> HIDE DEF F
  <2> QED
    BY <1>3, <2>1, LeastOf
<1> QED
  BY <1>1, <1>4

LoadsOf(f, n) ==
  [i \in 1..n |-> [quantity |-> Planning!Least(f.capacity, f.qty - (i - 1) * f.capacity),
                   arrival |-> (f.start + (i - 1) * f.interval) % Planning!Day]]

\* The loads of a volume: enough for it, and the last is needed.
LEMMA LoadsEnough ==
  ASSUME NEW q \in Nat \ {0}, NEW c \in Nat \ {0}
  PROVE  /\ Planning!CeilDiv(q, c) \in Nat \ {0}
         /\ q <= Planning!CeilDiv(q, c) * c /\ (Planning!CeilDiv(q, c) - 1) * c < q
<1> DEFINE n == Planning!CeilDiv(q, c)
<1>1. n \in Int /\ c * n <= q + c - 1 /\ q + c - 1 < c * n + c
  BY DEF Planning!CeilDiv
<1> HIDE DEF n
<1>2. c * n = n * c /\ (n - 1) * c = n * c - c
  BY <1>1
<1>3. q <= n * c /\ (n - 1) * c < q
  BY <1>1, <1>2
<1>4. n > 0
  <2>1. n <= 0 => n * c <= 0
    BY <1>1
  <2> QED
    BY <1>1, <1>3, <2>1
<1> QED
  BY <1>1, <1>3, <1>4 DEF n

\* Together they carry it.
LEMMA LoadsCarry ==
  ASSUME NEW f, f.qty \in Nat \ {0}, f.capacity \in Nat \ {0}
  PROVE  Planning!Volume(LoadsOf(f, Planning!CeilDiv(f.qty, f.capacity))) = f.qty
<1> DEFINE q == f.qty
           c == f.capacity
           n == Planning!CeilDiv(q, c)
           loads == LoadsOf(f, n)
           h == [i \in 0..n |-> Planning!Least(i * c, q)]
<1>1. q \in Nat /\ c \in Nat \ {0} /\ n \in Nat \ {0} /\ q <= n * c /\ (n - 1) * c < q
  BY LoadsEnough
<1>2. Len(loads) = n /\ \A i \in 1..n : loads[i].quantity = Planning!Least(c, q - (i - 1) * c)
  BY <1>1 DEF LoadsOf
<1> HIDE DEF loads, n, q, c
<1>3. ASSUME NEW i \in 1..n
      PROVE  Planning!Least(i * c, q) = Planning!Least((i - 1) * c, q) + Planning!Least(c, q - (i - 1) * c)
  <2>1. i \in Nat /\ i <= n /\ (i - 1) * c = i * c - c /\ i * c \in Nat
    BY <1>1, <1>3
  <2>2. (i - 1) * c <= (n - 1) * c
    <3>1. (n - 1) * c - (i - 1) * c = (n - i) * c
      BY <1>1, <2>1
    <3>2. (n - i) * c >= 0 /\ (n - 1) * c \in Int /\ (i - 1) * c \in Int
      BY <1>1, <2>1
    <3> QED
      BY <3>1, <3>2
  <2> QED
    BY <1>1, <2>1, <2>2 DEF Planning!Least
<1>4. ASSUME NEW i \in 0..n PROVE h[i] = IF i = 0 THEN 0 ELSE h[i - 1] + loads[i].quantity
  <2>1. CASE i = 0
    BY <1>1, <2>1 DEF Planning!Least
  <2>2. CASE i # 0
    <3>1. i \in 1..n /\ i - 1 \in 0..n
      BY <1>1, <2>2
    <3> QED
      BY <1>2, <1>3, <2>2, <3>1
  <2> QED
    BY <2>1, <2>2
<1>5. h[n] = q
  BY <1>1 DEF Planning!Least
<1>6. h = [i \in 0..n |-> h[i]]
  OBVIOUS
<1> HIDE DEF h
<1>7. Carried(loads, h)
  BY <1>2, <1>4, <1>6 DEF Carried
<1>8. Planning!Volume(loads) = h[Len(loads)]
  BY <1>1, <1>2, <1>7, VolumeIs
<1> QED
  BY <1>2, <1>5, <1>8 DEF loads, n, q, c

-----------------------------------------------------------------------------

PlanKept(p) == p.loads = p.shown /\ p.end = p.ends /\ p.qty = Planning!Volume(p.loads)
PlannerSent == [form |-> call.form, shown |-> call.shown, ends |-> call.ends, n |-> call.n, pc |-> call.pc]

PlannerInv ==
  /\ form \in Planning!Form
  /\ call # None => /\ call = PlannerSent /\ call.form \in Planning!Form /\ call.form.qty # 0
                    /\ call.shown = Planning!Preview(call.form) /\ call.ends = Planning!PreviewEnd(call.form)
  /\ \A p \in plans : PlanKept(p)

ToolsInv ==
  /\ \E S : writes \in Seq(S)
  /\ ~early => /\ opened = "reading" => saved = <<>> /\ writes = <<>>
               /\ opened = "read" => IF writes = <<>> THEN stored = saved ELSE writes[Len(writes)] = saved

PourInv == PlannerInv /\ ToolsInv

\* The form has figures, and nothing is saved.
LEMMA PourStarts == ASSUME PlannerAssumption, Planning!Init PROVE PourInv
<1>1. \E f \in Planning!Form : ~f.site
  <2>1. PICK q \in Quantities, c \in Capacities, t \in Starts, i \in Intervals : TRUE
    BY DEF PlannerAssumption
  <2>2. [qty |-> q, capacity |-> c, start |-> t, interval |-> i, site |-> FALSE] \in Planning!Form
    BY DEF Planning!Form
  <2> QED
    BY <2>2
<1>2. form \in Planning!Form
  BY <1>1 DEF Planning!Init
<1>3. PlannerInv
  BY <1>2 DEF Planning!Init, PlannerInv
<1>4. ToolsInv
  <2>1. writes \in Seq({})
    BY DEF Planning!Init
  <2> QED
    BY <2>1 DEF Planning!Init, ToolsInv
<1> QED
  BY <1>3, <1>4 DEF PourInv

\* What the backend works out is what was previewed.
LEMMA PreviewIsPlan ==
  ASSUME PlannerAssumption, NEW f \in Planning!Form, f.qty # 0, ~(Planning!LoadsCount(f) > MaxLoads)
  PROVE  /\ Planning!Preview(f) = LoadsOf(f, Planning!LoadsCount(f))
         /\ Planning!PreviewEnd(f) = (f.start + Planning!LoadsCount(f) * f.interval) % Planning!Day
         /\ Planning!Volume(LoadsOf(f, Planning!LoadsCount(f))) = f.qty
<1> DEFINE n == Planning!LoadsCount(f)
<1>1. f.qty \in Nat \ {0} /\ f.capacity \in Nat \ {0}
  BY DEF PlannerAssumption, Planning!Form
<1>2. n \in Nat \ {0} /\ n = Planning!CeilDiv(f.qty, f.capacity)
  BY <1>1, LoadsEnough DEF Planning!LoadsCount
<1>3. Planning!Volume(LoadsOf(f, n)) = f.qty
  BY <1>1, <1>2, LoadsCarry
<1> HIDE DEF n
<1>4. Planning!Least(n, MaxLoads) = n
  BY <1>2 DEF n, Planning!Least, PlannerAssumption
<1>5. Planning!Preview(f) = LoadsOf(f, n)
  BY <1>2, <1>4 DEF Planning!Preview, LoadsOf
<1>6. Len(LoadsOf(f, n)) = n /\ LoadsOf(f, n) # <<>>
  BY <1>2 DEF LoadsOf
<1>7. Planning!PreviewEnd(f) = (f.start + n * f.interval) % Planning!Day
  BY <1>5, <1>6 DEF Planning!PreviewEnd
<1> QED
  BY <1>3, <1>5, <1>7 DEF n

\* The planner's steps.
LEMMA PlannerSteady == ASSUME PlannerAssumption, PlannerInv, Planning!PlannerNext PROVE PlannerInv'
<1>1. ASSUME UNCHANGED <<form, call, plans>> PROVE PlannerInv'
  BY <1>1 DEF PlannerInv, PlannerSent
<1>2. CASE Planning!TypeForm
  BY <1>2 DEF Planning!TypeForm, PlannerInv, PlannerSent
<1>3. CASE Planning!SavePlan
  <2> DEFINE k == [form |-> form, shown |-> Planning!Preview(form), ends |-> Planning!PreviewEnd(form),
                   n |-> pourPresses', pc |-> "sent"]
  <2>1. call' = k /\ UNCHANGED <<form, plans>> /\ form.qty # 0
    BY <1>3 DEF Planning!SavePlan
  <2>2. k = [form |-> k.form, shown |-> k.shown, ends |-> k.ends, n |-> k.n, pc |-> k.pc]
        /\ k.form = form /\ k.shown = Planning!Preview(form) /\ k.ends = Planning!PreviewEnd(form)
    OBVIOUS
  <2> HIDE DEF k
  <2> QED
    BY <2>1, <2>2 DEF PlannerInv, PlannerSent
<1>4. CASE Planning!CreatePourPlan
  <2>1. UNCHANGED form /\ call # None
    BY <1>4 DEF Planning!CreatePourPlan
  <2>2. call' # None => call' = [call EXCEPT !.pc = "done"]
    BY <1>4 DEF Planning!CreatePourPlan
  <2>3. call' # None => PlannerSent' = call' /\ call'.form = call.form /\ call'.shown = call.shown
        /\ call'.ends = call.ends
    BY <2>1, <2>2 DEF PlannerInv, PlannerSent
  <2>4. ASSUME plans' = plans PROVE PlannerInv'
    BY <2>1, <2>3, <2>4 DEF PlannerInv
  <2> DEFINE f == call.form
             n == Planning!LoadsCount(f)
             q == [n |-> call.n, qty |-> f.qty, shown |-> call.shown, ends |-> call.ends,
                   loads |-> LoadsOf(f, n), end |-> (f.start + n * f.interval) % Planning!Day]
  <2>5. ASSUME ~(n > MaxLoads), plans' = plans \cup {q} PROVE PlannerInv'
    <3>1. f \in Planning!Form /\ f.qty # 0 /\ call.shown = Planning!Preview(f) /\ call.ends = Planning!PreviewEnd(f)
      BY <2>1 DEF PlannerInv
    <3>2. q.loads = LoadsOf(f, n) /\ q.shown = call.shown /\ q.qty = f.qty /\ q.ends = call.ends
          /\ q.end = (f.start + n * f.interval) % Planning!Day
      OBVIOUS
    <3> HIDE DEF q, n, f
    <3>3. PlanKept(q)
      BY <2>5, <3>1, <3>2, PreviewIsPlan DEF PlanKept, n
    <3> QED
      BY <2>1, <2>3, <2>5, <3>3 DEF PlannerInv
  <2> QED
    BY <1>4, <2>4, <2>5 DEF Planning!CreatePourPlan, LoadsOf
<1>5. CASE Planning!PlanAnswered
  BY <1>5 DEF Planning!PlanAnswered, PlannerInv, PlannerSent
<1>6. ASSUME NEW p, Planning!RemovePlan(p) \/ Planning!UseInOrder(p.qty) PROVE PlannerInv'
  BY <1>1, <1>6 DEF Planning!RemovePlan, Planning!UseInOrder, Planning!planner
<1>7. ASSUME NEW p, Planning!DeletePourPlan(p) PROVE PlannerInv'
  BY <1>7 DEF Planning!DeletePourPlan, PlannerInv, PlannerSent
<1> QED
  BY <1>2, <1>3, <1>4, <1>5, <1>6, <1>7 DEF Planning!PlannerNext

\* The steps of the free tools.
LEMMA ToolsSteady == ASSUME ToolsInv, Planning!ToolsNext PROVE ToolsInv'
<1>1. ASSUME UNCHANGED <<opened, saved, stored, writes, early>> PROVE ToolsInv'
  BY <1>1 DEF ToolsInv
<1>2. ASSUME NEW ok \in BOOLEAN, Planning!StoreRead(ok) PROVE ToolsInv'
  BY <1>2 DEF Planning!StoreRead, ToolsInv
<1>3. ASSUME NEW list, Planning!Persist(list), UNCHANGED <<opened, stored>> PROVE ToolsInv'
  <2>1. PICK S : writes \in Seq(S)
    BY DEF ToolsInv
  <2>2. writes \in Seq(S \cup {list}) /\ list \in S \cup {list}
    BY <2>1, SeqMonotonic
  <2>3. writes' = Append(writes, list)
    BY <1>3 DEF Planning!Persist
  <2>4. writes' \in Seq(S \cup {list}) /\ Len(writes') = Len(writes) + 1 /\ writes'[Len(writes) + 1] = list
        /\ Len(writes) \in Nat
    BY <2>2, <2>3, AppendProperties, LenProperties
  <2>5. writes' # <<>>
    BY <2>4
  <2> QED
    BY <1>3, <2>4, <2>5 DEF Planning!Persist, ToolsInv
<1>4. CASE Planning!Save
  BY <1>3, <1>4 DEF Planning!Save
<1>5. ASSUME NEW i \in DOMAIN saved, Planning!Delete(i) PROVE ToolsInv'
  BY <1>3, <1>5 DEF Planning!Delete
<1>6. CASE Planning!Written
  <2>1. PICK S : writes \in Seq(S)
    BY DEF ToolsInv
  <2>2. writes # <<>> /\ stored' = Head(writes) /\ writes' = Tail(writes) /\ UNCHANGED <<opened, saved, early>>
    BY <1>6 DEF Planning!Written
  <2>3. Len(writes) \in Nat \ {0} /\ writes' \in Seq(S) /\ Len(writes') = Len(writes) - 1
        /\ stored' = writes[1] /\ \A i \in 1..Len(writes') : writes'[i] = writes[i + 1]
    BY <2>1, <2>2, HeadTailProperties, EmptySeq
  <2>4. CASE writes' = <<>>
    <3>1. Len(writes') = 0
      BY <2>4
    <3>2. stored' = writes[Len(writes)]
      BY <2>3, <3>1
    <3> QED
      BY <2>2, <2>3, <2>4, <3>2 DEF ToolsInv
  <2>5. CASE writes' # <<>>
    <3>1. Len(writes') \in 1..Len(writes') /\ writes'[Len(writes')] = writes[Len(writes)]
      BY <2>3, <2>5, EmptySeq
    <3> QED
      BY <2>2, <2>3, <2>5, <3>1 DEF ToolsInv
  <2> QED
    BY <2>4, <2>5
<1>7. ASSUME NEW x, Planning!Measure(x) \/ Planning!ChooseGrade(x) \/ Planning!OpenOrder(x) PROVE ToolsInv'
  BY <1>1, <1>7 DEF Planning!Measure, Planning!ChooseGrade, Planning!OpenOrder
<1> QED
  BY <1>2, <1>4, <1>5, <1>6, <1>7 DEF Planning!ToolsNext

\* Every step keeps the invariant.
LEMMA PourSteady == ASSUME PlannerAssumption, PourInv, [Planning!Next]_(Planning!vars) PROVE PourInv'
<1>1. ASSUME UNCHANGED <<form, call, plans>> PROVE PlannerInv'
  BY <1>1 DEF PourInv, PlannerInv, PlannerSent
<1>2. ASSUME UNCHANGED <<opened, saved, stored, writes, early>> PROVE ToolsInv'
  BY <1>2 DEF PourInv, ToolsInv
<1>3. CASE Planning!ToolsNext
  <2>1. UNCHANGED <<form, call, plans>>
    BY <1>3 DEF Planning!ToolsNext, Planning!StoreRead, Planning!Save, Planning!Written, Planning!OpenOrder,
       Planning!Measure, Planning!ChooseGrade, Planning!Delete, Planning!planner
  <2> QED
    BY <1>1, <1>3, <2>1, ToolsSteady DEF PourInv
<1>4. CASE Planning!PlannerNext
  <2>1. UNCHANGED <<opened, saved, stored, writes, early>>
    BY <1>4 DEF Planning!PlannerNext, Planning!TypeForm, Planning!SavePlan, Planning!CreatePourPlan,
       Planning!PlanAnswered, Planning!RemovePlan, Planning!UseInOrder, Planning!DeletePourPlan, Planning!tools
  <2> QED
    BY <1>2, <1>4, <2>1, PlannerSteady DEF PourInv
<1>5. CASE Planning!DemoNext \/ UNCHANGED Planning!vars
  BY <1>1, <1>2, <1>5 DEF Planning!DemoNext, Planning!Transfer, Planning!ChooseStructure, Planning!SetDimensions,
     Planning!vars, Planning!tools, Planning!planner, PourInv
<1> QED
  BY <1>3, <1>4, <1>5 DEF Planning!Next

\* Plans and lists are kept as they were shown.
LEMMA PourKept == PourInv => Planning!KeptAsShown
  BY DEF PourInv, PlannerInv, ToolsInv, PlanKept, Planning!KeptAsShown

-----------------------------------------------------------------------------
(* AccountDeletion: each confirmation and each code entitles one call or   *)
(* one row, and one row at most is pending.                                *)

Asking == {"press", "code"} \X Nat

DeletionRow == [by : Asking, status : {"PENDING", "CANCELLED"}]

DeletionCall == [by : {"nobody", "screen"}, does : {"", "request", "cancel", "code", "submit"},
                 asks : Asking \cup {<<>>}, to : Identifiers \cup {None}, code : Nat \cup {None},
                 pc : {"free", "sent", "checked", "entitled", "insert", "ok", "failed"}]

\* A call that may still insert a row.
LiveCall(k) == \/ k.does = "request" /\ k.pc \in {"sent", "insert"}
               \/ k.does = "submit" /\ k.pc \in {"entitled", "insert"}

\* A button that was pressed, or a code that was sent and can no longer be used.
Asked == {<<"press", n>> : n \in {m \in Nat : m < deletionPresses}} \cup
         {<<"code", n>> : n \in {m \in Nat : 1 <= m /\ m <= issued /\ \A i \in Identifiers : deletionActive[i] # m}}

CodesInv ==
  /\ issued \in Nat /\ deletionPresses \in Nat /\ deletionActive \in [Identifiers -> Nat]
  /\ \A i \in Identifiers : deletionActive[i] <= issued
  /\ \A i, j \in Identifiers : deletionActive[i] = deletionActive[j] /\ deletionActive[i] # 0 => i = j

ScreenInv ==
  /\ identifier \in Identifiers \cup {None} /\ deletionCode \in Nat \cup {None}
  /\ deletionPhase = "verify" => identifier \in Identifiers

CallsInv ==
  /\ deletionCalls \in [Calls -> DeletionCall]
  /\ \A c \in Calls :
       /\ deletionCalls[c].does = "code" => identifier \in Identifiers
       /\ deletionCalls[c].does \in {"code", "submit"} => deletionCalls[c].to \in Identifiers
       /\ deletionCalls[c].pc = "insert" => deletionCalls[c].does \in {"request", "submit"}
       /\ LiveCall(deletionCalls[c]) => deletionCalls[c].asks \in Asked
  /\ \A c, d \in Calls : LiveCall(deletionCalls[c]) /\ LiveCall(deletionCalls[d])
     /\ deletionCalls[c].asks = deletionCalls[d].asks => c = d

RowsInv ==
  /\ rows \in Seq(DeletionRow)
  /\ \A i \in 1..Len(rows) : rows[i].by \in Asked
  /\ \A i \in 1..Len(rows), c \in Calls : LiveCall(deletionCalls[c]) => deletionCalls[c].asks # rows[i].by
  /\ \A i, j \in 1..Len(rows) : rows[i].by = rows[j].by => i = j
  /\ \A i, j \in 1..Len(rows) : rows[i].status = "PENDING" /\ rows[j].status = "PENDING" => i = j

DeletionInv == CodesInv /\ ScreenInv /\ CallsInv /\ RowsInv

\* Nothing has been asked.
LEMMA DeletionStarts == Deletion!Init => DeletionInv
<1> SUFFICES ASSUME Deletion!Init PROVE DeletionInv
  OBVIOUS
<1>1. Deletion!Free \in DeletionCall /\ ~LiveCall(Deletion!Free) /\ Deletion!Free.does = ""
      /\ Deletion!Free.pc = "free"
  BY DEF Deletion!Free, DeletionCall, LiveCall
<1>2. CodesInv /\ ScreenInv
  BY DEF Deletion!Init, CodesInv, ScreenInv
<1>3. CallsInv
  BY <1>1 DEF Deletion!Init, CallsInv
<1>4. rows \in Seq(DeletionRow) /\ Len(rows) = 0
  BY DEF Deletion!Init
<1>5. RowsInv
  BY <1>4 DEF RowsInv
<1> QED
  BY <1>2, <1>3, <1>5 DEF DeletionInv

\* What was asked stays asked.
LEMMA AskedStays ==
  ASSUME CodesInv, deletionPresses' \in Nat, deletionPresses <= deletionPresses',
         \/ UNCHANGED <<deletionActive, issued>>
         \/ \E i \in Identifiers : deletionActive' = [deletionActive EXCEPT ![i] = 0] /\ UNCHANGED issued
         \/ \E i \in Identifiers : issued' = issued + 1 /\ deletionActive' = [deletionActive EXCEPT ![i] = issued']
  PROVE  CodesInv' /\ Asked \subseteq Asked'
<1>1. CASE UNCHANGED <<deletionActive, issued>>
  BY <1>1 DEF CodesInv, Asked
<1>2. ASSUME NEW i \in Identifiers, deletionActive' = [deletionActive EXCEPT ![i] = 0], UNCHANGED issued
      PROVE  CodesInv' /\ Asked \subseteq Asked'
  <2>1. deletionActive' \in [Identifiers -> Nat]
        /\ \A j \in Identifiers : deletionActive'[j] = IF j = i THEN 0 ELSE deletionActive[j]
    BY <1>2 DEF CodesInv
  <2>2. CodesInv'
    BY <1>2, <2>1 DEF CodesInv
  <2> QED
    BY <1>2, <2>1, <2>2 DEF CodesInv, Asked
<1>3. ASSUME NEW i \in Identifiers, issued' = issued + 1, deletionActive' = [deletionActive EXCEPT ![i] = issued']
      PROVE  CodesInv' /\ Asked \subseteq Asked'
  <2>1. issued' \in Nat /\ deletionActive' \in [Identifiers -> Nat]
        /\ \A j \in Identifiers : deletionActive'[j] = IF j = i THEN issued + 1 ELSE deletionActive[j]
    BY <1>3 DEF CodesInv
  <2>2. CodesInv'
    BY <1>3, <2>1 DEF CodesInv
  <2> QED
    BY <1>3, <2>1, <2>2 DEF CodesInv, Asked
<1> QED
  BY <1>1, <1>2, <1>3

\* Nobody who may insert a row asks for what nobody asked for before.
LEMMA NewAsking ==
  ASSUME CallsInv, RowsInv, NEW x, x \notin Asked
  PROVE  /\ \A c \in Calls : LiveCall(deletionCalls[c]) => deletionCalls[c].asks # x
         /\ \A i \in 1..Len(rows) : rows[i].by # x
  BY DEF CallsInv, RowsInv

\* A call that moves on, with the rows left alone.
LEMMA DeletionMoves ==
  ASSUME DeletionInv, NEW c \in Calls, NEW k \in DeletionCall, deletionCalls' = [deletionCalls EXCEPT ![c] = k],
         UNCHANGED rows, CodesInv', ScreenInv', Asked \subseteq Asked',
         identifier \in Identifiers => identifier' \in Identifiers,
         k.does = "code" => identifier' \in Identifiers,
         k.does \in {"code", "submit"} => k.to \in Identifiers,
         k.pc = "insert" => k.does \in {"request", "submit"},
         LiveCall(k) => \/ LiveCall(deletionCalls[c]) /\ k.asks = deletionCalls[c].asks
                        \/ k.asks \notin Asked /\ k.asks \in Asked'
  PROVE  DeletionInv'
<1>1. deletionCalls' \in [Calls -> DeletionCall]
      /\ \A d \in Calls : deletionCalls'[d] = IF d = c THEN k ELSE deletionCalls[d]
  BY DEF DeletionInv, CallsInv
<1>2. LiveCall(k) => k.asks \in Asked'
      /\ (\A d \in Calls : d # c /\ LiveCall(deletionCalls[d]) => deletionCalls[d].asks # k.asks)
                     /\ \A i \in 1..Len(rows) : rows[i].by # k.asks
  BY NewAsking DEF DeletionInv, CallsInv, RowsInv
<1>3. CallsInv'
  <2>1. ASSUME NEW d \in Calls
        PROVE  /\ deletionCalls'[d].does = "code" => identifier' \in Identifiers
               /\ deletionCalls'[d].does \in {"code", "submit"} => deletionCalls'[d].to \in Identifiers
               /\ deletionCalls'[d].pc = "insert" => deletionCalls'[d].does \in {"request", "submit"}
               /\ LiveCall(deletionCalls'[d]) => deletionCalls'[d].asks \in Asked'
    <3>1. CASE d = c
      BY <1>1, <1>2, <3>1
    <3>2. CASE d # c
      BY <1>1, <3>2 DEF DeletionInv, CallsInv
    <3> QED
      BY <3>1, <3>2
  <2>2. ASSUME NEW d \in Calls, NEW e \in Calls, LiveCall(deletionCalls'[d]), LiveCall(deletionCalls'[e]),
               deletionCalls'[d].asks = deletionCalls'[e].asks
        PROVE  d = e
    BY <1>1, <1>2, <2>2 DEF DeletionInv, CallsInv
  <2> QED
    BY <1>1, <2>1, <2>2 DEF CallsInv
<1>4. RowsInv'
  BY <1>1, <1>2 DEF DeletionInv, RowsInv
<1> QED
  BY <1>3, <1>4 DEF DeletionInv

\* Rows that are only cancelled stay as distinct as they were.
LEMMA RowsCancelled ==
  ASSUME RowsInv, rows' \in Seq(DeletionRow), Len(rows') = Len(rows), Asked \subseteq Asked',
         \A i \in 1..Len(rows) : rows'[i].by = rows[i].by
                                 /\ (rows'[i].status = "PENDING" => rows[i].status = "PENDING"),
         \A c \in Calls : LiveCall(deletionCalls'[c]) => LiveCall(deletionCalls[c])
         /\ deletionCalls'[c].asks = deletionCalls[c].asks
  PROVE  RowsInv'
  BY DEF RowsInv

\* Every step keeps the invariant.
LEMMA DeletionSteady == ASSUME DeletionInv, [Deletion!Next]_(Deletion!vars) PROVE DeletionInv'
<1> USE DEF DeletionInv
<1>1. \A c \in Calls : deletionCalls[c] \in DeletionCall
  BY DEF CallsInv
<1>2. Len(rows) \in Nat /\ DOMAIN rows = 1..Len(rows) /\ \A i \in 1..Len(rows) : rows[i] \in DeletionRow
  <2>1. rows \in Seq(DeletionRow)
    BY DEF RowsInv
  <2> QED
    BY <2>1, LenProperties, ElementOfSeq
<1>3. ASSUME deletionPresses' \in Nat, deletionPresses <= deletionPresses', UNCHANGED <<deletionActive, issued>>
      PROVE  CodesInv' /\ Asked \subseteq Asked'
  BY <1>3, AskedStays
<1>4. deletionPresses \in Nat
      /\ (UNCHANGED deletionPresses => deletionPresses' \in Nat /\ deletionPresses <= deletionPresses')
  BY DEF CodesInv
<1>5. ASSUME UNCHANGED deletionPresses, NEW i \in Identifiers,
              \/ deletionActive' = [deletionActive EXCEPT ![i] = 0] /\ UNCHANGED issued
              \/ issued' = issued + 1 /\ deletionActive' = [deletionActive EXCEPT ![i] = issued']
       PROVE  CodesInv' /\ Asked \subseteq Asked'
  <2>1. CodesInv /\ deletionPresses' \in Nat /\ deletionPresses <= deletionPresses'
    BY <1>4, <1>5
  <2> HIDE DEF DeletionInv
  <2> QED
    BY <1>5, <2>1, AskedStays
<1>6. ASSUME UNCHANGED <<Deletion!server, deletionCalls, deletionPresses>>, ScreenInv',
             identifier \in Identifiers => identifier' \in Identifiers
      PROVE  DeletionInv'
  <2>1. CodesInv' /\ Asked \subseteq Asked'
    BY <1>3, <1>4, <1>6 DEF Deletion!server
  <2>2. CallsInv'
    BY <1>6, <2>1 DEF CallsInv, Deletion!server
  <2>3. RowsInv'
    BY <1>6, <2>1 DEF RowsInv, Deletion!server
  <2> QED
    BY <1>6, <2>1, <2>2, <2>3
<1>7. CASE Deletion!Refetch \/ Deletion!LoseSession \/ Deletion!TypeConfirm \/ Deletion!ChangeIdentifier
  BY <1>6, <1>7 DEF Deletion!Refetch, Deletion!LoseSession, Deletion!TypeConfirm, Deletion!ChangeIdentifier,
     ScreenInv
<1>8. ASSUME NEW i \in Identifiers, Deletion!TypeIdentifier(i) PROVE DeletionInv'
  BY <1>6, <1>8 DEF Deletion!TypeIdentifier, ScreenInv
<1>9. ASSUME NEW k \in 0..issued, Deletion!TypeCode(k) PROVE DeletionInv'
  <2>1. k \in Nat
    BY DEF CodesInv
  <2> QED
    BY <1>6, <1>9, <2>1 DEF Deletion!TypeCode, ScreenInv
<1>10. ASSUME NEW does \in {"request", "cancel", "code", "submit"}, Deletion!Send(does),
             does = "code" => identifier \in Identifiers,
             does = "submit" => identifier \in Identifiers /\ deletionCode \in Nat
      PROVE  DeletionInv'
  <2>1. PICK c \in Calls :
          deletionCalls' = [deletionCalls EXCEPT ![c] = [by |-> "screen", does |-> does, asks |-> <<"press",
                                                                                                    deletionPresses>>,
                      to |-> identifier, code |-> IF does = "submit" THEN deletionCode ELSE 0, pc |-> "sent"]]
    BY <1>10 DEF Deletion!Send
  <2> DEFINE k == [by |-> "screen", does |-> does, asks |-> <<"press", deletionPresses>>,
                   to |-> identifier, code |-> IF does = "submit" THEN deletionCode ELSE 0, pc |-> "sent"]
  <2>2. k \in DeletionCall /\ k.does = does /\ k.to = identifier /\ k.pc = "sent"
        /\ k.asks = <<"press", deletionPresses>>
    BY <1>4, <1>10 DEF DeletionCall, Asking, ScreenInv
  <2>3. deletionCalls' = [deletionCalls EXCEPT ![c] = k]
    BY <2>1
  <2> HIDE DEF k
  <2>4. deletionPresses' = deletionPresses + 1
        /\ UNCHANGED <<rows, deletionActive, issued, identifier, deletionCode, deletionPhase>>
    BY <1>10 DEF Deletion!Send, Deletion!server
  <2>5. CodesInv' /\ Asked \subseteq Asked'
    BY <1>3, <1>4, <2>4
  <2>6. ScreenInv'
    BY <2>4 DEF ScreenInv
  <2>7. k.asks \notin Asked /\ k.asks \in Asked'
    <3>1. <<"press", deletionPresses>> \notin Asked
      BY <1>4 DEF Asked
    <3>2. <<"press", deletionPresses>> \in Asked'
      BY <1>4, <2>4 DEF Asked
    <3>3. (k.asks = <<"press", deletionPresses>>)
      BY <2>2
    <3> QED
      BY <1>4, <2>2, <2>4, <3>1 DEF Asked
  <2> QED
    BY <1>10, <2>2, <2>3, <2>4, <2>5, <2>6, <2>7, DeletionMoves
<1>11. CASE Deletion!RequestSignedInDeletion \/ Deletion!Cancel
  BY <1>10, <1>11 DEF Deletion!RequestSignedInDeletion, Deletion!Cancel
<1>12. CASE Deletion!SendPublicCode \/ Deletion!SubmitPublicDeletion
  BY <1>10, <1>12 DEF Deletion!SendPublicCode, Deletion!SubmitPublicDeletion, ScreenInv
<1>13. ASSUME NEW c \in Calls, NEW k \in DeletionCall, deletionCalls' = [deletionCalls EXCEPT ![c] = k],
              ~LiveCall(k) \/ (LiveCall(deletionCalls[c]) /\ k.asks = deletionCalls[c].asks),
              k.does = deletionCalls[c].does \/ k.does = "", k.to = deletionCalls[c].to,
              k.pc = "insert" => k.does \in {"request", "submit"},
              UNCHANGED <<rows, deletionActive, issued, deletionPresses, identifier>>, ScreenInv'
       PROVE  DeletionInv'
  <2>1. CodesInv' /\ Asked \subseteq Asked'
    <3>1. deletionPresses' \in Nat /\ deletionPresses <= deletionPresses' /\ UNCHANGED <<deletionActive, issued>>
      BY <1>4, <1>13
    <3> QED
      BY <1>3, <3>1
  <2> QED
    BY <1>13, <2>1, DeletionMoves DEF CallsInv
<1>14. ASSUME NEW c \in Calls, deletionCalls' = [deletionCalls EXCEPT ![c] = Deletion!Free],
              UNCHANGED <<rows, deletionActive, issued, deletionPresses, identifier>>, ScreenInv'
       PROVE  DeletionInv'
  <2>1. Deletion!Free \in DeletionCall /\ ~LiveCall(Deletion!Free) /\ Deletion!Free.does = ""
        /\ Deletion!Free.pc = "free"
    BY DEF Deletion!Free, DeletionCall, LiveCall
  <2>2. CodesInv' /\ Asked \subseteq Asked'
    BY <1>3, <1>4, <1>14
  <2> QED
    BY <1>14, <2>1, <2>2, DeletionMoves
<1>15. ASSUME NEW c \in Calls, Deletion!Answered(c, TRUE) \/ Deletion!Answered(c, FALSE) PROVE DeletionInv'
  <2>1. UNCHANGED <<rows, deletionActive, issued, deletionPresses, identifier>>
    BY <1>15 DEF Deletion!Answered, Deletion!server
  <2>2. ScreenInv'
    BY <1>15, <2>1 DEF Deletion!Answered, ScreenInv, CallsInv
  <2>3. CASE deletionCalls' = [deletionCalls EXCEPT ![c] = Deletion!Free]
    BY <1>14, <2>1, <2>2, <2>3
  <2>4. CASE deletionCalls' = [deletionCalls EXCEPT ![c] = [deletionCalls[c] EXCEPT !.by = "nobody"]]
    <3> DEFINE k == [deletionCalls[c] EXCEPT !.by = "nobody"]
    <3>1. k \in DeletionCall /\ k.does = deletionCalls[c].does /\ k.asks = deletionCalls[c].asks
          /\ k.to = deletionCalls[c].to /\ k.pc = deletionCalls[c].pc
      <4>1. deletionCalls[c] \in DeletionCall
        BY <1>1
      <4> QED
        BY <4>1 DEF DeletionCall
    <3>2. deletionCalls' = [deletionCalls EXCEPT ![c] = k]
      BY <2>4
    <3> HIDE DEF k
    <3>3. k.pc = "insert" => k.does \in {"request", "submit"}
      BY <3>1 DEF CallsInv
    <3>4. ~LiveCall(k) \/ (LiveCall(deletionCalls[c]) /\ k.asks = deletionCalls[c].asks)
      BY <3>1 DEF LiveCall
    <3> QED
      BY <1>13, <2>1, <2>2, <3>1, <3>2, <3>3, <3>4
  <2> QED
    BY <1>15, <2>3, <2>4 DEF Deletion!Answered
<1>16. ASSUME NEW c \in Calls, Deletion!Ended(c) PROVE DeletionInv'
  <2>1. UNCHANGED <<rows, deletionActive, issued, deletionPresses, identifier>> /\ deletionCalls' =
            [deletionCalls EXCEPT ![c] = Deletion!Free]
    BY <1>16 DEF Deletion!Ended, Deletion!server, Deletion!screen
  <2>2. ScreenInv'
    BY <1>16 DEF Deletion!Ended, Deletion!screen, ScreenInv
  <2> QED
    BY <1>14, <2>1, <2>2
<1>17. ASSUME NEW c \in Calls, NEW pc \in {"checked", "insert", "ok", "failed"}, Deletion!To(c, pc)
       PROVE  \E k \in DeletionCall :
                /\ deletionCalls' = [deletionCalls EXCEPT ![c] = k]
                /\ k.does = deletionCalls[c].does /\ k.asks = deletionCalls[c].asks /\ k.to = deletionCalls[c].to
                   /\ k.pc = pc
  <2> DEFINE k == [deletionCalls[c] EXCEPT !.pc = pc]
  <2>1. deletionCalls[c] \in DeletionCall
    BY <1>1
  <2>2. k \in DeletionCall /\ k.does = deletionCalls[c].does /\ k.asks = deletionCalls[c].asks
        /\ k.to = deletionCalls[c].to /\ k.pc = pc
    BY <2>1 DEF DeletionCall
  <2>3. deletionCalls' = [deletionCalls EXCEPT ![c] = k]
    BY <1>17 DEF Deletion!To
  <2> HIDE DEF k
  <2> QED
    BY <2>2, <2>3
<1>18. ASSUME NEW c \in Calls, NEW pc \in {"checked", "insert", "ok", "failed"}, Deletion!To(c, pc),
              pc = "insert" => LiveCall(deletionCalls[c]),
              UNCHANGED <<rows, deletionActive, issued, deletionPresses, identifier>>, ScreenInv'
       PROVE  DeletionInv'
  <2>1. PICK k \in DeletionCall :
          /\ deletionCalls' = [deletionCalls EXCEPT ![c] = k]
          /\ k.does = deletionCalls[c].does /\ k.asks = deletionCalls[c].asks /\ k.to = deletionCalls[c].to
             /\ k.pc = pc
    BY <1>17, <1>18
  <2>2. ~LiveCall(k) \/ (LiveCall(deletionCalls[c]) /\ k.asks = deletionCalls[c].asks)
    BY <1>18, <2>1 DEF LiveCall
  <2>3. k.pc = "insert" => k.does \in {"request", "submit"}
    BY <1>18, <2>1 DEF LiveCall
  <2> QED
    BY <1>13, <1>18, <2>1, <2>2, <2>3
<1>19. ASSUME NEW c \in Calls, Deletion!RequestOtp(c) PROVE DeletionInv'
  <2>1. UNCHANGED <<rows, deletionPresses, identifier>> /\ ScreenInv'
    BY <1>19 DEF Deletion!RequestOtp, Deletion!screen, ScreenInv
  <2>2. CASE deletionActive[deletionCalls[c].to] # 0 /\ Deletion!To(c, "failed")
        /\ UNCHANGED <<deletionActive, attempts, issued>>
    BY <1>18, <2>1, <2>2
  <2>3. CASE issued' = issued + 1 /\ deletionActive' = [deletionActive EXCEPT ![deletionCalls[c].to] = issued']
        /\ Deletion!To(c, "ok")
    <3>1. deletionCalls[c].to \in Identifiers /\ deletionCalls[c].does = "code"
      BY <1>19 DEF Deletion!RequestOtp, Deletion!At, CallsInv
    <3>2. CodesInv' /\ Asked \subseteq Asked'
      BY <1>5, <2>1, <2>3, <3>1
    <3>3. PICK k \in DeletionCall :
          /\ deletionCalls' = [deletionCalls EXCEPT ![c] = k]
          /\ k.does = deletionCalls[c].does /\ k.asks = deletionCalls[c].asks /\ k.to = deletionCalls[c].to
             /\ k.pc = "ok"
      BY <1>17, <2>3
    <3>4. ~LiveCall(k)
      BY <3>3 DEF LiveCall
    <3> QED
      BY <2>1, <3>1, <3>2, <3>3, <3>4, DeletionMoves DEF CallsInv
  <2> QED
    BY <1>19, <2>2, <2>3 DEF Deletion!RequestOtp
<1>20. ASSUME NEW i \in Identifiers, Deletion!Expire(i) PROVE DeletionInv'
  <2>1. UNCHANGED <<rows, deletionCalls, deletionPresses, identifier, issued>> /\ ScreenInv'
        /\ deletionActive' = [deletionActive EXCEPT ![i] = 0]
    BY <1>20 DEF Deletion!Expire, Deletion!screen, ScreenInv
  <2>2. CodesInv' /\ Asked \subseteq Asked'
    BY <1>5, <2>1
  <2>3. CallsInv'
    BY <2>1, <2>2 DEF CallsInv
  <2>4. RowsInv'
    BY <2>1, <2>2 DEF RowsInv
  <2> QED
    BY <2>1, <2>2, <2>3, <2>4
<1>21. ASSUME NEW c \in Calls, Deletion!CheckCode(c) \/ Deletion!FindRow(c) \/ Deletion!Dies(c) PROVE DeletionInv'
  <2>1. UNCHANGED <<rows, deletionActive, issued, deletionPresses, identifier>> /\ ScreenInv'
    BY <1>21 DEF Deletion!CheckCode, Deletion!FindRow, Deletion!Dies, Deletion!server, Deletion!screen, ScreenInv
  <2>2. PICK pc \in {"checked", "insert", "ok", "failed"} : Deletion!To(c, pc)
        /\ (pc = "insert" => LiveCall(deletionCalls[c]))
    BY <1>21 DEF Deletion!CheckCode, Deletion!FindRow, Deletion!Dies, Deletion!At, LiveCall
  <2> QED
    BY <1>18, <2>1, <2>2
<1>22. ASSUME NEW c \in Calls, Deletion!ConsumeCode(c) PROVE DeletionInv'
  <2>1. UNCHANGED <<rows, issued, deletionPresses, identifier>> /\ ScreenInv'
        /\ deletionCalls[c].to \in Identifiers /\ deletionCalls[c].does = "submit"
    BY <1>22 DEF Deletion!ConsumeCode, Deletion!screen, ScreenInv, Deletion!At, CallsInv
  <2>2. CASE Deletion!To(c, "failed") /\ UNCHANGED deletionActive
    BY <1>18, <2>1, <2>2
  <2>3. CASE /\ Deletion!Consumable(deletionCalls[c])
             /\ deletionActive' = [deletionActive EXCEPT ![deletionCalls[c].to] = IF @ = deletionCalls[c].code
                                   THEN 0 ELSE @]
             /\ deletionCalls' = [deletionCalls EXCEPT ![c].pc = "entitled", ![c].asks = <<"code",
                                                                                           deletionCalls[c].code>>]
    <3> DEFINE n == deletionCalls[c].code
               k == [deletionCalls[c] EXCEPT !.pc = "entitled", !.asks = <<"code", n>>]
    <3>1. deletionActive[deletionCalls[c].to] = n /\ n # 0
      BY <2>3 DEF Deletion!Consumable, Deletion!Usable
    <3>2. n \in Nat /\ 1 <= n /\ n <= issued
      BY <2>1, <3>1 DEF CodesInv
    <3>3. deletionActive' = [deletionActive EXCEPT ![deletionCalls[c].to] = 0]
      BY <2>3, <3>1
    <3>4. CodesInv' /\ Asked \subseteq Asked'
      BY <1>5, <2>1, <3>3
    <3>5. k \in DeletionCall /\ k.does = "submit" /\ k.to = deletionCalls[c].to /\ k.pc = "entitled"
          /\ k.asks = <<"code", n>>
      <4>1. deletionCalls[c] \in DeletionCall /\ <<"code", n>> \in Asking
        BY <1>1, <3>2 DEF Asking
      <4> HIDE DEF DeletionInv, n
      <4> QED
        BY <2>1, <4>1 DEF DeletionCall
    <3>6. deletionCalls' = [deletionCalls EXCEPT ![c] = k]
      BY <2>3
    <3>7. <<"code", n>> \notin Asked
      BY <2>1, <3>1 DEF Asked
    <3>8. \A j \in Identifiers : deletionActive'[j] # n
      BY <2>1, <3>1, <3>2, <3>3 DEF CodesInv
    <3> HIDE DEF k, n
    <3>9. k.asks \in Asked'
      BY <2>1, <3>2, <3>5, <3>8 DEF Asked
    <3>10. k.asks \notin Asked
      BY <3>5, <3>7
    <3> QED
      BY <2>1, <3>4, <3>5, <3>6, <3>9, <3>10, DeletionMoves
  <2> QED
    BY <1>22, <2>2, <2>3 DEF Deletion!ConsumeCode
<1>23. ASSUME NEW c \in Calls, Deletion!InsertRow(c) PROVE DeletionInv'
  <2>1. UNCHANGED <<deletionActive, issued, deletionPresses, identifier>> /\ ScreenInv'
        /\ LiveCall(deletionCalls[c])
    BY <1>23 DEF Deletion!InsertRow, Deletion!screen, ScreenInv, LiveCall, CallsInv
  <2>2. Deletion!To(c, "ok")
    BY <1>23 DEF Deletion!InsertRow
  <2>3. CASE Deletion!Pending # {}
    <3>1. UNCHANGED rows
      BY <1>23, <2>3 DEF Deletion!InsertRow
    <3> QED
      BY <1>18, <2>1, <2>2, <3>1
  <2>4. CASE Deletion!Pending = {}
    <3> DEFINE r == [by |-> deletionCalls[c].asks, status |-> "PENDING"]
    <3>1. r \in DeletionRow /\ r.by = deletionCalls[c].asks
      <4>1. deletionCalls[c].asks \in Asking
        BY <2>1 DEF CallsInv, Asked, Asking
      <4> QED
        BY <4>1 DEF DeletionRow
    <3>2. rows' = Append(rows, r)
      BY <1>23, <2>4 DEF Deletion!InsertRow
    <3> HIDE DEF r
    <3>3. rows \in Seq(DeletionRow)
      BY DEF RowsInv
    <3>4. /\ rows' \in Seq(DeletionRow) /\ Len(rows') = Len(rows) + 1
          /\ rows'[Len(rows) + 1] = r /\ \A j \in 1..Len(rows) : rows'[j] = rows[j]
      BY <3>1, <3>2, <3>3, AppendProperties
    <3>5. \A j \in 1..Len(rows) : rows[j].status # "PENDING" /\ rows[j].by # r.by
      BY <1>2, <2>1, <2>4, <3>1 DEF Deletion!Pending, RowsInv
    <3>6. PICK k \in DeletionCall :
          /\ deletionCalls' = [deletionCalls EXCEPT ![c] = k]
          /\ k.does = deletionCalls[c].does /\ k.asks = deletionCalls[c].asks /\ k.to = deletionCalls[c].to
             /\ k.pc = "ok"
      BY <1>17, <2>2
    <3>7. deletionCalls' \in [Calls -> DeletionCall]
          /\ \A d \in Calls : deletionCalls'[d] = IF d = c THEN k ELSE deletionCalls[d]
      BY <3>6 DEF CallsInv
    <3>8. ~LiveCall(k)
      BY <3>6 DEF LiveCall
    <3>9. CodesInv' /\ Asked \subseteq Asked'
      BY <1>3, <1>4, <2>1
    <3>10. CallsInv'
      BY <2>1, <3>6, <3>7, <3>8, <3>9 DEF CallsInv
    <3>11. r.by \in Asked
      BY <2>1, <3>1 DEF CallsInv
    <3>12. \A d \in Calls : LiveCall(deletionCalls'[d]) => LiveCall(deletionCalls[d])
           /\ deletionCalls'[d].asks = deletionCalls[d].asks /\ deletionCalls[d].asks # r.by
      BY <2>1, <3>1, <3>7, <3>8 DEF CallsInv
    <3>13. RowsInv'
      <4>1. \A j \in 1..Len(rows') : j = Len(rows) + 1 \/ j \in 1..Len(rows)
        BY <1>2, <3>4
      <4> QED
        BY <3>4, <3>5, <3>9, <3>11, <3>12, <4>1 DEF RowsInv
    <3> QED
      BY <2>1, <3>9, <3>10, <3>13
  <2> QED
    BY <2>3, <2>4
<1>24. ASSUME NEW r \in DeletionRow
       PROVE  LET s == [r EXCEPT !.status = "CANCELLED"] IN s \in DeletionRow /\ s.by = r.by
              /\ s.status = "CANCELLED"
  BY DEF DeletionRow
<1>25. ASSUME NEW c \in Calls, Deletion!CancelRow(c) PROVE DeletionInv'
  <2>1. UNCHANGED <<deletionActive, issued, deletionPresses, identifier>> /\ ScreenInv'
    BY <1>25 DEF Deletion!CancelRow, Deletion!screen, ScreenInv
  <2>2. CASE Deletion!To(c, "failed") /\ UNCHANGED rows
    BY <1>18, <2>1, <2>2
  <2>3. CASE /\ Deletion!To(c, "ok")
             /\ rows' = [i \in DOMAIN rows |-> IF i \in Deletion!Pending THEN [rows[i] EXCEPT !.status =
                                                                               "CANCELLED"]
                                                             ELSE rows[i]]
    <3>1. PICK k \in DeletionCall :
          /\ deletionCalls' = [deletionCalls EXCEPT ![c] = k]
          /\ k.does = deletionCalls[c].does /\ k.asks = deletionCalls[c].asks /\ k.to = deletionCalls[c].to
             /\ k.pc = "ok"
      BY <1>17, <2>3
    <3>2. deletionCalls' \in [Calls -> DeletionCall]
          /\ \A d \in Calls : deletionCalls'[d] = IF d = c THEN k ELSE deletionCalls[d]
      BY <3>1 DEF CallsInv
    <3>3. ~LiveCall(k)
      BY <3>1 DEF LiveCall
    <3>4. CodesInv' /\ Asked \subseteq Asked'
      BY <1>3, <1>4, <2>1
    <3>5. CallsInv'
      BY <2>1, <3>1, <3>2, <3>3, <3>4 DEF CallsInv
    <3>6. \A i \in 1..Len(rows) : rows'[i] = IF i \in Deletion!Pending THEN [rows[i] EXCEPT !.status =
                                                                             "CANCELLED"] ELSE rows[i]
      BY <1>2, <2>3
    <3>7. \A i \in 1..Len(rows) : /\ rows'[i] \in DeletionRow /\ rows'[i].by = rows[i].by
                                  /\ rows'[i].status = "PENDING" => rows[i].status = "PENDING"
      BY <1>2, <1>24, <3>6
    <3>8. rows' \in Seq(DeletionRow) /\ Len(rows') = Len(rows)
      <4>1. rows' \in [1..Len(rows) -> DeletionRow]
        BY <1>2, <2>3, <3>7
      <4> QED
        BY <1>2, <4>1, SeqDef, LenProperties
    <3>9. RowsInv'
      BY <3>2, <3>3, <3>4, <3>7, <3>8, RowsCancelled
    <3> QED
      BY <2>1, <3>4, <3>5, <3>9
  <2> QED
    BY <1>25, <2>2, <2>3 DEF Deletion!CancelRow
<1>26. CASE Deletion!CancelElsewhere
  <2>1. UNCHANGED <<deletionActive, issued, deletionCalls, identifier>> /\ deletionPresses' = deletionPresses + 1
        /\ ScreenInv'
    BY <1>26 DEF Deletion!CancelElsewhere, Deletion!screen, ScreenInv
  <2>2. CodesInv' /\ Asked \subseteq Asked'
    BY <1>3, <1>4, <2>1
  <2>3. CallsInv'
    BY <2>1, <2>2 DEF CallsInv
  <2>4. \A i \in 1..Len(rows) : rows'[i] = [rows[i] EXCEPT !.status = "CANCELLED"]
    BY <1>2, <1>26 DEF Deletion!CancelElsewhere
  <2>5. \A i \in 1..Len(rows) : /\ rows'[i] \in DeletionRow /\ rows'[i].by = rows[i].by
                                /\ rows'[i].status = "PENDING" => rows[i].status = "PENDING"
    BY <1>2, <1>24, <2>4
  <2>6. rows' \in Seq(DeletionRow) /\ Len(rows') = Len(rows)
    <3>1. rows' \in [1..Len(rows) -> DeletionRow]
      BY <1>2, <1>26, <2>5 DEF Deletion!CancelElsewhere
    <3> QED
      BY <1>2, <3>1, SeqDef, LenProperties
  <2>7. RowsInv'
    BY <2>1, <2>2, <2>5, <2>6, RowsCancelled
  <2> QED
    BY <2>1, <2>2, <2>3, <2>7
<1>27. CASE UNCHANGED Deletion!vars
  BY <1>6, <1>27 DEF Deletion!vars, Deletion!server, Deletion!screen, ScreenInv
<1> QED
  BY <1>7, <1>8, <1>9, <1>11, <1>12, <1>15, <1>16, <1>19, <1>20, <1>21, <1>22, <1>23, <1>25, <1>26,
     <1>27 DEF Deletion!Next

\* Two rows differ in what asked for them, and are not both pending.
LEMMA DeletionAsAsked == DeletionInv => Deletion!RecordedAsAsked
<1> SUFFICES ASSUME DeletionInv, NEW i \in DOMAIN rows, NEW j \in DOMAIN rows, i # j
             PROVE  rows[i].by # rows[j].by /\ {rows[i].status, rows[j].status} # {"PENDING"}
  BY DEF Deletion!RecordedAsAsked
<1>1. i \in 1..Len(rows) /\ j \in 1..Len(rows)
  BY LenProperties DEF DeletionInv, RowsInv
<1> QED
  BY <1>1 DEF DeletionInv, RowsInv

-----------------------------------------------------------------------------
(* PlanCheckout: each entitlement of an order is the one it names, or that *)
(* of a handler that has not marked it; a code is counted when its handler *)
(* ends.                                                                   *)

Bought == {o \in PlanOrders : planOrder[o].status = "PAID"}
Holders == {h \in Calls : planHandlers[h].pc = "granted"}
ToCount == {h \in Calls : planHandlers[h].pc = "paid"}
Discounted == {o \in PlanOrders : planOrder[o].status = "PAID" /\ planOrder[o].code # None}

OrdersInv ==
  /\ planOrder = [o \in PlanOrders |-> planOrder[o]] /\ planEvents = [o \in PlanOrders |-> planEvents[o]]
  /\ \A o \in PlanOrders :
       /\ planOrder[o] = [status |-> planOrder[o].status, plant |-> planOrder[o].plant,
                          code |-> planOrder[o].code, activation |-> planOrder[o].activation]
       /\ planEvents[o] # {} => planOrder[o].status # "NONE"

HandlersInv ==
  /\ planHandlers = [h \in Calls |-> planHandlers[h]]
  /\ \A h \in Calls :
       /\ planHandlers[h] = [of |-> planHandlers[h].of, plant |-> planHandlers[h].plant, pc |-> planHandlers[h].pc,
                             made |-> planHandlers[h].made, seen |-> planHandlers[h].seen]
       /\ planHandlers[h].of \in PlanOrders \cup {None}
       /\ planHandlers[h].pc \in {"granted", "paid"} => planHandlers[h].of \in PlanOrders
       /\ planHandlers[h].of \in PlanOrders => /\ planOrder[planHandlers[h].of].status # "NONE"
                                               /\ planHandlers[h].seen.code = planOrder[planHandlers[h].of].code

GrantsInv ==
  /\ planGrants = [g \in Grants |-> planGrants[g]]
  /\ \A g \in Grants :
       /\ planGrants[g] = [of |-> planGrants[g].of, plant |-> planGrants[g].plant, status |-> planGrants[g].status]
       /\ planGrants[g].of \in PlanOrders =>
            \/ planGrants[g].of \in Bought /\ g = planOrder[planGrants[g].of].activation
            \/ \E h \in Calls : h \in Holders /\ planHandlers[h].made = g
  /\ \A h \in Calls : h \in Holders =>
       /\ planHandlers[h].made \in Grants /\ planGrants[planHandlers[h].made].of = planHandlers[h].of
       /\ \A k \in Calls : k \in Holders /\ planHandlers[k].made = planHandlers[h].made => k = h
  /\ \A o \in PlanOrders : o \in Bought =>
       /\ planOrder[o].activation \in Grants /\ planGrants[planOrder[o].activation].of = o
       /\ \A h \in Calls : h \in Holders => planHandlers[h].made # planOrder[o].activation

UsesInv == planUses \in Nat /\ planUses + Cardinality(ToCount) = Cardinality(Discounted)

PlanInv == OrdersInv /\ HandlersInv /\ (~planDied => GrantsInv /\ UsesInv)

\* Nothing is bought and nobody works.
LEMMA PlanStarts == ASSUME None \notin PlanOrders, Plan!Init PROVE PlanInv
<1>1. OrdersInv
  BY DEF Plan!Init, OrdersInv, Plan!NoOrder
<1>2. HandlersInv
  BY DEF Plan!Init, HandlersInv, Plan!Idle
<1>3. GrantsInv
  BY DEF Plan!Init, GrantsInv, Plan!NoGrant, Plan!NoOrder, Plan!Idle, Bought, Holders
<1>4. ToCount = {} /\ Discounted = {}
  BY DEF Plan!Init, ToCount, Discounted, Plan!Idle, Plan!NoOrder
<1>5. UsesInv
  BY <1>4, FS_EmptySet DEF Plan!Init, UsesInv
<1> QED
  BY <1>1, <1>2, <1>3, <1>5 DEF PlanInv

\* Only a screen changes.
LEMMA PlanServerStays ==
  ASSUME PlanInv, UNCHANGED Plan!server PROVE PlanInv'
<1>1. OrdersInv' /\ HandlersInv'
  BY DEF PlanInv, OrdersInv, HandlersInv, Plan!server
<1>2. GrantsInv => GrantsInv'
  BY DEF GrantsInv, Plan!server, Bought, Holders
<1>3. UsesInv => UsesInv'
  BY DEF UsesInv, Plan!server, ToCount, Discounted
<1> QED
  BY <1>1, <1>2, <1>3 DEF PlanInv, Plan!server

\* Orders that keep whether they are bought, for what and with which code.
LEMMA PlanOrdersMove ==
  ASSUME PlanInv, UNCHANGED <<planGrants, planUses, planHandlers, planDied>>, OrdersInv',
         \A o \in PlanOrders : /\ o \in Bought <=> o \in Bought'
                               /\ o \in Bought => planOrder'[o] = planOrder[o]
                               /\ planOrder[o].status # "NONE" => planOrder'[o].status # "NONE"
                                  /\ planOrder'[o].code = planOrder[o].code
  PROVE  PlanInv'
<1>1. HandlersInv'
  BY DEF PlanInv, HandlersInv
<1>2. ASSUME GrantsInv PROVE GrantsInv'
  BY <1>2 DEF GrantsInv, Holders, Bought
<1>3. ToCount' = ToCount /\ Discounted' = Discounted
  BY DEF ToCount, Discounted, Bought
<1>4. UsesInv => UsesInv'
  BY <1>3 DEF UsesInv
<1> QED
  BY <1>1, <1>2, <1>4 DEF PlanInv

\* Only what happened at the gateway changes.
LEMMA PlanEventsMove ==
  ASSUME PlanInv, UNCHANGED <<planOrder, planGrants, planUses, planHandlers, planDied>>,
         planEvents' = [o \in PlanOrders |-> planEvents'[o]], \A o \in PlanOrders : planEvents'[o] # {} =>
           planEvents[o] # {}
  PROVE  PlanInv'
<1>1. OrdersInv'
  BY DEF PlanInv, OrdersInv
<1>2. \A o \in PlanOrders : /\ o \in Bought <=> o \in Bought'
                            /\ o \in Bought => planOrder'[o] = planOrder[o]
                            /\ planOrder[o].status # "NONE" => planOrder'[o].status # "NONE"
                               /\ planOrder'[o].code = planOrder[o].code
  BY DEF Bought
<1> QED
  BY <1>1, <1>2, PlanOrdersMove

\* A handler starts, moves on or ends, and neither grants nor marks.
LEMMA PlanHandlerMoves ==
  ASSUME PlanInv, UNCHANGED <<planOrder, planEvents, planUses, planDied>>, NEW h \in Calls, NEW k,
         Plan!Hooked(h, k),
         k = [of |-> k.of, plant |-> k.plant, pc |-> k.pc, made |-> k.made, seen |-> k.seen],
         k.of \in PlanOrders \cup {None}, k.pc \notin {"granted", "paid"}, planHandlers[h].pc \notin {"granted",
                                                                                                      "paid"},
         k.of \in PlanOrders => planOrder[k.of].status # "NONE" /\ k.seen.code = planOrder[k.of].code,
         GrantsInv => /\ planGrants' = [g \in Grants |-> planGrants'[g]]
                      /\ \A g \in Grants :
                           planGrants'[g] = [of |-> planGrants[g].of, plant |-> planGrants'[g].plant,
                                             status |-> planGrants'[g].status]
  PROVE  PlanInv'
<1>1. planHandlers' = [j \in Calls |-> planHandlers'[j]]
      /\ \A j \in Calls : planHandlers'[j] = IF j = h THEN k ELSE planHandlers[j]
  BY DEF Plan!Hooked, PlanInv, HandlersInv
<1>2. OrdersInv'
  BY DEF PlanInv, OrdersInv
<1>3. HandlersInv'
  BY <1>1 DEF PlanInv, HandlersInv
<1>4. ASSUME GrantsInv PROVE GrantsInv'
  <2>1. \A j \in Calls : /\ j \in Holders <=> j \in Holders'
                         /\ j \in Holders => planHandlers'[j] = planHandlers[j]
    BY <1>1 DEF Holders
  <2>2. planGrants' = [g \in Grants |-> planGrants'[g]] /\ \A g \in Grants : planGrants'[g].of = planGrants[g].of
                          /\ planGrants'[g] = [of |-> planGrants'[g].of, plant |-> planGrants'[g].plant,
                                               status |-> planGrants'[g].status]
    BY <1>4
  <2>3. \A o \in PlanOrders : o \in Bought <=> o \in Bought'
    BY DEF Bought
  <2>4. \A g \in Grants : planGrants'[g].of \in PlanOrders =>
          \/ planGrants'[g].of \in Bought' /\ g = planOrder'[planGrants'[g].of].activation
          \/ \E j \in Calls : j \in Holders' /\ planHandlers'[j].made = g
    <3> SUFFICES ASSUME NEW g \in Grants, planGrants[g].of \in PlanOrders
                 PROVE  \/ planGrants[g].of \in Bought' /\ g = planOrder[planGrants[g].of].activation
                        \/ \E j \in Calls : j \in Holders' /\ planHandlers'[j].made = g
      BY <2>2
    <3>1. \/ planGrants[g].of \in Bought /\ g = planOrder[planGrants[g].of].activation
          \/ \E j \in Calls : j \in Holders /\ planHandlers[j].made = g
      BY <1>4 DEF GrantsInv
    <3> QED
      BY <2>1, <2>3, <3>1
  <2>5. \A j \in Calls : j \in Holders' =>
       /\ planHandlers'[j].made \in Grants /\ planGrants'[planHandlers'[j].made].of = planHandlers'[j].of
       /\ \A i \in Calls : i \in Holders' /\ planHandlers'[i].made = planHandlers'[j].made => i = j
    BY <1>4, <2>1, <2>2 DEF GrantsInv
  <2>6. \A o \in PlanOrders : o \in Bought' =>
       /\ planOrder'[o].activation \in Grants /\ planGrants'[planOrder'[o].activation].of = o
       /\ \A j \in Calls : j \in Holders' => planHandlers'[j].made # planOrder'[o].activation
    BY <1>4, <2>1, <2>2, <2>3 DEF GrantsInv
  <2> QED
    BY <2>2, <2>4, <2>5, <2>6 DEF GrantsInv
<1>5. ToCount' = ToCount /\ Discounted' = Discounted
  BY <1>1 DEF ToCount, Discounted
<1>6. UsesInv => UsesInv'
  BY <1>5 DEF UsesInv
<1> QED
  BY <1>2, <1>3, <1>4, <1>6 DEF PlanInv

\* A handler's request at the state it has reached.
LEMMA PlanAt ==
  ASSUME PlanInv, NEW h \in Calls, NEW pc
  PROVE  LET k == [planHandlers[h] EXCEPT !.pc = pc] IN
         /\ k = [of |-> k.of, plant |-> k.plant, pc |-> k.pc, made |-> k.made, seen |-> k.seen]
         /\ k.pc = pc /\ k.of = planHandlers[h].of /\ k.made = planHandlers[h].made /\ k.seen = planHandlers[h].seen
         /\ k.of \in PlanOrders \cup {None}
         /\ k.of \in PlanOrders => planOrder[k.of].status # "NONE" /\ k.seen.code = planOrder[k.of].code
<1>1. planHandlers[h] = [of |-> planHandlers[h].of, plant |-> planHandlers[h].plant, pc |-> planHandlers[h].pc,
                         made |-> planHandlers[h].made, seen |-> planHandlers[h].seen]
  BY DEF PlanInv, HandlersInv
<1>2. planHandlers[h].of \in PlanOrders \cup {None}
      /\ (planHandlers[h].of \in PlanOrders => /\ planOrder[planHandlers[h].of].status # "NONE"
                                               /\ planHandlers[h].seen.code = planOrder[planHandlers[h].of].code)
  BY DEF PlanInv, HandlersInv
<1> DEFINE k == [planHandlers[h] EXCEPT !.pc = pc]
<1>3. /\ k = [of |-> k.of, plant |-> k.plant, pc |-> k.pc, made |-> k.made, seen |-> k.seen]
      /\ k.pc = pc /\ k.of = planHandlers[h].of /\ k.made = planHandlers[h].made /\ k.seen = planHandlers[h].seen
  BY <1>1
<1> HIDE DEF k
<1>4. /\ k.of \in PlanOrders \cup {None}
      /\ k.of \in PlanOrders => planOrder[k.of].status # "NONE" /\ k.seen.code = planOrder[k.of].code
  BY <1>2, <1>3
<1> QED
  BY <1>3, <1>4 DEF k

\* The entitlement is inserted: the order's new one, or one of no order.
LEMMA PlanInserts == ASSUME None \notin PlanOrders, PlanInv, NEW h \in Calls, Plan!InsertGrant(h) PROVE PlanInv'
<1>1. PICK g \in Grants :
        /\ planGrants[g] = Plan!NoGrant
        /\ planGrants' = [planGrants EXCEPT ![g] = [of |-> planHandlers[h].of, plant |-> planHandlers[h].plant,
                                                    status |-> "ACTIVE"]]
        /\ Plan!Hooked(h, IF planHandlers[h].of = None THEN Plan!Idle ELSE [planHandlers[h] EXCEPT !.pc =
                                                                            "granted", !.made = g])
  BY DEF Plan!InsertGrant
<1>2. UNCHANGED <<planOrder, planEvents, planUses, planDied>> /\ planHandlers[h].pc = "superseded"
  BY DEF Plan!InsertGrant, Plan!Screens
<1>3. OrdersInv'
  BY <1>2 DEF PlanInv, OrdersInv
<1>4. PICK k : k = IF planHandlers[h].of = None THEN Plan!Idle ELSE [planHandlers[h] EXCEPT !.pc = "granted",
                                                                     !.made = g]
  OBVIOUS
<1>5. planHandlers' = [j \in Calls |-> planHandlers'[j]]
      /\ \A j \in Calls : planHandlers'[j] = IF j = h THEN k ELSE planHandlers[j]
  BY <1>1, <1>4 DEF Plan!Hooked, PlanInv, HandlersInv
<1>6. /\ k = [of |-> k.of, plant |-> k.plant, pc |-> k.pc, made |-> k.made, seen |-> k.seen]
      /\ k.pc # "paid" /\ k.of = planHandlers[h].of
         /\ (k.of \in PlanOrders => k.seen = planHandlers[h].seen /\ k.pc = "granted" /\ k.made = g)
      /\ (k.of \notin PlanOrders => k.pc = "idle")
  <2>1. planHandlers[h] = [of |-> planHandlers[h].of, plant |-> planHandlers[h].plant, pc |-> planHandlers[h].pc,
                           made |-> planHandlers[h].made, seen |-> planHandlers[h].seen]
        /\ planHandlers[h].of \in PlanOrders \cup {None}
    BY DEF PlanInv, HandlersInv
  <2>2. CASE planHandlers[h].of = None
    BY <1>4, <2>1, <2>2 DEF Plan!Idle
  <2>3. CASE planHandlers[h].of # None
    BY <1>4, <2>1, <2>3
  <2> QED
    BY <2>2, <2>3
<1>7. HandlersInv'
  <2>1. /\ planHandlers[h].of \in PlanOrders \cup {None}
        /\ planHandlers[h].of \in PlanOrders => /\ planOrder[planHandlers[h].of].status # "NONE"
                                                /\ planHandlers[h].seen.code = planOrder[planHandlers[h].of].code
    BY DEF PlanInv, HandlersInv
  <2> QED
    BY <1>2, <1>5, <1>6, <2>1 DEF PlanInv, HandlersInv
<1>8. ASSUME GrantsInv PROVE GrantsInv'
  <2>1. /\ planGrants' = [f \in Grants |-> planGrants'[f]]
        /\ \A f \in Grants : f # g => planGrants'[f] = planGrants[f]
        /\ planGrants'[g] = [of |-> k.of, plant |-> planGrants'[g].plant, status |-> planGrants'[g].status]
        /\ planGrants'[g].of = k.of
    BY <1>1, <1>6, <1>8 DEF GrantsInv
  <2>2. \A j \in Calls : /\ j # h => planHandlers'[j] = planHandlers[j] /\ (j \in Holders <=> j \in Holders')
                         /\ j = h => planHandlers'[j] = k /\ (j \in Holders' <=> k.of \in PlanOrders)
                            /\ j \notin Holders
    BY <1>2, <1>5, <1>6 DEF Holders
  <2>3. \A o \in PlanOrders : o \in Bought <=> o \in Bought'
    BY <1>2 DEF Bought
  <2>4. planGrants[g].of \notin PlanOrders
    BY <1>1 DEF Plan!NoGrant
  <2>5. \A j \in Calls : j \in Holders => planHandlers[j].made # g
    BY <1>8, <2>4 DEF GrantsInv, HandlersInv, PlanInv, Holders
  <2>6. \A o \in PlanOrders : o \in Bought => planOrder[o].activation # g
    BY <1>8, <2>4 DEF GrantsInv
  <2>7. \A f \in Grants :
         /\ planGrants'[f] = [of |-> planGrants'[f].of, plant |-> planGrants'[f].plant,
                              status |-> planGrants'[f].status]
         /\ planGrants'[f].of \in PlanOrders =>
            \/ planGrants'[f].of \in Bought' /\ f = planOrder'[planGrants'[f].of].activation
            \/ \E j \in Calls : j \in Holders' /\ planHandlers'[j].made = f
    <3> SUFFICES ASSUME NEW f \in Grants
                 PROVE  /\ planGrants'[f] = [of |-> planGrants'[f].of, plant |-> planGrants'[f].plant,
                                             status |-> planGrants'[f].status]
                        /\ planGrants'[f].of \in PlanOrders =>
                             \/ planGrants'[f].of \in Bought' /\ f = planOrder'[planGrants'[f].of].activation
                             \/ \E j \in Calls : j \in Holders' /\ planHandlers'[j].made = f
      OBVIOUS
    <3>1. CASE f = g
      BY <1>6, <2>1, <2>2, <3>1
    <3>2. CASE f # g
      BY <1>2, <2>1, <1>8, <2>2, <2>3, <3>2 DEF GrantsInv
    <3> QED
      BY <3>1, <3>2
  <2>8. \A j \in Calls : j \in Holders' =>
       /\ planHandlers'[j].made \in Grants /\ planGrants'[planHandlers'[j].made].of = planHandlers'[j].of
       /\ \A i \in Calls : i \in Holders' /\ planHandlers'[i].made = planHandlers'[j].made => i = j
    BY <1>6, <2>1, <1>8, <2>2, <2>5 DEF GrantsInv
  <2>9. \A o \in PlanOrders : o \in Bought' =>
       /\ planOrder'[o].activation \in Grants /\ planGrants'[planOrder'[o].activation].of = o
       /\ \A j \in Calls : j \in Holders' => planHandlers'[j].made # planOrder'[o].activation
    BY <1>2, <1>6, <2>1, <1>8, <2>2, <2>3, <2>6 DEF GrantsInv
  <2> QED
    BY <2>1, <2>7, <2>8, <2>9 DEF GrantsInv
<1>9. ToCount' = ToCount /\ Discounted' = Discounted
  BY <1>2, <1>5, <1>6 DEF ToCount, Discounted
<1>10. UsesInv => UsesInv'
  BY <1>2, <1>9 DEF UsesInv
<1> QED
  BY <1>2, <1>3, <1>7, <1>8, <1>10 DEF PlanInv

\* The order is marked paid with the entitlement of this handler, or the
\* entitlement is taken back.
LEMMA PlanMarks ==
  ASSUME IsFiniteSet(Calls), IsFiniteSet(PlanOrders), None \notin PlanOrders, PlanInv, NEW h \in Calls,
         Plan!MarkPaid(h)
  PROVE  PlanInv'
<1> DEFINE o == planHandlers[h].of
           made == planHandlers[h].made
<1>1. planHandlers[h].pc = "granted" /\ UNCHANGED <<planEvents, planUses, planDied>> /\ h \in Holders
      /\ o \in PlanOrders
      /\ planOrder[o].status # "NONE" /\ planHandlers[h].seen.code = planOrder[o].code
  BY DEF Plan!MarkPaid, Plan!Screens, Holders, PlanInv, HandlersInv
<1>2. ASSUME NEW k, Plan!Hooked(h, k)
      PROVE  planHandlers' = [j \in Calls |-> planHandlers'[j]]
             /\ \A j \in Calls : planHandlers'[j] = IF j = h THEN k ELSE planHandlers[j]
  BY <1>2 DEF Plan!Hooked, PlanInv, HandlersInv
<1>3. CASE planOrder[o].status = "PAID"
  <2>1. Plan!Hooked(h, Plan!Idle) /\ planGrants' = [planGrants EXCEPT ![made] = Plan!NoGrant] /\ UNCHANGED planOrder
    BY <1>3 DEF Plan!MarkPaid, Plan!TakeBack
  <2>2. /\ planHandlers' = [j \in Calls |-> planHandlers'[j]]
        /\ \A j \in Calls : planHandlers'[j] = IF j = h THEN Plan!Idle ELSE planHandlers[j]
    BY <1>2, <2>1
  <2>3. OrdersInv'
    BY <1>1, <2>1 DEF PlanInv, OrdersInv
  <2>4. HandlersInv'
    BY <2>1, <2>2 DEF PlanInv, HandlersInv, Plan!Idle
  <2>5. ASSUME GrantsInv PROVE GrantsInv'
    <3>1. made \in Grants
      BY <1>1, <2>5 DEF GrantsInv
    <3>2. planGrants' = [g \in Grants |-> planGrants'[g]]
          /\ \A g \in Grants : planGrants'[g] = IF g = made THEN Plan!NoGrant ELSE planGrants[g]
      BY <2>1, <2>5 DEF GrantsInv
    <3>3. Bought' = Bought
      BY <2>1 DEF Bought
    <3>4. \A j \in Calls : j \in Holders' <=> j \in Holders /\ j # h
      BY <2>2 DEF Holders, Plan!Idle
    <3>5. Plan!NoGrant.of = None
          /\ Plan!NoGrant = [of |-> Plan!NoGrant.of, plant |-> Plan!NoGrant.plant, status |-> Plan!NoGrant.status]
      BY DEF Plan!NoGrant
    <3>6. \A g \in Grants :
           /\ planGrants'[g] = [of |-> planGrants'[g].of, plant |-> planGrants'[g].plant,
                                status |-> planGrants'[g].status]
           /\ planGrants'[g].of \in PlanOrders =>
              \/ planGrants'[g].of \in Bought' /\ g = planOrder'[planGrants'[g].of].activation
              \/ \E j \in Calls : j \in Holders' /\ planHandlers'[j].made = g
      BY <2>1, <2>2, <2>5, <3>2, <3>3, <3>4, <3>5 DEF GrantsInv
    <3>7. \A j \in Calls : j \in Holders' =>
         /\ planHandlers'[j].made \in Grants /\ planGrants'[planHandlers'[j].made].of = planHandlers'[j].of
         /\ \A i \in Calls : i \in Holders' /\ planHandlers'[i].made = planHandlers'[j].made => i = j
      BY <1>1, <2>2, <2>5, <3>2, <3>4 DEF GrantsInv
    <3>8. \A p \in PlanOrders : p \in Bought' =>
         /\ planOrder'[p].activation \in Grants /\ planGrants'[planOrder'[p].activation].of = p
         /\ \A j \in Calls : j \in Holders' => planHandlers'[j].made # planOrder'[p].activation
      BY <1>1, <2>1, <2>2, <2>5, <3>2, <3>3, <3>4 DEF GrantsInv
    <3> QED
      BY <3>2, <3>6, <3>7, <3>8 DEF GrantsInv
  <2>6. ToCount' = ToCount /\ Discounted' = Discounted
    BY <1>1, <2>1, <2>2 DEF ToCount, Discounted, Plan!Idle
  <2>7. UsesInv => UsesInv'
    BY <1>1, <2>6 DEF UsesInv
  <2> QED
    BY <1>1, <2>3, <2>4, <2>5, <2>7 DEF PlanInv
<1>4. CASE planOrder[o].status # "PAID"
  <2>1. PICK k : k = IF planHandlers[h].seen.code = None THEN Plan!Idle ELSE [planHandlers[h] EXCEPT !.pc = "paid"]
    OBVIOUS
  <2>2. /\ planOrder' = [planOrder EXCEPT ![o].status = "PAID", ![o].activation = made]
        /\ Plan!Hooked(h, k) /\ UNCHANGED planGrants
    BY <1>4, <2>1 DEF Plan!MarkPaid
  <2>3. /\ planHandlers' = [j \in Calls |-> planHandlers'[j]]
        /\ \A j \in Calls : planHandlers'[j] = IF j = h THEN k ELSE planHandlers[j]
    BY <1>2, <2>2
  <2>4. /\ k = [of |-> k.of, plant |-> k.plant, pc |-> k.pc, made |-> k.made, seen |-> k.seen]
        /\ IF planOrder[o].code = None THEN k.pc = "idle" /\ k.of = None
           ELSE k.pc = "paid" /\ k.of = o /\ k.seen = planHandlers[h].seen
    <3>1. CASE planOrder[o].code = None
      BY <1>1, <2>1, <3>1 DEF Plan!Idle
    <3>2. CASE planOrder[o].code # None
      <4>1. k = [planHandlers[h] EXCEPT !.pc = "paid"]
        BY <1>1, <2>1, <3>2
      <4> QED
        BY <3>2, <4>1, PlanAt
    <3> QED
      BY <3>1, <3>2
  <2>5. planOrder' = [p \in PlanOrders |-> planOrder'[p]]
        /\ (\A p \in PlanOrders : p # o => planOrder'[p] = planOrder[p])
        /\ planOrder'[o] = [status |-> "PAID", plant |-> planOrder[o].plant, code |-> planOrder[o].code,
                            activation |-> made]
    <3>1. planOrder = [p \in PlanOrders |-> planOrder[p]]
          /\ planOrder[o] = [status |-> planOrder[o].status, plant |-> planOrder[o].plant,
                             code |-> planOrder[o].code, activation |-> planOrder[o].activation]
      BY <1>1 DEF PlanInv, OrdersInv
    <3> HIDE DEF o, made
    <3> QED
      BY <1>1, <2>2, <3>1
  <2> HIDE DEF o, made
  <2>6. planOrder'[o].status = "PAID" /\ planOrder'[o].code = planOrder[o].code /\ planOrder'[o].activation = made
        /\ \A p \in PlanOrders : planOrder'[p] = [status |-> planOrder'[p].status, plant |-> planOrder'[p].plant,
                                                  code |-> planOrder'[p].code,
                                                  activation |-> planOrder'[p].activation]
    BY <2>5 DEF PlanInv, OrdersInv
  <2>7. Bought' = Bought \cup {o} /\ o \notin Bought
    BY <1>1, <1>4, <2>5, <2>6 DEF Bought
  <2>8. OrdersInv'
    BY <1>1, <2>5, <2>6 DEF PlanInv, OrdersInv
  <2>9. HandlersInv'
    BY <1>1, <2>3, <2>4, <2>5, <2>6 DEF PlanInv, HandlersInv, o
  <2>10. ASSUME GrantsInv PROVE GrantsInv'
    <3>1. \A j \in Calls : j \in Holders' <=> j \in Holders /\ j # h
      BY <2>3, <2>4 DEF Holders
    <3>2. made \in Grants /\ planGrants[made].of = o
      BY <1>1, <2>10 DEF GrantsInv, o, made
    <3>3. \A g \in Grants : planGrants'[g].of \in PlanOrders =>
              \/ planGrants'[g].of \in Bought' /\ g = planOrder'[planGrants'[g].of].activation
              \/ \E j \in Calls : j \in Holders' /\ planHandlers'[j].made = g
      <4> SUFFICES ASSUME NEW g \in Grants, planGrants[g].of \in PlanOrders
                   PROVE  \/ planGrants[g].of \in Bought' /\ g = planOrder'[planGrants[g].of].activation
                          \/ \E j \in Calls : j \in Holders' /\ planHandlers'[j].made = g
        BY <2>2
      <4>1. CASE planGrants[g].of \in Bought /\ g = planOrder[planGrants[g].of].activation
        BY <2>5, <2>7, <4>1
      <4>2. ASSUME NEW j \in Calls, j \in Holders, planHandlers[j].made = g
            PROVE  \/ planGrants[g].of \in Bought' /\ g = planOrder'[planGrants[g].of].activation
                   \/ \E i \in Calls : i \in Holders' /\ planHandlers'[i].made = g
        <5>1. CASE j = h
          BY <2>6, <2>7, <3>2, <4>2, <5>1 DEF made
        <5>2. CASE j # h
          BY <2>3, <3>1, <4>2, <5>2
        <5> QED
          BY <5>1, <5>2
      <4> QED
        BY <2>10, <4>1, <4>2 DEF GrantsInv
    <3>4. \A j \in Calls : j \in Holders' =>
         /\ planHandlers'[j].made \in Grants /\ planGrants'[planHandlers'[j].made].of = planHandlers'[j].of
         /\ \A i \in Calls : i \in Holders' /\ planHandlers'[i].made = planHandlers'[j].made => i = j
      BY <2>2, <2>3, <2>10, <3>1 DEF GrantsInv
    <3>5. \A p \in PlanOrders : p \in Bought' =>
         /\ planOrder'[p].activation \in Grants /\ planGrants'[planOrder'[p].activation].of = p
         /\ \A j \in Calls : j \in Holders' => planHandlers'[j].made # planOrder'[p].activation
      <4> SUFFICES ASSUME NEW p \in PlanOrders, p \in Bought'
                   PROVE  /\ planOrder'[p].activation \in Grants /\ planGrants[planOrder'[p].activation].of = p
                          /\ \A j \in Calls : j \in Holders' => planHandlers'[j].made # planOrder'[p].activation
        BY <2>2
      <4>1. CASE p = o
        BY <1>1, <2>3, <2>6, <2>10, <3>1, <3>2, <4>1 DEF GrantsInv, made
      <4>2. CASE p # o
        BY <2>3, <2>5, <2>7, <2>10, <3>1, <4>2 DEF GrantsInv
      <4> QED
        BY <4>1, <4>2
    <3> QED
      BY <2>2, <2>10, <3>3, <3>4, <3>5 DEF GrantsInv
  <2>11. ASSUME UsesInv PROVE UsesInv'
    <3>1. IsFiniteSet(ToCount) /\ IsFiniteSet(Discounted)
      BY FS_Subset DEF ToCount, Discounted
    <3>2. CASE planOrder[o].code = None
      <4>1. ToCount' = ToCount /\ Discounted' = Discounted
        BY <1>1, <1>4, <2>3, <2>4, <2>5, <2>6, <3>2 DEF ToCount, Discounted
      <4> QED
        BY <1>1, <2>11, <4>1 DEF UsesInv
    <3>3. CASE planOrder[o].code # None
      <4>1. ToCount' = ToCount \cup {h} /\ h \notin ToCount
        BY <1>1, <2>3, <2>4, <3>3 DEF ToCount
      <4>2. Discounted' = Discounted \cup {o} /\ o \notin Discounted
        BY <1>1, <1>4, <2>5, <2>6, <3>3 DEF Discounted
      <4>3. Cardinality(ToCount \cup {h}) = Cardinality(ToCount) + 1
            /\ Cardinality(Discounted \cup {o}) = Cardinality(Discounted) + 1
        BY <3>1, <4>1, <4>2, FS_AddElement
      <4>4. Cardinality(ToCount) \in Nat /\ Cardinality(Discounted) \in Nat
        BY <3>1, FS_CardinalityType
      <4> QED
        BY <1>1, <2>11, <4>1, <4>2, <4>3, <4>4 DEF UsesInv
    <3> QED
      BY <3>2, <3>3
  <2> QED
    BY <1>1, <2>8, <2>9, <2>10, <2>11 DEF PlanInv
<1> QED
  BY <1>3, <1>4

\* The use is counted when its handler ends.
LEMMA PlanCounts ==
  ASSUME IsFiniteSet(Calls), None \notin PlanOrders, PlanInv, NEW h \in Calls, Plan!CountUse(h) PROVE PlanInv'
<1>1. UNCHANGED <<planOrder, planEvents, planGrants, planDied>> /\ planHandlers[h].pc = "paid"
      /\ planUses' = planUses + 1
  BY DEF Plan!CountUse, Plan!Screens
<1>2. planHandlers' = [j \in Calls |-> planHandlers'[j]]
      /\ \A j \in Calls : planHandlers'[j] = IF j = h THEN Plan!Idle ELSE planHandlers[j]
  BY DEF Plan!CountUse, Plan!Hooked, PlanInv, HandlersInv
<1>3. OrdersInv'
  BY <1>1 DEF PlanInv, OrdersInv
<1>4. HandlersInv'
  BY <1>1, <1>2 DEF PlanInv, HandlersInv, Plan!Idle
<1>5. ASSUME GrantsInv PROVE GrantsInv'
  <2>1. Holders' = Holders /\ Bought' = Bought /\ \A j \in Calls : j \in Holders =>
          planHandlers'[j] = planHandlers[j]
    BY <1>1, <1>2 DEF Holders, Bought, Plan!Idle
  <2> QED
    BY <1>1, <1>5, <2>1 DEF GrantsInv
<1>6. ASSUME UsesInv PROVE UsesInv'
  <2>1. IsFiniteSet(ToCount) /\ h \in ToCount /\ ToCount' = ToCount \ {h} /\ Discounted' = Discounted
    BY <1>1, <1>2, FS_Subset DEF ToCount, Discounted, Plan!Idle
  <2>2. Cardinality(ToCount \ {h}) = Cardinality(ToCount) - 1 /\ Cardinality(ToCount) \in Nat
    BY <2>1, FS_RemoveElement, FS_CardinalityType
  <2> QED
    BY <1>1, <1>6, <2>1, <2>2 DEF UsesInv
<1> QED
  BY <1>1, <1>3, <1>4, <1>5, <1>6 DEF PlanInv

\* Every step keeps the invariant.
LEMMA PlanSteady ==
  ASSUME IsFiniteSet(Calls), IsFiniteSet(PlanOrders), None \notin PlanOrders, PlanInv, [Plan!Next]_(Plan!vars)
  PROVE  PlanInv'
<1>1. CASE Plan!RequestQuote \/ Plan!Activate \/ Plan!ActivationFails \/ Plan!Poll
  BY <1>1, PlanServerStays DEF Plan!RequestQuote, Plan!Activate, Plan!ActivationFails, Plan!Poll
<1>2. ASSUME NEW x,
             Plan!ChoosePlan(x) \/ Plan!ChoosePlant(x) \/ Plan!TypeCode(x) \/ Plan!Quoted(x) \/ Plan!PollAnswered(x)
      PROVE  PlanInv'
  BY <1>2, PlanServerStays DEF Plan!ChoosePlan, Plan!ChoosePlant, Plan!TypeCode, Plan!Quoted, Plan!PollAnswered
<1>3. ASSUME NEW o \in PlanOrders, Plan!Activated(o) PROVE PlanInv'
  <2> DEFINE new == [status |-> "PAYMENT_PENDING", plant |-> planActivating.plant, code |-> planActivating.code,
                     activation |-> None]
  <2>1. planOrder[o] = Plan!NoOrder /\ planOrder' = [planOrder EXCEPT ![o] = new]
        /\ UNCHANGED <<planGrants, planUses, planHandlers, planDied>>
        /\ (planEvents' = [planEvents EXCEPT ![o] = {"checkout"}] \/ planEvents' = planEvents)
    BY <1>3 DEF Plan!Activated
  <2>2. new = [status |-> new.status, plant |-> new.plant, code |-> new.code, activation |-> new.activation]
        /\ new.status = "PAYMENT_PENDING"
    OBVIOUS
  <2> HIDE DEF new
  <2>3. planOrder' = [p \in PlanOrders |-> planOrder'[p]]
        /\ \A p \in PlanOrders : planOrder'[p] = IF p = o THEN new ELSE planOrder[p]
    BY <2>1 DEF PlanInv, OrdersInv
  <2>4. planOrder[o].status = "NONE"
    BY <2>1 DEF Plan!NoOrder
  <2>5. \A p \in PlanOrders : /\ p \in Bought <=> p \in Bought'
                              /\ p \in Bought => planOrder'[p] = planOrder[p]
                              /\ planOrder[p].status # "NONE" => planOrder'[p].status # "NONE"
                                 /\ planOrder'[p].code = planOrder[p].code
    BY <2>2, <2>3, <2>4 DEF Bought
  <2>6. OrdersInv'
    BY <2>1, <2>2, <2>3 DEF PlanInv, OrdersInv
  <2> QED
    BY <2>1, <2>5, <2>6, PlanOrdersMove
<1>4. ASSUME NEW o \in PlanOrders, Plan!CheckoutEnds(o) PROVE PlanInv'
  <2>1. PICK event : planEvents' = [planEvents EXCEPT ![o] = {event}]
    BY <1>4 DEF Plan!CheckoutEnds
  <2>2. UNCHANGED <<planOrder, planGrants, planUses, planHandlers, planDied>> /\ planEvents[o] # {}
    BY <1>4 DEF Plan!CheckoutEnds
  <2>3. planEvents' = [p \in PlanOrders |-> planEvents'[p]] /\ \A p \in PlanOrders : planEvents'[p] # {} =>
          planEvents[p] # {}
    BY <2>1, <2>2 DEF PlanInv, OrdersInv
  <2> QED
    BY <2>2, <2>3, PlanEventsMove
<1>5. ASSUME NEW o \in PlanOrders, Plan!PaidLate(o) PROVE PlanInv'
  <2>1. UNCHANGED <<planOrder, planGrants, planUses, planHandlers, planDied>> /\ planEvents[o] # {}
        /\ planEvents' = [planEvents EXCEPT ![o] = planEvents[o] \cup {"SUCCESS"}]
    BY <1>5 DEF Plan!PaidLate
  <2>2. planEvents' = [p \in PlanOrders |-> planEvents'[p]] /\ \A p \in PlanOrders : planEvents'[p] # {} =>
          planEvents[p] # {}
    BY <2>1 DEF PlanInv, OrdersInv
  <2> QED
    BY <2>1, <2>2, PlanEventsMove
<1>6. ASSUME NEW o \in PlanOrders, Plan!NotifyUnpaid(o) PROVE PlanInv'
  <2>1. PICK event \in planEvents[o] \cap {"FAILED", "USER_DROPPED"} : planOrder' = [planOrder EXCEPT ![o].status =
                                                                                     event]
    BY <1>6 DEF Plan!NotifyUnpaid
  <2>2. UNCHANGED <<planEvents, planGrants, planUses, planHandlers, planDied>> /\ planOrder[o].status # "PAID"
    BY <1>6 DEF Plan!NotifyUnpaid, Plan!Screens
  <2>3. planOrder' = [p \in PlanOrders |-> planOrder'[p]]
        /\ \A p \in PlanOrders : planOrder'[p] = IF p = o THEN [planOrder[p] EXCEPT !.status = event]
               ELSE planOrder[p]
    BY <2>1 DEF PlanInv, OrdersInv
  <2>4. planOrder'[o] = [status |-> event, plant |-> planOrder[o].plant, code |-> planOrder[o].code,
                         activation |-> planOrder[o].activation]
    <3>1. planOrder[o] = [status |-> planOrder[o].status, plant |-> planOrder[o].plant,
                          code |-> planOrder[o].code, activation |-> planOrder[o].activation]
      BY DEF PlanInv, OrdersInv
    <3> QED
      BY <2>3, <3>1
  <2>5. \A p \in PlanOrders : /\ p \in Bought <=> p \in Bought'
                              /\ p \in Bought => planOrder'[p] = planOrder[p]
                              /\ planOrder[p].status # "NONE" => planOrder'[p].status # "NONE"
                                 /\ planOrder'[p].code = planOrder[p].code
    BY <2>2, <2>3, <2>4 DEF Bought
  <2>6. OrdersInv'
    BY <2>2, <2>3, <2>4 DEF PlanInv, OrdersInv
  <2> QED
    BY <2>2, <2>5, <2>6, PlanOrdersMove
<1>7. ASSUME NEW h \in Calls, NEW k, Plan!Hooked(h, k), planHandlers[h].pc \notin {"granted", "paid"},
              UNCHANGED <<planOrder, planEvents, planGrants, planUses, planDied>>,
              k = [of |-> k.of, plant |-> k.plant, pc |-> k.pc, made |-> k.made, seen |-> k.seen],
              k.of \in PlanOrders \cup {None}, k.pc \notin {"granted", "paid"},
              k.of \in PlanOrders => planOrder[k.of].status # "NONE" /\ k.seen.code = planOrder[k.of].code
       PROVE  PlanInv'
  <2>1. GrantsInv => /\ planGrants' = [g \in Grants |-> planGrants'[g]]
                     /\ \A g \in Grants :
                          planGrants'[g] = [of |-> planGrants[g].of, plant |-> planGrants'[g].plant,
                                            status |-> planGrants'[g].status]
    BY <1>7 DEF GrantsInv
  <2> QED
    BY <1>7, <2>1, PlanHandlerMoves
<1>8. ASSUME NEW h \in Calls, NEW o \in PlanOrders, Plan!Notify(h, o) PROVE PlanInv'
  <2> DEFINE k == [of |-> o, plant |-> planOrder[o].plant, pc |-> "found", made |-> None, seen |-> planOrder[o]]
  <2>1. k = [of |-> k.of, plant |-> k.plant, pc |-> k.pc, made |-> k.made, seen |-> k.seen]
        /\ k.of = o /\ k.pc = "found" /\ k.seen = planOrder[o]
    OBVIOUS
  <2>2. Plan!Hooked(h, k) /\ planHandlers[h].pc = "idle"
        /\ UNCHANGED <<planOrder, planEvents, planGrants, planUses, planDied>>
        /\ planOrder[o].status # "NONE"
    BY <1>8 DEF Plan!Notify, Plan!Idle, Plan!Screens, PlanInv, OrdersInv
  <2> HIDE DEF k
  <2> QED
    BY <1>7, <2>1, <2>2
<1>9. ASSUME NEW h \in Calls, NEW p, Plan!GrantFreely(h, p) PROVE PlanInv'
  <2>1. PICK k : k = [Plan!Idle EXCEPT !.plant = p, !.pc = "found"]
    OBVIOUS
  <2>2. k = [of |-> k.of, plant |-> k.plant, pc |-> k.pc, made |-> k.made, seen |-> k.seen]
        /\ k.of = None /\ k.pc = "found"
    BY <2>1 DEF Plan!Idle
  <2>3. Plan!Hooked(h, k) /\ planHandlers[h].pc = "idle"
        /\ UNCHANGED <<planOrder, planEvents, planGrants, planUses, planDied>>
    BY <1>9, <2>1 DEF Plan!GrantFreely, Plan!Idle, Plan!Screens
  <2> QED
    BY <1>7, <2>2, <2>3
<1>10. ASSUME NEW h \in Calls, Plan!Supersede(h) PROVE PlanInv'
  <2> DEFINE k == [planHandlers[h] EXCEPT !.pc = "superseded"]
  <2>1. /\ k = [of |-> k.of, plant |-> k.plant, pc |-> k.pc, made |-> k.made, seen |-> k.seen]
        /\ k.pc = "superseded" /\ k.of \in PlanOrders \cup {None}
        /\ k.of \in PlanOrders => planOrder[k.of].status # "NONE" /\ k.seen.code = planOrder[k.of].code
    BY PlanAt
  <2>2. Plan!Hooked(h, k) /\ planHandlers[h].pc = "found" /\ UNCHANGED <<planOrder, planEvents, planUses, planDied>>
    BY <1>10 DEF Plan!Supersede, Plan!Screens
  <2> HIDE DEF k
  <2>3. planGrants' = [g \in Grants |-> planGrants'[g]]
    BY <1>10 DEF Plan!Supersede
  <2>4. GrantsInv =>
          \A g \in Grants : planGrants'[g] = [of |-> planGrants[g].of, plant |-> planGrants'[g].plant,
                                              status |-> planGrants'[g].status]
    <3> SUFFICES ASSUME GrantsInv, NEW g \in Grants
                 PROVE  planGrants'[g] = [of |-> planGrants[g].of, plant |-> planGrants'[g].plant,
                                          status |-> planGrants'[g].status]
      OBVIOUS
    <3>1. planGrants[g] = [of |-> planGrants[g].of, plant |-> planGrants[g].plant, status |-> planGrants[g].status]
      BY DEF GrantsInv
    <3>2. planGrants'[g] = planGrants[g] \/ planGrants'[g] = [planGrants[g] EXCEPT !.status = "SUPERSEDED"]
      BY <1>10 DEF Plan!Supersede
    <3> QED
      BY <3>1, <3>2
  <2> QED
    BY <2>1, <2>2, <2>3, <2>4, PlanHandlerMoves
<1>11. ASSUME NEW h \in Calls, Plan!Dies(h) PROVE PlanInv'
  <2>1. UNCHANGED <<planOrder, planEvents>> /\ Plan!Hooked(h, Plan!Idle) /\ planDied'
    BY <1>11 DEF Plan!Dies, Plan!Screens
  <2>2. OrdersInv'
    BY <2>1 DEF PlanInv, OrdersInv
  <2>3. planHandlers' = [j \in Calls |-> planHandlers'[j]]
        /\ \A j \in Calls : planHandlers'[j] = IF j = h THEN Plan!Idle ELSE planHandlers[j]
    BY <2>1 DEF Plan!Hooked, PlanInv, HandlersInv
  <2>4. HandlersInv'
    BY <2>1, <2>3 DEF PlanInv, HandlersInv, Plan!Idle
  <2> QED
    BY <2>1, <2>2, <2>4 DEF PlanInv
<1>12. CASE UNCHANGED Plan!vars
  BY <1>12, PlanServerStays DEF Plan!vars
<1> QED
  BY <1>1, <1>2, <1>3, <1>4, <1>5, <1>6, <1>8, <1>9, <1>10, <1>11, <1>12, PlanInserts, PlanMarks,
     PlanCounts DEF Plan!Next

\* When nobody works, an order has the entitlement it names, and the uses are those
\* of the orders bought with the code.
LEMMA PlanGrantsOnce == ASSUME PlanInv PROVE Plan!OneGrantPerPayment
<1> SUFFICES ASSUME \A h \in Calls : planHandlers[h] = Plan!Idle, ~planDied
             PROVE  /\ \A o \in PlanOrders : Plan!Granted(o) = IF planOrder[o].status = "PAID"
                           THEN {planOrder[o].activation} ELSE {}
                    /\ planUses = Cardinality({o \in PlanOrders : planOrder[o].status = "PAID"
                                               /\ planOrder[o].code # None})
  BY DEF Plan!OneGrantPerPayment, Plan!Cardinality, Cardinality
<1>1. GrantsInv /\ UsesInv /\ Holders = {} /\ ToCount = {}
  BY DEF PlanInv, Holders, ToCount, Plan!Idle
<1>2. ASSUME NEW o \in PlanOrders
      PROVE  Plan!Granted(o) = IF planOrder[o].status = "PAID" THEN {planOrder[o].activation} ELSE {}
  BY <1>1 DEF GrantsInv, Plan!Granted, Bought
<1>3. planUses = Cardinality(Discounted)
  BY <1>1, FS_EmptySet DEF UsesInv
<1> QED
  BY <1>2, <1>3 DEF Discounted

-----------------------------------------------------------------------------
(* PlanCheckout with a second payment: the answers awaited are of the      *)
(* payment followed, and a payment that was made stays made.               *)

PaidOrders == {o \in Payments : againOrder[o].status = "PAID"}

ShownInv ==
  /\ againOrder = [o \in Payments |-> againOrder[o]]
  /\ \A o \in Payments : againOrder[o] = [status |-> againOrder[o].status, plant |-> againOrder[o].plant,
                                          code |-> againOrder[o].code, activation |-> againOrder[o].activation]
  /\ againAsked \subseteq {againPaymentOrder} \cap Payments
  /\ againPoll # None => againPaymentOrder \in Payments
     /\ againPoll = [order |-> againPaymentOrder, left |-> againPoll.left]
  /\ againPaymentStatus = "PAID" => againPaymentOrder \in PaidOrders

\* No payment is followed.
LEMMA ShownStarts == ASSUME None # "PAID", Again!Init PROVE ShownInv
  BY DEF Again!Init, ShownInv, Again!NoOrder

\* Following another order, or another status of it.
LEMMA ShownFollows ==
  ASSUME ShownInv, UNCHANGED againOrder, NEW o \in Payments, NEW status \in {"PAYMENT_PENDING", "USER_DROPPED"},
         Again!Follow(o, status)
  PROVE  ShownInv'
<1>1. CASE <<o, status>> = <<againPaymentOrder, againPaymentStatus>>
  BY <1>1 DEF Again!Follow, ShownInv, PaidOrders
<1>2. CASE <<o, status>> # <<againPaymentOrder, againPaymentStatus>>
  <2>1. againAsked' = {} /\ againPaymentOrder' = o /\ againPaymentStatus' = status
        /\ (againPoll' = None \/ againPoll' = [order |-> o, left |-> MaxTries])
    BY <1>2 DEF Again!Follow, Again!Cancelled
  <2>2. againPoll' # None => againPoll' = [order |-> o, left |-> againPoll'.left]
    BY <2>1
  <2> QED
    BY <2>1, <2>2 DEF ShownInv
<1> QED
  BY <1>1, <1>2

\* An order is written and what was paid stays paid.
LEMMA ShownStays ==
  ASSUME ShownInv, UNCHANGED Again!payment, NEW o \in Payments, NEW new,
         new = [status |-> new.status, plant |-> new.plant, code |-> new.code, activation |-> new.activation],
         againOrder' = [againOrder EXCEPT ![o] = new], o \in PaidOrders => new.status = "PAID"
  PROVE  ShownInv'
BY DEF ShownInv, Again!payment, PaidOrders

\* Every step keeps the invariant.
LEMMA ShownSteady == ASSUME ShownInv, [Again!Next]_(Again!vars) PROVE ShownInv'
<1>1. ASSUME UNCHANGED <<againOrder, Again!payment>> PROVE ShownInv'
  BY <1>1 DEF ShownInv, Again!payment, PaidOrders
<1>2. CASE Again!RequestQuote \/ Again!Activate \/ Again!ActivationFails
  BY <1>1, <1>2 DEF Again!RequestQuote, Again!Activate, Again!ActivationFails, Again!server
<1>3. CASE Again!Poll
  BY <1>3 DEF Again!Poll, ShownInv, Again!server, PaidOrders
<1>4. ASSUME NEW x, Again!ChoosePlan(x) \/ Again!ChoosePlant(x) \/ Again!TypeCode(x) \/ Again!Quoted(x)
      PROVE  ShownInv'
  BY <1>1, <1>4 DEF Again!ChoosePlan, Again!ChoosePlant, Again!TypeCode, Again!Quoted, Again!server
<1>5. ASSUME NEW o \in Payments, Again!Activated(o) PROVE ShownInv'
  <2> DEFINE new == [status |-> "PAYMENT_PENDING", plant |-> againActivating.plant, code |-> againActivating.code,
                     activation |-> None]
  <2>1. againOrder[o] = Again!NoOrder /\ againOrder' = [againOrder EXCEPT ![o] = new]
        /\ (Again!Follow(o, "PAYMENT_PENDING") \/ UNCHANGED Again!payment)
    BY <1>5 DEF Again!Activated
  <2>2. new = [status |-> new.status, plant |-> new.plant, code |-> new.code, activation |-> new.activation]
        /\ new.status = "PAYMENT_PENDING"
    OBVIOUS
  <2> HIDE DEF new
  <2>3. againOrder' = [p \in Payments |-> againOrder'[p]]
        /\ (\A p \in Payments : againOrder'[p] = IF p = o THEN new ELSE againOrder[p])
        /\ o \notin PaidOrders
    BY <2>1 DEF ShownInv, PaidOrders, Again!NoOrder
  <2>4. CASE UNCHANGED Again!payment
    BY <2>1, <2>2, <2>3, <2>4, ShownStays
  <2>5. CASE Again!Follow(o, "PAYMENT_PENDING")
    <3>1. CASE <<o, "PAYMENT_PENDING">> = <<againPaymentOrder, againPaymentStatus>>
      <4>1. UNCHANGED Again!payment
        BY <2>5, <3>1 DEF Again!Follow, Again!payment
      <4> QED
        BY <2>4, <4>1
    <3>2. CASE <<o, "PAYMENT_PENDING">> # <<againPaymentOrder, againPaymentStatus>>
      <4>1. againAsked' = {} /\ againPaymentOrder' = o /\ againPaymentStatus' = "PAYMENT_PENDING"
            /\ (againPoll' = None \/ againPoll' = [order |-> o, left |-> MaxTries])
        BY <2>5, <3>2 DEF Again!Follow, Again!Cancelled
      <4>2. againPoll' # None => againPoll' = [order |-> o, left |-> againPoll'.left]
        BY <4>1
      <4> QED
        BY <2>2, <2>3, <4>1, <4>2 DEF ShownInv
    <3> QED
      BY <3>1, <3>2
  <2> QED
    BY <2>1, <2>4, <2>5
<1>6. ASSUME NEW o \in Payments, Again!CheckoutEnds(o) PROVE ShownInv'
  BY <1>6, ShownFollows DEF Again!CheckoutEnds
<1>7. ASSUME NEW o \in Payments, Again!PaidLate(o) PROVE ShownInv'
  BY <1>1, <1>7 DEF Again!PaidLate
<1>8. ASSUME NEW o \in Payments, Again!PollAnswered(o) PROVE ShownInv'
  <2>1. UNCHANGED againOrder /\ o = againPaymentOrder
    BY <1>8 DEF Again!PollAnswered, ShownInv, Again!server
  <2>2. CASE againAsked' = againAsked \ {o} /\ UNCHANGED <<againPaymentOrder, againPaymentStatus, againPoll>>
    BY <2>1, <2>2 DEF ShownInv, PaidOrders
  <2>3. CASE /\ againPaymentOrder' = againPaymentOrder /\ againPaymentStatus' = againOrder[o].status
             /\ \/ againAsked' = againAsked \ {o} /\ UNCHANGED againPoll
                \/ againAsked' = {}
                   /\ (againPoll' = None \/ againPoll' = [order |-> againPaymentOrder, left |-> MaxTries])
    <3>1. againPoll' # None => againPoll' = [order |-> againPaymentOrder, left |-> againPoll'.left]
      <4>1. CASE UNCHANGED againPoll
        BY <4>1 DEF ShownInv
      <4>2. CASE againPoll' = None \/ againPoll' = [order |-> againPaymentOrder, left |-> MaxTries]
        BY <4>2
      <4> QED
        BY <2>3, <4>1, <4>2
    <3> QED
      BY <2>1, <2>3, <3>1 DEF ShownInv, PaidOrders
  <2> QED
    BY <1>8, <2>2, <2>3 DEF Again!PollAnswered, Again!Cancelled
<1>9. ASSUME NEW o \in Payments, Again!NotifyUnpaid(o) PROVE ShownInv'
  <2>1. PICK event \in againEvents[o] \cap {"FAILED", "USER_DROPPED"} : againOrder' =
            [againOrder EXCEPT ![o].status = event]
    BY <1>9 DEF Again!NotifyUnpaid
  <2> DEFINE new == [againOrder[o] EXCEPT !.status = event]
  <2>2. new = [status |-> new.status, plant |-> new.plant, code |-> new.code, activation |-> new.activation]
    BY DEF ShownInv
  <2>3. UNCHANGED Again!payment /\ o \notin PaidOrders /\ againOrder' = [againOrder EXCEPT ![o] = new]
    BY <1>9, <2>1 DEF Again!NotifyUnpaid, Again!Screens, PaidOrders
  <2> HIDE DEF new
  <2> QED
    BY <2>2, <2>3, ShownStays
<1>10. ASSUME NEW h \in AgainHandlers, Again!MarkPaid(h) PROVE ShownInv'
  <2> DEFINE o == againHandlers[h].of
  <2>1. UNCHANGED Again!payment
    BY <1>10 DEF Again!MarkPaid, Again!Screens
  <2>2. CASE againOrder[o].status = "PAID"
    BY <1>1, <1>10, <2>1, <2>2 DEF Again!MarkPaid
  <2>3. CASE againOrder[o].status # "PAID"
    <3>1. PICK new : new = [againOrder[o] EXCEPT !.status = "PAID", !.activation = againHandlers[h].made]
      OBVIOUS
    <3>2. againOrder' = [againOrder EXCEPT ![o].status = "PAID", ![o].activation = againHandlers[h].made]
      BY <1>10, <2>3 DEF Again!MarkPaid
    <3>3. CASE o \notin Payments
      <4>1. againOrder' = againOrder
        BY <3>2, <3>3 DEF ShownInv
      <4> QED
        BY <1>1, <2>1, <4>1
    <3>4. CASE o \in Payments
      <4>1. againOrder[o] = [status |-> againOrder[o].status, plant |-> againOrder[o].plant,
                             code |-> againOrder[o].code, activation |-> againOrder[o].activation]
            /\ againOrder = [p \in Payments |-> againOrder[p]]
        BY <3>4 DEF ShownInv
      <4>2. new = [status |-> new.status, plant |-> new.plant, code |-> new.code, activation |-> new.activation]
            /\ new.status = "PAID"
        BY <3>1, <4>1
      <4> HIDE DEF o
      <4>3. againOrder' = [againOrder EXCEPT ![o] = new]
        BY <3>1, <3>2, <3>4, <4>1
      <4> QED
        BY <2>1, <3>4, <4>2, <4>3, ShownStays
    <3> QED
      BY <3>3, <3>4
  <2> QED
    BY <2>2, <2>3
<1>11. ASSUME NEW h \in AgainHandlers,
              Again!Supersede(h) \/ Again!InsertGrant(h) \/ Again!CountUse(h) \/ Again!Dies(h)
       PROVE  ShownInv'
  BY <1>1, <1>11 DEF Again!Supersede, Again!InsertGrant, Again!CountUse, Again!Dies, Again!Screens
<1>12. ASSUME NEW h \in AgainHandlers, NEW x, Again!Notify(h, x) \/ Again!GrantFreely(h, x) PROVE ShownInv'
  BY <1>1, <1>12 DEF Again!Notify, Again!GrantFreely, Again!Screens
<1>13. CASE UNCHANGED Again!vars
  BY <1>1, <1>13 DEF Again!vars, Again!server
<1> QED
  BY <1>2, <1>3, <1>4, <1>5, <1>6, <1>7, <1>8, <1>9, <1>10, <1>11, <1>12, <1>13 DEF Again!Next

\* The status shown is that of the payment followed.
LEMMA ShownIsPaid == ShownInv => Again!ShownPaidIsPaid
  BY DEF ShownInv, PaidOrders, Again!ShownPaidIsPaid
-----------------------------------------------------------------------------
(* The whole run: a step moves one part, so each part takes a step of its  *)
(* own specification or stutters, and the invariants of the parts hold     *)
(* together.                                                               *)

\* A step of the run is, for every part, a step of that part or a stutter.
LEMMA PartsMove ==
  ASSUME [Next]_allVars
  PROVE  /\ [Order!Next]_(Order!vars)
        /\ [Assisted!Next]_(Assisted!vars)
        /\ [Deciding!Next]_(Deciding!vars)
        /\ [Listing!Next]_(Listing!vars)
        /\ [Owning!Next]_(Owning!vars)
        /\ [Onboarding!Next]_(Onboarding!vars)
        /\ [Support!Next]_(Support!vars)
        /\ [Widget!Next]_(Widget!vars)
        /\ [Kyc!Next]_(Kyc!vars)
        /\ [Planning!Next]_(Planning!vars)
        /\ [Deletion!Next]_(Deletion!vars)
        /\ [Plan!Next]_(Plan!vars)
        /\ [Again!Next]_(Again!vars)
<1>1. [Order!Next]_(Order!vars)
  <2>1. Order!Next \/ UNCHANGED orderVars
    BY DEF Next, Only, allVars, parts
  <2>2. UNCHANGED orderVars => UNCHANGED Order!vars
    BY DEF orderVars, Order!vars, Order!map, Order!input, Order!visit, Order!backend
  <2> QED
    BY <2>1, <2>2
<1>2. [Assisted!Next]_(Assisted!vars)
  <2>1. Assisted!Next \/ UNCHANGED assistedVars
    BY DEF Next, Only, allVars, parts
  <2>2. UNCHANGED assistedVars => UNCHANGED Assisted!vars
    BY DEF assistedVars, Assisted!vars, Assisted!map, Assisted!input, Assisted!visit, Assisted!backend
  <2> QED
    BY <2>1, <2>2
<1>3. [Deciding!Next]_(Deciding!vars)
  <2>1. Deciding!Next \/ UNCHANGED decisionsVars
    BY DEF Next, Only, allVars, parts
  <2>2. UNCHANGED decisionsVars => UNCHANGED Deciding!vars
    BY DEF decisionsVars, Deciding!vars, Deciding!compare, Deciding!modal, Deciding!screens, Deciding!stores
  <2> QED
    BY <2>1, <2>2
<1>4. [Listing!Next]_(Listing!vars)
  <2>1. Listing!Next \/ UNCHANGED listingVars
    BY DEF Next, Only, allVars, parts
  <2>2. UNCHANGED listingVars => UNCHANGED Listing!vars
    BY DEF listingVars, Listing!vars, Listing!screen, Listing!stores
  <2> QED
    BY <2>1, <2>2
<1>5. [Owning!Next]_(Owning!vars)
  <2>1. Owning!Next \/ UNCHANGED ownershipVars
    BY DEF Next, Only, allVars, parts
  <2>2. UNCHANGED ownershipVars => UNCHANGED Owning!vars
    BY DEF ownershipVars, Owning!vars, Owning!screen, Owning!stores
  <2> QED
    BY <2>1, <2>2
<1>6. [Onboarding!Next]_(Onboarding!vars)
  <2>1. Onboarding!Next \/ UNCHANGED onboardingVars
    BY DEF Next, Only, allVars, parts
  <2>2. UNCHANGED onboardingVars => UNCHANGED Onboarding!vars
    BY DEF onboardingVars, Onboarding!vars, Onboarding!marks, Onboarding!finding
  <2> QED
    BY <2>1, <2>2
<1>7. [Support!Next]_(Support!vars)
  <2>1. Support!Next \/ UNCHANGED supportVars
    BY DEF Next, Only, allVars, parts
  <2>2. UNCHANGED supportVars => UNCHANGED Support!vars
    BY DEF supportVars, Support!vars, Support!topicState, Support!caseView
  <2> QED
    BY <2>1, <2>2
<1>8. [Widget!Next]_(Widget!vars)
  <2>1. Widget!Next \/ UNCHANGED widgetVars
    BY DEF Next, Only, allVars, parts
  <2>2. UNCHANGED widgetVars => UNCHANGED Widget!vars
    BY DEF widgetVars, Widget!vars, Widget!session, Widget!panels
  <2> QED
    BY <2>1, <2>2
<1>9. [Kyc!Next]_(Kyc!vars)
  <2>1. Kyc!Next \/ UNCHANGED kycVars
    BY DEF Next, Only, allVars, parts
  <2>2. UNCHANGED kycVars => UNCHANGED Kyc!vars
    BY DEF kycVars, Kyc!vars, Kyc!backend, Kyc!screen
  <2> QED
    BY <2>1, <2>2
<1>10. [Planning!Next]_(Planning!vars)
  <2>1. Planning!Next \/ UNCHANGED planningVars
    BY DEF Next, Only, allVars, parts
  <2>2. UNCHANGED planningVars => UNCHANGED Planning!vars
    BY DEF planningVars, Planning!vars, Planning!tools, Planning!planner, Planning!demo
  <2> QED
    BY <2>1, <2>2
<1>11. [Deletion!Next]_(Deletion!vars)
  <2>1. Deletion!Next \/ UNCHANGED deletionVars
    BY DEF Next, Only, allVars, parts
  <2>2. UNCHANGED deletionVars => UNCHANGED Deletion!vars
    BY DEF deletionVars, Deletion!vars, Deletion!server, Deletion!screen
  <2> QED
    BY <2>1, <2>2
<1>12. [Plan!Next]_(Plan!vars)
  <2>1. Plan!Next \/ UNCHANGED planVars
    BY DEF Next, Only, allVars, parts
  <2>2. UNCHANGED planVars => UNCHANGED Plan!vars
    BY DEF planVars, Plan!vars, Plan!server, Plan!form, Plan!payment
  <2> QED
    BY <2>1, <2>2
<1>13. [Again!Next]_(Again!vars)
  <2>1. Again!Next \/ UNCHANGED againVars
    BY DEF Next, Only, allVars, parts
  <2>2. UNCHANGED againVars => UNCHANGED Again!vars
    BY DEF againVars, Again!vars, Again!server, Again!form, Again!payment
  <2> QED
    BY <2>1, <2>2
<1> QED
  BY <1>1, <1>2, <1>3, <1>4, <1>5, <1>6, <1>7, <1>8, <1>9, <1>10, <1>11, <1>12, <1>13

\* The invariants of the parts, each over the variables of its part.
ScreensInv ==
  /\ PinnedInv /\ OnceInv /\ QuoteInv /\ ListedInv /\ OwningInv /\ PinInv /\ SupportInv
  /\ PanelBoundary /\ KycInv /\ PourInv /\ DeletionInv /\ PlanInv /\ ShownInv

\* Every part begins within its invariant.
LEMMA ScreensStart == Init => ScreensInv
<1> SUFFICES ASSUME Init PROVE ScreensInv
  OBVIOUS
<1> USE ScreensAssumption DEF ScreensAssumption, NoneAssumption, CountAssumption
<1>1. PinnedInv /\ OnceInv /\ QuoteInv
  BY PinnedStarts, OnceStarts, QuoteStarts DEF Init
<1>2. ListedInv /\ OwningInv /\ PinInv /\ SupportInv
  BY ListingStarts, OwningStarts, PinStarts, SupportStarts DEF Init
<1>3. PanelBoundary /\ KycInv /\ PourInv
  BY PanelsStartClosed, KycStarts, PourStarts DEF Init, PanelBoundary
<1>4. DeletionInv /\ PlanInv /\ ShownInv
  BY DeletionStarts, PlanStarts, ShownStarts DEF Init
<1> QED
  BY <1>1, <1>2, <1>3, <1>4 DEF ScreensInv

\* Every step keeps the invariants of all parts.
LEMMA ScreensSteady == ScreensInv /\ [Next]_allVars => ScreensInv'
<1> SUFFICES ASSUME ScreensInv, [Next]_allVars PROVE ScreensInv'
  OBVIOUS
<1>a. /\ None \notin Wishes /\ None \notin Places \cup {"google"} /\ None \notin Sessions
      /\ PlannerAssumption
      /\ IsFiniteSet(Calls) /\ IsFiniteSet(PlanOrders) /\ None \notin PlanOrders
  BY ScreensAssumption DEF ScreensAssumption, NoneAssumption, CountAssumption
<1>1. PinnedInv' /\ OnceInv'
  BY PartsMove, PinnedSteady, OnceSteady DEF ScreensInv
<1>2. QuoteInv'
  BY <1>a, PartsMove, QuoteSteady DEF ScreensInv
<1>3. ListedInv' /\ OwningInv'
  BY PartsMove, ListingSteady, OwningSteady DEF ScreensInv
<1>4. PinInv'
  BY <1>a, PartsMove, PinSteady DEF ScreensInv
<1>5. SupportInv' /\ PanelBoundary'
  BY PartsMove, SupportSteady, PanelsFollow DEF ScreensInv, PanelBoundary
<1>6. KycInv'
  BY <1>a, PartsMove, KycSteady DEF ScreensInv
<1>7. PourInv'
  BY <1>a, PartsMove, PourSteady DEF ScreensInv
<1>8. DeletionInv'
  BY PartsMove, DeletionSteady DEF ScreensInv
<1>9. PlanInv'
  BY <1>a, PartsMove, PlanSteady DEF ScreensInv
<1>10. ShownInv'
  BY PartsMove, ShownSteady DEF ScreensInv
<1> QED
  BY <1>1, <1>2, <1>3, <1>4, <1>5, <1>6, <1>7, <1>8, <1>9, <1>10 DEF ScreensInv

\* The parts of the customer's application stay within their invariants.
THEOREM ScreensStay == Spec => []ScreensInv
<1> QED
  BY ScreensStart, ScreensSteady, PTL DEF Spec

\* What was asked for once is recorded once: one order for what the assistant
\* prepared, one support case for a request, one answer and one order for a
\* quotation, one plant for a place, one deletion request for a confirmation and
\* one entitlement for a payment, however often the handlers run and fail.
THEOREM RequestsAreRecordedOnce == Spec => []OneRecordPerRequest
<1>1. ScreensInv => OneRecordPerRequest
  BY OnceOrdered, QuoteOnce, DeletionAsAsked, PlanGrantsOnce
     DEF ScreensInv, OneRecordPerRequest, SupportInv, ListedInv
<1> QED
  BY <1>1, ScreensStay, PTL

\* What is kept is what the person settled on: coordinates go with the address
\* they are of, an order is made of quotations that were accepted, a plan is stored
\* as it was shown, a pin is that of its place, a payment shown as received was.
THEOREM WhatWasSettledIsKept == Spec => []KeptIsWhatWasSettled
<1>1. ScreensInv => KeptIsWhatWasSettled
  BY OrderPinned, QuoteAccepted, PourKept, ShownIsPaid DEF ScreensInv, KeptIsWhatWasSettled, PinInv
<1> QED
  BY <1>1, ScreensStay, PTL

\* No help panel survives a sign-in, a sign-out or a change of the screen.
THEOREM PanelsStayWithTheirScreen == Spec => []PanelBoundary
<1>1. ScreensInv => PanelBoundary
  BY DEF ScreensInv
<1> QED
  BY <1>1, ScreensStay, PTL

\* An assignment takes no plant from an owner, and an identity is verified only
\* with a proven name whose consent was given.
THEOREM RightsHaveTheirGround == Spec => RightsWithTheirGround
<1>1. ASSUME ScreensInv, [Next]_allVars
      PROVE  [\A c \in Calls : ownCalls[c].pc = "own" /\ ownCalls'[c].pc # "own" =>
                \A k \in Owning!Keys : ownOwner[k] # None => ownOwner'[k] = ownOwner[k]]_(Owning!vars)
  BY <1>1, PartsMove, OwnersStay DEF ScreensInv
<1>2. ASSUME ScreensInv, [Next]_allVars
      PROVE  [(kyc.status # "VERIFIED" /\ kyc'.status = "VERIFIED") =>
                (kyc'.name # None /\ consent[kyc'.name] \in {"given", "gone"})]_(Kyc!vars)
  BY <1>2, PartsMove, KycVerifies, ScreensAssumption DEF ScreensInv, ScreensAssumption, NoneAssumption
<1> QED
  BY <1>1, <1>2, ScreensStay, PTL DEF Spec, RightsWithTheirGround, Owning!AssignmentKeepsOwner,
     Kyc!VerifiedWithIdentity
=============================================================================
