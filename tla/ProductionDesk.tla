--------------------------- MODULE ProductionDesk ---------------------------
(***************************************************************************)
(* Concrete is produced in batches: the operator's screen                  *)
(* (frontend/app/operator/production.tsx), the owner's card of one order   *)
(* (src/components/OwnerProductionBilling.tsx) and the service that posts  *)
(* a batch and draws its materials without a transaction                   *)
(* (backend/production_service.py), with the store manager's adjustment    *)
(* beside it (routers/staff.py).  A cubic metre draws one unit of every    *)
(* material; the tolerance of two per cent is less than a unit.            *)
(***************************************************************************)
EXTENDS Naturals, FiniteSets, FiniteSetsExt

CONSTANTS
  None,
  Orders, OwnersOrder,    \* the orders of the plant; the one the owner has open
  Ordered, Opening,       \* an order's quantity; each material's first stock
  Materials, Calls,
  MaxPresses              \* bound: buttons pressed and adjustments begun

VARIABLES
  status, produced,       \* of each order; produced: the sum of its batches
  stock,
  calls, held,            \* the requests on their way; what each has drawn
  adjusting, adjusted,    \* the store manager's request; what it changed so far
  overlapped,             \* ghost: an adjustment wrote over a stock it had not read
  board,                  \* the operator's list: the statuses last fetched
  selected, progress,     \* the batch window's order; the figures it shows
  quantity, busy,
  card,                   \* the owner's card
  presses

operator == <<board, selected, progress, quantity, busy>>
store == <<adjusting, adjusted, overlapped>>
server == <<status, produced, stock, held, store>>
vars == <<server, calls, operator, card, presses>>

Left(o) == IF produced[o] < Ordered THEN Ordered - produced[o] ELSE 0
Free == [by |-> "nobody", does |-> "", order |-> None, quantity |-> 0, pc |-> "free"]

Init ==
  /\ status \in [Orders -> {"ACCEPTED", "IN_PRODUCTION"}]
  /\ produced = [o \in Orders |-> 0] /\ stock = [m \in Materials |-> Opening]
  /\ calls = [c \in Calls |-> Free] /\ held = [c \in Calls |-> {}]
  /\ adjusting = None /\ adjusted = [m \in Materials |-> 0] /\ overlapped = FALSE
  /\ board = status /\ selected = None /\ progress = None /\ quantity = 0 /\ busy = FALSE
  /\ card = [sees |-> status[OwnersOrder], left |-> None, quantity |-> 0, open |-> FALSE, busy |-> FALSE]
  /\ presses = 0

Send(by, does, o, q) ==
  /\ presses < MaxPresses /\ presses' = presses + 1
  /\ \E c \in Calls : /\ calls[c] = Free
                      /\ calls' = [calls EXCEPT ![c] = [by |-> by, does |-> does, order |-> o,
                                                        quantity |-> q, pc |-> "sent"]]

-----------------------------------------------------------------------------
(* The operator's screen. *)
Reload ==
  /\ board' = status
  /\ UNCHANGED <<server, calls, selected, progress, quantity, busy, card, presses>>

Listed(o, s) == selected = None /\ board[o] = s   \* the window covers the list

Start(o) ==
  /\ Listed(o, "ACCEPTED") /\ ~busy /\ busy' = TRUE /\ Send("operator", "start", o, 0)
  /\ UNCHANGED <<server, board, selected, progress, quantity, card>>

\* This button does not wait for what is on its way.
OpenBatch(o) ==
  /\ Listed(o, "IN_PRODUCTION") /\ busy' = TRUE /\ Send("operator", "open", o, 0)
  /\ UNCHANGED <<server, board, selected, progress, quantity, card>>

AddBatch ==
  /\ selected # None /\ quantity > 0 /\ ~busy /\ busy' = TRUE
  /\ Send("operator", "batch", selected, quantity)
  /\ UNCHANGED <<server, board, selected, progress, quantity, card>>

Complete(o) ==
  /\ \/ Listed(o, "IN_PRODUCTION") /\ ~busy
     \/ selected = o /\ progress # None /\ progress.left = 0
  /\ busy' = TRUE /\ Send("operator", "complete", o, 0)
  /\ UNCHANGED <<server, board, selected, progress, quantity, card>>

EditBatch(q) ==
  /\ selected # None /\ quantity' = q
  /\ UNCHANGED <<server, calls, board, selected, progress, busy, card, presses>>

CloseBatch ==
  /\ selected # None /\ selected' = None
  /\ UNCHANGED <<server, calls, board, progress, quantity, busy, card, presses>>

\* The figures that came fill the window, whichever order it is open for: those
\* asked to open it select their order, those read after a batch do not.
Filled(o, opened) ==
  /\ progress' = [order |-> o, left |-> Left(o)] /\ quantity' = Left(o)
  /\ selected' = IF opened THEN o ELSE selected

\* After a batch its order's figures are read; after a start or a completion the
\* list; a completion closes the window.  A failure only ends the waiting.
OperatorAnswered(c) ==
  LET k == calls[c] IN
  /\ k.by = "operator"
  /\ \/ /\ k.pc = "ok" /\ k.does = "batch"
        /\ calls' = [calls EXCEPT ![c] = [k EXCEPT !.does = "figures", !.pc = "sent"]]
        /\ UNCHANGED operator
     \/ /\ k.pc = "sent" /\ k.does \in {"open", "figures"}
        /\ Filled(k.order, k.does = "open") /\ busy' = FALSE
        /\ board' = IF k.does = "figures" THEN status ELSE board
        /\ calls' = [calls EXCEPT ![c] = Free]
     \/ /\ k.pc = "ok" /\ k.does \in {"start", "complete"}
        /\ busy' = FALSE /\ board' = status /\ calls' = [calls EXCEPT ![c] = Free]
        /\ IF k.does = "complete" THEN selected' = None /\ progress' = None
                                  ELSE UNCHANGED <<selected, progress>>
        /\ UNCHANGED quantity
     \/ /\ k.pc = "failed" \/ k.does \in {"open", "figures"}
        /\ busy' = FALSE /\ calls' = [calls EXCEPT ![c] = Free]
        /\ UNCHANGED <<board, selected, progress, quantity>>
  /\ UNCHANGED <<server, card, presses>>

-----------------------------------------------------------------------------
(* The owner's card. *)

\* The effect on the status, or the parent's reload; a failed read empties it.
CardLoads ==
  /\ \E left \in {None, Left(OwnersOrder)} :
       card' = [card EXCEPT !.sees = status[OwnersOrder],
                            !.left = IF status[OwnersOrder] = "ACCEPTED" THEN @ ELSE left]
  /\ UNCHANGED <<server, calls, operator, presses>>

OpenCard ==
  /\ card.sees = "IN_PRODUCTION" /\ ~card.open
  /\ card' = [card EXCEPT !.open = TRUE, !.quantity = IF card.left = None THEN 0 ELSE card.left]
  /\ UNCHANGED <<server, calls, operator, presses>>

EditCard(q) ==
  /\ card.open /\ card.sees = "IN_PRODUCTION" /\ card' = [card EXCEPT !.quantity = q]
  /\ UNCHANGED <<server, calls, operator, presses>>

CancelCard ==
  /\ card.open /\ card' = [card EXCEPT !.open = FALSE]
  /\ UNCHANGED <<server, calls, operator, presses>>

CardCall(does) ==
  /\ ~card.busy /\ card' = [card EXCEPT !.busy = TRUE]
  /\ card.sees = IF does = "start" THEN "ACCEPTED" ELSE "IN_PRODUCTION"
  /\ does = "batch" => card.open /\ card.quantity > 0
  /\ Send("owner", does, OwnersOrder, card.quantity)
  /\ UNCHANGED <<server, operator>>

\* A batch form is emptied and folded whether its batch was posted or not.
CardAnswered(c) ==
  LET k == calls[c] IN
  /\ k.by = "owner" /\ k.pc \in {"ok", "failed"} /\ calls' = [calls EXCEPT ![c] = Free]
  /\ card' = [sees |-> IF k.pc = "ok" THEN status[OwnersOrder] ELSE card.sees,
              left |-> IF k.pc = "ok" THEN Left(OwnersOrder) ELSE card.left,
              quantity |-> IF k.does = "batch" THEN 0 ELSE card.quantity,
              open |-> card.open /\ k.does # "batch", busy |-> FALSE]
  /\ UNCHANGED <<server, operator, presses>>

-----------------------------------------------------------------------------
(* The backend. *)
To(c, pc) == calls' = [calls EXCEPT ![c].pc = pc]
Screens == <<operator, card, presses>>
At(c, does, pc) == calls[c].does = does /\ calls[c].pc = pc

\* transition_order moves the order from the status it found; a request that finds
\* it moved already is refused, or answered as if it had moved it.
Moves(c, from, to) ==
  LET o == calls[c].order IN
  /\ IF status[o] = from THEN status' = [status EXCEPT ![o] = to] /\ To(c, "ok")
     ELSE /\ UNCHANGED status
          /\ To(c, "failed") \/ (status[o] = to /\ To(c, "ok"))
  /\ UNCHANGED <<produced, stock, held, store, Screens>>

StartProduction(c) == At(c, "start", "sent") /\ Moves(c, "ACCEPTED", "IN_PRODUCTION")

\* Whoever asks, the batches are counted first.
CountBatches(c) ==
  /\ At(c, "complete", "sent")
  /\ To(c, IF status[calls[c].order] = "IN_PRODUCTION" /\ Left(calls[c].order) = 0
             THEN "counted" ELSE "failed")
  /\ UNCHANGED <<server, Screens>>

CompleteProduction(c) ==
  At(c, "complete", "counted") /\ Moves(c, "IN_PRODUCTION", "PRODUCTION_COMPLETE")

\* The order, its batches and the stocks are read, and checked as they were read.
CheckBatch(c) ==
  LET k == calls[c] IN
  /\ At(c, "batch", "sent")
  /\ To(c, IF /\ status[k.order] = "IN_PRODUCTION" /\ produced[k.order] + k.quantity <= Ordered
              /\ \A m \in Materials : stock[m] >= k.quantity
             THEN "draw" ELSE "failed")
  /\ UNCHANGED <<server, Screens>>

\* A stock that has fallen below its amount since, or an error of the database.
DrawFails(c) ==
  /\ At(c, "batch", "draw")
  /\ held[c] # Materials /\ To(c, "undo") /\ UNCHANGED <<server, Screens>>

DrawMaterial(c, m) ==
  /\ At(c, "batch", "draw") /\ m \notin held[c] /\ stock[m] >= calls[c].quantity
  /\ stock' = [stock EXCEPT ![m] = @ - calls[c].quantity]
  /\ held' = [held EXCEPT ![c] = @ \cup {m}]
  /\ UNCHANGED <<status, produced, store, calls, Screens>>

InsertBatch(c) ==
  /\ At(c, "batch", "draw") /\ held[c] = Materials
  /\ \/ /\ produced' = [produced EXCEPT ![calls[c].order] = @ + calls[c].quantity]
        /\ To(c, "inserted")
     \/ To(c, "undo") /\ UNCHANGED produced
  /\ UNCHANGED <<status, stock, held, store, Screens>>

InsertMovements(c) ==
  /\ At(c, "batch", "inserted")
  /\ \/ To(c, "ok") /\ held' = [held EXCEPT ![c] = {}]
     \/ To(c, "undo inserted") /\ UNCHANGED held
  /\ UNCHANGED <<status, produced, stock, store, Screens>>

ReturnMaterial(c, m) ==
  /\ calls[c].pc \in {"undo", "undo inserted"} /\ m \in held[c]
  /\ stock' = [stock EXCEPT ![m] = @ + calls[c].quantity]
  /\ held' = [held EXCEPT ![c] = @ \ {m}]
  /\ UNCHANGED <<status, produced, store, calls, Screens>>

\* Mutant: the batch of a failed posting stays.
BatchStays(c) == UNCHANGED produced

\* After the materials, the batch.
DeleteBatch(c) ==
  IF calls[c].pc = "undo inserted"
    THEN produced' = [produced EXCEPT ![calls[c].order] = @ - calls[c].quantity]
    ELSE UNCHANGED produced

Undone(c) ==
  /\ calls[c].pc \in {"undo", "undo inserted"} /\ held[c] = {}
  /\ DeleteBatch(c) /\ To(c, "failed")
  /\ UNCHANGED <<status, stock, held, store, Screens>>

\* The client's time runs out: it is answered with an error, and the request,
\* which nobody waits for now, goes on.
GiveUp(c) ==
  LET k == calls[c] IN
  /\ k.by # "nobody" /\ k.does \notin {"open", "figures"}
  /\ calls' = [calls EXCEPT ![c].by = "nobody"]
  /\ IF k.by = "operator"
       THEN busy' = FALSE /\ UNCHANGED card
       ELSE /\ card' = [card EXCEPT !.busy = FALSE, !.open = @ /\ k.does # "batch",
                                    !.quantity = IF k.does = "batch" THEN 0 ELSE @]
            /\ UNCHANGED busy
  /\ UNCHANGED <<server, board, selected, progress, quantity, presses>>

Ended(c) ==
  /\ calls[c].by = "nobody" /\ calls[c].pc \in {"ok", "failed"}
  /\ calls' = [calls EXCEPT ![c] = Free] /\ UNCHANGED <<server, Screens>>

\* adjust_material reads the stock and later writes what it computed from it.
ReadStock(m) ==
  /\ adjusting = None /\ presses < MaxPresses /\ presses' = presses + 1
  /\ adjusting' = [material |-> m, read |-> stock[m]]
  /\ UNCHANGED <<status, produced, stock, held, adjusted, overlapped, calls, operator, card>>

WriteStock ==
  LET m == adjusting.material IN
  /\ adjusting # None /\ adjusting' = None
  /\ stock' = [stock EXCEPT ![m] = adjusting.read + 1]
  /\ adjusted' = [adjusted EXCEPT ![m] = @ + 1]
  /\ overlapped' = (overlapped \/ stock[m] # adjusting.read)
  /\ UNCHANGED <<status, produced, held, calls, Screens>>

Next ==
  \/ Reload \/ AddBatch \/ CloseBatch \/ (\E q \in 1..Ordered : EditBatch(q) \/ EditCard(q))
  \/ \E o \in Orders : Start(o) \/ OpenBatch(o) \/ Complete(o)
  \/ CardLoads \/ OpenCard \/ CancelCard
  \/ \E does \in {"start", "batch", "complete"} : CardCall(does)
  \/ WriteStock \/ \E m \in Materials : ReadStock(m)
  \/ \E c \in Calls :
       \/ OperatorAnswered(c) \/ CardAnswered(c) \/ GiveUp(c) \/ Ended(c)
       \/ StartProduction(c) \/ CountBatches(c) \/ CompleteProduction(c)
       \/ CheckBatch(c) \/ DrawFails(c) \/ InsertBatch(c) \/ InsertMovements(c) \/ Undone(c)
       \/ \E m \in Materials : DrawMaterial(c, m) \/ ReturnMaterial(c, m)

Spec == Init /\ [][Next]_vars

-----------------------------------------------------------------------------
\* The service's compensation works: whenever no batch is being posted, a stock
\* has lost exactly what the recorded batches contain -- whatever failed half
\* way, as long as the store manager's write did not fall between.
StockFollowsBatches ==
  (\A c \in Calls : calls[c].does = "batch" => calls[c].pc \in {"sent", "ok", "failed"})
    => overlapped \/ \A m \in Materials :
         stock[m] + MapThenSumSet(LAMBDA o : produced[o], Orders) = Opening + adjusted[m]

\* "Materially incomplete production must never be marked complete"
\* (backend/order_service.py:92): a completed order has the batches it needs.
CompletedIsProduced ==
  \A o \in Orders : status[o] = "PRODUCTION_COMPLETE" => Left(o) = 0
=============================================================================
