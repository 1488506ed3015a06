------------------------------ MODULE PlantDesk ------------------------------
(***************************************************************************)
(* The business screens of a plant (frontend/src/screens/BusinessModule):  *)
(* one component, mounted with a kind, that lists the rows of the plant    *)
(* selected, fills a form, and posts under that plant; with the routes of  *)
(* business_ui.py, finance_ops.py and master_data.py behind it.            *)
(*                                                                         *)
(* A behaviour follows one kind of row, of which each plant has one: its   *)
(* profile, a mixer, a member of the staff, a material with the stock that *)
(* adjustments and purchases move, or the user's day of attendance.  The   *)
(* kinds that only append records (rates, mixes, suppliers, quotations,    *)
(* expenses, diesel, payroll) share the form and the request.              *)
(***************************************************************************)
EXTENDS Integers, FiniteSets

CONSTANTS
  None,
  First,       \* the plant that /master/my-plants lists first
  Others,      \* the user's other plants
  Receipts,    \* bound: the numbers of purchase receipts
  DeskCalls,   \* bound: requests in progress
  MaxTouches   \* bound: buttons pressed that send a request

Plants == {First} \cup Others
Kinds == {"profile", "records", "fleet", "staff", "inventory", "purchases", "attendance"}

VARIABLES
  kind,
  plantId, data, loading, saving,
  form,       \* the modal's form: None, or the plant its values are of
  adjustRow,  \* the plant whose material is being adjusted, or None
  desk,       \* the requests
  touches,
  profile,    \* plant -> the plant whose values its profile holds
  mixer, load,\* plant -> its mixer's status, and whether a load has it
  active,     \* plant -> its member of the staff is active
  stock,      \* plant -> the material's stock
  receipts,   \* plant -> receipt number -> NONE, POSTING or POSTED
  moved,      \* ghost: plant -> the adjustments that were accepted
  loose,      \* ghost: a posting was undone, or died half-way
  dayAt       \* the user's day: the plant checked in at and out of, or None

screen == <<plantId, data, loading, saving, form, adjustRow>>
stores == <<stock, receipts, moved, loose>>
rows == <<profile, mixer, load, active, stores, dayAt>>
vars == <<kind, screen, desk, touches, rows>>

Free == [pc |-> "free", op |-> "load", plant |-> None, row |-> None, arg |-> None, ui |-> FALSE]

Init ==
  /\ kind \in Kinds
  /\ plantId = None /\ data = None /\ loading = TRUE /\ saving = FALSE
  /\ form = None /\ adjustRow = None
  /\ desk = [c \in DeskCalls |-> Free] /\ touches = 0
  /\ profile = [p \in Plants |-> p]
  /\ mixer = [p \in Plants |-> "available"] /\ load = [p \in Plants |-> FALSE]
  /\ active = [p \in Plants |-> TRUE]
  /\ stock = [p \in Plants |-> 1]
  /\ receipts = [p \in Plants |-> [r \in Receipts |-> "NONE"]]
  /\ moved = [p \in Plants |-> 0] /\ loose = FALSE
  /\ dayAt = [in |-> None, out |-> None]

Covered == form # None \/ adjustRow # None

\* A request starts.
Start(op, p, row, arg, ui) ==
  LET free == {c \in DeskCalls : desk[c] = Free} IN
  /\ free # {}
  /\ desk' = [desk EXCEPT ![CHOOSE c \in free : TRUE] =
       [pc |-> "sent", op |-> op, plant |-> p, row |-> row, arg |-> arg, ui |-> ui]]

\* A press sends it under the plant that is selected.
Send(op, row, arg) ==
  /\ touches < MaxTouches /\ touches' = touches + 1 /\ plantId # None
  /\ Start(op, plantId, row, arg, TRUE)

-----------------------------------------------------------------------------
(* The screen. *)

\* loadPlants selects the first plant, a press another one; the effect on the
\* plant then loads.
SelectPlant(p) ==
  /\ ~Covered /\ p # plantId /\ (plantId # None \/ p = First) /\ plantId' = p
  /\ loading' = TRUE
  /\ Start("load", p, p, None, TRUE)
  /\ UNCHANGED <<kind, data, saving, form, adjustRow, touches, rows>>

\* Pulling the list, or the button under an error.
Refresh ==
  /\ ~Covered /\ Send("load", plantId, None) /\ loading' = TRUE
  /\ UNCHANGED <<kind, plantId, data, saving, form, adjustRow, rows>>

\* The profile's form is filled from the data on the screen, the purchase's with
\* the first material of it; what else it needs is typed for the plant selected.
\* The button is there while the list loads.
OpenForm ==
  /\ ~Covered /\ plantId # None /\ kind # "attendance"
  /\ form' = IF kind \in {"profile", "purchases"} /\ data # None THEN data.of ELSE plantId
  /\ UNCHANGED <<kind, plantId, data, loading, saving, adjustRow, desk, touches, rows>>

CloseForm ==
  /\ Covered /\ form' = None /\ adjustRow' = None
  /\ UNCHANGED <<kind, plantId, data, loading, saving, desk, touches, rows>>

\* The save button rests while something is saved.
Submit ==
  /\ form # None /\ ~saving /\ saving' = TRUE
  /\ \/ kind = "profile" /\ Send("profile", plantId, form)
     \/ kind = "purchases" /\ \E r \in Receipts : Send("purchase", form, r)
     \/ kind \notin {"profile", "purchases"} /\ Send("append", plantId, None)
  /\ UNCHANGED <<kind, plantId, data, loading, form, adjustRow, rows>>

Listed == ~Covered /\ ~loading /\ data # None

\* toggleFleet and toggleStaff ask for the opposite of what the row shows, under
\* the plant selected; attendanceAction needs no row.
Toggle ==
  /\ \/ kind = "fleet" /\ Listed /\ data.shown \in {"available", "maintenance"}
        /\ Send("status", data.of, IF data.shown = "maintenance" THEN "available" ELSE "maintenance")
     \/ kind = "staff" /\ Listed /\ Send("person", data.of, ~data.shown)
     \/ kind = "attendance" /\ ~saving /\ Send("checkin", plantId, None)
     \/ kind = "attendance" /\ Send("checkout", plantId, None)
  /\ saving' = TRUE
  /\ UNCHANGED <<kind, plantId, data, loading, form, adjustRow, rows>>

OpenAdjustment ==
  /\ kind = "inventory" /\ Listed /\ adjustRow' = data.of
  /\ UNCHANGED <<kind, plantId, data, loading, saving, form, desk, touches, rows>>

SubmitAdjustment ==
  /\ adjustRow # None /\ ~saving /\ saving' = TRUE
  /\ \E delta \in {1, -1} : Send("adjust", adjustRow, delta)
  /\ UNCHANGED <<kind, plantId, data, loading, form, adjustRow, rows>>

\* What a load shows of a plant.
Shown(p) ==
  CASE kind = "fleet" -> mixer[p]
    [] kind = "staff" -> active[p]
    [] OTHER -> None

\* A load has no identity: whichever lands last is shown.  An error keeps what
\* was there.  The load after a write ends the saving.
Land(c) ==
  /\ desk[c].op = "load" /\ desk[c].pc \in {"ok", "failed"}
  /\ data' = IF desk[c].pc = "ok" THEN [of |-> desk[c].plant, shown |-> desk[c].arg] ELSE data
  /\ loading' = FALSE /\ saving' = (saving /\ desk[c].row = desk[c].plant)
  /\ desk' = [desk EXCEPT ![c] = Free]
  /\ UNCHANGED <<kind, plantId, form, adjustRow, touches, rows>>

\* A write that succeeded closes its window, even one opened anew, and loads the
\* plant it was pressed for; one that failed leaves the window.  The load is
\* told from others by its row.
Answered(c) ==
  /\ desk[c].ui /\ desk[c].op # "load" /\ desk[c].pc \in {"ok", "failed"}
  /\ IF desk[c].pc = "ok"
       THEN /\ desk' = [desk EXCEPT ![c] = [Free EXCEPT !.pc = "sent", !.plant = desk[c].plant, !.ui = TRUE]]
            /\ loading' = TRUE /\ UNCHANGED saving
            /\ form' = IF desk[c].op \in {"profile", "purchase", "append"} THEN None ELSE form
            /\ adjustRow' = IF desk[c].op = "adjust" THEN None ELSE adjustRow
       ELSE /\ desk' = [desk EXCEPT ![c] = Free] /\ saving' = FALSE
            /\ UNCHANGED <<loading, form, adjustRow>>
  /\ UNCHANGED <<kind, plantId, data, touches, rows>>

\* The client stops waiting; the request goes on.
GiveUp(c) ==
  /\ desk[c].ui /\ desk[c].op # "load" /\ desk[c].pc \in {"sent", "write", "post"}
  /\ desk' = [desk EXCEPT ![c].ui = FALSE] /\ saving' = FALSE
  /\ UNCHANGED <<kind, plantId, data, loading, form, adjustRow, touches, rows>>

-----------------------------------------------------------------------------
(* The routes. *)

Pc(c, pc) == desk' = [desk EXCEPT ![c].pc = pc]

\* Mutant: the row is looked up by its id alone.
FoundAnywhere(c) == TRUE

\* A row is looked up by its id and the plant of the path.
Found(c) == desk[c].row = desk[c].plant

\* What a route checks on the document it read.
Judged(c) ==
  LET p == desk[c].row IN
  CASE desk[c].op = "status" -> Found(c) /\ ~load[p]
    [] desk[c].op \in {"person", "purchase"} -> Found(c)
    [] desk[c].op = "adjust" -> Found(c) /\ stock[p] + desk[c].arg >= 0
    [] desk[c].op = "checkin" -> dayAt.in = None
    [] desk[c].op = "checkout" -> dayAt.in = desk[c].plant /\ dayAt.out = None
    [] OTHER -> TRUE

Find(c) ==
  /\ desk[c].pc = "sent" /\ desk[c].op # "load"
  /\ IF Judged(c)
       THEN desk' = [desk EXCEPT ![c].pc = "write",
                                 ![c].arg = IF desk[c].op = "adjust"
                                              THEN [delta |-> @, seen |-> stock[desk[c].row]] ELSE @]
       ELSE Pc(c, "failed")
  /\ UNCHANGED <<kind, screen, touches, rows>>

\* The lists of a plant, or an error.
Read(c) ==
  /\ desk[c].pc = "sent" /\ desk[c].op = "load"
  /\ \/ desk' = [desk EXCEPT ![c].pc = "ok", ![c].arg = Shown(desk[c].plant)]
     \/ Pc(c, "failed")
  /\ UNCHANGED <<kind, screen, touches, rows>>

Writing(c, op) == desk[c].pc = "write" /\ desk[c].op = op

PutProfile(c) ==
  /\ Writing(c, "profile") /\ Pc(c, "ok")
  /\ profile' = [profile EXCEPT ![desk[c].plant] = desk[c].arg]
  /\ UNCHANGED <<kind, screen, touches, mixer, load, active, stores, dayAt>>

\* Rates, mix designs, suppliers, quotations, expenses, diesel, mixers,
\* materials, staff: a document of the plant is inserted.
Append(c) ==
  /\ Writing(c, "append") /\ Pc(c, "ok") /\ UNCHANGED <<kind, screen, touches, rows>>

\* The status is written whatever the mixer has become since it was read.
SetVehicleStatus(c) ==
  /\ Writing(c, "status") /\ Pc(c, "ok")
  /\ mixer' = [mixer EXCEPT ![desk[c].row] = desk[c].arg]
  /\ UNCHANGED <<kind, screen, touches, profile, load, active, stores, dayAt>>

SetStaffStatus(c) ==
  /\ Writing(c, "person") /\ Pc(c, "ok")
  /\ active' = [active EXCEPT ![desk[c].row] = desk[c].arg]
  /\ UNCHANGED <<kind, screen, touches, profile, mixer, load, stores, dayAt>>

\* Mutant: the stock that was read is not compared.
AdjustBlind(c) ==
  /\ Writing(c, "adjust")
  /\ LET p == desk[c].row IN
     /\ stock' = [stock EXCEPT ![p] = @ + desk[c].arg.delta]
     /\ moved' = [moved EXCEPT ![p] = @ + desk[c].arg.delta] /\ Pc(c, "ok")
  /\ UNCHANGED <<kind, screen, touches, profile, mixer, load, active, receipts, loose, dayAt>>

\* adjust_material: the increment is bound to the stock that was read.
Adjust(c) ==
  /\ Writing(c, "adjust")
  /\ LET p == desk[c].row IN
     IF stock[p] = desk[c].arg.seen
       THEN /\ stock' = [stock EXCEPT ![p] = @ + desk[c].arg.delta]
            /\ moved' = [moved EXCEPT ![p] = @ + desk[c].arg.delta] /\ Pc(c, "ok")
       ELSE Pc(c, "failed") /\ UNCHANGED <<stock, moved>>
  /\ UNCHANGED <<kind, screen, touches, profile, mixer, load, active, receipts, loose, dayAt>>

\* create_purchase: the receipt is inserted, and its number is unique in a plant.
InsertReceipt(c) ==
  /\ Writing(c, "purchase")
  /\ LET p == desk[c].row IN
     IF receipts[p][desk[c].arg] = "NONE"
       THEN receipts' = [receipts EXCEPT ![p][desk[c].arg] = "POSTING"] /\ Pc(c, "post")
       ELSE Pc(c, "failed") /\ UNCHANGED receipts
  /\ UNCHANGED <<kind, screen, touches, profile, mixer, load, active, stock, moved, loose, dayAt>>

\* The stock is moved and the receipt posted; or an error undoes both, the stock
\* even if it had not been moved; or the process dies between the two.
PostReceipt(c) ==
  /\ desk[c].pc = "post"
  /\ LET p == desk[c].row
         r == desk[c].arg IN
     \/ /\ stock' = [stock EXCEPT ![p] = @ + 1] /\ Pc(c, "ok") /\ UNCHANGED loose
        /\ receipts' = [receipts EXCEPT ![p][r] = "POSTED"]
     \/ /\ \E moves \in {0, 1} : stock' = [stock EXCEPT ![p] = @ + moves - 1]
        /\ receipts' = [receipts EXCEPT ![p][r] = "NONE"]
        /\ loose' = TRUE /\ Pc(c, "failed")
     \/ /\ \E moves \in {0, 1} : stock' = [stock EXCEPT ![p] = @ + moves]
        /\ loose' = TRUE /\ Pc(c, "failed") /\ UNCHANGED receipts
  /\ UNCHANGED <<kind, screen, touches, profile, mixer, load, active, moved, dayAt>>

CheckIn(c) ==
  /\ Writing(c, "checkin") /\ Pc(c, "ok") /\ dayAt' = [dayAt EXCEPT !.in = desk[c].plant]
  /\ UNCHANGED <<kind, screen, touches, profile, mixer, load, active, stores>>

CheckOut(c) ==
  /\ Writing(c, "checkout") /\ Pc(c, "ok") /\ dayAt' = [dayAt EXCEPT !.out = desk[c].plant]
  /\ UNCHANGED <<kind, screen, touches, profile, mixer, load, active, stores>>

\* An answer that nobody waits for.
Dropped(c) ==
  /\ ~desk[c].ui /\ desk[c].pc \in {"ok", "failed"} /\ desk' = [desk EXCEPT ![c] = Free]
  /\ UNCHANGED <<kind, screen, touches, rows>>

-----------------------------------------------------------------------------
(* The rest of a plant.  Bound: of the first one. *)

\* A load takes the mixer, or gives it back.
MixerTaken(p) ==
  /\ kind = "fleet"
  /\ \/ ~load[p] /\ mixer[p] = "available" /\ mixer' = [mixer EXCEPT ![p] = "loading"]
     \/ load[p] /\ mixer' = [mixer EXCEPT ![p] = "available"]
  /\ load' = [load EXCEPT ![p] = ~@]
  /\ UNCHANGED <<kind, screen, desk, touches, profile, active, stores, dayAt>>

\* Another store manager adjusts the stock, or posts a receipt.
Colleague(p) ==
  /\ kind \in {"inventory", "purchases"} /\ touches < MaxTouches /\ touches' = touches + 1
  /\ Start("adjust", p, p, -1, FALSE) \/ \E r \in Receipts : Start("purchase", p, p, r, FALSE)
  /\ UNCHANGED <<kind, screen, rows>>

Next ==
  \/ Refresh \/ OpenForm \/ CloseForm \/ Submit \/ Toggle \/ OpenAdjustment \/ SubmitAdjustment
  \/ MixerTaken(First) \/ Colleague(First) \/ \E p \in Plants : SelectPlant(p)
  \/ \E c \in DeskCalls :
       \/ Land(c) \/ Answered(c) \/ GiveUp(c) \/ Find(c) \/ Read(c) \/ Dropped(c)
       \/ PutProfile(c) \/ Append(c) \/ SetVehicleStatus(c) \/ SetStaffStatus(c)
       \/ Adjust(c) \/ InsertReceipt(c) \/ PostReceipt(c) \/ CheckIn(c) \/ CheckOut(c)

Spec == Init /\ [][Next]_vars

-----------------------------------------------------------------------------
RowsOf(p) == <<mixer[p], active[p], stock[p], receipts[p]>>

\* A request changes rows of the plant it was pressed for and of no other, also
\* when the list on the screen is still, or again, that of another plant.
OtherPlantsUntouched ==
  [][\A c \in DeskCalls : desk[c].pc \in {"write", "post"} /\ desk'[c].pc # desk[c].pc
       => \A p \in Plants \ {desk[c].plant} : RowsOf(p)' = RowsOf(p)]_vars

\* The stock of a material is what its adjustments and its posted receipts make
\* of it, and is never negative: presses repeated after a lost answer count a
\* receipt once, and two managers do not both take the last of it.  Left aside
\* are materials of which a posting failed.
StockAccounts ==
  ~loose => \A p \in Plants :
    /\ stock[p] >= 0
    /\ stock[p] = 1 + moved[p] + Cardinality({r \in Receipts : receipts[p][r] = "POSTED"})

\* "Business data is plant-scoped" (app/owner/more.tsx): a plant's profile holds
\* the values that were read or typed for that plant.
ProfileOfItsPlant == \A p \in Plants : profile[p] = p
=============================================================================
