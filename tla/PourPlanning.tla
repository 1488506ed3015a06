---------------------------- MODULE PourPlanning ----------------------------
(***************************************************************************)
(* A customer works out a pour before ordering: on the free tools, which   *)
(* keep calculations on the device (frontend/app/customer/free-tools.tsx), *)
(* on the pour planner, which previews the mixer loads and saves plans at  *)
(* the backend (customer/pour-planner.tsx, backend/routers/customer.py),   *)
(* and in the web demo's planner (src/components/PourPlanner.tsx), which   *)
(* fills in the booking window.  Volumes are in hundredths of a cubic      *)
(* metre, lengths in tenths of a metre, times in minutes of the day.       *)
(***************************************************************************)
EXTENDS Naturals, Sequences

CONSTANTS
  None,
  Lengths, Allowances,           \* measurements; wastage, in per cent
  Grades,
  Quantities, Capacities,        \* of the planner: asked for, and a mixer's
  Intervals, Starts,
  MaxLoads,                      \* of a plan (500 in the code)
  MaxSaved,                      \* calculations kept (50 in the code)
  MaxPresses                     \* bound: presses that save

VARIABLES
  page,                          \* the screen followed: they share nothing but the order form
  \* the free tools
  opened,                        \* "reading", "read" or "unread" (the device's store failed)
  shape, side, depth, allowance, grade,
  saved, stored, writes,         \* the list shown, the one on the device, the lists on their way there
  early,                         \* a list was written before the device's was read
  ordered,                       \* the order form opened last
  \* the pour planner
  form, busy, call, plans, removing,
  \* the web demo's planner
  structure, dims, booking,
  presses

tools == <<opened, shape, side, depth, allowance, grade, saved, stored, writes, early, ordered>>
planner == <<form, busy, call, plans, removing>>
demo == <<structure, dims, booking>>
vars == <<page, tools, planner, demo, presses>>

CeilDiv(a, b) == (a + b - 1) \div b
HalfUp(a, b) == (2 * a + b) \div (2 * b)
Least(a, b) == IF a <= b THEN a ELSE b

\* The volume of one member, in hundredths: a slab is square here, and a circular
\* member takes its side for the diameter.
Base(s, x, d) == IF s = "CIRCULAR" THEN HalfUp(x * x * d * 314159, 4000000) ELSE HalfUp(x * x * d, 10)
Quantity == HalfUp(Base(shape, side, depth) * (100 + allowance), 100)

\* The loads previewed, and the time the last one is empty.
Day == 1440
Preview(f) ==
  IF f.qty = 0 THEN <<>>
  ELSE [i \in 1..Least(CeilDiv(f.qty, f.capacity), MaxLoads) |->
          [quantity |-> Least(f.capacity, f.qty - (i - 1) * f.capacity),
           arrival |-> (f.start + (i - 1) * f.interval) % Day]]
PreviewEnd(f) == IF Preview(f) = <<>> THEN None ELSE (f.start + Len(Preview(f)) * f.interval) % Day

Form == [qty : Quantities, capacity : Capacities, start : Starts, interval : Intervals, site : BOOLEAN]

Init ==
  /\ page \in {"tools", "planner", "demo"}
  /\ opened = "reading" /\ shape = "SLAB" /\ side = 0 /\ depth \in Lengths /\ allowance \in Allowances
  /\ grade = None /\ saved = <<>> /\ writes = <<>> /\ early = FALSE /\ ordered = None
  /\ stored \in {<<>>, <<[id |-> 0, qty |-> 1, grade |-> None]>>}
  /\ form = (CHOOSE f \in Form : ~f.site) /\ busy = FALSE /\ call = None /\ plans = {} /\ removing = {}
  /\ structure = "slab" /\ dims = [volume |-> 1440, wastage |-> 5] /\ booking = [grade |-> "M25", qty |-> 240]
  /\ presses = 0

Press == presses < MaxPresses /\ presses' = presses + 1

-----------------------------------------------------------------------------
(* The free tools. *)
StoreRead(ok) ==
  /\ opened = "reading" /\ opened' = IF ok THEN "read" ELSE "unread"
  /\ saved' = IF ok /\ stored # <<>> THEN stored ELSE saved
  /\ UNCHANGED <<shape, side, depth, allowance, grade, stored, writes, early, ordered, planner, demo, presses>>

Measure(x) ==
  /\ side' = x /\ shape' \in {"SLAB", "CIRCULAR"}
  /\ UNCHANGED <<opened, depth, allowance, grade, saved, stored, writes, early, ordered, planner, demo, presses>>

ChooseGrade(g) ==
  /\ grade' = g
  /\ UNCHANGED <<opened, shape, side, depth, allowance, saved, stored, writes, early, ordered, planner, demo, presses>>

Persist(list) ==
  saved' = list /\ writes' = Append(writes, list) /\ early' = (early \/ opened = "reading")

Save ==
  /\ Quantity # 0 /\ Press
  /\ LET item == [id |-> presses', qty |-> Quantity, grade |-> grade]
         list == <<item>> \o saved
     IN Persist(SubSeq(list, 1, Least(Len(list), MaxSaved)))
  /\ UNCHANGED <<opened, shape, side, depth, allowance, grade, stored, ordered, planner, demo>>

Without(i) == SelectSeq(saved, LAMBDA x : x.id # saved[i].id)

Delete(i) ==
  /\ Press /\ Persist(Without(i))
  /\ UNCHANGED <<opened, shape, side, depth, allowance, grade, stored, ordered, planner, demo>>

\* The device stores one list after the other.
Written ==
  /\ writes # <<>> /\ stored' = Head(writes) /\ writes' = Tail(writes)
  /\ UNCHANGED <<opened, shape, side, depth, allowance, grade, saved, early, ordered, planner, demo, presses>>

\* With no grade of its own, a saved calculation is ordered with the one selected now.
OpenOrder(i) ==
  /\ IF i = 0 THEN Quantity # 0 /\ ordered' = [qty |-> Quantity, grade |-> grade]
     ELSE ordered' = [qty |-> saved[i].qty, grade |-> IF saved[i].grade # None THEN saved[i].grade ELSE grade]
  /\ UNCHANGED <<opened, shape, side, depth, allowance, grade, saved, stored, writes, early, planner, demo, presses>>

-----------------------------------------------------------------------------
(* The pour planner. *)
\* Every field stays open while a plan is being saved.
TypeForm ==
  /\ form' \in {f \in Form : form.site => f.site}
  /\ UNCHANGED <<tools, busy, call, plans, removing, demo, presses>>

SavePlan ==
  /\ ~busy /\ call = None /\ form.site /\ form.qty # 0 /\ Press /\ busy' = TRUE
  /\ call' = [form |-> form, shown |-> Preview(form), ends |-> PreviewEnd(form), n |-> presses', pc |-> "sent"]
  /\ UNCHANGED <<tools, form, plans, removing, demo>>

\* Mutant: what does not fill a mixer is left out.
LoadsDown(f) == f.qty \div f.capacity

LoadsCount(f) == CeilDiv(f.qty, f.capacity)

\* The backend computes the loads itself.
CreatePourPlan ==
  /\ call # None /\ call.pc = "sent"
  /\ LET f == call.form  n == LoadsCount(f) IN
       IF n > MaxLoads THEN UNCHANGED plans
       ELSE plans' = plans \cup {[n |-> call.n, qty |-> f.qty, shown |-> call.shown, ends |-> call.ends,
                 loads |-> [i \in 1..n |->
                   [quantity |-> Least(f.capacity, f.qty - (i - 1) * f.capacity),
                    arrival |-> (f.start + (i - 1) * f.interval) % Day]],
                 end |-> (f.start + n * f.interval) % Day]}
  /\ call' = IF busy THEN [call EXCEPT !.pc = "done"] ELSE None
  /\ UNCHANGED <<tools, form, busy, removing, demo, presses>>

\* The answer comes, or is lost: then the customer may save the plan again.
PlanAnswered ==
  /\ busy /\ busy' = FALSE /\ call' = IF call.pc = "sent" THEN call ELSE None
  /\ UNCHANGED <<tools, form, plans, removing, demo, presses>>

RemovePlan(p) ==
  /\ removing' = removing \cup {p} /\ Press /\ UNCHANGED <<tools, form, busy, call, plans, demo>>

DeletePourPlan(p) ==
  /\ plans' = plans \ {p} /\ removing' = removing \ {p}
  /\ UNCHANGED <<tools, form, busy, call, demo, presses>>

\* A plan becomes the order form's first figures, and so do the fields.
UseInOrder(q) ==
  /\ ordered' = [qty |-> q, grade |-> None]
  /\ UNCHANGED <<opened, shape, side, depth, allowance, grade, saved, stored, writes, early, planner, demo, presses>>

-----------------------------------------------------------------------------
(* The web demo's planner. *)
Recommended == [slab |-> "M25", column |-> "M35", beam |-> "M30", footing |-> "M20"]

\* Each structural element comes with its own dimensions.
Standard == [slab |-> 1440, column |-> 729, beam |-> 648, footing |-> 1944]

ChooseStructure(s) ==
  /\ structure' = s /\ dims' = [dims EXCEPT !.volume = Standard[s]]
  /\ UNCHANGED <<tools, planner, booking, presses>>

SetDimensions(v, w) ==
  /\ dims' = [volume |-> v, wastage |-> w] /\ UNCHANGED <<tools, planner, structure, booking, presses>>

\* In tenths of a cubic metre; the mixers are counted before the least volume applies.
Gross == HalfUp(dims.volume * (100 + dims.wastage), 1000)
GrossVolume == IF Gross < 10 THEN 10 ELSE Gross
MixerLoads == CeilDiv(Gross, 60)

Transfer ==
  /\ booking' = [grade |-> Recommended[structure], qty |-> GrossVolume]
  /\ UNCHANGED <<tools, planner, structure, dims, presses>>

ToolsNext ==
  \/ StoreRead(TRUE) \/ StoreRead(FALSE) \/ Save \/ Written \/ OpenOrder(0)
  \/ \E x \in Lengths : Measure(x)
  \/ \E g \in Grades : ChooseGrade(g)
  \/ \E i \in DOMAIN saved : Delete(i) \/ OpenOrder(i)

PlannerNext ==
  \/ TypeForm \/ SavePlan \/ CreatePourPlan \/ PlanAnswered
  \/ \E p \in plans : RemovePlan(p) \/ UseInOrder(p.qty)
  \/ \E p \in removing : DeletePourPlan(p)

DemoNext ==
  \/ Transfer
  \/ \E s \in DOMAIN Standard : ChooseStructure(s)
  \/ \E v \in {1, 600} : SetDimensions(v, 5)

Next ==
  /\ UNCHANGED page
  /\ \/ page = "tools" /\ ToolsNext
     \/ page = "planner" /\ PlannerNext
     \/ page = "demo" /\ DemoNext

Spec == Init /\ [][Next]_vars

-----------------------------------------------------------------------------
\* What the mixers carry together.
Volume(loads) ==
  LET upTo[i \in 0..Len(loads)] == IF i = 0 THEN 0 ELSE upTo[i - 1] + loads[i].quantity IN upTo[Len(loads)]

\* What the customer is shown is what is kept: a plan has the loads, of the whole
\* volume, and the end that were on the screen when it was saved, though the
\* backend works them out anew; and the device keeps the calculations listed,
\* unless the store could not be read or was written before it was.
KeptAsShown ==
  /\ \A p \in plans : p.loads = p.shown /\ p.end = p.ends /\ p.qty = Volume(p.loads)
  /\ (opened = "read" /\ ~early /\ writes = <<>>) => stored = saved
=============================================================================
