--------------------------- MODULE EmployeeMaster ---------------------------
(***************************************************************************)
(* The owner's file on the plant's employees (frontend/app/employee-       *)
(* master.tsx over backend/routers/hr_master.py): one form shows the       *)
(* profile and the salary of the employee selected, each is saved by a     *)
(* button of its own, and after a save the screen loads the list again and *)
(* shows the employee that was selected when the button was pressed.       *)
(***************************************************************************)
EXTENDS Naturals

CONSTANTS
  None,
  Employees,
  Calls,
  MaxPresses     \* bound: buttons that save, and values typed

VARIABLES
  stored,        \* backend: each employee's profile, salary, and private details (bank, tax)
  data,          \* the list as it was last loaded
  selected, form,
  busy, calls,
  presses

vars == <<stored, data, selected, form, busy, calls, presses>>

Parts == {"profile", "salary"}

\* A value typed is known by the employee it was typed for, and by its number.
File == [profile |-> None, salary |-> None, private |-> "entered"]
Free == [part |-> None, of |-> None, value |-> None, heard |-> FALSE, pc |-> "free"]

Init ==
  /\ stored = [e \in Employees |-> File] /\ data = stored
  /\ selected = None /\ form = [p \in Parts |-> None]
  /\ busy = FALSE /\ calls = [c \in Calls |-> Free] /\ presses = 0

\* Mutant: a field the employee has no value for is left as it is.
Overlaid(file) == [p \in Parts |-> IF file[p] # None THEN file[p] ELSE form[p]]

Fields(file) == [p \in Parts |-> file[p]]

ApplyEmployee(e, list) == selected' = e /\ form' = Fields(list[e])

Select(e) == ApplyEmployee(e, data) /\ UNCHANGED <<stored, data, busy, calls, presses>>

Type(p) ==
  /\ selected # None /\ presses < MaxPresses /\ presses' = presses + 1
  /\ form' = [form EXCEPT ![p] = [of |-> selected, n |-> presses']]
  /\ UNCHANGED <<stored, data, selected, busy, calls>>

Save(p) ==
  /\ selected # None /\ ~busy /\ form[p] # None /\ presses < MaxPresses /\ presses' = presses + 1
  /\ \E c \in Calls : /\ calls[c] = Free
                      /\ calls' = [calls EXCEPT ![c] = [part |-> p, of |-> selected, value |-> form[p],
                                                        heard |-> TRUE, pc |-> "sent"]]
  /\ busy' = TRUE /\ UNCHANGED <<stored, data, selected, form>>

\* The profile goes with its private details empty, whatever they were.
Put(c) ==
  LET k == calls[c] IN
  /\ k.pc = "sent" /\ calls' = [calls EXCEPT ![c].pc = "put"]
  /\ stored' = [stored EXCEPT ![k.of][k.part] = k.value,
                              ![k.of].private = IF k.part = "profile" THEN "empty" ELSE @]
  /\ UNCHANGED <<data, selected, form, busy, presses>>

\* After a success the screen goes back to the employee saved, with what is stored.
Saved(c) ==
  LET k == calls[c] IN
  /\ k.heard /\ k.pc = "put" /\ busy' = FALSE /\ data' = stored /\ ApplyEmployee(k.of, stored)
  /\ calls' = [calls EXCEPT ![c] = Free] /\ UNCHANGED <<stored, presses>>

\* A refusal, an answer that is lost, or a list that does not load.
SaveFails(c) ==
  LET k == calls[c] IN
  /\ k.heard /\ busy' = FALSE
  /\ calls' = [calls EXCEPT ![c] = IF k.pc = "put" THEN Free ELSE [k EXCEPT !.heard = FALSE]]
  /\ UNCHANGED <<stored, data, selected, form, presses>>

Ended(c) ==
  /\ calls[c].pc # "free" /\ ~calls[c].heard /\ calls' = [calls EXCEPT ![c] = Free]
  /\ UNCHANGED <<stored, data, selected, form, busy, presses>>

Next ==
  \/ \E e \in Employees : Select(e)
  \/ \E p \in Parts : Type(p) \/ Save(p)
  \/ \E c \in Calls : Put(c) \/ Saved(c) \/ SaveFails(c) \/ Ended(c)

Spec == Init /\ [][Next]_vars

-----------------------------------------------------------------------------
\* What is stored in an employee's file was typed for that employee, whoever was
\* selected while a save was on its way and wherever its answer took the screen.
SavedWhereTyped ==
  \A e \in Employees, p \in Parts : stored[e][p] # None => stored[e][p].of = e
=============================================================================
