--------------------------- MODULE PayrollProofs ----------------------------
(***************************************************************************)
(* Proofs about Payroll: finance follows the payroll records, payslips     *)
(* show what finance paid, and one closing at a time works on the month,   *)
(* for any employees, amounts, references and number of concurrent calls.  *)
(***************************************************************************)
EXTENDS Payroll, TLAPS

\* A record r and the finance posting p under its key.
RecInv(r, p) ==
  /\ r.status # "NONE" => r.net \in Amounts
  /\ r.lock # None => r.status = "APPROVED"
  /\ r.status = "PAID" => r.ref \in Refs /\ p = [amount |-> r.net, ref |-> r.ref]
  /\ p # None /\ r.status # "PAID" =>
       r.status = "APPROVED" /\ p = [amount |-> r.net, ref |-> r.lock]

\* Past its reservation a payment s finds its record r locked for it, with the
\* amount it has read, or paid.
Held(s, r) ==
  /\ r.status \in {"APPROVED", "PAID"}
  /\ r.status = "APPROVED" => r.lock = s.body /\ r.net = s.seen.net
  /\ s.seen.net \in Amounts

Paying == {"pay", "reserve", "recheck", "find", "post", "finalize"}

\* What a call s knows of its own place.
LocalInv(s) ==
  /\ s.pc \in Mutating => s.who \in Employees
  /\ s.pc \in {"draft", "save"} => s.body \in Amounts
  /\ s.pc \in Paying => s.body \in Refs
  /\ s.pc = "save" => s.seen.status \in {"NONE", "DRAFT", "RETURNED"}
  /\ s.pc = "decide" => s.seen.status \in {"DRAFT", "APPROVED"}
  /\ s.pc = "reserve" => s.seen.status = "APPROVED" /\ s.seen.lock = None

\* What a call s relies on of the records R and the postings L.
PayInv(s, R, L) ==
  /\ s.pc \in {"find", "post", "finalize"} => Held(s, R[s.who])
  /\ s.pc = "finalize" =>
       L[s.who] = [amount |-> s.seen.net, ref |-> s.body]
  /\ s.pc = "slip" =>
       \A e \in s.todo : s.rows[e].status = "PAID" /\ s.rows[e] = R[e]

\* A call c under closing holds the month's lock.
LockInv(c, s, p) == s.pc \in Closing => p.status = "CLOSING" /\ p.lock = c

SlipInv(s, r) ==
  s # None => r.status = "PAID" /\ s = [amount |-> r.net, ref |-> r.ref]

IInv ==
  /\ TypeOK
  /\ \A e \in Employees : RecInv(rec[e], ledger[e])
  /\ \A c \in Calls : LocalInv(call[c])
  /\ \A c \in Calls : PayInv(call[c], rec, ledger)
  /\ \A c \in Calls : LockInv(c, call[c], period)
  /\ \A e \in Employees : \A v \in Versions : SlipInv(slips[e][v], rec[e])
-----------------------------------------------------------------------------
(* Types. *)

\* The absent record is a record.
LEMMA NoRecordType == NoRecord \in Records
  BY DEF NoRecord, Records, Statuses

\* The idle call is a call.
LEMMA IdleType == Idle \in CallStates
  <1>1. "idle" \in PCs
    BY DEF PCs
  <1>2. NoRows \in [Employees -> Records]
    BY NoRecordType DEF NoRows
  <1>3. None \in Bodies
    BY DEF Bodies
  <1> QED
    BY <1>1, <1>2, <1>3, NoRecordType DEF Idle, CallStates

\* What a call that is neither paying nor closing relies on: nothing.
Quiet(s) == s.pc \notin {"find", "post", "finalize"} \cup Closing

\* An idle call promises nothing and holds nothing.
LEMMA IdleInv == LocalInv(Idle) /\ Quiet(Idle)
  BY DEF LocalInv, Quiet, Idle, Mutating, Paying, Closing

\* A call that neither pays nor closes promises nothing about payments or the period.
LEMMA QuietInv ==
  ASSUME NEW s, Quiet(s), NEW R, NEW L, NEW p, NEW c
  PROVE  PayInv(s, R, L) /\ LockInv(c, s, p)
  BY DEF Quiet, PayInv, LockInv, Closing

-----------------------------------------------------------------------------
(* The kinds of step. *)

\* A step that changes one call and no document.
LEMMA CallStep ==
  ASSUME IInv, NEW c \in Calls, NEW s \in CallStates,
         call' = [call EXCEPT ![c] = s],
         UNCHANGED <<rec, ledger, period, slips>>, active' \in SUBSET Employees,
         clock' \in Nat, died' \in BOOLEAN,
         writes' \in Nat, closes' \in Nat, faults' \in Nat,
         LocalInv(s), PayInv(s, rec, ledger), LockInv(c, s, period)
  PROVE  IInv'
  <1>1. TypeOK'
    BY DEF IInv, TypeOK
  <1>2. \A d \in Calls : call'[d] = IF d = c THEN s ELSE call[d]
    BY DEF IInv, TypeOK
  <1>3. \A d \in Calls : LocalInv(call'[d])
    BY <1>2 DEF IInv
  <1>4. \A d \in Calls : PayInv(call'[d], rec, ledger)
    BY <1>2 DEF IInv
  <1>5. \A d \in Calls : LockInv(d, call'[d], period)
    BY <1>2 DEF IInv
  <1> QED
    BY <1>1, <1>3, <1>4, <1>5 DEF IInv

\* A step that changes one call and one record that is not PAID.
LEMMA WriteStep ==
  ASSUME IInv, NEW c \in Calls, NEW s \in CallStates, NEW e \in Employees,
         NEW r \in Records,
         call' = [call EXCEPT ![c] = s], rec' = [rec EXCEPT ![e] = r],
         UNCHANGED <<ledger, period, slips, active, bounds>>, clock' \in Nat,
         LocalInv(s), PayInv(s, rec', ledger), LockInv(c, s, period),
         rec[e].status # "PAID", RecInv(r, ledger[e]),
         \A d \in Calls \ {c} :
           call[d].pc \in {"find", "post", "finalize"} /\ call[d].who = e
             => Held(call[d], r)
  PROVE  IInv'
  <1>1. TypeOK'
    BY DEF IInv, TypeOK, bounds
  <1>2. /\ \A d \in Calls : call'[d] = IF d = c THEN s ELSE call[d]
        /\ \A x \in Employees : rec'[x] = IF x = e THEN r ELSE rec[x]
    BY DEF IInv, TypeOK
  <1>3. \A d \in Calls : LocalInv(call'[d])
    BY <1>2 DEF IInv
  <1>4. \A x \in Employees : RecInv(rec'[x], ledger[x])
    BY <1>2 DEF IInv
  <1>5. \A d \in Calls : PayInv(call'[d], rec', ledger)
    <2> TAKE d \in Calls
    <2>1. CASE d = c
      BY <1>2, <2>1
    <2>2. CASE d # c
      <3> DEFINE t == call[d]
      <3>1. call'[d] = t /\ PayInv(t, rec, ledger) /\ LocalInv(t)
        BY <1>2, <2>2 DEF IInv
      <3>2. t \in CallStates
        BY DEF IInv, TypeOK
      <3>3. t.pc \in {"find", "post", "finalize"} => t.who \in Employees
        BY <3>1 DEF LocalInv, Mutating
      <3>4. t.pc \in {"find", "post", "finalize"} => Held(t, rec'[t.who])
        BY <1>2, <2>2, <3>1, <3>3 DEF PayInv
      <3>5. t.pc = "slip" =>
              \A x \in t.todo : t.rows[x].status = "PAID" /\ t.rows[x] = rec'[x]
        <4> SUFFICES ASSUME t.pc = "slip", NEW x \in t.todo
                     PROVE  t.rows[x].status = "PAID" /\ t.rows[x] = rec'[x]
          OBVIOUS
        <4>1. t.rows[x].status = "PAID" /\ t.rows[x] = rec[x] /\ x \in Employees
          BY <3>1, <3>2 DEF PayInv, CallStates
        <4> QED
          BY <1>2, <4>1
      <3> QED
        BY <3>1, <3>4, <3>5 DEF PayInv
    <2> QED
      BY <2>1, <2>2
  <1>6. \A d \in Calls : LockInv(d, call'[d], period)
    BY <1>2 DEF IInv
  <1>7. \A x \in Employees : \A v \in Versions : SlipInv(slips[x][v], rec'[x])
    <2> TAKE x \in Employees
    <2> TAKE v \in Versions
    <2>1. SlipInv(slips[x][v], rec[x])
      BY DEF IInv
    <2> QED
      BY <1>2, <2>1 DEF SlipInv
  <1> QED
    BY <1>1, <1>3, <1>4, <1>5, <1>6, <1>7 DEF IInv, bounds

-----------------------------------------------------------------------------
\* The initial states satisfy the inductive invariant.
THEOREM InitInv == Init => IInv
  <1> SUFFICES ASSUME Init PROVE IInv
    OBVIOUS
  <1>1. \A r \in {NoRecord} \cup {Approved(n) : n \in Amounts} :
          r \in Records /\ RecInv(r, None)
    <2>1. NoRecord \in Records /\ RecInv(NoRecord, None)
      BY NoRecordType DEF NoRecord, RecInv
    <2>2. \A n \in Amounts : Approved(n) \in Records /\ RecInv(Approved(n), None)
      BY DEF Approved, NoRecord, Records, Statuses, RecInv
    <2> QED
      BY <2>1, <2>2
  <1>2. TypeOK
    <2>1. rec \in [Employees -> Records]
      BY <1>1 DEF Init
    <2>2. call \in [Calls -> CallStates]
      BY IdleType DEF Init
    <2>3. period \in Periods
      BY DEF Init, Periods
    <2> QED
      BY <2>1, <2>2, <2>3 DEF Init, TypeOK, MaybePosting
  <1>3. \A e \in Employees : RecInv(rec[e], ledger[e])
    BY <1>1 DEF Init
  <1>4. \A c \in Calls : call[c] = Idle
    BY DEF Init
  <1>5. \A e \in Employees : \A v \in Versions : SlipInv(slips[e][v], rec[e])
    BY DEF Init, SlipInv
  <1> QED
    BY <1>2, <1>3, <1>4, <1>5, IdleInv, QuietInv DEF IInv

-----------------------------------------------------------------------------
(* The steps. *)

\* A call that ends without having changed a document.
LEMMA ReturnStep ==
  ASSUME IInv, NEW c \in Calls, Return(c),
         UNCHANGED <<db, clock, bounds>>
  PROVE  IInv'
  BY IdleType, IdleInv, QuietInv, CallStep DEF Return, db, bounds, IInv, TypeOK

\* A call that moves to a place where it relies on nothing but its own reading.
LEMMA MoveStep ==
  ASSUME IInv, NEW c \in Calls, NEW s \in CallStates,
         call' = [call EXCEPT ![c] = s], UNCHANGED <<db, clock, bounds>>,
         LocalInv(s), Quiet(s)
  PROVE  IInv'
  BY QuietInv, CallStep DEF db, bounds, IInv, TypeOK

\* The first read of a draft, a decision or a payment keeps the invariant.
LEMMA Reads ==
  ASSUME IInv, NEW c \in Calls,
         ReadForDraft(c) \/ ReadForDecision(c) \/ ReadForPayment(c)
  PROVE  IInv'
  <1> DEFINE s == call[c]
             r == rec[s.who]
             to(pc) == [s EXCEPT !.pc = pc, !.seen = r]
  <1>1. s \in CallStates /\ LocalInv(s) /\ call = [d \in Calls |-> call[d]]
    BY DEF IInv, TypeOK
  <1>2. s.pc \in {"draft", "decision", "pay"} => s.who \in Employees /\ r \in Records
    BY <1>1 DEF LocalInv, Mutating, IInv, TypeOK
  <1>3. \A pc \in PCs : r \in Records => to(pc) \in CallStates
    BY <1>1 DEF CallStates
  <1>4. {"save", "decide", "reserve", "find"} \subseteq PCs
    BY DEF PCs, Mutating
  <1>5. ASSUME ReadForDraft(c) PROVE IInv'
    <2>1. CASE r.status \in {"NONE", "DRAFT", "RETURNED"}
      <3>1. call' = [call EXCEPT ![c] = to("save")] /\ s.pc = "draft"
        BY <1>1, <1>5, <2>1 DEF ReadForDraft, At
      <3>2. LocalInv(to("save")) /\ Quiet(to("save"))
        BY <1>1, <2>1, <3>1 DEF LocalInv, Quiet, Mutating, Paying, Closing, CallStates
      <3> QED
        BY <1>2, <1>3, <1>4, <1>5, <3>1, <3>2, MoveStep DEF ReadForDraft
    <2>2. CASE r.status \notin {"NONE", "DRAFT", "RETURNED"}
      BY <1>5, <2>2, ReturnStep DEF ReadForDraft
    <2> QED
      BY <2>1, <2>2
  <1>6. ASSUME ReadForDecision(c) PROVE IInv'
    <2>1. CASE r.status \in Decidable(s.body)
      <3>1. call' = [call EXCEPT ![c] = to("decide")] /\ s.pc = "decision"
        BY <1>1, <1>6, <2>1 DEF ReadForDecision, At
      <3>2. LocalInv(to("decide")) /\ Quiet(to("decide"))
        BY <1>1, <2>1, <3>1
        DEF LocalInv, Quiet, Mutating, Paying, Closing, CallStates, Decidable
      <3> QED
        BY <1>2, <1>3, <1>4, <1>6, <3>1, <3>2, MoveStep DEF ReadForDecision
    <2>2. CASE r.status \notin Decidable(s.body)
      BY <1>6, <2>2, ReturnStep DEF ReadForDecision
    <2> QED
      BY <2>1, <2>2
  <1>7. ASSUME ReadForPayment(c) PROVE IInv'
    <2>1. s.pc = "pay" /\ s.body \in Refs /\ RecInv(r, ledger[s.who])
      BY <1>1, <1>2, <1>7 DEF ReadForPayment, At, LocalInv, Paying, IInv
    <2>2. CASE r.status = "APPROVED" /\ r.lock = None
      <3>1. call' = [call EXCEPT ![c] = to("reserve")]
        BY <1>1, <1>7, <2>2 DEF ReadForPayment
      <3>2. LocalInv(to("reserve")) /\ Quiet(to("reserve"))
        BY <1>1, <2>1, <2>2
        DEF LocalInv, Quiet, Mutating, Paying, Closing, CallStates
      <3> QED
        BY <1>2, <1>3, <1>4, <1>7, <2>1, <3>1, <3>2, MoveStep DEF ReadForPayment
    <2>3. CASE r.status = "APPROVED" /\ r.lock = s.body
      <3>1. call' = [call EXCEPT ![c] = to("find")]
        BY <1>1, <1>7, <2>1, <2>3, PayrollAssumption DEF ReadForPayment
      <3>2. to("find") \in CallStates
        BY <1>2, <1>3, <1>4, <2>1
      <3>3. LocalInv(to("find"))
        BY <1>1, <2>1, <3>2 DEF LocalInv, Mutating, Paying, CallStates
      <3>4. PayInv(to("find"), rec, ledger) /\ LockInv(c, to("find"), period)
        BY <1>1, <2>1, <2>3
        DEF PayInv, LockInv, Held, RecInv, Closing, CallStates
      <3> QED
        BY <1>7, <3>1, <3>2, <3>3, <3>4, CallStep
        DEF ReadForPayment, db, bounds, IInv, TypeOK
    <2>4. CASE ~(r.status = "APPROVED" /\ r.lock \in {None, s.body})
      BY <1>7, <2>4, ReturnStep DEF ReadForPayment
    <2> QED
      BY <2>2, <2>3, <2>4
  <1> QED
    BY <1>5, <1>6, <1>7

\* What the record a call is about is, and who else may rely on it.
LEMMA Subject ==
  ASSUME IInv, NEW c \in Calls, call[c].pc \in Mutating
  PROVE  /\ call[c] \in CallStates /\ LocalInv(call[c])
         /\ call[c].who \in Employees
         /\ rec[call[c].who] \in Records
         /\ RecInv(rec[call[c].who], ledger[call[c].who])
         /\ PayInv(call[c], rec, ledger)
         /\ call[c].seen \in Records /\ clock \in Nat
  <1>1. call[c] \in CallStates /\ LocalInv(call[c]) /\ PayInv(call[c], rec, ledger)
    BY DEF IInv, TypeOK
  <1>2. call[c].who \in Employees
    BY <1>1 DEF LocalInv
  <1> QED
    BY <1>1, <1>2 DEF IInv, TypeOK, CallStates

\* No payment is past its reservation on a record that is neither PAID nor
\* locked.
LEMMA NobodyPays ==
  ASSUME IInv, NEW e \in Employees, rec[e].status # "PAID", rec[e].lock = None,
         NEW d \in Calls, call[d].pc \in {"find", "post", "finalize"},
         call[d].who = e
  PROVE  FALSE
  <1>1. LocalInv(call[d]) /\ PayInv(call[d], rec, ledger)
    BY DEF IInv
  <1>2. call[d].body \in Refs /\ Held(call[d], rec[e])
    BY <1>1 DEF LocalInv, PayInv, Paying
  <1> QED
    BY <1>2, PayrollAssumption DEF Held

\* A write of a record that is neither PAID nor locked: what it makes of the
\* record is enough to look at, whatever the stamp.
LEMMA FreeWrite ==
  ASSUME IInv, NEW c \in Calls, call[c].pc \in Mutating,
         rec[call[c].who].status # "PAID", rec[call[c].who].lock = None,
         NEW new \in Records, Write(c, new), RecInv(new, ledger[call[c].who]),
         NEW s \in CallStates, call' = [call EXCEPT ![c] = s],
         LocalInv(s), PayInv(s, rec', ledger), LockInv(c, s, period),
         UNCHANGED <<ledger, period, slips, active, bounds>>
  PROVE  IInv'
  <1> DEFINE e == call[c].who
             r == [new EXCEPT !.stamp = clock + 1]
  <1>1. e \in Employees /\ clock \in Nat
    BY Subject
  <1>2. rec' = [rec EXCEPT ![e] = r] /\ clock' = clock + 1
    BY DEF Write
  <1>3. /\ r \in Records /\ r.status = new.status /\ r.net = new.net
        /\ r.lock = new.lock /\ r.ref = new.ref
    BY <1>1 DEF Records
  <1>4. RecInv(r, ledger[e])
    BY <1>3 DEF RecInv
  <1>5. \A d \in Calls \ {c} :
          call[d].pc \in {"find", "post", "finalize"} /\ call[d].who = e
            => Held(call[d], r)
    BY <1>1, NobodyPays
  <1>6. clock' \in Nat /\ rec[e].status # "PAID"
    BY <1>1, <1>2
  <1> HIDE DEF e, r
  <1> QED
    BY <1>1, <1>2, <1>3, <1>4, <1>5, <1>6, WriteStep

\* Saving a draft keeps the invariant: a draft owes the ledger nothing.
LEMMA SaveDraftStep ==
  ASSUME IInv, NEW c \in Calls, SaveDraft(c)
  PROVE  IInv'
  <1> DEFINE s == call[c]
             new == [s.seen EXCEPT !.status = "DRAFT", !.net = s.body]
  <1>1. s.pc = "save" /\ Return(c)
    BY DEF SaveDraft, At
  <1>2. /\ s.who \in Employees /\ s.body \in Amounts /\ s.seen \in Records
        /\ s.seen.status \in {"NONE", "DRAFT", "RETURNED"}
        /\ RecInv(rec[s.who], ledger[s.who])
    BY <1>1, Subject DEF Mutating, LocalInv
  <1>3. CASE Unchanged(c)
    <2>1. /\ rec[s.who] = s.seen /\ rec[s.who].status # "PAID"
          /\ rec[s.who].lock = None
      BY <1>2, <1>3 DEF Unchanged, RecInv
    <2>2. /\ new \in Records /\ new.status = "DRAFT" /\ new.net = s.body
          /\ new.lock = None
      BY <1>2, <2>1 DEF Records, Statuses
    <2>3. RecInv(new, ledger[s.who])
      BY <1>2, <2>1, <2>2 DEF RecInv
    <2>4. Write(c, new)
      BY <1>3 DEF SaveDraft
    <2> HIDE DEF new
    <2> QED
      BY <1>1, <2>1, <2>2, <2>3, <2>4, IdleType, IdleInv, QuietInv, FreeWrite
      DEF SaveDraft, Return, Mutating
  <1>4. CASE ~Unchanged(c)
    BY <1>1, <1>4, ReturnStep DEF SaveDraft, db
  <1> QED
    BY <1>3, <1>4

\* A record that is neither PAID nor locked has no finance posting.
LEMMA NotPosted ==
  ASSUME IInv, NEW e \in Employees, rec[e].status # "PAID", rec[e].lock = None
  PROVE  ledger[e] = None
  <1>1. RecInv(rec[e], ledger[e]) /\ ledger[e] \in MaybePosting
    BY DEF IInv, TypeOK
  <1>2. ASSUME ledger[e] # None PROVE FALSE
    <2>1. ledger[e] \in Postings /\ ledger[e] = [amount |-> rec[e].net, ref |-> None]
      BY <1>1, <1>2 DEF RecInv, MaybePosting
    <2> QED
      BY <2>1, PayrollAssumption DEF Postings
  <1> QED
    BY <1>2

\* Deciding keeps the invariant: it takes only the record it has read, not one being paid.
LEMMA DecideStep ==
  ASSUME IInv, NEW c \in Calls, Decide(c)
  PROVE  IInv'
  <1> DEFINE s == call[c]
             to == IF s.body = "APPROVE" THEN "APPROVED" ELSE "RETURNED"
             new == [s.seen EXCEPT !.status = to]
  <1>1. s.pc = "decide" /\ Return(c)
    BY DEF Decide, At
  <1>2. /\ s.who \in Employees /\ s.seen.status \in {"DRAFT", "APPROVED"}
        /\ s.seen \in Records /\ RecInv(rec[s.who], ledger[s.who])
    BY <1>1, Subject DEF Mutating, LocalInv
  <1>3. CASE Unchanged(c) /\ rec[s.who].lock = None
    <2>1. /\ rec[s.who] = s.seen /\ rec[s.who].status # "PAID"
          /\ ledger[s.who] = None
      BY <1>2, <1>3, NotPosted DEF Unchanged
    <2>2. /\ new \in Records /\ new.status \in {"APPROVED", "RETURNED"}
          /\ new.net = rec[s.who].net /\ new.lock = None
      BY <1>2, <1>3, <2>1 DEF Records, Statuses
    <2>3. RecInv(new, ledger[s.who])
      BY <1>2, <2>1, <2>2 DEF RecInv
    <2>4. Write(c, new)
      BY <1>3 DEF Decide
    <2> HIDE DEF new
    <2> QED
      BY <1>1, <1>3, <2>1, <2>2, <2>3, <2>4, IdleType, IdleInv, QuietInv, FreeWrite
      DEF Decide, Return, Mutating
  <1>4. CASE ~(Unchanged(c) /\ rec[s.who].lock = None)
    BY <1>1, <1>4, ReturnStep DEF Decide, db
  <1> QED
    BY <1>3, <1>4

\* Reserving the payment binds the call to the record it has read.
LEMMA ReserveStep ==
  ASSUME IInv, NEW c \in Calls, Reserve(c)
  PROVE  IInv'
  <1> DEFINE s == call[c]
             new == [s.seen EXCEPT !.lock = s.body]
             t == [s EXCEPT !.pc = "find", !.seen = rec'[s.who]]
  <1>1. s.pc = "reserve"
    BY DEF Reserve, At
  <1>2. /\ s.who \in Employees /\ s.seen.status = "APPROVED" /\ s.seen.lock = None
        /\ s.seen \in Records /\ s.body \in Refs /\ s \in CallStates
        /\ RecInv(rec[s.who], ledger[s.who]) /\ rec \in [Employees -> Records]
        /\ LocalInv(s) /\ clock \in Nat
    BY <1>1, Subject DEF Mutating, LocalInv, Paying, IInv, TypeOK
  <1>3. CASE Unchanged(c)
    <2>1. /\ rec[s.who] = s.seen /\ rec[s.who].status = "APPROVED"
          /\ rec[s.who].lock = None /\ ledger[s.who] = None
          /\ rec[s.who].net \in Amounts
      BY <1>2, <1>3, NotPosted DEF Unchanged, RecInv
    <2>2. /\ new \in Records /\ new.status = "APPROVED"
          /\ new.net = rec[s.who].net /\ new.lock = s.body
      BY <1>2, <2>1 DEF Records
    <2>3. RecInv(new, ledger[s.who])
      BY <1>2, <2>1, <2>2 DEF RecInv
    <2>4. Write(c, new) /\ call' = [call EXCEPT ![c] = t]
      BY <1>3 DEF Reserve
    <2>5. /\ rec'[s.who] \in Records /\ rec'[s.who].status = "APPROVED"
          /\ rec'[s.who].net = new.net /\ rec'[s.who].lock = s.body
      <3>1. rec'[s.who] = [new EXCEPT !.stamp = clock + 1]
        BY <1>2, <2>4 DEF Write
      <3> HIDE DEF new
      <3> QED
        BY <1>2, <2>2, <3>1 DEF Records
    <2>6. "find" \in PCs
      BY DEF PCs, Mutating
    <2>7. /\ t \in CallStates /\ t.pc = "find" /\ t.who = s.who /\ t.body = s.body
          /\ t.seen = rec'[s.who]
      BY <1>2, <2>5, <2>6 DEF CallStates
    <2> HIDE DEF new, t
    <2>8. LocalInv(t) /\ LockInv(c, t, period)
      BY <1>2, <2>7 DEF LocalInv, LockInv, Mutating, Paying, Closing
    <2>9. PayInv(t, rec', ledger)
      BY <2>1, <2>2, <2>5, <2>7 DEF PayInv, Held
    <2> QED
      BY <1>1, <2>1, <2>2, <2>3, <2>4, <2>7, <2>8, <2>9, FreeWrite
      DEF Reserve, Mutating
  <1>4. CASE ~Unchanged(c)
    <2> DEFINE u == [s EXCEPT !.pc = "recheck"]
    <2>1. call' = [call EXCEPT ![c] = u]
      BY <1>4 DEF Reserve, Goto
    <2>2. "recheck" \in PCs
      BY DEF PCs, Mutating
    <2>3. u \in CallStates /\ u.pc = "recheck" /\ u.who = s.who /\ u.body = s.body
      BY <1>2, <2>2 DEF CallStates
    <2> HIDE DEF u
    <2>4. LocalInv(u) /\ Quiet(u)
      BY <1>2, <2>3 DEF LocalInv, Quiet, Mutating, Paying, Closing
    <2> QED
      BY <1>4, <2>1, <2>3, <2>4, MoveStep DEF Reserve, db
  <1> QED
    BY <1>3, <1>4

\* Moving on changes nothing of a call but its place.
LEMMA GotoFields ==
  ASSUME NEW s \in CallStates, NEW pc \in PCs, NEW t, t = [s EXCEPT !.pc = pc]
  PROVE  /\ t \in CallStates /\ t.pc = pc /\ t.who = s.who /\ t.body = s.body
         /\ t.seen = s.seen /\ t.staff = s.staff /\ t.todo = s.todo
         /\ t.rows = s.rows /\ t.version = s.version
  BY DEF CallStates

\* Reading a reservation again finds the call's own or ends it.
LEMMA RecheckStep ==
  ASSUME IInv, NEW c \in Calls, Recheck(c)
  PROVE  IInv'
  <1> DEFINE s == call[c]
             r == rec[s.who]
             t == [s EXCEPT !.pc = "find", !.seen = r]
  <1>1. s.pc = "recheck"
    BY DEF Recheck, At
  <1>2. /\ s \in CallStates /\ LocalInv(s) /\ s.who \in Employees
        /\ r \in Records /\ RecInv(r, ledger[s.who]) /\ s.body \in Refs
    BY <1>1, Subject DEF Mutating, LocalInv, Paying
  <1>3. CASE r.status = "APPROVED" /\ r.lock = s.body
    <2>1. call' = [call EXCEPT ![c] = t]
      BY <1>3 DEF Recheck
    <2>2. "find" \in PCs
      BY DEF PCs, Mutating
    <2>3. /\ t \in CallStates /\ t.pc = "find" /\ t.who = s.who /\ t.body = s.body
          /\ t.seen = r
      BY <1>2, <2>2 DEF CallStates
    <2> HIDE DEF t
    <2>4. LocalInv(t) /\ LockInv(c, t, period)
      BY <1>2, <2>3 DEF LocalInv, LockInv, Mutating, Paying, Closing
    <2>5. PayInv(t, rec, ledger)
      BY <1>2, <1>3, <2>3 DEF PayInv, Held, RecInv
    <2> QED
      BY <2>1, <2>3, <2>4, <2>5, CallStep DEF Recheck, db, bounds, IInv, TypeOK
  <1>4. CASE ~(r.status = "APPROVED" /\ r.lock = s.body)
    BY <1>4, ReturnStep DEF Recheck
  <1> QED
    BY <1>3, <1>4

\* What a payment past its reservation is about to post is a posting, and it is
\* the one the record is locked for or paid by.
LEMMA PostingType ==
  ASSUME IInv, NEW c \in Calls, call[c].pc \in {"find", "post", "finalize"}
  PROVE  /\ Posting(c) \in Postings /\ Posting(c) # None
         /\ Held(call[c], rec[call[c].who])
         /\ call[c].body \in Refs
  <1>1. LocalInv(call[c]) /\ PayInv(call[c], rec, ledger)
    BY DEF IInv
  <1>2. call[c].body \in Refs /\ Held(call[c], rec[call[c].who])
    BY <1>1 DEF LocalInv, PayInv, Paying
  <1> QED
    BY <1>2, PayrollAssumption DEF Held, Posting, Postings

\* A payment moves on to "post", or to "finalize" once its posting is there.
LEMMA PayMove ==
  ASSUME IInv, NEW c \in Calls, call[c].pc \in {"find", "post"},
         NEW pc \in {"post", "finalize"}, Goto(c, pc),
         pc = "finalize" => ledger[call[c].who] = Posting(c),
         UNCHANGED <<db, clock, bounds>>
  PROVE  IInv'
  <1> DEFINE s == call[c]
             t == [s EXCEPT !.pc = pc]
  <1>1. s \in CallStates /\ LocalInv(s) /\ PayInv(s, rec, ledger)
    BY DEF IInv, TypeOK
  <1>2. pc \in PCs
    BY DEF PCs, Mutating
  <1>3. /\ t \in CallStates /\ t.pc = pc /\ t.who = s.who /\ t.body = s.body
        /\ t.seen = s.seen
    BY <1>1, <1>2, GotoFields
  <1>4. call' = [call EXCEPT ![c] = t]
    BY DEF Goto
  <1> HIDE DEF t
  <1>5. LocalInv(t) /\ LockInv(c, t, period)
    BY <1>1, <1>3 DEF LocalInv, LockInv, Mutating, Paying, Closing
  <1>6. PayInv(t, rec, ledger)
    BY <1>1, <1>3 DEF PayInv, Held, Posting
  <1> QED
    BY <1>3, <1>4, <1>5, <1>6, CallStep DEF db, bounds, IInv, TypeOK

\* Looking for an earlier posting keeps the invariant.
LEMMA FindPostingStep ==
  ASSUME IInv, NEW c \in Calls, FindPosting(c)
  PROVE  IInv'
  <1>1. call[c].pc = "find" /\ UNCHANGED <<db, clock, bounds>>
    BY DEF FindPosting, At
  <1>2. \/ Goto(c, "post")
        \/ Goto(c, "finalize") /\ ledger[call[c].who] = Posting(c)
        \/ Return(c)
    BY DEF FindPosting, Adopt
  <1> QED
    BY <1>1, <1>2, PayMove, ReturnStep

\* The posting is stored: no record was paid under another one, and no other
\* payment had found one.
LEMMA PostStep ==
  ASSUME IInv, NEW c \in Calls, Post(c)
  PROVE  IInv'
  <1> DEFINE s == call[c]
             e == s.who
             p == Posting(c)
             t == [s EXCEPT !.pc = "finalize"]
  <1>1. s.pc = "post" /\ UNCHANGED <<rec, period, slips, active, clock, bounds>>
    BY DEF Post, At
  <1>2. /\ e \in Employees /\ s \in CallStates /\ LocalInv(s) /\ p \in Postings
        /\ p # None /\ Held(s, rec[e]) /\ s.body \in Refs
        /\ RecInv(rec[e], ledger[e]) /\ rec[e] \in Records
    BY <1>1, Subject, PostingType DEF Mutating
  <1>3. CASE ledger[e] = None
    <2>1. ledger' = [ledger EXCEPT ![e] = p] /\ call' = [call EXCEPT ![c] = t]
      BY <1>3 DEF Post, Goto
    <2>2. "finalize" \in PCs
      BY DEF PCs, Mutating
    <2>3. /\ t \in CallStates /\ t.pc = "finalize" /\ t.who = e
          /\ t.body = s.body /\ t.seen = s.seen
      BY <1>2, <2>2, GotoFields
    <2> HIDE DEF t
    <2>4. TypeOK'
      BY <1>1, <1>2, <2>1, <2>3 DEF IInv, TypeOK, bounds, MaybePosting
    <2>5. /\ \A d \in Calls : call'[d] = IF d = c THEN t ELSE call[d]
          /\ \A x \in Employees : ledger'[x] = IF x = e THEN p ELSE ledger[x]
      BY <1>2, <2>1 DEF IInv, TypeOK
    <2>6. rec[e].status = "APPROVED"
      <3>1. ASSUME rec[e].status = "PAID" PROVE FALSE
        BY <1>2, <1>3, <3>1, PayrollAssumption DEF RecInv
      <3> QED
        BY <1>2, <3>1 DEF Held
    <2>7. RecInv(rec[e], p)
      BY <1>2, <2>6 DEF RecInv, Held, Posting
    <2>8. \A x \in Employees : RecInv(rec'[x], ledger'[x])
      BY <1>1, <2>5, <2>7 DEF IInv
    <2>9. \A d \in Calls : LocalInv(call'[d])
      BY <1>2, <2>3, <2>5 DEF IInv, LocalInv, Mutating, Paying
    <2>10. \A d \in Calls : PayInv(call'[d], rec, ledger')
      <3> TAKE d \in Calls
      <3>1. CASE d = c
        BY <1>2, <2>3, <2>5, <3>1 DEF PayInv, Posting, Held
      <3>2. CASE d # c
        <4>1. call'[d] = call[d] /\ PayInv(call[d], rec, ledger) /\ LocalInv(call[d])
          BY <2>5, <3>2 DEF IInv
        <4>2. call[d].pc = "finalize" =>
                call[d].who \in Employees /\ ledger'[call[d].who] = ledger[call[d].who]
          <5> SUFFICES ASSUME call[d].pc = "finalize"
                       PROVE  /\ call[d].who \in Employees
                              /\ ledger'[call[d].who] = ledger[call[d].who]
            OBVIOUS
          <5>1. Posting(d) # None /\ ledger[call[d].who] = Posting(d)
            BY <4>1, PostingType DEF PayInv, Posting
          <5> QED
            BY <1>3, <2>5, <4>1, <5>1 DEF LocalInv, Mutating
        <4> QED
          BY <4>1, <4>2 DEF PayInv
      <3> QED
        BY <3>1, <3>2
    <2>11. \A d \in Calls : LockInv(d, call'[d], period)
      BY <2>3, <2>5 DEF IInv, LockInv, Closing
    <2> QED
      BY <1>1, <2>4, <2>8, <2>9, <2>10, <2>11 DEF IInv
  <1>4. CASE ledger[e] # None
    <2>1. UNCHANGED <<db, clock, bounds>>
      BY <1>1, <1>4 DEF Post, db
    <2>2. (Goto(c, "finalize") /\ ledger[e] = p) \/ Return(c)
      BY <1>4 DEF Post, Adopt
    <2> QED
      BY <1>1, <2>1, <2>2, PayMove, ReturnStep
  <1> QED
    BY <1>3, <1>4

\* Marking the record paid keeps it in step with the posting just made.
LEMMA FinalizeStep ==
  ASSUME IInv, NEW c \in Calls, Finalize(c)
  PROVE  IInv'
  <1> DEFINE s == call[c]
             e == s.who
             r == [[rec[e] EXCEPT !.status = "PAID", !.ref = s.body, !.lock = None]
                     EXCEPT !.stamp = clock + 1]
  <1>1. s.pc = "finalize" /\ Return(c)
    BY DEF Finalize, At
  <1>2. /\ e \in Employees /\ Held(s, rec[e]) /\ s.body \in Refs
        /\ RecInv(rec[e], ledger[e]) /\ rec[e] \in Records /\ clock \in Nat
        /\ PayInv(s, rec, ledger)
    BY <1>1, Subject, PostingType DEF Mutating
  <1>3. CASE rec[e].status = "APPROVED" /\ rec[e].lock = s.body
    <2> DEFINE new == [rec[e] EXCEPT !.status = "PAID", !.ref = s.body, !.lock = None]
    <2>1. /\ new \in Records /\ new.status = "PAID" /\ new.ref = s.body
          /\ new.lock = None /\ new.net = rec[e].net
      BY <1>2 DEF Records, Statuses
    <2>2. rec' = [rec EXCEPT ![e] = r] /\ clock' = clock + 1
      BY <1>3 DEF Finalize, Write
    <2> HIDE DEF new
    <2>3. r = [new EXCEPT !.stamp = clock + 1]
      BY DEF new
    <2> HIDE DEF r
    <2>4. /\ r \in Records /\ r.status = "PAID" /\ r.ref = s.body /\ r.lock = None
          /\ r.net = rec[e].net
      BY <1>2, <2>1, <2>3 DEF Records
    <2>5. RecInv(r, ledger[e])
      BY <1>1, <1>2, <1>3, <2>4 DEF RecInv, PayInv, Held
    <2>6. \A d \in Calls \ {c} :
            call[d].pc \in {"find", "post", "finalize"} /\ call[d].who = e
              => Held(call[d], r)
      BY <2>4, PostingType DEF Held
    <2>7. /\ clock' \in Nat /\ rec[e].status # "PAID"
          /\ call' = [call EXCEPT ![c] = Idle]
          /\ UNCHANGED <<ledger, period, slips, active, bounds>>
      BY <1>1, <1>2, <1>3, <2>2 DEF Finalize, Return
    <2>8. /\ LocalInv(Idle) /\ PayInv(Idle, rec', ledger)
          /\ LockInv(c, Idle, period)
      BY IdleInv, QuietInv
    <2> HIDE DEF e
    <2> QED
      BY <1>2, <2>2, <2>4, <2>5, <2>6, <2>7, <2>8, IdleType, WriteStep
  <1>4. CASE ~(rec[e].status = "APPROVED" /\ rec[e].lock = s.body)
    BY <1>1, <1>4, ReturnStep DEF Finalize, db
  <1> QED
    BY <1>3, <1>4

-----------------------------------------------------------------------------
(* Calls that arrive, and the closing. *)

\* A call that arrives promises nothing yet.
LEMMA ArriveStep ==
  ASSUME IInv, NEW c \in Calls, Arrive(c)
  PROVE  IInv'
  <1>1. ASSUME NEW pc \in {"draft", "decision", "pay"}, NEW e \in Employees,
               NEW body \in Bodies, Request(c, pc, e, body),
               pc = "draft" => body \in Amounts, pc = "pay" => body \in Refs
        PROVE  IInv'
    <2> DEFINE t == [Idle EXCEPT !.pc = pc, !.who = e, !.body = body]
    <2>1. pc \in PCs
      BY DEF PCs, Mutating
    <2>2. t \in CallStates /\ t.pc = pc /\ t.who = e /\ t.body = body
      BY <2>1, IdleType DEF CallStates
    <2>3. call' = [call EXCEPT ![c] = t]
      BY <1>1 DEF Request
    <2> HIDE DEF t
    <2>4. LocalInv(t) /\ Quiet(t)
      BY <1>1, <2>2 DEF LocalInv, Quiet, Mutating, Paying, Closing
    <2>5. PayInv(t, rec, ledger) /\ LockInv(c, t, period)
      BY <2>4, QuietInv
    <2>6. /\ UNCHANGED <<rec, ledger, period, slips>> /\ active' \in SUBSET Employees
          /\ clock' \in Nat /\ died' \in BOOLEAN /\ writes' \in Nat
          /\ closes' \in Nat /\ faults' \in Nat
      BY <1>1 DEF Request, db, IInv, TypeOK
    <2> QED
      BY <2>2, <2>3, <2>4, <2>5, <2>6, CallStep
  <1>2. ASSUME Count(c) PROVE IInv'
    <2> DEFINE t == [Idle EXCEPT !.pc = "read", !.staff = active]
    <2>1. "read" \in PCs /\ active \in SUBSET Employees
      BY DEF PCs, IInv, TypeOK
    <2>2. t \in CallStates /\ t.pc = "read"
      BY <2>1, IdleType DEF CallStates
    <2>3. call' = [call EXCEPT ![c] = t]
      BY <1>2 DEF Count
    <2> HIDE DEF t
    <2>4. LocalInv(t) /\ Quiet(t)
      BY <2>2 DEF LocalInv, Quiet, Mutating, Paying, Closing
    <2>5. PayInv(t, rec, ledger) /\ LockInv(c, t, period)
      BY <2>4, QuietInv
    <2>6. /\ UNCHANGED <<rec, ledger, period, slips>> /\ active' \in SUBSET Employees
          /\ clock' \in Nat /\ died' \in BOOLEAN /\ writes' \in Nat
          /\ closes' \in Nat /\ faults' \in Nat
      BY <1>2 DEF Count, db, IInv, TypeOK
    <2> QED
      BY <2>2, <2>3, <2>4, <2>5, <2>6, CallStep
  <1>3. Amounts \subseteq Bodies /\ Refs \subseteq Bodies
        /\ {"APPROVE", "RETURN"} \subseteq Bodies
    BY DEF Bodies
  <1>4. CASE \E e \in Employees, n \in Amounts : Request(c, "draft", e, n)
    BY <1>1, <1>3, <1>4
  <1>5. CASE \E e \in Employees, d \in {"APPROVE", "RETURN"} :
               Request(c, "decision", e, d)
    BY <1>1, <1>3, <1>5
  <1>6. CASE \E e \in Employees, r \in Refs : Request(c, "pay", e, r)
    BY <1>1, <1>3, <1>6
  <1> QED
    BY <1>2, <1>4, <1>5, <1>6 DEF Arrive

\* A call goes on, where it relies on nothing but its own reading.
LEMMA GotoQuiet ==
  ASSUME IInv, NEW c \in Calls, NEW pc \in {"period", "insert", "claim"},
         NEW v \in Nat,
         call' = [call EXCEPT ![c] = [call[c] EXCEPT !.pc = pc, !.version = v]],
         UNCHANGED <<db, clock, bounds>>
  PROVE  IInv'
  <1> DEFINE t == [call[c] EXCEPT !.pc = pc, !.version = v]
  <1>1. call[c] \in CallStates /\ pc \in PCs
    BY DEF IInv, TypeOK, PCs
  <1>2. t \in CallStates /\ t.pc = pc
    BY <1>1 DEF CallStates
  <1> HIDE DEF t
  <1>3. LocalInv(t) /\ Quiet(t)
    BY <1>2 DEF LocalInv, Quiet, Mutating, Paying, Closing
  <1> QED
    BY <1>2, <1>3, MoveStep DEF t

\* The reads before the period is claimed keep the invariant.
LEMMA PrepareCloseStep ==
  ASSUME IInv, NEW c \in Calls, ReadRecords(c) \/ ReadPeriod(c)
  PROVE  IInv'
  <1> DEFINE s == call[c]
  <1>1. s \in CallStates /\ s.version \in Nat /\ period.version \in Nat
        /\ s = [s EXCEPT !.version = s.version]
    BY DEF IInv, TypeOK, CallStates, Periods
  <1>2. CASE ReadRecords(c) /\ Ready(s.staff)
    <2>1. call' = [call EXCEPT ![c] = [s EXCEPT !.pc = "period",
                                                !.version = s.version]]
      <3>1. call' = [call EXCEPT ![c] = [s EXCEPT !.pc = "period"]]
        BY <1>2 DEF ReadRecords, Goto
      <3>2. [s EXCEPT !.pc = "period"] = [s EXCEPT !.pc = "period", !.version = s.version]
        BY <1>1 DEF CallStates
      <3> QED
        BY <3>1, <3>2
    <2> QED
      BY <1>1, <1>2, <2>1, GotoQuiet DEF ReadRecords
  <1>3. CASE ReadRecords(c) /\ ~Ready(s.staff)
    BY <1>3, ReturnStep DEF ReadRecords
  <1>4. CASE ReadPeriod(c) /\ period.status \notin {"CLOSED", "CLOSING"}
    <2> DEFINE pc == IF period.status = "NONE" THEN "insert" ELSE "claim"
    <2>1. call' = [call EXCEPT ![c] = [s EXCEPT !.pc = pc,
                                                !.version = period.version]]
      BY <1>1, <1>4 DEF ReadPeriod
    <2>2. pc \in {"period", "insert", "claim"} /\ UNCHANGED <<db, clock, bounds>>
      BY <1>4 DEF ReadPeriod
    <2> HIDE DEF pc
    <2> QED
      BY <1>1, <2>1, <2>2, GotoQuiet
  <1>5. CASE ReadPeriod(c) /\ period.status \in {"CLOSED", "CLOSING"}
    BY <1>5, ReturnStep DEF ReadPeriod
  <1> QED
    BY <1>2, <1>3, <1>4, <1>5

\* The month's lock has one holder.
LEMMA OneHolder ==
  ASSUME IInv, NEW c \in Calls, NEW d \in Calls,
         call[c].pc \in Closing, call[d].pc \in Closing
  PROVE  c = d
  <1>1. LockInv(c, call[c], period) /\ LockInv(d, call[d], period)
    BY DEF IInv
  <1> QED
    BY <1>1 DEF LockInv

\* A step that changes the month and one call, while no other call closes.
LEMMA PeriodStep ==
  ASSUME IInv, NEW c \in Calls, NEW s \in CallStates, NEW p \in Periods,
         call' = [call EXCEPT ![c] = s], period' = p,
         UNCHANGED <<rec, ledger, slips, active, clock, bounds>>,
         \A d \in Calls \ {c} : call[d].pc \notin Closing,
         LocalInv(s), PayInv(s, rec, ledger), LockInv(c, s, p)
  PROVE  IInv'
  <1>1. TypeOK'
    BY DEF IInv, TypeOK, bounds
  <1>2. \A d \in Calls : call'[d] = IF d = c THEN s ELSE call[d]
    BY DEF IInv, TypeOK
  <1>3. \A d \in Calls : LocalInv(call'[d])
    BY <1>2 DEF IInv
  <1>4. \A d \in Calls : PayInv(call'[d], rec, ledger)
    BY <1>2 DEF IInv
  <1>5. \A d \in Calls : LockInv(d, call'[d], p)
    BY <1>2 DEF LockInv
  <1> QED
    BY <1>1, <1>3, <1>4, <1>5 DEF IInv

\* A closing call moves on to a place that relies on no record.
LEMMA CloserMoves ==
  ASSUME IInv, NEW c \in Calls, NEW t \in CallStates,
         call[c].pc \in Closing, t.pc \in {"reread", "fail"},
         call' = [call EXCEPT ![c] = t],
         UNCHANGED <<db, clock, died, writes, closes>>, faults' \in Nat
  PROVE  IInv'
  <1>1. LockInv(c, call[c], period)
    BY DEF IInv
  <1>2. LocalInv(t) /\ PayInv(t, rec, ledger) /\ LockInv(c, t, period)
    BY <1>1 DEF LocalInv, PayInv, LockInv, Mutating, Paying, Closing
  <1> QED
    BY <1>2, CallStep DEF db, IInv, TypeOK

\* Claiming the period makes the call its only closer.
LEMMA ClaimStep ==
  ASSUME IInv, NEW c \in Calls, Claim(c)
  PROVE  IInv'
  <1> DEFINE t == [call[c] EXCEPT !.pc = "recount"]
             p == [period EXCEPT !.status = "CLOSING", !.lock = c]
  <1>1. call[c] \in CallStates /\ period \in Periods
    BY DEF IInv, TypeOK
  <1>2. CASE Claimable(c)
    <2>1. call' = [call EXCEPT ![c] = t] /\ period' = p
          /\ UNCHANGED <<rec, ledger, slips, active, clock, bounds>>
      BY <1>2 DEF Claim, Goto
    <2>2. "recount" \in PCs
      BY DEF PCs, Closing
    <2>3. t \in CallStates /\ t.pc = "recount"
      BY <1>1, <2>2, GotoFields
    <2>4. p \in Periods /\ p.status = "CLOSING" /\ p.lock = c
      BY <1>1 DEF Periods
    <2>5. \A d \in Calls : call[d].pc \notin Closing
      BY <1>2 DEF Claimable, IInv, LockInv
    <2> HIDE DEF t, p
    <2>6. LocalInv(t) /\ PayInv(t, rec, ledger) /\ LockInv(c, t, p)
      BY <2>3, <2>4 DEF LocalInv, PayInv, LockInv, Mutating, Paying
    <2> QED
      BY <2>1, <2>3, <2>4, <2>5, <2>6, PeriodStep
  <1>3. CASE ~Claimable(c)
    BY <1>3, ReturnStep DEF Claim, db
  <1> QED
    BY <1>2, <1>3

\* Listing the employees again keeps the claim.
LEMMA RecountStep ==
  ASSUME IInv, NEW c \in Calls, Recount(c)
  PROVE  IInv'
  <1> DEFINE t == [call[c] EXCEPT !.pc = "reread", !.todo = active]
  <1>1. /\ call[c] \in CallStates /\ active \in SUBSET Employees
        /\ call[c].pc \in Closing /\ "reread" \in PCs
        /\ call' = [call EXCEPT ![c] = t]
        /\ UNCHANGED <<db, clock, bounds>> /\ faults \in Nat
    BY DEF IInv, TypeOK, Recount, At, Closing, PCs
  <1>2. t \in CallStates /\ t.pc = "reread"
    BY <1>1 DEF CallStates
  <1> HIDE DEF t
  <1> QED
    BY <1>1, <1>2, CloserMoves DEF bounds

\* Reading the records again fixes the rows the payslips are made from.
LEMMA RereadStep ==
  ASSUME IInv, NEW c \in Calls, Reread(c)
  PROVE  IInv'
  <1> DEFINE s == call[c]
             t == [s EXCEPT !.pc = "slip", !.staff = s.todo, !.rows = rec]
             u == [s EXCEPT !.pc = "fail"]
  <1>1. /\ s \in CallStates /\ s.todo \subseteq Employees
        /\ rec \in [Employees -> Records] /\ faults \in Nat
        /\ s.pc \in Closing /\ UNCHANGED <<db, clock, bounds>>
        /\ LockInv(c, s, period)
    BY DEF IInv, TypeOK, Reread, At, Closing, CallStates
  <1>2. "slip" \in PCs /\ "fail" \in PCs
    BY DEF PCs, Closing
  <1>3. CASE Ready(s.todo) /\ Cardinality(s.todo) = Cardinality(s.staff)
    <2>1. call' = [call EXCEPT ![c] = t]
      BY <1>3 DEF Reread
    <2>2. t \in CallStates /\ t.pc = "slip" /\ t.todo = s.todo /\ t.rows = rec
      BY <1>1, <1>2 DEF CallStates
    <2> HIDE DEF t
    <2>3. LocalInv(t) /\ PayInv(t, rec, ledger) /\ LockInv(c, t, period)
      BY <1>1, <1>3, <2>2
      DEF LocalInv, PayInv, LockInv, Mutating, Paying, Ready
    <2> QED
      BY <1>1, <2>1, <2>2, <2>3, CallStep DEF db, bounds, IInv, TypeOK
  <1>4. CASE ~(Ready(s.todo) /\ Cardinality(s.todo) = Cardinality(s.staff))
    <2>1. call' = [call EXCEPT ![c] = u]
      BY <1>4 DEF Reread, Goto
    <2>2. u \in CallStates /\ u.pc = "fail"
      BY <1>1, <1>2, GotoFields
    <2> HIDE DEF u
    <2> QED
      BY <1>1, <2>1, <2>2, CloserMoves DEF bounds
  <1> QED
    BY <1>3, <1>4

\* A payslip is made of a record that is PAID, and so still the one stored.
LEMMA IssueStep ==
  ASSUME IInv, NEW c \in Calls, NEW e \in Employees, Issue(c, e)
  PROVE  IInv'
  <1> DEFINE s == call[c]
             t == [s EXCEPT !.todo = s.todo \ {e}]
             slip == Payslip(s.rows[e])
             w == s.version + 1
  <1>1. /\ s \in CallStates /\ LocalInv(s) /\ PayInv(s, rec, ledger)
        /\ LockInv(c, s, period) /\ s.pc = "slip" /\ e \in s.todo
        /\ call' = [call EXCEPT ![c] = t]
        /\ UNCHANGED <<rec, ledger, period, active, clock, bounds>>
    BY DEF IInv, TypeOK, Issue, At
  <1>2. /\ t \in CallStates /\ t.pc = "slip" /\ t.todo = s.todo \ {e}
        /\ t.rows = s.rows
    BY <1>1 DEF CallStates
  <1> HIDE DEF t
  <1>3. /\ s.rows[e] = rec[e] /\ rec[e].status = "PAID"
        /\ RecInv(rec[e], ledger[e]) /\ rec[e] \in Records
    BY <1>1 DEF PayInv, IInv, TypeOK
  <1>4. /\ slip = [amount |-> rec[e].net, ref |-> rec[e].ref]
        /\ slip \in MaybePosting
    BY <1>3 DEF Payslip, RecInv, MaybePosting, Postings
  <1>5. slips' = [slips EXCEPT ![e][w] = IF slips[e][w] = None THEN slip
                                         ELSE slips[e][w]]
    BY DEF Issue
  <1> HIDE DEF slip, w
  <1>6. /\ slips \in [Employees -> [Versions -> MaybePosting]]
        /\ \A x \in Employees : \A v \in Versions : SlipInv(slips[x][v], rec[x])
    BY DEF IInv, TypeOK
  <1>7. /\ slips' \in [Employees -> [Versions -> MaybePosting]]
        /\ \A x \in Employees : \A v \in Versions :
             slips'[x][v] = IF x = e /\ v = w /\ slips[x][v] = None THEN slip
                            ELSE slips[x][v]
    BY <1>4, <1>5, <1>6
  <1>8. \A x \in Employees : \A v \in Versions : SlipInv(slips'[x][v], rec[x])
    <2> TAKE x \in Employees
    <2> TAKE v \in Versions
    <2>1. SlipInv(slips[x][v], rec[x])
      BY <1>6
    <2>2. (slips'[x][v] = slip /\ x = e) \/ slips'[x][v] = slips[x][v]
      BY <1>7
    <2> QED
      BY <1>3, <1>4, <2>1, <2>2 DEF SlipInv
  <1>9. TypeOK'
    BY <1>1, <1>2, <1>7 DEF IInv, TypeOK, bounds
  <1>10. \A d \in Calls : call'[d] = IF d = c THEN t ELSE call[d]
    BY <1>1 DEF IInv, TypeOK
  <1>11. LocalInv(t) /\ PayInv(t, rec, ledger) /\ LockInv(c, t, period)
    BY <1>1, <1>2 DEF LocalInv, PayInv, LockInv, Mutating, Paying, Closing
  <1>12. \A d \in Calls : LocalInv(call'[d])
    BY <1>10, <1>11 DEF IInv
  <1>13. \A d \in Calls : PayInv(call'[d], rec, ledger)
    BY <1>10, <1>11 DEF IInv
  <1>14. \A d \in Calls : LockInv(d, call'[d], period)
    BY <1>10, <1>11 DEF IInv
  <1> QED
    BY <1>1, <1>8, <1>9, <1>12, <1>13, <1>14 DEF IInv

\* Closing the period gives up the claim.
LEMMA FinishStep ==
  ASSUME IInv, NEW c \in Calls, Finish(c)
  PROVE  IInv'
  <1> DEFINE s == call[c]
             p == [status |-> "CLOSED", version |-> s.version + 1, lock |-> None]
             u == [s EXCEPT !.pc = "fail"]
  <1>1. /\ s \in CallStates /\ s.version \in Nat /\ s.pc \in Closing
        /\ UNCHANGED <<rec, ledger, slips, active, clock, bounds>>
        /\ faults \in Nat
    BY DEF IInv, TypeOK, Finish, At, CallStates, Closing
  <1>2. CASE period.status = "CLOSING" /\ period.lock = c
    <2>1. period' = p /\ call' = [call EXCEPT ![c] = Idle]
      BY <1>2 DEF Finish, Return
    <2>2. p \in Periods
      BY <1>1 DEF Periods
    <2>3. \A d \in Calls \ {c} : call[d].pc \notin Closing
      BY <1>1, OneHolder
    <2> HIDE DEF p
    <2> QED
      BY <1>1, <2>1, <2>2, <2>3, IdleType, IdleInv, QuietInv, PeriodStep
  <1>3. CASE ~(period.status = "CLOSING" /\ period.lock = c)
    <2>1. call' = [call EXCEPT ![c] = u] /\ UNCHANGED period
      BY <1>3 DEF Finish, Goto
    <2>2. "fail" \in PCs
      BY DEF PCs, Closing
    <2>3. u \in CallStates /\ u.pc = "fail"
      BY <1>1, <2>2, GotoFields
    <2> HIDE DEF u
    <2> QED
      BY <1>1, <2>1, <2>3, CloserMoves DEF db, bounds
  <1> QED
    BY <1>2, <1>3

\* A failed closing gives the period back.
LEMMA ReleaseStep ==
  ASSUME IInv, NEW c \in Calls, Release(c)
  PROVE  IInv'
  <1> DEFINE p == [period EXCEPT !.status = "OPEN", !.lock = None]
  <1>1. /\ call[c].pc \in Closing /\ period \in Periods
        /\ UNCHANGED <<rec, ledger, slips, active, clock, bounds>>
        /\ call' = [call EXCEPT ![c] = Idle] /\ period.lock = c
    BY DEF IInv, TypeOK, LockInv, Release, Return, At, Closing
  <1>2. period' = p
    BY <1>1 DEF Release
  <1>3. p \in Periods
    BY <1>1 DEF Periods
  <1>4. \A d \in Calls \ {c} : call[d].pc \notin Closing
    BY <1>1, OneHolder
  <1> HIDE DEF p
  <1> QED
    BY <1>1, <1>2, <1>3, <1>4, IdleType, IdleInv, QuietInv, PeriodStep

-----------------------------------------------------------------------------
(* Steps of no call. *)

\* Reopening a closed period keeps the invariant: nobody holds it.
LEMMA ReopenStep == IInv /\ Reopen => IInv'
  <1> SUFFICES ASSUME IInv, Reopen PROVE IInv'
    OBVIOUS
  <1>1. TypeOK'
    BY DEF IInv, TypeOK, Reopen, Periods, bounds
  <1>2. \A d \in Calls : LockInv(d, call'[d], period')
    BY DEF IInv, LockInv, Reopen
  <1> QED
    BY <1>1, <1>2 DEF IInv, Reopen, bounds

\* A crash forgets the calls, and what they left behind keeps the invariant.
LEMMA CrashStep == IInv /\ Crash => IInv'
  <1> SUFFICES ASSUME IInv, Crash PROVE IInv'
    OBVIOUS
  <1>1. TypeOK'
    BY IdleType DEF IInv, TypeOK, Crash, db, Fault
  <1>2. \A d \in Calls : call'[d] = Idle
    BY DEF Crash
  <1>3. \A d \in Calls : LocalInv(call'[d])
    BY <1>2, IdleInv
  <1>4. \A d \in Calls : PayInv(call'[d], rec, ledger)
    BY <1>2, IdleInv, QuietInv
  <1>5. \A d \in Calls : LockInv(d, call'[d], period)
    BY <1>2, IdleInv, QuietInv
  <1> QED
    BY <1>1, <1>3, <1>4, <1>5 DEF IInv, Crash, db

\* Activating or leaving of an employee keeps the invariant.
LEMMA SetStatusStep ==
  ASSUME IInv, NEW e \in Employees, SetStatus(e)
  PROVE  IInv'
  <1>1. TypeOK'
    BY DEF IInv, TypeOK, SetStatus, Fault
  <1> QED
    BY <1>1 DEF IInv, SetStatus

\* A database error sends the closer to the release of its claim.
LEMMA CloseErrorStep ==
  ASSUME IInv, NEW c \in Calls, CloseError(c)
  PROVE  IInv'
  <1> DEFINE u == [call[c] EXCEPT !.pc = "fail"]
  <1>1. /\ call[c] \in CallStates /\ call[c].pc \in Closing
        /\ call' = [call EXCEPT ![c] = u]
        /\ UNCHANGED <<db, clock, died, writes, closes>> /\ faults' \in Nat
    BY DEF IInv, TypeOK, CloseError, Goto, Fault
  <1>2. "fail" \in PCs
    BY DEF PCs, Closing
  <1>3. u \in CallStates /\ u.pc = "fail"
    BY <1>1, <1>2, GotoFields
  <1> HIDE DEF u
  <1> QED
    BY <1>1, <1>3, CloserMoves

-----------------------------------------------------------------------------
(* The invariant, and what follows from it. *)

\* Every action of the handlers, and every fault, keeps the inductive invariant.
THEOREM NextInv == IInv /\ [Next]_vars => IInv'
  <1> SUFFICES ASSUME IInv, [Next]_vars PROVE IInv'
    OBVIOUS
  <1>1. CASE UNCHANGED vars
    <2>1. TypeOK'
      BY <1>1 DEF IInv, TypeOK, vars, db, bounds
    <2> QED
      BY <1>1, <2>1 DEF IInv, vars, db, bounds
  <1>2. ASSUME NEW c \in Calls, Mutate(c) PROVE IInv'
    BY <1>2, Reads, SaveDraftStep, DecideStep, ReserveStep, RecheckStep,
       FindPostingStep, PostStep, FinalizeStep DEF Mutate
  <1>3. ASSUME NEW c \in Calls, Close(c) PROVE IInv'
    BY <1>3, PrepareCloseStep, ClaimStep, RecountStep, RereadStep, IssueStep,
       FinishStep, ReleaseStep DEF Close
  <1> QED
    BY <1>1, <1>2, <1>3, ArriveStep, CloseErrorStep, ReopenStep, CrashStep,
       SetStatusStep DEF Next

\* Type correctness, for every value of the constants.
THEOREM TypeCorrect == Spec => []TypeOK
  <1>1. IInv => TypeOK
    BY DEF IInv
  <1> QED
    BY InitInv, NextInv, <1>1, PTL DEF Spec

\* Finance follows the payroll records (mark_payroll_paid_safe and the owner's
\* decisions), however many payments, decisions, crashes and staff changes.
THEOREM FinanceFollows == Spec => []LedgerFollowsPayroll
  <1>1. IInv => LedgerFollowsPayroll
    BY DEF IInv, RecInv, LedgerFollowsPayroll
  <1> QED
    BY InitInv, NextInv, <1>1, PTL DEF Spec

\* Every payslip shows what finance paid (close_payroll_period).
THEOREM PayslipsCorrect == Spec => []PayslipsMatchLedger
  <1>1. ASSUME IInv PROVE PayslipsMatchLedger
    <2> SUFFICES ASSUME NEW e \in Employees, NEW v \in Versions, slips[e][v] # None
                 PROVE  slips[e][v] = ledger[e]
      BY DEF PayslipsMatchLedger
    <2>1. SlipInv(slips[e][v], rec[e]) /\ RecInv(rec[e], ledger[e])
      BY <1>1 DEF IInv
    <2> QED
      BY <2>1 DEF SlipInv, RecInv
  <1> QED
    BY InitInv, NextInv, <1>1, PTL DEF Spec

\* One closing works under the month's lock (close_payroll_period).
THEOREM OneCloserAtATime == Spec => []OneCloser
  <1>1. IInv => OneCloser
    BY OneHolder DEF OneCloser
  <1> QED
    BY InitInv, NextInv, <1>1, PTL DEF Spec

=============================================================================
