----------------------- MODULE AutomationQueueProofs -----------------------
(***************************************************************************)
(* Theorems about AutomationQueue for every number of events, sessions and *)
(* channels and every combination of faults; the last one is about the     *)
(* clean instance of MCQueueProgress.                                      *)
(***************************************************************************)
EXTENDS MCQueueProgress, FiniteSetTheorems, SequenceTheorems, TLAPS

\* The local state a session moves to keeps its type.
LEMMA SessionMoves ==
  ASSUME TypeOK, NEW s \in Sessions
  PROVE  /\ Advanced(s) \in SessionRec
         /\ Raised(s) \in SessionRec
         /\ Advanced(s).e = ses[s].e /\ Advanced(s).pc \in {"read", "ack"}
         /\ Raised(s).e = ses[s].e /\ Raised(s).pc = "failRead"
         /\ Advanced(s).tok = ses[s].tok /\ Raised(s).tok = ses[s].tok
         /\ Advanced(s).plan = ses[s].plan /\ Raised(s).plan = ses[s].plan
<1>1. ses[s] \in SessionRec
  BY DEF TypeOK
<1>2. LeaseLive(s) \in BOOLEAN
  BY DEF LeaseLive, Holds
<1>3. ASSUME NEW p \in SessionPCs, NEW b \in BOOLEAN
      PROVE  [ses[s] EXCEPT !.pc = p, !.fin = "NONE", !.sawLive = b] \in SessionRec
  BY <1>1 DEF SessionRec
<1>4. ASSUME NEW p \in SessionPCs, NEW k \in Nat
      PROVE  [ses[s] EXCEPT !.pc = p, !.i = k, !.fin = "NONE"] \in SessionRec
  BY <1>1 DEF SessionRec
<1>5. Raised(s) \in SessionRec /\ Raised(s).e = ses[s].e /\ Raised(s).pc = "failRead"
      /\ Raised(s).tok = ses[s].tok /\ Raised(s).plan = ses[s].plan
  <2>1. Raised(s) \in SessionRec
    BY <1>2, <1>3 DEF Raised, SessionPCs
  <2> QED
    BY <1>1, <2>1 DEF Raised, SessionRec
<1>6. CASE ses[s].i < Len(ses[s].plan)
  <2>1. ses[s].i + 1 \in Nat
    BY <1>1 DEF SessionRec
  <2>2. Advanced(s) \in SessionRec
    BY <1>4, <1>6, <2>1 DEF Advanced, SessionPCs
  <2> QED
    BY <1>1, <1>5, <1>6, <2>2 DEF Advanced, SessionRec
<1>7. CASE ~(ses[s].i < Len(ses[s].plan))
  <2>1. Advanced(s) \in SessionRec
    BY <1>2, <1>3, <1>7 DEF Advanced, SessionPCs
  <2> QED
    BY <1>1, <1>5, <1>7, <2>1 DEF Advanced, SessionRec
<1> QED
  BY <1>6, <1>7

\* Writing one action row keeps the table well-typed.
LEMMA RowSetType ==
  ASSUME row \in [Events -> [Channels -> RowStates]], NEW e \in Events, NEW c \in Channels,
         NEW v \in RowStates
  PROVE  RowSet(e, c, v) \in [Events -> [Channels -> RowStates]]
  BY DEF RowSet

\* The retry delay is a natural number for every attempt number in use.
LEMMA BackoffType == ASSUME NEW a \in 1..AttemptCap PROVE Backoff(a) \in Nat
<1>1. 2 ^ (a - 1) \in Nat
  BY QueueAssumption
<1> QED
  BY <1>1, QueueAssumption DEF Backoff

\* An idle session has the type of a session.
LEMMA IdleType == IdleSession \in SessionRec
  BY DEF IdleSession, SessionRec, SessionPCs

\* The absent document has the type of a document.
LEMMA AbsentType == AbsentEvent \in EventDoc
  BY QueueAssumption DEF AbsentEvent, EventDoc, EventStates

\* The initial state is well-typed.
LEMMA InitType == Init => TypeOK
<1> SUFFICES ASSUME Init PROVE TypeOK
  OBVIOUS
<1>1. NewEvent(0) \in EventDoc
  BY AbsentType DEF NewEvent, EventDoc, EventStates
<1>2. ev \in [Events -> EventDoc]
  BY <1>1, AbsentType DEF Init
<1>3. ses \in [Sessions -> SessionRec] /\ \A s \in Sessions : ses[s].pc = "idle" /\ ses[s].e = NoEvent
  BY IdleType DEF Init, IdleSession
<1>4. mat \in [Materializers -> [e : Events \union {NoEvent}, i : 0..Len(Policy)]]
  BY QueueAssumption, LenProperties DEF Init, IdleMaterializer
<1>5. row \in [Events -> [Channels -> RowStates]]
  BY DEF Init, RowStates
<1>6. /\ history \subseteq Events
      /\ sends \in [Events -> [Channels -> 0..SendCap]]
      /\ recorded \in [Events -> SUBSET Channels]
  BY QueueAssumption DEF Init
<1>7. \A e \in Events : ev[e].state # "PROCESSING"
  BY DEF Init, NewEvent, AbsentEvent
<1> QED
  BY <1>2, <1>3, <1>4, <1>5, <1>6, <1>7 DEF TypeOK

\* No action of the materializers breaks the types.
LEMMA MaterializeType ==
  ASSUME TypeOK, NEW m \in Materializers, Materialize(m)
  PROVE  TypeOK'
<1>1. mat[m] \in [e : Events \union {NoEvent}, i : 0..Len(Policy)] /\ mat[m].e \in Events
  BY DEF TypeOK, Materialize, UpsertEvent, UpsertAction
<1>2. CASE UpsertEvent(m)
  <2>1. QueueLength \in Nat
    BY QueueAssumption, FS_Subset, FS_CardinalityType DEF QueueLength
  <2>2. NewEvent(QueueLength) \in EventDoc /\ NewEvent(QueueLength).state = "PENDING"
    BY <2>1, AbsentType DEF NewEvent, EventDoc, EventStates, AbsentEvent
  <2>3. ev' \in [Events -> EventDoc] /\ \A e \in Events : ev'[e].state = "PROCESSING" => ev'[e] = ev[e]
    BY <1>1, <1>2, <2>2 DEF UpsertEvent, TypeOK
  <2>4. Len(Policy) \in Nat \ {0}
    BY QueueAssumption
  <2>5. [mat[m] EXCEPT !.i = 1] \in [e : Events \union {NoEvent}, i : 0..Len(Policy)]
    BY <1>1, <2>4
  <2>6. mat' \in [Materializers -> [e : Events \union {NoEvent}, i : 0..Len(Policy)]]
    BY <1>2, <2>5 DEF UpsertEvent, TypeOK
  <2> QED
    BY <1>2, <2>3, <2>6 DEF UpsertEvent, TypeOK
<1>3. CASE UpsertAction(m)
  <2>1. Policy[mat[m].i] \in Channels
    BY <1>3 DEF UpsertAction, Channels
  <2>2. row' \in [Events -> [Channels -> RowStates]]
    BY <1>1, <1>3, <2>1 DEF UpsertAction, TypeOK, RowStates
  <2>3. Len(Policy) \in Nat /\ (mat[m].i # Len(Policy) => mat[m].i + 1 \in 0..Len(Policy))
    BY <1>1, QueueAssumption
  <2>4. /\ mat[m].i # Len(Policy) =>
             [mat[m] EXCEPT !.i = @ + 1] \in [e : Events \union {NoEvent}, i : 0..Len(Policy)]
        /\ IdleMaterializer \in [e : Events \union {NoEvent}, i : 0..Len(Policy)]
    BY <1>1, <2>3 DEF IdleMaterializer
  <2>5. mat' \in [Materializers -> [e : Events \union {NoEvent}, i : 0..Len(Policy)]]
    BY <1>3, <2>4 DEF UpsertAction, TypeOK
  <2> QED
    BY <1>3, <2>2, <2>5 DEF UpsertAction, TypeOK
<1> QED
  BY <1>2, <1>3 DEF Materialize

\* Claiming an event keeps the types.
LEMMA ClaimType ==
  ASSUME TypeOK, NEW s \in Sessions, Claim(s)
  PROVE  TypeOK'
<1> DEFINE t == CHOOSE t \in FreshTokens : TRUE
<1>1. t \in Tokens
  BY DEF Claim, FreshTokens
<1>2. PICK e \in Events, plan \in Requests :
        /\ ev' = [ev EXCEPT ![e] = Claimed(e, WorkerOf[s], t)]
        /\ ses' = [ses EXCEPT ![s] = [IdleSession EXCEPT !.pc = "lease", !.e = e,
                                                         !.tok = t, !.plan = plan]]
  BY DEF Claim
<1>3. ev[e] \in EventDoc
  BY DEF TypeOK
<1>4. ASSUME NEW n \in 1..AttemptCap
      PROVE  [ev[e] EXCEPT !.state = "PROCESSING", !.worker = WorkerOf[s], !.token = t,
                           !.lease = LeaseTicks, !.attempts = n]
             \in {d \in EventDoc : d.attempts >= 1}
  <2> DEFINE d1 == [ev[e] EXCEPT !.state = "PROCESSING", !.worker = WorkerOf[s]]
             d2 == [d1 EXCEPT !.token = t, !.lease = LeaseTicks, !.attempts = n]
  <2>1. d1 \in EventDoc
    BY <1>3 DEF EventDoc, EventStates
  <2>2. n \in 0..AttemptCap /\ n >= 1 /\ LeaseTicks \in 0..LeaseTicks
    BY QueueAssumption
  <2> HIDE DEF d1
  <2>3. d2 \in EventDoc /\ d2.attempts = n
    BY <1>1, <2>1, <2>2 DEF EventDoc
  <2>4. d2 = [ev[e] EXCEPT !.state = "PROCESSING", !.worker = WorkerOf[s], !.token = t,
                           !.lease = LeaseTicks, !.attempts = n]
    BY <1>3 DEF d1, EventDoc
  <2> QED
    BY <2>2, <2>3, <2>4
<1>5. Claimed(e, WorkerOf[s], t) \in EventDoc /\ Claimed(e, WorkerOf[s], t).attempts >= 1
  <2>1. ev[e].attempts \in 0..AttemptCap
    BY <1>3 DEF EventDoc
  <2>2. CASE ev[e].attempts < AttemptCap
    <3>1. ev[e].attempts + 1 \in 1..AttemptCap
      BY <2>1, <2>2, QueueAssumption
    <3> QED
      BY <1>4, <2>2, <3>1 DEF Claimed
  <2>3. CASE ~(ev[e].attempts < AttemptCap)
    <3>1. ev[e].attempts \in 1..AttemptCap
      BY <2>1, <2>3, QueueAssumption
    <3> QED
      BY <1>4, <2>3, <3>1 DEF Claimed
  <2> QED
    BY <2>2, <2>3
<1>6. /\ ses' \in [Sessions -> SessionRec]
      /\ \A r \in Sessions : (ses'[r].pc = "idle") <=> (ses'[r].e = NoEvent)
  BY <1>1, <1>2, QueueAssumption DEF TypeOK, SessionRec, SessionPCs, IdleSession
<1> QED
  BY <1>2, <1>5, <1>6 DEF TypeOK, Claim


\* Only ev, row, sends, recorded and one session change when a session works.
LEMMA MoveType ==
  ASSUME TypeOK, NEW s \in Sessions, ses[s].pc # "idle",
         NEW r \in SessionRec, r.pc # "idle", r.e = ses[s].e,
         ses' = [ses EXCEPT ![s] = r]
  PROVE  /\ ses' \in [Sessions -> SessionRec]
         /\ \A x \in Sessions : (ses'[x].pc = "idle") <=> (ses'[x].e = NoEvent)
  BY DEF TypeOK

\* Ending a session keeps the types of the sessions.
LEMMA EndType ==
  ASSUME TypeOK, NEW s \in Sessions, EndSession(s)
  PROVE  /\ ses' \in [Sessions -> SessionRec]
         /\ \A x \in Sessions : (ses'[x].pc = "idle") <=> (ses'[x].e = NoEvent)
<1>1. IdleSession \in SessionRec /\ IdleSession.pc = "idle" /\ IdleSession.e = NoEvent
  BY IdleType DEF IdleSession
<1> QED
  BY <1>1 DEF TypeOK, EndSession

\* Moving a working session to another program counter keeps the types.
LEMMA GotoType ==
  ASSUME TypeOK, NEW s \in Sessions, NEW pc \in SessionPCs
  PROVE  /\ Goto(s, pc) \in SessionRec /\ Goto(s, pc).pc = pc /\ Goto(s, pc).e = ses[s].e
         /\ Goto(s, pc).tok = ses[s].tok /\ Goto(s, pc).plan = ses[s].plan /\ Goto(s, pc).i = ses[s].i
<1>1. ses[s] \in SessionRec
  BY DEF TypeOK
<1>2. Goto(s, pc) \in SessionRec
  BY <1>1 DEF Goto, SessionRec
<1> QED
  BY <1>1, <1>2 DEF Goto, SessionRec

\* Moving to the recording of a result keeps the types.
LEMMA FinishType ==
  ASSUME TypeOK, NEW s \in Sessions, NEW fin \in {"COMPLETED", "DISABLED", "PERMANENT_FAILURE"}
  PROVE  /\ ToFinish(s, fin) \in SessionRec /\ ToFinish(s, fin).pc = "finish"
         /\ ToFinish(s, fin).e = ses[s].e /\ ToFinish(s, fin).tok = ses[s].tok
         /\ ToFinish(s, fin).plan = ses[s].plan /\ ToFinish(s, fin).i = ses[s].i
         /\ ToFinish(s, fin).fin = fin
<1>1. ses[s] \in SessionRec
  BY DEF TypeOK
<1>2. ToFinish(s, fin) \in SessionRec
  BY <1>1 DEF ToFinish, SessionRec, SessionPCs
<1> QED
  BY <1>1, <1>2 DEF ToFinish, SessionRec

\* The current channel of a session that is inside its request.
LEMMA ChanType ==
  ASSUME TypeOK, WalkDone, NEW s \in Sessions,
         ses[s].pc \in {"read", "mark", "send", "finish", "defer", "retry"}
  PROVE  /\ Chan(s) \in Channels
         /\ ses[s].e \in Events /\ ses[s].plan \in Seq(Channels)
         /\ ses[s].i \in 1..Len(ses[s].plan)
<1>1. ses[s].plan \in Seq(Channels) /\ ses[s].i \in DOMAIN ses[s].plan
  BY QueueAssumption DEF WalkDone, WalkOf
<1>2. ses[s].e \in Events
  BY DEF TypeOK, SessionRec
<1>3. ses[s].i \in 1..Len(ses[s].plan) /\ Chan(s) \in Channels
  BY <1>1, ElementOfSeq DEF Chan
<1> QED
  BY <1>1, <1>2, <1>3

\* Delivering keeps the types.
LEMMA DeliverType ==
  ASSUME TypeOK, WalkDone, NEW s \in Sessions, Deliver(s)
  PROVE  TypeOK'
<1> USE DEF SessionPCs
<1>1. ses[s] \in SessionRec
  BY DEF TypeOK
<1>2. CASE CheckLease(s)
  <2>1. LeaseLive(s) => [ses[s] EXCEPT !.pc = "read", !.i = 1] \in SessionRec
    BY <1>1 DEF SessionRec
  <2>2. /\ ses' \in [Sessions -> SessionRec]
        /\ \A x \in Sessions : (ses'[x].pc = "idle") <=> (ses'[x].e = NoEvent)
    BY <1>1, <1>2, <2>1, SessionMoves DEF CheckLease, TypeOK, SessionRec
  <2> QED
    BY <1>2, <2>2 DEF CheckLease, TypeOK
<1>3. CASE ReadAction(s)
  <2>1. /\ ses' \in [Sessions -> SessionRec]
        /\ \A x \in Sessions : (ses'[x].pc = "idle") <=> (ses'[x].e = NoEvent)
    BY <1>3, SessionMoves, GotoType, FinishType DEF ReadAction, TypeOK
  <2> QED
    BY <1>3, <2>1 DEF ReadAction, TypeOK
<1>4. CASE MarkAction(s)
  <2>1. /\ ses' \in [Sessions -> SessionRec]
        /\ \A x \in Sessions : (ses'[x].pc = "idle") <=> (ses'[x].e = NoEvent)
    <3>1. PICK r \in SessionRec : r.pc # "idle" /\ r.e = ses[s].e /\ ses' = [ses EXCEPT ![s] = r]
      BY <1>4, GotoType, FinishType DEF MarkAction
    <3> QED
      BY <1>4, <3>1, MoveType DEF MarkAction
  <2>2. row' \in [Events -> [Channels -> RowStates]]
    BY <1>4, ChanType, RowSetType DEF MarkAction, TypeOK, RowStates
  <2> QED
    BY <1>4, <2>1, <2>2 DEF MarkAction, TypeOK
<1>5. ASSUME ses[s].pc = "send", Accepted(s) PROVE sends' \in [Events -> [Channels -> 0..SendCap]]
  BY <1>5, ChanType, QueueAssumption DEF Accepted, TypeOK
<1>6. CASE SendOk(s)
  <2>1. /\ ses' \in [Sessions -> SessionRec]
        /\ \A x \in Sessions : (ses'[x].pc = "idle") <=> (ses'[x].e = NoEvent)
    BY <1>6, GotoType, FinishType DEF SendOk, TypeOK
  <2> QED
    BY <1>5, <1>6, <2>1 DEF SendOk, TypeOK
<1>7. CASE SendRefused(s)
  <2>1. /\ ses' \in [Sessions -> SessionRec]
        /\ \A x \in Sessions : (ses'[x].pc = "idle") <=> (ses'[x].e = NoEvent)
    BY <1>7, GotoType, FinishType DEF SendRefused, TypeOK
  <2> QED
    BY <1>7, <2>1 DEF SendRefused, TypeOK
<1>8. CASE SendFailed(s)
  <2>1. /\ ses' \in [Sessions -> SessionRec]
        /\ \A x \in Sessions : (ses'[x].pc = "idle") <=> (ses'[x].e = NoEvent)
    BY <1>8, GotoType, FinishType DEF SendFailed, TypeOK
  <2>2. sends' \in [Events -> [Channels -> 0..SendCap]]
    BY <1>5, <1>8 DEF SendFailed, TypeOK
  <2> QED
    BY <1>8, <2>1, <2>2 DEF SendFailed, TypeOK
<1>9. CASE FinishAction(s)
  <2>1. /\ ses' \in [Sessions -> SessionRec]
        /\ \A x \in Sessions : (ses'[x].pc = "idle") <=> (ses'[x].e = NoEvent)
    BY <1>9, SessionMoves DEF FinishAction, TypeOK
  <2>2. row' \in [Events -> [Channels -> RowStates]]
    <3>1. ses[s].fin \in RowStates
      BY <1>1 DEF SessionRec, RowStates
    <3> QED
      BY <1>9, <3>1, ChanType, RowSetType DEF FinishAction, TypeOK
  <2>3. recorded' \in [Events -> SUBSET Channels]
    BY <1>9, ChanType DEF FinishAction, TypeOK
  <2> QED
    BY <1>9, <2>1, <2>2, <2>3 DEF FinishAction, TypeOK
<1>10. CASE DeferAction(s) \/ RetryAction(s)
  <2>1. /\ ses' \in [Sessions -> SessionRec]
        /\ \A x \in Sessions : (ses'[x].pc = "idle") <=> (ses'[x].e = NoEvent)
    <3>1. ses' = [ses EXCEPT ![s] = Raised(s)]
      BY <1>10 DEF DeferAction, RetryAction
    <3>2. Raised(s) \in SessionRec /\ Raised(s).e = ses[s].e /\ Raised(s).pc = "failRead"
      BY SessionMoves
    <3>3. ses[s].pc # "idle"
      BY <1>10 DEF DeferAction, RetryAction
    <3> QED
      BY <3>1, <3>2, <3>3 DEF TypeOK
  <2>2. row' \in [Events -> [Channels -> RowStates]]
    BY <1>10, ChanType, RowSetType DEF DeferAction, RetryAction, TypeOK, RowStates
  <2> QED
    BY <1>10, <2>1, <2>2 DEF DeferAction, RetryAction, TypeOK
<1> QED
  BY <1>2, <1>3, <1>4, <1>6, <1>7, <1>8, <1>9, <1>10 DEF Deliver

\* Settling an event keeps the types.
LEMMA SettleType ==
  ASSUME TypeOK, NEW s \in Sessions, Settle(s)
  PROVE  TypeOK'
<1> USE DEF SessionPCs
<1>1. ASSUME Holds(s), NEW st \in {"COMPLETED", "RETRY", "DEAD_LETTER"}, NEW d \in Nat
      PROVE  /\ [Released(ses[s].e) EXCEPT !.state = st] \in EventDoc
             /\ [Released(ses[s].e) EXCEPT !.state = st, !.delay = d] \in EventDoc
             /\ [Released(ses[s].e) EXCEPT !.state = st].state = st
             /\ [Released(ses[s].e) EXCEPT !.state = st, !.delay = d].state = st
  <2>1. ses[s].e \in Events /\ ev[ses[s].e] \in EventDoc
    BY <1>1 DEF Holds, TypeOK, SessionRec
  <2> DEFINE rel == Released(ses[s].e)
  <2>2. rel \in EventDoc
    <3>1. 0 \in 0..LeaseTicks
      BY QueueAssumption
    <3> QED
      BY <2>1, <3>1 DEF Released, EventDoc
  <2> HIDE DEF rel
  <2>3. [rel EXCEPT !.state = st] \in EventDoc /\ [rel EXCEPT !.state = st].state = st
    BY <2>2 DEF EventDoc, EventStates
  <2>4. /\ [rel EXCEPT !.state = st, !.delay = d] \in EventDoc
        /\ [rel EXCEPT !.state = st, !.delay = d].state = st
    BY <2>2 DEF EventDoc, EventStates
  <2> QED
    BY <2>3, <2>4 DEF rel
<1>2. CASE Ack(s)
  <2>1. Holds(s) /\ ses[s].e \in Events
    BY <1>2 DEF Ack, LeaseAccepted, Holds, TypeOK, SessionRec
  <2>2. ev' \in [Events -> EventDoc] /\ ev'[ses[s].e].state = "COMPLETED"
        /\ \A e \in Events : e # ses[s].e => ev'[e] = ev[e]
    BY <1>1, <1>2, <2>1 DEF Ack, TypeOK
  <2> QED
    BY <1>2, <2>1, <2>2, EndType DEF Ack, TypeOK
<1>3. CASE LeaseLost(s)
  BY <1>3, EndType DEF LeaseLost, TypeOK
<1>4. CASE FailRead(s)
  BY <1>4, MoveType, GotoType, FinishType DEF FailRead, TypeOK
<1>5. CASE FailWrite(s)
  <2>1. Holds(s) /\ ses[s].e \in Events
    BY <1>5 DEF FailWrite, Holds, TypeOK, SessionRec
  <2>2. ev[ses[s].e].attempts \in 1..AttemptCap
    BY <2>1, QueueAssumption DEF Holds, TypeOK, EventDoc
  <2>3. ev' \in [Events -> EventDoc] /\ ev'[ses[s].e].state \in {"RETRY", "DEAD_LETTER"}
        /\ \A e \in Events : e # ses[s].e => ev'[e] = ev[e]
    <3>1. Backoff(ev[ses[s].e].attempts) \in Nat
      BY <2>2, BackoffType
    <3>2. PICK st \in {"RETRY", "DEAD_LETTER"}, d \in Nat :
            ev' = [ev EXCEPT ![ses[s].e] = [Released(ses[s].e) EXCEPT !.state = st, !.delay = d]]
      BY <1>5, <3>1 DEF FailWrite
    <3>3. PICK r \in EventDoc :
            r = [Released(ses[s].e) EXCEPT !.state = st, !.delay = d] /\ r.state = st
      <4>1. /\ [Released(ses[s].e) EXCEPT !.state = st, !.delay = d] \in EventDoc
            /\ [Released(ses[s].e) EXCEPT !.state = st, !.delay = d].state = st
        BY <1>1, <2>1
      <4> QED
        BY <4>1
    <3>4. ev' = [ev EXCEPT ![ses[s].e] = r] /\ ses[s].e \in Events /\ ev \in [Events -> EventDoc]
      BY <2>1, <3>2, <3>3 DEF TypeOK
    <3>5. ev' \in [Events -> EventDoc] /\ ev'[ses[s].e] = r /\ \A e \in Events : e # ses[s].e => ev'[e] = ev[e]
      BY <3>4
    <3> QED
      BY <3>3, <3>5
  <2> QED
    BY <1>5, <2>1, <2>3, EndType DEF FailWrite, TypeOK
<1> QED
  BY <1>2, <1>3, <1>4, <1>5 DEF Settle


\* Time only counts down.
LEMMA TickType == ASSUME TypeOK, Tick PROVE TypeOK'
<1>1. ASSUME NEW e \in Events
      PROVE  [ev[e] EXCEPT !.lease = Down(@), !.delay = Down(@)] \in EventDoc
  <2>1. ev[e] \in EventDoc
    BY DEF TypeOK
  <2>2. Down(ev[e].lease) \in 0..LeaseTicks /\ Down(ev[e].delay) \in Nat
    BY <2>1, QueueAssumption DEF EventDoc, Down
  <2> QED
    BY <2>1, <2>2 DEF EventDoc
<1>2. \A e \in Events : ev'[e].state = ev[e].state /\ ev'[e].attempts = ev[e].attempts
  BY DEF Tick, TypeOK, EventDoc
<1> QED
  BY <1>1, <1>2 DEF Tick, TypeOK

\* Every step keeps the types.
LEMMA NextType == TypeOK /\ WalkDone /\ [Next]_vars => TypeOK'
<1> SUFFICES ASSUME TypeOK, WalkDone, [Next]_vars PROVE TypeOK'
  OBVIOUS
<1>1. CASE \E e \in Events : AppendHistory(e)
  BY <1>1 DEF AppendHistory, TypeOK
<1>2. CASE \E m \in Materializers, e \in Events : Transition(m, e) \/ Backfill(m, e)
  <2>1. PICK m \in Materializers, e \in Events : Transition(m, e) \/ Backfill(m, e)
    BY <1>2
  <2>2. [e |-> e, i |-> 0] \in [e : Events \union {NoEvent}, i : 0..Len(Policy)]
    BY QueueAssumption, LenProperties
  <2> QED
    BY <2>1, <2>2 DEF Transition, Backfill, TypeOK
<1>3. CASE \E m \in Materializers : Materialize(m)
  BY <1>3, MaterializeType
<1>4. CASE \E m \in Materializers : AbandonMaterialize(m)
  <2>1. IdleMaterializer \in [e : Events \union {NoEvent}, i : 0..Len(Policy)]
    BY QueueAssumption, LenProperties DEF IdleMaterializer
  <2> QED
    BY <1>4, <2>1 DEF AbandonMaterialize, TypeOK
<1>5. CASE \E s \in Sessions : Claim(s) \/ Deliver(s) \/ Settle(s) \/ Fault(s)
  <2>1. PICK s \in Sessions : Claim(s) \/ Deliver(s) \/ Settle(s) \/ Fault(s)
    BY <1>5
  <2>2. CASE Crash(s)
    BY <2>2, EndType DEF Crash, TypeOK
  <2>3. CASE DatabaseError(s)
    <3>1. PICK r \in SessionRec : r.pc # "idle" /\ r.e = ses[s].e /\ ses' = [ses EXCEPT ![s] = r]
      <4>1. "retry" \in SessionPCs
        BY DEF SessionPCs
      <4>2. CASE ses' = [ses EXCEPT ![s] = Raised(s)]
        BY <4>2, SessionMoves
      <4>3. CASE ses' = [ses EXCEPT ![s] = Goto(s, "retry")]
        BY <4>1, <4>3, GotoType
      <4> QED
        BY <2>3, <4>2, <4>3 DEF DatabaseError
    <3>2. ses[s].pc # "idle"
      BY <2>3 DEF DatabaseError
    <3> QED
      BY <2>3, <3>1, <3>2, MoveType DEF DatabaseError, TypeOK
  <2> QED
    BY <2>1, <2>2, <2>3, ClaimType, DeliverType, SettleType DEF Fault
<1>6. CASE Tick
  BY <1>6, TickType
<1>7. CASE UNCHANGED vars
  BY <1>7 DEF vars, TypeOK
<1> QED
  BY <1>1, <1>2, <1>3, <1>4, <1>5, <1>6, <1>7 DEF Next


-----------------------------------------------------------------------------
(* The inductive invariant.                                                *)

\* A step of a running session concerns no other session, and keeps the
\* session's event, token and request unless it ends the session.
LEMMA WorkStep ==
  ASSUME TypeOK, NEW s \in Sessions, Deliver(s) \/ Settle(s) \/ Fault(s)
  PROVE  /\ ses[s].pc # "idle"
         /\ \A x \in Sessions : x # s => ses'[x] = ses[x]
         /\ \/ ses'[s] = IdleSession
            \/ /\ ses'[s].tok = ses[s].tok /\ ses'[s].e = ses[s].e
               /\ ses'[s].plan = ses[s].plan /\ ses'[s].pc # "idle"
<1> USE DEF SessionPCs
<1>1. CASE CheckLease(s)
  <2> DEFINE r == [ses[s] EXCEPT !.pc = "read", !.i = 1]
  <2>1. r.pc = "read" /\ r.tok = ses[s].tok /\ r.e = ses[s].e /\ r.plan = ses[s].plan
    BY DEF TypeOK, SessionRec
  <2>2. ses' = [ses EXCEPT ![s] = r] \/ ses' = [ses EXCEPT ![s] = Raised(s)]
    BY <1>1 DEF CheckLease
  <2> HIDE DEF r
  <2> QED
    BY <1>1, <2>1, <2>2, SessionMoves DEF CheckLease, TypeOK
<1>2. CASE ReadAction(s)
  <2>1. \/ ses' = [ses EXCEPT ![s] = Advanced(s)]
        \/ ses' = [ses EXCEPT ![s] = ToFinish(s, "DISABLED")]
        \/ ses' = [ses EXCEPT ![s] = Goto(s, "mark")]
    BY <1>2 DEF ReadAction
  <2>2. ses[s].pc = "read"
    BY <1>2 DEF ReadAction
  <2>3. CASE ses' = [ses EXCEPT ![s] = Advanced(s)]
    BY <2>2, <2>3, SessionMoves DEF TypeOK
  <2>4. CASE ses' = [ses EXCEPT ![s] = ToFinish(s, "DISABLED")]
    BY <2>2, <2>4, FinishType DEF TypeOK
  <2>5. CASE ses' = [ses EXCEPT ![s] = Goto(s, "mark")]
    BY <2>2, <2>5, GotoType DEF TypeOK
  <2> QED
    BY <2>1, <2>3, <2>4, <2>5
<1>3. CASE MarkAction(s)
  <2>1. \A pc \in SessionPCs : /\ Goto(s, pc).pc = pc /\ Goto(s, pc).e = ses[s].e
                               /\ Goto(s, pc).tok = ses[s].tok /\ Goto(s, pc).plan = ses[s].plan
    BY GotoType, FinishType
  <2>2. \/ ses' = [ses EXCEPT ![s] = ToFinish(s, "COMPLETED")]
        \/ ses' = [ses EXCEPT ![s] = Goto(s, "defer")]
        \/ ses' = [ses EXCEPT ![s] = Goto(s, "send")]
    BY <1>3 DEF MarkAction
  <2> QED
    BY <1>3, <2>1, <2>2, GotoType, FinishType DEF MarkAction, TypeOK
<1>4. CASE SendOk(s)
  BY <1>4, GotoType, FinishType DEF SendOk, TypeOK
<1>5. CASE SendRefused(s)
  BY <1>5, GotoType, FinishType DEF SendRefused, TypeOK
<1>6. CASE SendFailed(s)
  BY <1>6, GotoType, FinishType DEF SendFailed, TypeOK
<1>7. CASE FinishAction(s)
  BY <1>7, SessionMoves DEF FinishAction, TypeOK
<1>8. CASE DeferAction(s) \/ RetryAction(s)
  BY <1>8, SessionMoves DEF DeferAction, RetryAction, TypeOK
<1>9. CASE FailRead(s)
  BY <1>9, GotoType, FinishType DEF FailRead, TypeOK
<1>10. CASE Ack(s) \/ LeaseLost(s) \/ FailWrite(s) \/ Crash(s)
  BY <1>10 DEF Ack, LeaseLost, FailWrite, Crash, EndSession, TypeOK
<1>11. CASE DatabaseError(s)
  <2>1. ses[s].pc # "idle"
    BY <1>11 DEF DatabaseError
  <2>2. CASE ses' = [ses EXCEPT ![s] = Raised(s)]
    BY <2>1, <2>2, SessionMoves DEF TypeOK
  <2>3. CASE ses' = [ses EXCEPT ![s] = Goto(s, "retry")]
    BY <2>1, <2>3, GotoType DEF TypeOK
  <2> QED
    BY <1>11, <2>2, <2>3 DEF DatabaseError
<1> QED
  BY <1>1, <1>2, <1>3, <1>4, <1>5, <1>6, <1>7, <1>8, <1>9, <1>10, <1>11 DEF Deliver, Settle, Fault

\* The case split on Next that the invariance lemmas share.
LEMMA NextCases ==
  ASSUME [Next]_vars
  PROVE  \/ \E e \in Events : AppendHistory(e)
         \/ \E m \in Materializers, e \in Events : Transition(m, e) \/ Backfill(m, e)
         \/ \E m \in Materializers : UpsertEvent(m) \/ UpsertAction(m) \/ AbandonMaterialize(m)
         \/ \E s \in Sessions : Claim(s)
         \/ \E s \in Sessions : Deliver(s) \/ Settle(s) \/ Fault(s)
         \/ Tick
         \/ UNCHANGED vars
  BY DEF Next, Materialize

\* Steps that leave every session alone.
LEMMA QuietSteps ==
  ASSUME [Next]_vars, \A s \in Sessions : ~(Claim(s) \/ Deliver(s) \/ Settle(s) \/ Fault(s))
  PROVE  UNCHANGED <<ses, sends, recorded>>
<1>1. CASE UNCHANGED vars
  BY <1>1 DEF vars
<1>2. CASE \E e \in Events : AppendHistory(e)
  BY <1>2 DEF AppendHistory
<1>3. CASE \E m \in Materializers, e \in Events : Transition(m, e) \/ Backfill(m, e)
  BY <1>3 DEF Transition, Backfill
<1>4. CASE \E m \in Materializers : UpsertEvent(m) \/ UpsertAction(m) \/ AbandonMaterialize(m)
  BY <1>4 DEF UpsertEvent, UpsertAction, AbandonMaterialize
<1>5. CASE Tick
  BY <1>5 DEF Tick
<1> QED
  BY <1>1, <1>2, <1>3, <1>4, <1>5, NextCases

\* Fresh lease tokens stay distinct.
LEMMA NextTokens == TypeOK /\ TokensDistinct /\ [Next]_vars => TokensDistinct'
<1> SUFFICES ASSUME TypeOK, TokensDistinct, [Next]_vars PROVE TokensDistinct'
  OBVIOUS
<1>1. CASE \E s \in Sessions : Deliver(s) \/ Settle(s) \/ Fault(s)
  <2>1. PICK s \in Sessions : Deliver(s) \/ Settle(s) \/ Fault(s)
    BY <1>1
  <2>2. IdleSession.tok = NoToken /\ IdleSession.pc = "idle" /\ NoToken \notin Tokens
    <3>1. NoToken \notin Tokens
      BY QueueAssumption
    <3> QED
      BY <3>1 DEF IdleSession
  <2>3. SUFFICES ASSUME NEW a \in Sessions, NEW b \in Sessions, ses'[a].pc # "idle"
                 PROVE  ses'[a].tok \in Tokens /\ (ses'[a].tok = ses'[b].tok => a = b)
    BY DEF TokensDistinct
  <2>4. ses[a].pc # "idle" /\ ses'[a].tok = ses[a].tok
    BY <2>1, <2>2, <2>3, WorkStep
  <2>5. ses'[b].tok = ses[b].tok \/ ses'[b].tok = NoToken
    BY <2>1, <2>2, WorkStep
  <2> QED
    BY <2>2, <2>4, <2>5 DEF TokensDistinct
<1>2. CASE \E s \in Sessions : Claim(s)
  <2>1. PICK s \in Sessions : Claim(s)
    BY <1>2
  <2> DEFINE t == CHOOSE t \in FreshTokens : TRUE
  <2>2. t \in Tokens /\ \A x \in Sessions : ses[x].tok # t
    BY <2>1 DEF Claim, FreshTokens
  <2>3. PICK e \in Events, plan \in Requests :
          ses' = [ses EXCEPT ![s] = [IdleSession EXCEPT !.pc = "lease", !.e = e,
                                                        !.tok = t, !.plan = plan]]
    BY <2>1 DEF Claim
  <2>4. ses'[s].tok = t /\ \A x \in Sessions : x # s => ses'[x] = ses[x]
    BY <2>3 DEF TypeOK, IdleSession
  <2> HIDE DEF t
  <2> QED
    BY <2>2, <2>4 DEF TokensDistinct
<1>3. CASE \A s \in Sessions : ~(Claim(s) \/ Deliver(s) \/ Settle(s) \/ Fault(s))
  BY <1>3, QuietSteps DEF TokensDistinct
<1> QED
  BY <1>1, <1>2, <1>3

\* What a provider has accepted stays accepted.
LEMMA SendsGrow ==
  ASSUME TypeOK, WalkDone, [Next]_vars, NEW e \in Events, NEW c \in Channels
  PROVE  sends'[e][c] >= sends[e][c]
<1>1. sends[e][c] \in Nat /\ sends \in [Events -> [Channels -> 0..SendCap]]
  BY QueueAssumption DEF TypeOK
<1>2. ASSUME NEW s \in Sessions, ses[s].pc = "send", Accepted(s) PROVE sends'[e][c] >= sends[e][c]
  BY <1>1, <1>2 DEF Accepted
<1>3. CASE \E s \in Sessions : Deliver(s) \/ Settle(s) \/ Fault(s)
  <2>1. PICK s \in Sessions : Deliver(s) \/ Settle(s) \/ Fault(s)
    BY <1>3
  <2>2. CASE SendOk(s) \/ SendFailed(s)
    BY <1>1, <1>2, <2>2 DEF SendOk, SendFailed
  <2>3. CASE ~(SendOk(s) \/ SendFailed(s))
    <3>1. UNCHANGED sends
      BY <2>1, <2>3 DEF Deliver, Settle, Fault, Crash, DatabaseError, CheckLease, ReadAction, MarkAction, SendRefused,
           FinishAction, DeferAction, RetryAction, Ack, LeaseLost, FailRead, FailWrite
    <3> QED
      BY <1>1, <3>1
  <2> QED
    BY <2>2, <2>3
<1>4. CASE \E s \in Sessions : Claim(s)
  BY <1>1, <1>4 DEF Claim
<1>5. CASE \A s \in Sessions : ~(Claim(s) \/ Deliver(s) \/ Settle(s) \/ Fault(s))
  BY <1>1, <1>5, QuietSteps
<1> QED
  BY <1>3, <1>4, <1>5

\* A channel that has been reached stays reached.
LEMMA ReachedStays ==
  ASSUME TypeOK, WalkDone, [Next]_vars, NEW e \in Events, NEW c \in Channels, Reached(e, c)
  PROVE  Reached(e, c)'
<1>1. sends[e][c] \in Nat /\ sends'[e][c] >= sends[e][c]
  BY SendsGrow, QueueAssumption DEF TypeOK
<1>2. TypeOK'
  BY NextType
<1>3. sends'[e][c] \in Nat
  BY <1>2, QueueAssumption DEF TypeOK
<1> QED
  BY <1>1, <1>3 DEF Reached, Deliverable


\* Every session keeps its record of the channels it has seen to.
LEMMA NextWalk == TypeOK /\ WalkDone /\ SettledRows /\ [Next]_vars => WalkDone'
<1> SUFFICES ASSUME TypeOK, WalkDone, SettledRows, [Next]_vars, NEW x \in Sessions
             PROVE  WalkOf(x)'
  BY DEF WalkDone
<1>1. TypeOK'
  BY NextType
<1>2. ASSUME ses'[x] = ses[x], ses[x].pc # "idle" PROVE WalkOf(x)'
  <2>1. ses[x].plan \in Seq(Channels) /\ ses[x].e \in Events
    BY <1>2, QueueAssumption DEF WalkDone, WalkOf, TypeOK, SessionRec
  <2>2. \A j \in DOMAIN ses[x].plan : ses[x].plan[j] \in Channels
    BY <2>1, ElementOfSeq
  <2>3. \A j \in DOMAIN ses[x].plan :
          Reached(ses[x].e, ses[x].plan[j]) => Reached(ses[x].e, ses[x].plan[j])'
    BY <1>2, <2>1, <2>2, ReachedStays DEF Reached
  <2>4. WalkOf(x)
    BY DEF WalkDone
  <2>5. ses[x].i \in DOMAIN ses[x].plan => \A j \in 1..(ses[x].i - 1) : j \in DOMAIN ses[x].plan
    BY <2>1
  <2> QED
    BY <1>2, <2>3, <2>4, <2>5 DEF WalkOf, Chan, Reached
<1>3. ASSUME ses'[x].pc = "idle" PROVE WalkOf(x)'
  BY <1>3 DEF WalkOf
<1>4. ASSUME ses'[x] = ses[x] PROVE WalkOf(x)'
  BY <1>2, <1>3, <1>4
<1>5. CASE \A s \in Sessions : ~(Claim(s) \/ Deliver(s) \/ Settle(s) \/ Fault(s))
  BY <1>4, <1>5, QuietSteps
<1>6. CASE \E s \in Sessions : Claim(s)
  <2>1. PICK s \in Sessions : Claim(s)
    BY <1>6
  <2> DEFINE t == CHOOSE t \in FreshTokens : TRUE
  <2>2. PICK e \in Events, plan \in Requests :
          ses' = [ses EXCEPT ![s] = [IdleSession EXCEPT !.pc = "lease", !.e = e,
                                                        !.tok = t, !.plan = plan]]
    BY <2>1 DEF Claim
  <2> HIDE DEF t
  <2>3. CASE x = s
    <3>1. ses'[x].pc = "lease" /\ ses'[x].plan = plan
      BY <2>2, <2>3 DEF TypeOK, IdleSession
    <3> QED
      BY <3>1 DEF WalkOf
  <2>4. CASE x # s
    BY <1>4, <2>2, <2>4 DEF TypeOK
  <2> QED
    BY <2>3, <2>4
<1>7. CASE \E s \in Sessions : Deliver(s) \/ Settle(s) \/ Fault(s)
  <2>1. PICK s \in Sessions : Deliver(s) \/ Settle(s) \/ Fault(s)
    BY <1>7
  <2>2. CASE x # s
    BY <1>4, <2>1, <2>2, WorkStep
  <2>3. CASE x = s /\ ses'[x] # IdleSession
    <3>1. /\ ses[x].pc # "idle" /\ ses'[x].e = ses[x].e /\ ses'[x].plan = ses[x].plan
          /\ ses[x].plan \in Requests /\ WalkOf(x)
      BY <2>1, <2>3, WorkStep DEF WalkDone, WalkOf
    <3>2. ses[x].plan \in Seq(Channels) /\ ses[x].plan # <<>> /\ ses[x].e \in Events
      BY <3>1, QueueAssumption DEF TypeOK, SessionRec
    <3>3. \A j \in DOMAIN ses[x].plan : ses[x].plan[j] \in Channels
      BY <3>2, ElementOfSeq
    <3>4. \A j \in DOMAIN ses[x].plan :
            Reached(ses[x].e, ses[x].plan[j]) => Reached(ses[x].e, ses[x].plan[j])'
      BY <3>1, <3>2, <3>3, ReachedStays DEF Reached
    <3>5. ASSUME ses'[x].i = ses[x].i, ses[x].i \in DOMAIN ses[x].plan,
                 \A j \in 1..(ses[x].i - 1) : Reached(ses[x].e, ses[x].plan[j])
          PROVE  \A j \in 1..(ses'[x].i - 1) : Reached(ses[x].e, ses[x].plan[j])'
      BY <3>2, <3>4, <3>5
    <3>6. ASSUME ses' = [ses EXCEPT ![s] = Goto(s, ses'[x].pc)],
                 \/ /\ ses[x].pc \in {"read", "mark", "send", "finish"}
                    /\ ses'[x].pc \in {"mark", "send", "retry", "defer"}
                 \/ ses[x].pc = "failRead" /\ ses'[x].pc = "failWrite"
          PROVE  WalkOf(x)'
      <4>1. ses'[x].i = ses[x].i
        BY <2>3, <3>6, GotoType, FinishType DEF TypeOK, SessionPCs
      <4>2. /\ ses[x].pc # "failRead" => ses[x].i \in DOMAIN ses[x].plan
            /\ ses[x].pc # "failRead" => \A j \in 1..(ses[x].i - 1) : Reached(ses[x].e, ses[x].plan[j])
        BY <3>1, <3>6 DEF WalkOf
      <4>3. CASE ses'[x].pc = "failWrite"
        BY <3>1, <4>3 DEF WalkOf
      <4>4. CASE ses[x].pc # "failRead" /\ ses'[x].pc # "failWrite"
        BY <3>1, <3>5, <3>6, <4>1, <4>2, <4>4 DEF WalkOf, Reached
      <4> QED
        BY <3>6, <4>3, <4>4
    <3>7. ASSUME ses' = [ses EXCEPT ![s] = Advanced(s)],
                 ses[x].pc \in {"read", "finish"}, Reached(ses[x].e, Chan(x))
          PROVE  WalkOf(x)'
      <4>1. /\ ses[x].i \in 1..Len(ses[x].plan)
            /\ \A j \in 1..(ses[x].i - 1) : Reached(ses[x].e, ses[x].plan[j])
        BY <3>1, <3>2, <3>7 DEF WalkOf
      <4>2. \A j \in 1..ses[x].i : Reached(ses[x].e, ses[x].plan[j])
        BY <3>7, <4>1 DEF Chan
      <4>3. ses'[x] = Advanced(x)
        BY <2>3, <3>7 DEF TypeOK
      <4>4. CASE ses[x].i < Len(ses[x].plan)
        <5>1. ses'[x].pc = "read" /\ ses'[x].i = ses[x].i + 1
          BY <4>3, <4>4 DEF Advanced, TypeOK, SessionRec
        <5>2. ses[x].i + 1 \in DOMAIN ses[x].plan
              /\ \A j \in 1..(ses[x].i + 1 - 1) : j \in 1..ses[x].i /\ j \in DOMAIN ses[x].plan
          BY <3>2, <4>1, <4>4
        <5>3. ASSUME NEW j \in 1..(ses'[x].i - 1) PROVE Reached(ses[x].e, ses[x].plan[j])'
          <6>1. j \in 1..ses[x].i /\ j \in DOMAIN ses[x].plan
            BY <4>1, <5>1, <5>2
          <6>2. Reached(ses[x].e, ses[x].plan[j])
            BY <4>2, <6>1
          <6> QED
            BY <3>4, <6>1, <6>2
        <5>4. \A j \in 1..(ses'[x].i - 1) : Reached(ses[x].e, ses[x].plan[j])'
          BY <5>3
        <5> QED
          BY <3>1, <5>1, <5>2, <5>4 DEF WalkOf, Reached
      <4>5. CASE ~(ses[x].i < Len(ses[x].plan))
        <5>1. ses'[x].pc = "ack"
          BY <4>3, <4>5 DEF Advanced, TypeOK, SessionRec
        <5>2. \A j \in DOMAIN ses[x].plan : j \in 1..ses[x].i
          BY <3>2, <4>1, <4>5
        <5> QED
          BY <3>1, <3>4, <4>2, <5>1, <5>2 DEF WalkOf, Reached
      <4> QED
        BY <4>4, <4>5
    <3>8. ASSUME NEW fin \in {"COMPLETED", "DISABLED", "PERMANENT_FAILURE"},
                 ses' = [ses EXCEPT ![s] = ToFinish(s, fin)],
                 ses[x].pc \in {"read", "mark", "send"}, Reached(ses[x].e, Chan(x))'
          PROVE  WalkOf(x)'
      <4>1. ses'[x].i = ses[x].i /\ ses'[x].pc = "finish"
        BY <2>3, <3>8, GotoType, FinishType DEF TypeOK
      <4>2. Chan(x)' = Chan(x)
        BY <3>1, <4>1 DEF Chan
      <4> QED
        BY <3>1, <3>5, <3>8, <4>1, <4>2 DEF WalkOf, Reached
    <3>9. ASSUME ses[x].pc \in {"read", "mark", "send", "finish"}
          PROVE  Chan(x) \in Channels
      BY <3>1, <3>3, <3>9 DEF WalkOf, Chan
    <3>10. CASE CheckLease(s)
      <4>1. CASE LeaseLive(s)
        <5>1. ses'[x].pc = "read" /\ ses'[x].i = 1
          BY <2>3, <3>10, <4>1 DEF CheckLease, TypeOK, SessionRec
        <5>2. 1 \in DOMAIN ses[x].plan /\ 1..0 = {}
          BY <3>2
        <5> QED
          BY <3>1, <5>1, <5>2 DEF WalkOf
      <4>2. CASE ~LeaseLive(s)
        <5>1. ses'[x].pc = "failRead"
          BY <2>3, <3>10, <4>2, SessionMoves DEF CheckLease, TypeOK
        <5> QED
          BY <3>1, <5>1 DEF WalkOf
      <4> QED
        BY <4>1, <4>2
    <3>11. CASE ReadAction(s)
      <4>1. CASE row[ses[s].e][Chan(s)] \in Settled
        BY <2>3, <3>2, <3>7, <3>9, <3>11, <4>1 DEF ReadAction, SettledRows
      <4>2. CASE row[ses[s].e][Chan(s)] \notin Settled /\ Chan(s) \notin Enabled
        <5>1. ses[x].pc = "read" /\ ses' = [ses EXCEPT ![s] = ToFinish(s, "DISABLED")]
          BY <2>3, <3>11, <4>2 DEF ReadAction
        <5>2. ses'[x].i = ses[x].i
          BY <2>3, <5>1, GotoType, FinishType DEF TypeOK
        <5>3. Reached(ses[x].e, Chan(x))'
          BY <2>3, <3>1, <4>2, <5>2 DEF Reached, Deliverable, Chan
        <5> QED
          BY <3>8, <5>1, <5>3
      <4>3. CASE row[ses[s].e][Chan(s)] \notin Settled /\ Chan(s) \in Enabled
        <5>1. ses[x].pc = "read" /\ ses' = [ses EXCEPT ![s] = Goto(s, "mark")]
          BY <2>3, <3>11, <4>3 DEF ReadAction
        <5>2. ses'[x].pc = "mark"
          BY <2>3, <5>1, GotoType, FinishType DEF TypeOK, SessionPCs
        <5> QED
          BY <3>6, <5>1, <5>2
      <4> QED
        BY <4>1, <4>2, <4>3
    <3>12. CASE MarkAction(s)
      <4>1. CASE ses' = [ses EXCEPT ![s] = ToFinish(s, "COMPLETED")] /\ Chan(s) \in Skipped
        <5>1. ses'[x].i = ses[x].i
          BY <2>3, <4>1, GotoType, FinishType DEF TypeOK
        <5>2. Reached(ses[x].e, Chan(x))'
          BY <2>3, <3>1, <4>1, <5>1 DEF Reached, Deliverable, Chan
        <5> QED
          BY <2>3, <3>8, <3>12, <4>1, <5>2 DEF MarkAction
      <4>2. CASE ses' = [ses EXCEPT ![s] = Goto(s, "defer")]
        <5>1. ses'[x].pc = "defer"
          BY <2>3, <4>2, GotoType, FinishType DEF TypeOK, SessionPCs
        <5> QED
          BY <2>3, <3>6, <3>12, <4>2, <5>1 DEF MarkAction
      <4>3. CASE ses' = [ses EXCEPT ![s] = Goto(s, "send")]
        <5>1. ses'[x].pc = "send"
          BY <2>3, <4>3, GotoType, FinishType DEF TypeOK, SessionPCs
        <5> QED
          BY <2>3, <3>6, <3>12, <4>3, <5>1 DEF MarkAction
      <4> QED
        BY <3>12, <4>1, <4>2, <4>3 DEF MarkAction
    <3>13. CASE SendOk(s)
      <4>1. ses'[x].i = ses[x].i
        BY <2>3, <3>13, GotoType, FinishType DEF SendOk, TypeOK
      <4>2. Chan(x)' = Chan(x) /\ Chan(x) \in Channels
        BY <2>3, <3>1, <3>9, <3>13, <4>1 DEF Chan, SendOk
      <4>3. sends'[ses[x].e][Chan(x)] >= 1
        BY <2>3, <3>2, <3>13, <4>2, QueueAssumption DEF SendOk, Accepted, TypeOK
      <4> QED
        BY <2>3, <3>1, <3>8, <3>13, <4>2, <4>3 DEF SendOk, Reached
    <3>14. CASE SendRefused(s)
      <4>1. ses'[x].i = ses[x].i
        BY <2>3, <3>14, GotoType, FinishType DEF SendRefused, TypeOK
      <4>2. Reached(ses[x].e, Chan(x))'
        BY <2>3, <3>1, <3>14, <4>1 DEF Reached, Deliverable, Chan, SendRefused
      <4> QED
        BY <2>3, <3>8, <3>14, <4>2 DEF SendRefused
    <3>15. CASE SendFailed(s)
      <4>1. ses'[x].pc = "retry"
        BY <2>3, <3>15, GotoType, FinishType DEF SendFailed, TypeOK, SessionPCs
      <4> QED
        BY <2>3, <3>6, <3>15, <4>1 DEF SendFailed
    <3>16. CASE FinishAction(s)
      BY <2>3, <3>1, <3>7, <3>16 DEF FinishAction, WalkOf
    <3>17. CASE DeferAction(s) \/ RetryAction(s)
      <4>1. ses'[x].pc = "failRead"
        BY <2>3, <3>17, SessionMoves DEF DeferAction, RetryAction, TypeOK
      <4> QED
        BY <3>1, <4>1 DEF WalkOf
    <3>18. CASE FailRead(s)
      <4>1. ses'[x].pc = "failWrite"
        BY <2>3, <3>18, GotoType, FinishType DEF FailRead, TypeOK, SessionPCs
      <4> QED
        BY <3>1, <4>1 DEF WalkOf
    <3>19. CASE Ack(s) \/ LeaseLost(s) \/ FailWrite(s) \/ Crash(s)
      BY <2>3, <3>19 DEF Ack, LeaseLost, FailWrite, Crash, EndSession, TypeOK
    <3>20. CASE DatabaseError(s)
      <4>1. CASE ses' = [ses EXCEPT ![s] = Raised(s)]
        <5>1. ses'[x].pc = "failRead"
          BY <2>3, <4>1, SessionMoves DEF TypeOK
        <5> QED
          BY <3>1, <5>1 DEF WalkOf
      <4>2. CASE ses' = [ses EXCEPT ![s] = Goto(s, "retry")] /\ ses[s].pc = "finish"
        <5>1. ses'[x].pc = "retry"
          BY <2>3, <4>2, GotoType DEF TypeOK, SessionPCs
        <5> QED
          BY <2>3, <3>6, <4>2, <5>1
      <4> QED
        BY <3>20, <4>1, <4>2 DEF DatabaseError
    <3> QED
      BY <2>1, <3>10, <3>11, <3>12, <3>13, <3>14, <3>15, <3>16, <3>17, <3>18, <3>19, <3>20
         DEF Deliver, Settle, Fault
  <2>4. CASE x = s /\ ses'[x] = IdleSession
    BY <1>3, <2>4 DEF IdleSession
  <2> QED
    BY <2>2, <2>3, <2>4
<1> QED
  BY <1>5, <1>6, <1>7


\* A row is settled only by a session that has seen to its channel.
LEMMA NextRows == TypeOK /\ WalkDone /\ SettledRows /\ [Next]_vars => SettledRows'
<1> SUFFICES ASSUME TypeOK, WalkDone, SettledRows, [Next]_vars,
                    NEW e \in Events, NEW c \in Channels, row'[e][c] \in Settled
             PROVE  Reached(e, c)'
  BY DEF SettledRows
<1>1. ASSUME row[e][c] \in Settled PROVE Reached(e, c)'
  BY <1>1, ReachedStays DEF SettledRows
<1>2. ASSUME UNCHANGED row PROVE Reached(e, c)'
  BY <1>1, <1>2
<1>3. ASSUME NEW f \in Events, NEW d \in Channels, NEW v \in RowStates,
             row' = RowSet(f, d, v), v \notin Settled \/ Reached(f, d)
      PROVE  Reached(e, c)'
  <2>1. CASE f = e /\ d = c
    BY <1>1, <1>3, <2>1, ReachedStays DEF RowSet, TypeOK
  <2>2. CASE ~(f = e /\ d = c)
    <3>1. row'[e][c] = row[e][c]
      BY <1>3, <2>2 DEF RowSet, TypeOK
    <3> QED
      BY <1>1, <3>1
  <2> QED
    BY <2>1, <2>2
<1>4. CASE \E m \in Materializers : UpsertAction(m)
  <2>1. PICK m \in Materializers : UpsertAction(m)
    BY <1>4
  <2>2. row'[e][c] = row[e][c] \/ row'[e][c] = "PENDING"
    BY <2>1 DEF UpsertAction, TypeOK
  <2> QED
    BY <1>1, <2>2 DEF Settled
<1>5. CASE \E s \in Sessions : Deliver(s) \/ Settle(s) \/ Fault(s)
  <2>1. PICK s \in Sessions : Deliver(s) \/ Settle(s) \/ Fault(s)
    BY <1>5
  <2>2. CASE MarkAction(s)
    <3>1. row' = RowSet(ses[s].e, Chan(s), "PROCESSING") /\ "PROCESSING" \in RowStates \ Settled
      BY <2>2 DEF MarkAction, RowStates, Settled
    <3> QED
      BY <1>3, <2>2, <3>1, ChanType DEF MarkAction
  <2>3. CASE DeferAction(s)
    <3>1. row' = RowSet(ses[s].e, Chan(s), "QUIET") /\ "QUIET" \in RowStates \ Settled
      BY <2>3 DEF DeferAction, RowStates, Settled
    <3> QED
      BY <1>3, <2>3, <3>1, ChanType DEF DeferAction
  <2>4. CASE RetryAction(s)
    <3>1. row' = RowSet(ses[s].e, Chan(s), "RETRY") /\ "RETRY" \in RowStates \ Settled
      BY <2>4 DEF RetryAction, RowStates, Settled
    <3> QED
      BY <1>3, <2>4, <3>1, ChanType DEF RetryAction
  <2>5. CASE FinishAction(s)
    <3>1. row' = RowSet(ses[s].e, Chan(s), ses[s].fin) /\ Reached(ses[s].e, Chan(s))
      BY <2>5 DEF FinishAction, WalkDone, WalkOf
    <3>2. ses[s].fin \in RowStates
      BY DEF TypeOK, SessionRec, RowStates
    <3> QED
      BY <1>3, <2>5, <3>1, <3>2, ChanType DEF FinishAction
  <2>6. CASE ~(MarkAction(s) \/ DeferAction(s) \/ RetryAction(s) \/ FinishAction(s))
    <3>1. UNCHANGED row
      BY <2>1, <2>6 DEF Deliver, Settle, Fault, Crash, DatabaseError, CheckLease, ReadAction, SendOk, SendRefused,
         SendFailed, Ack, LeaseLost, FailRead, FailWrite
    <3> QED
      BY <1>2, <3>1
  <2> QED
    BY <2>2, <2>3, <2>4, <2>5, <2>6
<1>6. CASE \/ \E f \in Events : AppendHistory(f)
           \/ \E m \in Materializers, f \in Events : Transition(m, f) \/ Backfill(m, f)
           \/ \E m \in Materializers : UpsertEvent(m) \/ AbandonMaterialize(m)
           \/ \E s \in Sessions : Claim(s)
           \/ Tick
           \/ UNCHANGED vars
  <2>1. UNCHANGED row
    BY <1>6 DEF AppendHistory, Transition, Backfill, UpsertEvent, AbandonMaterialize, Claim, Tick, vars
  <2> QED
    BY <1>2, <2>1
<1> QED
  BY <1>4, <1>5, <1>6, NextCases


\* What one step can do to the state of an event.
LEMMA StateStep ==
  ASSUME TypeOK, [Next]_vars, NEW e \in Events
  PROVE  \/ ev'[e].state = ev[e].state
         \/ /\ ev[e].state = "ABSENT" /\ ev'[e].state = "PENDING"
            /\ \E m \in Materializers : mat[m].e = e
         \/ /\ ev[e].state \in {"PENDING", "RETRY", "PROCESSING"} /\ ev'[e].state = "PROCESSING"
            /\ \E s \in Sessions : Claim(s)
         \/ \E s \in Sessions :
              /\ ses[s].e = e /\ Holds(s) /\ ses'[s].pc = "idle"
              /\ \/ ev'[e].state = "COMPLETED" /\ Ack(s)
                 \/ ev'[e].state \in {"RETRY", "DEAD_LETTER"} /\ FailWrite(s)
<1>1. CASE \E m \in Materializers : UpsertEvent(m)
  <2>1. PICK m \in Materializers : UpsertEvent(m)
    BY <1>1
  <2>2. NewEvent(QueueLength).state = "PENDING"
    BY DEF NewEvent, AbsentEvent
  <2> QED
    BY <2>1, <2>2 DEF UpsertEvent, TypeOK
<1>2. CASE \E s \in Sessions : Claim(s)
  <2>1. PICK s \in Sessions : Claim(s)
    BY <1>2
  <2> DEFINE t == CHOOSE t \in FreshTokens : TRUE
  <2>2. PICK f \in Events :
          OldestClaimable(f) /\ ev' = [ev EXCEPT ![f] = Claimed(f, WorkerOf[s], t)]
    BY <2>1 DEF Claim
  <2> HIDE DEF t
  <2>3. ev[f].state \in {"PENDING", "RETRY", "PROCESSING"}
    BY <2>2 DEF OldestClaimable, Claimable
  <2>4. ev[f] \in EventDoc
    BY DEF TypeOK
  <2>5. Claimed(f, WorkerOf[s], t).state = "PROCESSING"
    BY <2>4 DEF Claimed, EventDoc
  <2>6. ev'[f].state = "PROCESSING" /\ (e # f => ev'[e] = ev[e])
    BY <2>2, <2>5 DEF TypeOK
  <2> QED
    BY <2>1, <2>3, <2>6
<1>3. CASE \E s \in Sessions : Deliver(s) \/ Settle(s) \/ Fault(s)
  <2>1. PICK s \in Sessions : Deliver(s) \/ Settle(s) \/ Fault(s)
    BY <1>3
  <2>2. ses[s].pc # "idle" => ses[s].e \in Events
    BY DEF TypeOK, SessionRec
  <2>3. EndSession(s) => ses'[s].pc = "idle"
    BY DEF EndSession, TypeOK, IdleSession
  <2>4. CASE Ack(s)
    <3>1. Holds(s) /\ ses[s].e \in Events /\ ev[ses[s].e] \in EventDoc
      BY <2>2, <2>4 DEF Ack, LeaseAccepted, TypeOK
    <3>2. [Released(ses[s].e) EXCEPT !.state = "COMPLETED"].state = "COMPLETED"
      BY <3>1 DEF Released, EventDoc
    <3> QED
      BY <2>3, <2>4, <3>1, <3>2 DEF Ack, TypeOK
  <2>5. CASE FailWrite(s)
    <3>1. Holds(s) /\ ses[s].e \in Events /\ ev[ses[s].e] \in EventDoc
      BY <2>2, <2>5 DEF FailWrite, TypeOK
    <3>2. ev'[ses[s].e].state \in {"RETRY", "DEAD_LETTER"} /\ (e # ses[s].e => ev'[e] = ev[e])
      <4> DEFINE st == IF ev[ses[s].e].attempts >= MaxAttempts THEN "DEAD_LETTER" ELSE "RETRY"
                 d == [Released(ses[s].e) EXCEPT !.state = st, !.delay = Backoff(ev[ses[s].e].attempts)]
      <4>1. st \in {"RETRY", "DEAD_LETTER"}
        OBVIOUS
      <4>2. ev' = [ev EXCEPT ![ses[s].e] = d]
        BY <2>5 DEF FailWrite
      <4> HIDE DEF st
      <4>3. d.state = st
        BY <3>1 DEF Released, EventDoc
      <4> HIDE DEF d
      <4> QED
        BY <3>1, <4>1, <4>2, <4>3 DEF TypeOK
    <3> QED
      BY <2>3, <2>5, <3>1, <3>2 DEF FailWrite
  <2>6. CASE ~(Ack(s) \/ FailWrite(s))
    BY <2>1, <2>6 DEF Deliver, Settle, Fault, Crash, DatabaseError, CheckLease, ReadAction, MarkAction, SendOk, SendRefused,
       SendFailed, FinishAction, DeferAction, RetryAction, LeaseLost, FailRead
  <2> QED
    BY <2>4, <2>5, <2>6
<1>4. CASE Tick
  BY <1>4 DEF Tick, TypeOK, EventDoc
<1>5. CASE \/ \E f \in Events : AppendHistory(f)
           \/ \E m \in Materializers, f \in Events : Transition(m, f) \/ Backfill(m, f)
           \/ \E m \in Materializers : UpsertAction(m) \/ AbandonMaterialize(m)
           \/ UNCHANGED vars
  BY <1>5 DEF AppendHistory, Transition, Backfill, UpsertAction, AbandonMaterialize, vars
<1> QED
  BY <1>1, <1>2, <1>3, <1>4, <1>5, NextCases

\* The queue never refers to a row that is not in the ledger.
LEMMA NextHistory == TypeOK /\ OnlyHistory /\ [Next]_vars => OnlyHistory'
<1> SUFFICES ASSUME TypeOK, OnlyHistory, [Next]_vars PROVE OnlyHistory'
  OBVIOUS
<1>1. history \subseteq history'
  <2>1. CASE \E s \in Sessions : Deliver(s) \/ Settle(s) \/ Fault(s)
    BY <2>1 DEF Deliver, Settle, Fault, Crash, DatabaseError, CheckLease, ReadAction, MarkAction, SendOk, SendRefused,
       SendFailed, FinishAction, DeferAction, RetryAction, Ack, LeaseLost, FailRead, FailWrite
  <2>2. CASE ~(\E s \in Sessions : Deliver(s) \/ Settle(s) \/ Fault(s))
    BY <2>2, NextCases DEF AppendHistory, Transition, Backfill, UpsertEvent, UpsertAction,
       AbandonMaterialize, Claim, Tick, vars
  <2> QED
    BY <2>1, <2>2
<1>2. \A e \in Events : ev[e].state # "ABSENT" => ev'[e].state # "ABSENT"
  BY StateStep
<1>3. \A e \in Events : ev'[e].state # "ABSENT" => e \in history
  <2> TAKE e \in Events
  <2>1. CASE ev[e].state # "ABSENT"
    BY <2>1 DEF OnlyHistory
  <2>2. CASE ev[e].state = "ABSENT"
    <3>1. ev'[e].state # "ABSENT" => \E m \in Materializers : mat[m].e = e
      BY <2>2, StateStep DEF Holds
    <3>2. QueueAssumption
      BY QueueAssumption
    <3>3. e # NoEvent
      BY <3>2 DEF QueueAssumption
    <3> QED
      BY <3>1, <3>3 DEF OnlyHistory
  <2> QED
    BY <2>1, <2>2
<1>4. \A m \in Materializers : mat'[m].e # NoEvent => mat'[m].e \in history'
  <2>1. CASE \E m \in Materializers, e \in Events : Transition(m, e) \/ Backfill(m, e)
    <3>1. PICK m \in Materializers, e \in Events : Transition(m, e) \/ Backfill(m, e)
      BY <2>1
    <3>2. mat'[m].e = e /\ e \in history' /\ \A n \in Materializers : n # m => mat'[n] = mat[n]
      BY <3>1 DEF Transition, Backfill, TypeOK
    <3> QED
      BY <1>1, <3>2 DEF OnlyHistory
  <2>2. CASE \E m \in Materializers : UpsertEvent(m)
    BY <1>1, <2>2 DEF UpsertEvent, OnlyHistory, TypeOK
  <2>3. CASE \E m \in Materializers : UpsertAction(m)
    <3>1. PICK m \in Materializers : UpsertAction(m)
      BY <2>3
    <3>2. mat'[m].e = mat[m].e \/ mat'[m].e = NoEvent
      BY <3>1 DEF UpsertAction, TypeOK, IdleMaterializer
    <3>3. \A n \in Materializers : n # m => mat'[n] = mat[n]
      BY <3>1 DEF UpsertAction, TypeOK
    <3> QED
      BY <1>1, <3>2, <3>3 DEF OnlyHistory
  <2>4. CASE \E m \in Materializers : AbandonMaterialize(m)
    BY <1>1, <2>4 DEF AbandonMaterialize, OnlyHistory, TypeOK, IdleMaterializer
  <2>5. CASE \E s \in Sessions : Deliver(s) \/ Settle(s) \/ Fault(s)
    <3>1. UNCHANGED mat
      BY <2>5 DEF Deliver, Settle, Fault, Crash, DatabaseError, CheckLease, ReadAction, MarkAction, SendOk, SendRefused,
         SendFailed, FinishAction, DeferAction, RetryAction, Ack, LeaseLost, FailRead, FailWrite
    <3> QED
      BY <1>1, <3>1 DEF OnlyHistory
  <2>6. CASE \/ \E e \in Events : AppendHistory(e)
             \/ \E s \in Sessions : Claim(s)
             \/ Tick
             \/ UNCHANGED vars
    <3>1. UNCHANGED mat
      BY <2>6 DEF AppendHistory, Claim, Tick, vars
    <3> QED
      BY <1>1, <3>1 DEF OnlyHistory
  <2> QED
    BY <2>1, <2>2, <2>3, <2>4, <2>5, <2>6, NextCases
<1>5. \A s \in Sessions : ses'[s].pc # "idle" => ev'[ses'[s].e].state # "ABSENT"
  <2> SUFFICES ASSUME NEW x \in Sessions, ses'[x].pc # "idle"
               PROVE  ev'[ses'[x].e].state # "ABSENT"
    OBVIOUS
  <2>1. ASSUME ses[x].pc # "idle", ses'[x].e = ses[x].e PROVE ev'[ses'[x].e].state # "ABSENT"
    <3>1. ses[x].e \in Events /\ ev[ses[x].e].state # "ABSENT"
      BY <2>1 DEF TypeOK, SessionRec, OnlyHistory
    <3> QED
      BY <1>2, <2>1, <3>1
  <2>2. CASE \A s \in Sessions : ~(Claim(s) \/ Deliver(s) \/ Settle(s) \/ Fault(s))
    BY <2>1, <2>2, QuietSteps
  <2>3. CASE \E s \in Sessions : Deliver(s) \/ Settle(s) \/ Fault(s)
    BY <2>1, <2>3, WorkStep DEF IdleSession
  <2>4. CASE \E s \in Sessions : Claim(s)
    <3>1. PICK s \in Sessions : Claim(s)
      BY <2>4
    <3> DEFINE t == CHOOSE t \in FreshTokens : TRUE
    <3>2. PICK e \in Events, plan \in Requests :
            /\ ev' = [ev EXCEPT ![e] = Claimed(e, WorkerOf[s], t)]
            /\ ses' = [ses EXCEPT ![s] = [IdleSession EXCEPT !.pc = "lease", !.e = e,
                                                             !.tok = t, !.plan = plan]]
      BY <3>1 DEF Claim
    <3> HIDE DEF t
    <3>3. CASE x = s
      <4>1. ses'[x].e = e
        BY <3>2, <3>3 DEF TypeOK, IdleSession
      <4>2. ev[e] \in EventDoc
        BY DEF TypeOK
      <4>3. ev'[e].state = "PROCESSING"
        BY <3>2, <4>2 DEF TypeOK, Claimed, EventDoc
      <4> QED
        BY <4>1, <4>3
    <3>4. CASE x # s
      BY <2>1, <3>2, <3>4 DEF TypeOK
    <3> QED
      BY <3>3, <3>4
  <2> QED
    BY <2>2, <2>3, <2>4
<1> QED
  BY <1>1, <1>3, <1>4, <1>5 DEF OnlyHistory

\* An acknowledged event has reached every deliverable channel of a request.
LEMMA NextDrop == TypeOK /\ WalkDone /\ NoSilentDrop /\ [Next]_vars => NoSilentDrop'
<1> SUFFICES ASSUME TypeOK, WalkDone, NoSilentDrop, [Next]_vars,
                    NEW e \in Events, ev'[e].state = "COMPLETED"
             PROVE  \E plan \in Requests :
                      \A i \in DOMAIN plan : plan[i] \in Deliverable => sends'[e][plan[i]] >= 1
  BY DEF NoSilentDrop, Deliverable
<1>1. PICK plan \in Requests : \A i \in DOMAIN plan : Reached(e, plan[i])
  <2>1. CASE ev[e].state = "COMPLETED"
    BY <2>1 DEF NoSilentDrop, Reached
  <2>2. CASE ev[e].state # "COMPLETED"
    <3>1. PICK s \in Sessions : ses[s].e = e /\ Ack(s)
      BY <2>2, StateStep
    <3>2. ses[s].plan \in Requests /\ \A j \in DOMAIN ses[s].plan : Reached(e, ses[s].plan[j])
      BY <3>1 DEF Ack, WalkDone, WalkOf
    <3> QED
      BY <3>2
  <2> QED
    BY <2>1, <2>2
<1>2. plan \in Seq(Channels)
  BY QueueAssumption
<1>3. \A i \in DOMAIN plan : plan[i] \in Channels
  BY <1>2, ElementOfSeq
<1>4. \A i \in DOMAIN plan : Reached(e, plan[i])'
  BY <1>1, <1>3, ReachedStays
<1>5. \A i \in DOMAIN plan : plan[i] \in Deliverable => sends'[e][plan[i]] >= 1
  BY <1>4 DEF Reached, Deliverable
<1> QED
  BY <1>5

\* The inductive invariant holds initially.
LEMMA InitInv == Init => QueueInv
<1> SUFFICES ASSUME Init PROVE QueueInv
  OBVIOUS
<1>1. TypeOK
  BY InitType
<1>2. \A s \in Sessions : ses[s].pc = "idle"
  BY DEF Init, IdleSession
<1>3. TokensDistinct /\ WalkDone
  BY <1>2 DEF TokensDistinct, WalkDone, WalkOf
<1>4. SettledRows
  BY DEF Init, SettledRows, Settled
<1>5. \A e \in Events : ev[e].state \in {"ABSENT", "PENDING"} /\ (ev[e].state # "ABSENT" => e \in history)
  BY DEF Init, NewEvent, AbsentEvent
<1>6. OnlyHistory
  BY <1>2, <1>5 DEF OnlyHistory, Init, IdleMaterializer
<1>7. NoSilentDrop
  BY <1>5 DEF NoSilentDrop
<1> QED
  BY <1>1, <1>3, <1>4, <1>6, <1>7 DEF QueueInv

\* The inductive invariant is preserved by every step.
LEMMA NextInv == QueueInv /\ [Next]_vars => QueueInv'
  BY NextType, NextTokens, NextWalk, NextRows, NextHistory, NextDrop DEF QueueInv

-----------------------------------------------------------------------------
(* The theorems.                                                           *)

\* In every reachable state of the queue the inductive invariant holds: the
\* documents are well-typed, tokens of running sessions are distinct, and a
\* session, a settled row and a completed event have seen to their channels
\* (order_automation.py:484-575, 355-428).
THEOREM Invariance == Spec => []QueueInv
<1>1. QueueInv /\ UNCHANGED vars => QueueInv'
  BY NextInv
<1> QED
  BY InitInv, NextInv, PTL DEF Spec

\* No acknowledged event has skipped a deliverable channel, for any number of
\* workers, retries, crashes, overruns and partial materializations.
THEOREM NothingDropped == Spec => []NoSilentDrop
<1>1. QueueInv => NoSilentDrop
  BY DEF QueueInv
<1> QED
  BY Invariance, <1>1, PTL

\* At any time at most one session can settle an event (the lease fence of
\* order_automation.py:376-379 and 407-409).
THEOREM Fencing == Spec => []OneHolder
<1>1. QueueInv => OneHolder
  <2> SUFFICES ASSUME QueueInv, NEW s1 \in Sessions, NEW s2 \in Sessions,
                      Holds(s1), Holds(s2), ses[s1].e = ses[s2].e
               PROVE  s1 = s2
    BY DEF OneHolder
  <2>1. ses[s1].pc # "idle"
    BY DEF Holds, QueueInv, TypeOK
  <2>2. ses[s1].tok = ses[s2].tok
    BY DEF Holds
  <2> QED
    BY <2>1, <2>2 DEF QueueInv, TokensDistinct
<1> QED
  BY Invariance, <1>1, PTL

\* Completed and dead-lettered events are final.
THEOREM Finality == Spec => TerminalIsFinal
<1>1. QueueInv /\ [Next]_vars =>
        \A e \in Events : ev[e].state \in Terminal => ev'[e].state = ev[e].state
  <2> SUFFICES ASSUME QueueInv, [Next]_vars, NEW e \in Events, ev[e].state \in Terminal
               PROVE  ev'[e].state = ev[e].state
    OBVIOUS
  <2> QED
    BY StateStep DEF QueueInv, Terminal, Holds
<1> QED
  BY Invariance, <1>1, PTL DEF Spec, TerminalIsFinal

\* Only the session of the latest claim takes an event out of PROCESSING.
THEOREM LatestClaimSettles == Spec => SettledByLatestClaim
<1> DEFINE A == \A e \in Events :
       ev[e].state = "PROCESSING" /\ ev'[e].state # "PROCESSING" =>
         \E s \in Sessions : /\ ses[s].e = e
                             /\ ses[s].tok = ev[e].token
                             /\ ses'[s].pc = "idle"
<1>1. QueueInv /\ [Next]_vars => A
  <2> SUFFICES ASSUME QueueInv, [Next]_vars, NEW e \in Events,
                      ev[e].state = "PROCESSING", ev'[e].state # "PROCESSING"
               PROVE  \E s \in Sessions : /\ ses[s].e = e
                                          /\ ses[s].tok = ev[e].token
                                          /\ ses'[s].pc = "idle"
    OBVIOUS
  <2> QED
    BY StateStep DEF QueueInv, Holds
<1> QED
  BY Invariance, <1>1, PTL DEF Spec, SettledByLatestClaim


-----------------------------------------------------------------------------
(* Refinement of NotificationDelivery.                                     *)

\* Acceptance of one message adds its channel to what has gone out.
LEMMA AcceptedMaps ==
  ASSUME TypeOK, TypeOK', WalkDone, NEW s \in Sessions, ses[s].pc = "send", Accepted(s)
  PROVE  [e \in Events |-> SentOn(e)'] =
           [[e \in Events |-> SentOn(e)] EXCEPT ![ses[s].e] = @ \union {Chan(s)}]
<1>1. ses[s].e \in Events /\ Chan(s) \in Channels
  BY ChanType
<1>2. sends \in [Events -> [Channels -> 0..SendCap]] /\ SendCap \in Nat \ {0}
  BY QueueAssumption DEF TypeOK
<1>3. \A c \in Channels : sends'[ses[s].e][c] >= 1 <=> (sends[ses[s].e][c] >= 1 \/ c = Chan(s))
  BY <1>1, <1>2 DEF Accepted
<1>4. \A e \in Events : e # ses[s].e => sends'[e] = sends[e]
  BY <1>1, <1>2 DEF Accepted
<1>5. \A e \in Events : SentOn(e)' = IF e = ses[s].e THEN SentOn(e) \union {Chan(s)} ELSE SentOn(e)
  BY <1>1, <1>3, <1>4 DEF SentOn
<1> QED
  BY <1>1, <1>5

\* Every step of the queue is a step of the contract or invisible to it.
LEMMA StepMaps ==
  ASSUME QueueInv, QueueInv', [Next]_vars, WholeRequests
  PROVE  [Contract!Next]_(Contract!vars)
<1> USE DEF QueueInv
<1> DEFINE Same == [e \in Events |-> Outcome(e)'] = [e \in Events |-> Outcome(e)]
           Unsent == [e \in Events |-> SentOn(e)'] = [e \in Events |-> SentOn(e)]
<1>1. ASSUME UNCHANGED sends PROVE Unsent
  BY <1>1 DEF SentOn
<1>2. ASSUME \A e \in Events : ev'[e].state = ev[e].state PROVE Same
  BY <1>2 DEF Outcome
<1>3. ASSUME UNCHANGED ev PROVE Same
  BY <1>2, <1>3
<1>4. ASSUME UNCHANGED history, Unsent, Same PROVE [Contract!Next]_(Contract!vars)
  BY <1>4 DEF Contract!vars
<1>5. CASE \/ \E e \in Events : AppendHistory(e)
           \/ \E m \in Materializers, e \in Events : Transition(m, e)
  <2>1. PICK e \in Events : AppendHistory(e) \/ \E m \in Materializers : Transition(m, e)
    BY <1>5
  <2>2. Unsent /\ Same
    BY <1>1, <1>3, <2>1 DEF AppendHistory, Transition
  <2>3. Contract!Submit(e)
    BY <2>1, <2>2 DEF AppendHistory, Transition, Contract!Submit
  <2> QED
    BY <2>3 DEF Contract!Next
<1>6. CASE \/ \E m \in Materializers, e \in Events : Backfill(m, e)
           \/ \E m \in Materializers : UpsertAction(m) \/ AbandonMaterialize(m)
           \/ UNCHANGED vars
  <2>1. UNCHANGED <<history, ev, sends>>
    BY <1>6 DEF Backfill, UpsertAction, AbandonMaterialize, vars
  <2> QED
    BY <1>1, <1>3, <1>4, <2>1
<1>7. CASE (\E m \in Materializers : UpsertEvent(m)) \/ (\E s \in Sessions : Claim(s)) \/ Tick
  <2>1. UNCHANGED <<history, sends>>
    BY <1>7 DEF UpsertEvent, Claim, Tick
  <2>2. ~(\E s \in Sessions : Ack(s) \/ FailWrite(s))
    <3>1. UNCHANGED mat \/ UNCHANGED ses
      BY <1>7 DEF UpsertEvent, Claim, Tick
    <3>2. \A s \in Sessions : Ack(s) \/ FailWrite(s) => ses'[s] = IdleSession /\ ses[s].pc # "idle"
      BY DEF Ack, FailWrite, EndSession, TypeOK
    <3>3. CASE UNCHANGED ses
      BY <3>2, <3>3 DEF IdleSession
    <3>4. CASE \E s \in Sessions : Claim(s)
      <4>1. PICK s \in Sessions : Claim(s)
        BY <3>4
      <4> DEFINE t == CHOOSE t \in FreshTokens : TRUE
      <4>2. PICK e \in Events, plan \in Requests :
              ses' = [ses EXCEPT ![s] = [IdleSession EXCEPT !.pc = "lease", !.e = e,
                                                            !.tok = t, !.plan = plan]]
        BY <4>1 DEF Claim
      <4> HIDE DEF t
      <4>3. ses[s].pc = "idle" /\ \A x \in Sessions : x # s => ses'[x] = ses[x]
        BY <4>1, <4>2 DEF Claim, TypeOK
      <4> QED
        BY <3>2, <4>3 DEF IdleSession
    <3> QED
      BY <1>7, <3>3, <3>4 DEF UpsertEvent, Tick
  <2>3. \A e \in Events :
          \/ ev'[e].state = ev[e].state
          \/ ev[e].state = "ABSENT" /\ ev'[e].state = "PENDING"
          \/ ev[e].state \in {"PENDING", "RETRY", "PROCESSING"} /\ ev'[e].state = "PROCESSING"
    BY <2>2, StateStep
  <2>4. Same
    BY <2>3 DEF Outcome
  <2> QED
    BY <1>1, <1>4, <2>1, <2>4
<1>8. CASE \E s \in Sessions : Deliver(s) \/ Settle(s) \/ Fault(s)
  <2>1. PICK s \in Sessions : Deliver(s) \/ Settle(s) \/ Fault(s)
    BY <1>8
  <2>2. UNCHANGED history /\ ses[s].pc # "idle" /\ ses[s].e \in Events /\ ses[s].e \in history
    <3>1. ses[s].pc # "idle" /\ ses[s].e \in Events /\ ses[s].e \in history
      BY <2>1, WorkStep DEF TypeOK, SessionRec, OnlyHistory
    <3> QED
      BY <2>1, <3>1 DEF Deliver, Settle, Fault, Crash, DatabaseError, CheckLease, ReadAction, MarkAction, SendOk, SendRefused,
         SendFailed, FinishAction, DeferAction, RetryAction, Ack, LeaseLost, FailRead, FailWrite
  <2>3. CASE (SendOk(s) \/ SendFailed(s)) /\ Accepted(s)
    <3>1. ses[s].pc = "send" /\ Same
      BY <1>3, <2>3 DEF SendOk, SendFailed
    <3>2. Chan(s) \in Channels
      BY <3>1, ChanType
    <3>3. Contract!Notify(ses[s].e, Chan(s))
      BY <2>2, <2>3, <3>1, AcceptedMaps DEF Contract!Notify
    <3> QED
      BY <2>2, <3>2, <3>3 DEF Contract!Next
  <2>4. CASE Ack(s) \/ FailWrite(s)
    <3>1. Unsent /\ Holds(s)
      BY <1>1, <2>4 DEF Ack, FailWrite, LeaseAccepted
    <3>2. ev[ses[s].e].state = "PROCESSING" /\ Outcome(ses[s].e) = "OPEN"
      BY <3>1 DEF Holds, Outcome
    <3>3. \A e \in Events : e # ses[s].e => Outcome(e)' = Outcome(e)
      BY <2>2, <2>4 DEF Ack, FailWrite, TypeOK, Outcome
    <3>4. ev[ses[s].e] \in EventDoc
      BY <2>2 DEF TypeOK
    <3>5. CASE Ack(s)
      <4>1. [Released(ses[s].e) EXCEPT !.state = "COMPLETED"].state = "COMPLETED"
        BY <3>4 DEF Released, EventDoc
      <4>2. \A e \in Events : e = ses[s].e => Outcome(e)' = "DONE"
        <5>1. ev'[ses[s].e].state = "COMPLETED"
          BY <2>2, <3>5, <4>1 DEF Ack, TypeOK
        <5> QED
          BY <5>1 DEF Outcome
      <4>3. [e \in Events |-> Outcome(e)'] =
              [[e \in Events |-> Outcome(e)] EXCEPT ![ses[s].e] = "DONE"]
        BY <2>2, <3>3, <4>2
      <4>4. \A c \in Deliverable : sends[ses[s].e][c] >= 1 /\ c \in Channels
        <5>1. ses[s].plan \in Requests /\ ses[s].plan \in Seq(Channels)
              /\ \A j \in DOMAIN ses[s].plan : Reached(ses[s].e, ses[s].plan[j])
          BY <3>5, QueueAssumption DEF Ack, WalkDone, WalkOf
        <5>2. \A j \in DOMAIN ses[s].plan : ses[s].plan[j] \in Channels
          BY <5>1, ElementOfSeq
        <5> QED
          BY <5>1, <5>2 DEF WholeRequests, Reached
      <4>5. Deliverable \subseteq SentOn(ses[s].e)
        BY <4>4 DEF SentOn
      <4>6. Contract!Finish(ses[s].e)
        BY <2>2, <3>1, <3>2, <4>3, <4>5 DEF Contract!Finish
      <4> QED
        BY <2>2, <4>6 DEF Contract!Next
    <3>6. CASE FailWrite(s)
      <4> DEFINE st == IF ev[ses[s].e].attempts >= MaxAttempts THEN "DEAD_LETTER" ELSE "RETRY"
                 d == [Released(ses[s].e) EXCEPT !.state = st, !.delay = Backoff(ev[ses[s].e].attempts)]
      <4>1. ev' = [ev EXCEPT ![ses[s].e] = d] /\ st \in {"DEAD_LETTER", "RETRY"}
        BY <3>6 DEF FailWrite
      <4> HIDE DEF st
      <4>2. d.state = st
        BY <3>4 DEF Released, EventDoc
      <4> HIDE DEF d
      <4>3. ev'[ses[s].e].state = st
        BY <2>2, <4>1, <4>2 DEF TypeOK
      <4>4. CASE st = "RETRY"
        <5>1. \A e \in Events : Outcome(e)' = Outcome(e)
          BY <3>2, <3>3, <4>3, <4>4 DEF Outcome
        <5> QED
          BY <1>4, <2>2, <3>1, <5>1
      <4>5. CASE st = "DEAD_LETTER"
        <5>1. \A e \in Events : e = ses[s].e => Outcome(e)' = "DEAD"
          BY <4>3, <4>5 DEF Outcome
        <5>2. [e \in Events |-> Outcome(e)'] =
                [[e \in Events |-> Outcome(e)] EXCEPT ![ses[s].e] = "DEAD"]
          BY <2>2, <3>3, <5>1
        <5>3. Contract!GiveUp(ses[s].e)
          BY <2>2, <3>1, <3>2, <5>2 DEF Contract!GiveUp
        <5> QED
          BY <2>2, <5>3 DEF Contract!Next
      <4> QED
        BY <4>1, <4>4, <4>5
    <3> QED
      BY <2>4, <3>5, <3>6
  <2>5. CASE ~(Ack(s) \/ FailWrite(s)) /\ ~((SendOk(s) \/ SendFailed(s)) /\ Accepted(s))
    <3>1. UNCHANGED <<ev, sends>>
      BY <2>1, <2>5 DEF Deliver, Settle, Fault, Crash, DatabaseError, CheckLease, ReadAction, MarkAction, SendOk, SendRefused,
         SendFailed, FinishAction, DeferAction, RetryAction, LeaseLost, FailRead
    <3> QED
      BY <1>1, <1>3, <1>4, <2>2, <3>1
  <2> QED
    BY <2>3, <2>4, <2>5
<1> QED
  BY <1>5, <1>6, <1>7, <1>8, NextCases

\* The durable queue implements its at-least-once contract whenever a request
\* covers every deliverable channel.
THEOREM Refinement == ASSUME WholeRequests PROVE Spec => ImplementsContract
<1>1. Init => Contract!Init
  <2> SUFFICES ASSUME Init PROVE Contract!Init
    OBVIOUS
  <2>1. \A e \in Events : ev[e].state \in {"ABSENT", "PENDING"}
    BY DEF Init, NewEvent, AbsentEvent
  <2>2. \A e \in Events : SentOn(e) = {} /\ Outcome(e) = "OPEN"
    BY <2>1 DEF Init, SentOn, Outcome
  <2> QED
    BY <2>2, QueueAssumption DEF Contract!Init, Init
<1>2. QueueInv /\ QueueInv' /\ [Next]_vars => [Contract!Next]_(Contract!vars)
  BY StepMaps
<1> QED
  BY Invariance, <1>1, <1>2, PTL DEF Spec, ImplementsContract, Contract!Spec

-----------------------------------------------------------------------------
(* The action rows.                                                        *)

\* What a session has found out about its channel stays true of its next state.
LEMMA NextTold == TypeOK /\ WalkDone /\ SettledRows /\ RowsInv /\ [Next]_vars => \A s \in Sessions : ToldBy(s)'
<1> SUFFICES ASSUME TypeOK, WalkDone, SettledRows, RowsInv, [Next]_vars, NEW x \in Sessions PROVE ToldBy(x)'
  OBVIOUS
<1>1. ASSUME ses'[x].pc \notin {"mark", "send", "defer", "finish"} PROVE ToldBy(x)'
  BY <1>1 DEF ToldBy
<1>2. ASSUME ses'[x] = ses[x] PROVE ToldBy(x)'
  <2>1. Chan(x)' = Chan(x) /\ ToldBy(x)
    BY <1>2 DEF Chan, RowsInv
  <2>2. CASE ses[x].pc = "finish"
    <3>1. Chan(x) \in Channels /\ ses[x].e \in Events
      BY <2>2, ChanType
    <3>2. sends'[ses[x].e][Chan(x)] >= sends[ses[x].e][Chan(x)]
      BY <3>1, SendsGrow
    <3>3. sends[ses[x].e][Chan(x)] \in Nat /\ sends'[ses[x].e][Chan(x)] \in Nat
      BY <3>1, NextType, QueueAssumption DEF TypeOK
    <3> QED
      BY <1>2, <2>1, <2>2, <3>2, <3>3 DEF ToldBy
  <2> QED
    BY <1>2, <2>1, <2>2 DEF ToldBy
<1>3. CASE \A s \in Sessions : ~(Claim(s) \/ Deliver(s) \/ Settle(s) \/ Fault(s))
  BY <1>2, <1>3, QuietSteps
<1>4. CASE \E s \in Sessions : Claim(s)
  <2>1. PICK s \in Sessions : Claim(s)
    BY <1>4
  <2> DEFINE t == CHOOSE t \in FreshTokens : TRUE
  <2>2. PICK e \in Events, plan \in Requests :
          ses' = [ses EXCEPT ![s] = [IdleSession EXCEPT !.pc = "lease", !.e = e,
                                                        !.tok = t, !.plan = plan]]
    BY <2>1 DEF Claim
  <2> HIDE DEF t
  <2>3. x # s => ses'[x] = ses[x]
    BY <2>2 DEF TypeOK
  <2>4. x = s => ses'[x].pc = "lease"
    BY <2>2 DEF TypeOK, IdleSession
  <2> QED
    BY <1>1, <1>2, <2>3, <2>4
<1>5. CASE \E s \in Sessions : Deliver(s) \/ Settle(s) \/ Fault(s)
  <2>1. PICK s \in Sessions : Deliver(s) \/ Settle(s) \/ Fault(s)
    BY <1>5
  <2>2. CASE x # s
    BY <1>2, <2>1, <2>2, WorkStep
  <2>3. CASE x = s
    <3>1. ToldBy(x)
      BY DEF RowsInv
    <3>2. ASSUME ses' = [ses EXCEPT ![s] = Goto(s, ses'[x].pc)], ses'[x].pc \in SessionPCs
          PROVE  ses'[x].i = ses[x].i /\ ses'[x].plan = ses[x].plan /\ ses'[x].e = ses[x].e
                 /\ Chan(x)' = Chan(x)
      BY <2>3, <3>2, GotoType DEF TypeOK, Chan
    <3>3. ASSUME NEW fin \in {"COMPLETED", "DISABLED", "PERMANENT_FAILURE"},
                 ses' = [ses EXCEPT ![s] = ToFinish(s, fin)]
          PROVE  /\ ses'[x].pc = "finish" /\ ses'[x].fin = fin /\ ses'[x].e = ses[x].e
                 /\ Chan(x)' = Chan(x)
      BY <2>3, <3>3, FinishType DEF TypeOK, Chan
    <3>4. CASE CheckLease(s)
      <4>1. LeaseLive(s) => ses'[x].pc = "read"
        BY <2>3, <3>4 DEF CheckLease, TypeOK, SessionRec
      <4>2. ~LeaseLive(s) => ses'[x].pc = "failRead"
        BY <2>3, <3>4, SessionMoves DEF CheckLease, TypeOK
      <4> QED
        BY <1>1, <4>1, <4>2
    <3>5. CASE ReadAction(s)
      <4>1. CASE ses' = [ses EXCEPT ![s] = Advanced(s)]
        BY <1>1, <2>3, <4>1, SessionMoves DEF TypeOK
      <4>2. CASE ses' = [ses EXCEPT ![s] = ToFinish(s, "DISABLED")]
        BY <3>3, <4>2 DEF ToldBy
      <4>3. CASE ses' = [ses EXCEPT ![s] = Goto(s, "mark")] /\ Chan(s) \in Enabled
        <5>1. ses'[x].pc = "mark"
          BY <2>3, <4>3, GotoType DEF TypeOK, SessionPCs
        <5>2. Chan(x)' = Chan(x)
          BY <3>2, <4>3, <5>1 DEF SessionPCs
        <5> QED
          BY <2>3, <4>3, <5>1, <5>2 DEF ToldBy
      <4> QED
        BY <3>5, <4>1, <4>2, <4>3 DEF ReadAction
    <3>6. CASE MarkAction(s)
      <4>1. ses[x].pc = "mark" /\ Chan(x) \in Enabled
        BY <2>3, <3>1, <3>6 DEF MarkAction, ToldBy
      <4>2. CASE ses' = [ses EXCEPT ![s] = ToFinish(s, "COMPLETED")] /\ Chan(s) \in Skipped
        BY <2>3, <3>3, <4>2 DEF ToldBy
      <4>3. CASE ses' = [ses EXCEPT ![s] = Goto(s, "defer")]
        <5>1. ses'[x].pc = "defer"
          BY <2>3, <4>3, GotoType DEF TypeOK, SessionPCs
        <5>2. Chan(x)' = Chan(x)
          BY <3>2, <4>3, <5>1 DEF SessionPCs
        <5> QED
          BY <4>1, <5>1, <5>2 DEF ToldBy
      <4>4. CASE ses' = [ses EXCEPT ![s] = Goto(s, "send")] /\ Chan(s) \notin Skipped
        <5>1. ses'[x].pc = "send"
          BY <2>3, <4>4, GotoType DEF TypeOK, SessionPCs
        <5>2. Chan(x)' = Chan(x)
          BY <3>2, <4>4, <5>1 DEF SessionPCs
        <5> QED
          BY <2>3, <4>1, <4>4, <5>1, <5>2 DEF ToldBy
      <4> QED
        BY <3>6, <4>2, <4>3, <4>4 DEF MarkAction
    <3>7. CASE SendOk(s)
      <4>1. Chan(x) \in Channels /\ ses[x].e \in Events
        BY <2>3, <3>7, ChanType DEF SendOk
      <4>2. sends'[ses[x].e][Chan(x)] >= 1
        BY <2>3, <3>7, <4>1, QueueAssumption DEF SendOk, Accepted, TypeOK
      <4>3. /\ ses'[x].pc = "finish" /\ ses'[x].e = ses[x].e /\ Chan(x)' = Chan(x)
        BY <3>3, <3>7 DEF SendOk
      <4> QED
        BY <4>2, <4>3 DEF ToldBy
    <3>8. CASE SendRefused(s)
      BY <3>3, <3>8 DEF SendRefused, ToldBy
    <3>9. CASE SendFailed(s)
      <4>1. ses'[x].pc = "retry"
        BY <2>3, <3>9, GotoType DEF SendFailed, TypeOK, SessionPCs
      <4> QED
        BY <1>1, <4>1
    <3>10. CASE FinishAction(s)
      BY <1>1, <2>3, <3>10, SessionMoves DEF FinishAction, TypeOK
    <3>11. CASE DeferAction(s) \/ RetryAction(s)
      <4>1. ses'[x].pc = "failRead"
        BY <2>3, <3>11, SessionMoves DEF DeferAction, RetryAction, TypeOK
      <4> QED
        BY <1>1, <4>1
    <3>12. CASE FailRead(s)
      <4>1. ses'[x].pc = "failWrite"
        BY <2>3, <3>12, GotoType DEF FailRead, TypeOK, SessionPCs
      <4> QED
        BY <1>1, <4>1
    <3>13. CASE Ack(s) \/ LeaseLost(s) \/ FailWrite(s) \/ Crash(s)
      <4>1. ses'[x].pc = "idle"
        BY <2>3, <3>13 DEF Ack, LeaseLost, FailWrite, Crash, EndSession, TypeOK, IdleSession
      <4> QED
        BY <1>1, <4>1
    <3>14. CASE DatabaseError(s)
      <4>1. CASE ses' = [ses EXCEPT ![s] = Raised(s)]
        <5>1. ses'[x].pc = "failRead"
          BY <2>3, <4>1, SessionMoves DEF TypeOK
        <5> QED
          BY <1>1, <5>1
      <4>2. CASE ses' = [ses EXCEPT ![s] = Goto(s, "retry")]
        <5>1. ses'[x].pc = "retry"
          BY <2>3, <4>2, GotoType DEF TypeOK, SessionPCs
        <5> QED
          BY <1>1, <5>1
      <4> QED
        BY <3>14, <4>1, <4>2 DEF DatabaseError
    <3> QED
      BY <2>1, <3>4, <3>5, <3>6, <3>7, <3>8, <3>9, <3>10, <3>11, <3>12, <3>13, <3>14
         DEF Deliver, Settle, Fault
  <2> QED
    BY <2>2, <2>3
<1> QED
  BY <1>3, <1>4, <1>5

\* A provider is reached only by a session that has found the channel deliverable.
LEMMA NextSent ==
  ASSUME TypeOK, WalkDone, SettledRows, RowsInv, [Next]_vars, NEW e \in Events, NEW c \in Channels
  PROVE  sends'[e][c] >= 1 => c \in Deliverable
<1>1. sends[e][c] >= 1 => c \in Deliverable
  BY DEF RowsInv, RowsTellTheTruth
<1>2. ASSUME NEW s \in Sessions, ses[s].pc = "send", Chan(s) \notin Misconfigured, Accepted(s)
      PROVE  sends'[e][c] >= 1 => c \in Deliverable
  <2>1. Chan(s) \in Channels /\ Chan(s) \in Deliverable
    BY <1>2, ChanType DEF RowsInv, ToldBy, Deliverable
  <2>2. ~(e = ses[s].e /\ c = Chan(s)) => sends'[e][c] = sends[e][c]
    BY <1>2 DEF Accepted, TypeOK
  <2> QED
    BY <1>1, <2>1, <2>2
<1>3. CASE \E s \in Sessions : SendOk(s) \/ SendFailed(s)
  BY <1>1, <1>2, <1>3 DEF SendOk, SendFailed
<1>4. CASE ~\E s \in Sessions : SendOk(s) \/ SendFailed(s)
  <2>1. UNCHANGED sends
    BY <1>4, NextCases DEF Deliver, Settle, Fault, Crash, DatabaseError, CheckLease, ReadAction, MarkAction,
       SendRefused, FinishAction, DeferAction, RetryAction, Ack, LeaseLost, FailRead, FailWrite, Claim,
       AppendHistory, Transition, Backfill, UpsertEvent, UpsertAction, AbandonMaterialize, Tick, vars
  <2> QED
    BY <1>1, <2>1
<1> QED
  BY <1>3, <1>4

\* A row is written COMPLETED only by a session that knows why.
LEMMA NextTruth ==
  TypeOK /\ WalkDone /\ SettledRows /\ RowsInv /\ [Next]_vars => RowsTellTheTruth'
<1> SUFFICES ASSUME TypeOK, WalkDone, SettledRows, RowsInv, [Next]_vars,
                    NEW e \in Events, NEW c \in Channels
             PROVE  row'[e][c] = "COMPLETED" => sends'[e][c] >= 1 \/ c \in Skipped
  BY NextSent DEF RowsTellTheTruth, Deliverable
<1> DEFINE Told == row'[e][c] = "COMPLETED" => sends'[e][c] >= 1 \/ c \in Skipped
<1>1. sends[e][c] \in Nat /\ sends'[e][c] \in Nat /\ sends'[e][c] >= sends[e][c]
  BY SendsGrow, NextType, QueueAssumption DEF TypeOK
<1>2. ASSUME row'[e][c] = row[e][c] \/ row'[e][c] # "COMPLETED" PROVE Told
  BY <1>1, <1>2 DEF RowsInv, RowsTellTheTruth
<1>3. ASSUME NEW f \in Events, NEW d \in Channels, NEW v \in RowStates,
             row' = RowSet(f, d, v),
             v = "COMPLETED" => sends[f][d] >= 1 \/ d \in Skipped
      PROVE  Told
  <2>1. CASE f = e /\ d = c
    <3>1. row'[e][c] = row[e][c] \/ row'[e][c] = v
      BY <1>3, <2>1 DEF RowSet, TypeOK
    <3> QED
      BY <1>1, <1>2, <1>3, <2>1, <3>1
  <2>2. CASE ~(f = e /\ d = c)
    BY <1>2, <1>3, <2>2 DEF RowSet, TypeOK
  <2> QED
    BY <2>1, <2>2
<1>4. CASE \E m \in Materializers : UpsertAction(m)
  <2>1. PICK m \in Materializers : UpsertAction(m)
    BY <1>4
  <2>2. row'[e][c] = row[e][c] \/ row'[e][c] = "PENDING"
    BY <2>1 DEF UpsertAction, TypeOK
  <2> QED
    BY <1>2, <2>2
<1>5. CASE \E s \in Sessions : Deliver(s) \/ Settle(s) \/ Fault(s)
  <2>1. PICK s \in Sessions : Deliver(s) \/ Settle(s) \/ Fault(s)
    BY <1>5
  <2>2. CASE MarkAction(s)
    BY <1>3, <2>2, ChanType DEF MarkAction, RowStates
  <2>3. CASE DeferAction(s)
    BY <1>3, <2>3, ChanType DEF DeferAction, RowStates
  <2>4. CASE RetryAction(s)
    BY <1>3, <2>4, ChanType DEF RetryAction, RowStates
  <2>5. CASE FinishAction(s)
    <3>1. /\ row' = RowSet(ses[s].e, Chan(s), ses[s].fin)
          /\ ses[s].fin = "COMPLETED" => sends[ses[s].e][Chan(s)] >= 1 \/ Chan(s) \in Skipped
      BY <2>5 DEF FinishAction, RowsInv, ToldBy
    <3>2. ses[s].fin \in RowStates
      BY DEF TypeOK, SessionRec, RowStates
    <3> QED
      BY <1>3, <2>5, <3>1, <3>2, ChanType DEF FinishAction
  <2>6. CASE ~(MarkAction(s) \/ DeferAction(s) \/ RetryAction(s) \/ FinishAction(s))
    <3>1. UNCHANGED row
      BY <2>1, <2>6 DEF Deliver, Settle, Fault, Crash, DatabaseError, CheckLease, ReadAction, SendOk, SendRefused,
         SendFailed, Ack, LeaseLost, FailRead, FailWrite
    <3> QED
      BY <1>2, <3>1
  <2> QED
    BY <2>2, <2>3, <2>4, <2>5, <2>6
<1>6. CASE \/ \E f \in Events : AppendHistory(f)
           \/ \E m \in Materializers, f \in Events : Transition(m, f) \/ Backfill(m, f)
           \/ \E m \in Materializers : UpsertEvent(m) \/ AbandonMaterialize(m)
           \/ \E s \in Sessions : Claim(s)
           \/ Tick
           \/ UNCHANGED vars
  <2>1. UNCHANGED row
    BY <1>6 DEF AppendHistory, Transition, Backfill, UpsertEvent, AbandonMaterialize, Claim, Tick, vars
  <2> QED
    BY <1>2, <2>1
<1> QED
  BY <1>4, <1>5, <1>6, NextCases

\* A COMPLETED action row always means that the message went out or that the
\* customer had opted out, and nothing goes out on a channel that is switched
\* off, skipped or misconfigured.
THEOREM RowsTrue == Spec => []RowsTellTheTruth
<1>1. Init => RowsInv
  <2> SUFFICES ASSUME Init PROVE RowsInv
    OBVIOUS
  <2>1. \A e \in Events, c \in Channels : row[e][c] # "COMPLETED" /\ sends[e][c] = 0
    BY DEF Init
  <2>2. \A s \in Sessions : ses[s].pc = "idle"
    BY DEF Init, IdleSession
  <2> QED
    BY <2>1, <2>2 DEF RowsInv, RowsTellTheTruth, ToldBy
<1>2. QueueInv /\ RowsInv /\ [Next]_vars => RowsInv'
  BY NextTold, NextTruth DEF QueueInv, RowsInv
<1>3. RowsInv => RowsTellTheTruth
  BY DEF RowsInv
<1> QED
  BY <1>1, <1>2, <1>3, Invariance, PTL DEF Spec

-----------------------------------------------------------------------------
(* One message per customer and channel, as long as nothing goes wrong: no *)
(* process outlives its lease or dies, no database call or ambiguous send  *)
(* fails, and the action rows are there before the event is claimed.       *)

Undisturbed ==
  /\ Faults \intersect {"overrun", "crash", "database", "ambiguous"} = {}
  /\ Premade = Events

\* A session is past its look at the action row of its current channel.
Engaged(s) == ses[s].pc \in {"mark", "send", "finish", "defer", "retry"}

\* No two sessions work on one event, for every one of them holds a live lease.
AllLive == \A s \in Sessions : ses[s].pc # "idle" => LeaseLive(s)

RowsExist == \A e \in Events, c \in Channels : row[e][c] # "NONE"

\* The channel an engaged session is at is still open.
EngagedOpen ==
  \A s \in Sessions :
    /\ Engaged(s) => row[ses[s].e][Chan(s)] \notin Settled
    /\ ses[s].pc = "finish" => ses[s].fin \in Settled

\* The success on a channel is recorded, or its sender is about to record it.
Paid(e, c) ==
  \/ row[e][c] = "COMPLETED"
  \/ \E s \in Sessions : /\ ses[s].pc = "finish" /\ ses[s].fin = "COMPLETED"
                         /\ ses[s].e = e /\ Chan(s) = c

SentIsPaid == \A e \in Events, c \in Channels : sends[e][c] >= 1 => Paid(e, c)

OnceInv == RowsExist /\ AllLive /\ EngagedOpen /\ SentIsPaid /\ SentAtMostOnce

\* While every session holds a live lease, an event has one session at work.
LEMMA OnlySession ==
  ASSUME TokensDistinct, AllLive, NEW a \in Sessions, NEW b \in Sessions,
         ses[a].pc # "idle", ses[b].pc # "idle", ses[a].e = ses[b].e
  PROVE  a = b
<1>1. Holds(a) /\ Holds(b)
  BY DEF AllLive, LeaseLive
<1>2. ses[a].tok = ses[b].tok
  BY <1>1 DEF Holds
<1> QED
  BY <1>2 DEF TokensDistinct

\* Who writes an action row, and what.
LEMMA RowStep ==
  ASSUME TypeOK, WalkDone, [Next]_vars, NEW e \in Events, NEW c \in Channels
  PROVE  \/ row'[e][c] = row[e][c]
         \/ row[e][c] = "NONE" /\ row'[e][c] = "PENDING"
         \/ \E s \in Sessions :
              /\ ses[s].pc # "idle" /\ Engaged(s) /\ ses[s].e = e /\ Chan(s) = c
              /\ \/ row'[e][c] \in {"PROCESSING", "QUIET", "RETRY"}
                 \/ FinishAction(s) /\ row'[e][c] = ses[s].fin
<1>1. ASSUME NEW f \in Events, NEW d \in Channels, NEW v \in RowStates, row' = RowSet(f, d, v)
      PROVE  row'[e][c] = row[e][c] \/ (e = f /\ c = d /\ row'[e][c] = v)
  BY <1>1 DEF RowSet, TypeOK
<1>2. CASE \E m \in Materializers : UpsertAction(m)
  <2>1. PICK m \in Materializers : UpsertAction(m)
    BY <1>2
  <2> QED
    BY <2>1 DEF UpsertAction, TypeOK
<1>3. CASE \E s \in Sessions : Deliver(s) \/ Settle(s) \/ Fault(s)
  <2>1. PICK s \in Sessions : Deliver(s) \/ Settle(s) \/ Fault(s)
    BY <1>3
  <2>2. CASE MarkAction(s)
    <3>1. /\ ses[s].pc # "idle" /\ Engaged(s) /\ row' = RowSet(ses[s].e, Chan(s), "PROCESSING")
          /\ ses[s].e \in Events /\ Chan(s) \in Channels
      BY <2>2, ChanType DEF MarkAction, Engaged
    <3> QED
      BY <1>1, <3>1 DEF RowStates
  <2>3. CASE DeferAction(s)
    <3>1. /\ ses[s].pc # "idle" /\ Engaged(s) /\ row' = RowSet(ses[s].e, Chan(s), "QUIET")
          /\ ses[s].e \in Events /\ Chan(s) \in Channels
      BY <2>3, ChanType DEF DeferAction, Engaged
    <3> QED
      BY <1>1, <3>1 DEF RowStates
  <2>4. CASE RetryAction(s)
    <3>1. /\ ses[s].pc # "idle" /\ Engaged(s) /\ row' = RowSet(ses[s].e, Chan(s), "RETRY")
          /\ ses[s].e \in Events /\ Chan(s) \in Channels
      BY <2>4, ChanType DEF RetryAction, Engaged
    <3> QED
      BY <1>1, <3>1 DEF RowStates
  <2>5. CASE FinishAction(s)
    <3>1. /\ ses[s].pc # "idle" /\ Engaged(s) /\ row' = RowSet(ses[s].e, Chan(s), ses[s].fin)
          /\ ses[s].e \in Events /\ Chan(s) \in Channels
      BY <2>5, ChanType DEF FinishAction, Engaged
    <3>2. ses[s].fin \in RowStates
      BY DEF TypeOK, SessionRec, RowStates
    <3> QED
      BY <1>1, <2>5, <3>1, <3>2
  <2>6. CASE ~(MarkAction(s) \/ DeferAction(s) \/ RetryAction(s) \/ FinishAction(s))
    <3>1. UNCHANGED row
      BY <2>1, <2>6 DEF Deliver, Settle, Fault, Crash, DatabaseError, CheckLease, ReadAction, SendOk, SendRefused,
         SendFailed, Ack, LeaseLost, FailRead, FailWrite
    <3> QED
      BY <3>1
  <2> QED
    BY <2>2, <2>3, <2>4, <2>5, <2>6
<1>4. CASE \/ \E f \in Events : AppendHistory(f)
           \/ \E m \in Materializers, f \in Events : Transition(m, f) \/ Backfill(m, f)
           \/ \E m \in Materializers : UpsertEvent(m) \/ AbandonMaterialize(m)
           \/ \E s \in Sessions : Claim(s)
           \/ Tick
           \/ UNCHANGED vars
  <2>1. UNCHANGED row
    BY <1>4 DEF AppendHistory, Transition, Backfill, UpsertEvent, AbandonMaterialize, Claim, Tick, vars
  <2> QED
    BY <2>1
<1> QED
  BY <1>2, <1>3, <1>4, NextCases

\* A step of the queue leaves a session alone, starts it, or is its own.
LEMMA SessionStep ==
  ASSUME TypeOK, [Next]_vars, NEW x \in Sessions
  PROVE  \/ ses'[x] = ses[x]
         \/ Claim(x) /\ ses[x].pc = "idle" /\ ses'[x].pc = "lease"
         \/ Deliver(x) \/ Settle(x) \/ Fault(x)
<1>1. CASE \E s \in Sessions : Claim(s)
  <2>1. PICK s \in Sessions : Claim(s)
    BY <1>1
  <2> DEFINE t == CHOOSE t \in FreshTokens : TRUE
  <2>2. PICK e \in Events, plan \in Requests :
          ses' = [ses EXCEPT ![s] = [IdleSession EXCEPT !.pc = "lease", !.e = e,
                                                        !.tok = t, !.plan = plan]]
    BY <2>1 DEF Claim
  <2> HIDE DEF t
  <2>3. x # s => ses'[x] = ses[x]
    BY <2>2 DEF TypeOK
  <2>4. x = s => ses'[x].pc = "lease"
    BY <2>2 DEF TypeOK, IdleSession
  <2>5. ses[s].pc = "idle"
    BY <2>1 DEF Claim
  <2> QED
    BY <2>1, <2>3, <2>4, <2>5
<1>2. CASE \E s \in Sessions : Deliver(s) \/ Settle(s) \/ Fault(s)
  <2>1. PICK s \in Sessions : Deliver(s) \/ Settle(s) \/ Fault(s)
    BY <1>2
  <2> QED
    BY <2>1, WorkStep
<1>3. CASE \A s \in Sessions : ~(Claim(s) \/ Deliver(s) \/ Settle(s) \/ Fault(s))
  BY <1>3, QuietSteps
<1> QED
  BY <1>1, <1>2, <1>3

\* How a session gets to be engaged: it was so before, at the same channel, or
\* it has just looked at the row.  The recording of a result is its last step.
LEMMA EngagedStep ==
  ASSUME Undisturbed, TypeOK, WalkDone, [Next]_vars, NEW x \in Sessions
  PROVE  /\ Engaged(x)' =>
              /\ ses'[x].e = ses[x].e /\ Chan(x)' = Chan(x)
              /\ \/ ses'[x] = ses[x]
                 \/ /\ Engaged(x) \/ (ReadAction(x) /\ row[ses[x].e][Chan(x)] \notin Settled)
                    /\ ses'[x].pc = "finish" => ses'[x].fin \in Settled
         /\ ses[x].pc = "finish" => ses'[x] = ses[x] \/ FinishAction(x)
<1> USE DEF SessionPCs
<1>1. CASE ses'[x] = ses[x]
  BY <1>1 DEF Chan
<1>2. ~Fault(x)
  BY DEF Fault, Crash, DatabaseError, Undisturbed
<1>3. ASSUME NEW pc \in SessionPCs, ses' = [ses EXCEPT ![x] = Goto(x, pc)]
      PROVE  ses'[x].pc = pc /\ ses'[x].e = ses[x].e /\ Chan(x)' = Chan(x)
  BY <1>3, GotoType DEF TypeOK, Chan
<1>4. ASSUME NEW fin \in {"COMPLETED", "DISABLED", "PERMANENT_FAILURE"},
             ses' = [ses EXCEPT ![x] = ToFinish(x, fin)]
      PROVE  /\ ses'[x].pc = "finish" /\ ses'[x].fin \in Settled /\ ses'[x].e = ses[x].e
             /\ Chan(x)' = Chan(x)
  BY <1>4, FinishType DEF TypeOK, Chan, Settled
<1>5. ASSUME ses[x].pc # "finish", ses'[x].pc \notin {"mark", "send", "finish", "defer", "retry"}
      PROVE  Engaged(x)' => FALSE
  BY <1>5 DEF Engaged
<1>6. CASE Claim(x) /\ ses[x].pc = "idle" /\ ses'[x].pc = "lease"
  BY <1>6 DEF Engaged
<1>7. CASE CheckLease(x)
  <2>1. ses[x].pc = "lease"
    BY <1>7 DEF CheckLease
  <2>2. LeaseLive(x) => ses'[x].pc = "read"
    BY <1>7 DEF CheckLease, TypeOK, SessionRec
  <2>3. ~LeaseLive(x) => ses'[x].pc = "failRead"
    BY <1>7, SessionMoves DEF CheckLease, TypeOK
  <2> QED
    BY <2>1, <2>2, <2>3 DEF Engaged
<1>8. CASE ReadAction(x)
  <2>1. ses[x].pc = "read"
    BY <1>8 DEF ReadAction
  <2>2. CASE ses' = [ses EXCEPT ![x] = Advanced(x)]
    <3>1. ses'[x].pc \in {"read", "ack"}
      BY <2>2, SessionMoves DEF TypeOK
    <3> QED
      BY <2>1, <3>1 DEF Engaged
  <2>3. CASE row[ses[x].e][Chan(x)] \notin Settled /\ ses' = [ses EXCEPT ![x] = ToFinish(x, "DISABLED")]
    BY <1>4, <1>8, <2>1, <2>3
  <2>4. CASE row[ses[x].e][Chan(x)] \notin Settled /\ ses' = [ses EXCEPT ![x] = Goto(x, "mark")]
    BY <1>3, <1>8, <2>1, <2>4
  <2> QED
    BY <1>8, <2>2, <2>3, <2>4 DEF ReadAction
<1>9. CASE MarkAction(x)
  <2>1. ses[x].pc = "mark" /\ Engaged(x)
    BY <1>9 DEF MarkAction, Engaged
  <2>2. CASE ses' = [ses EXCEPT ![x] = ToFinish(x, "COMPLETED")]
    BY <1>4, <2>1, <2>2
  <2>3. CASE ses' = [ses EXCEPT ![x] = Goto(x, "defer")]
    BY <1>3, <2>1, <2>3
  <2>4. CASE ses' = [ses EXCEPT ![x] = Goto(x, "send")]
    BY <1>3, <2>1, <2>4
  <2> QED
    BY <1>9, <2>2, <2>3, <2>4 DEF MarkAction
<1>10. CASE SendOk(x) \/ SendRefused(x)
  BY <1>4, <1>10 DEF SendOk, SendRefused, Engaged
<1>11. CASE SendFailed(x)
  BY <1>3, <1>11 DEF SendFailed, Engaged
<1>12. CASE FinishAction(x)
  <2>1. ses'[x].pc \in {"read", "ack"}
    BY <1>12, SessionMoves DEF FinishAction, TypeOK
  <2> QED
    BY <1>12, <2>1 DEF Engaged
<1>13. CASE DeferAction(x) \/ RetryAction(x)
  <2>1. ses'[x].pc = "failRead" /\ ses[x].pc # "finish"
    BY <1>13, SessionMoves DEF DeferAction, RetryAction, TypeOK
  <2> QED
    BY <2>1 DEF Engaged
<1>14. CASE FailRead(x)
  BY <1>3, <1>14 DEF FailRead, Engaged
<1>15. CASE Ack(x) \/ LeaseLost(x) \/ FailWrite(x)
  <2>1. ses'[x].pc = "idle" /\ ses[x].pc # "finish"
    BY <1>15 DEF Ack, LeaseLost, FailWrite, EndSession, TypeOK, IdleSession
  <2> QED
    BY <2>1 DEF Engaged
<1> QED
  BY <1>1, <1>2, <1>6, <1>7, <1>8, <1>9, <1>10, <1>11, <1>12, <1>13, <1>14, <1>15, SessionStep
     DEF Deliver, Settle

\* Sessions keep their leases: nobody claims an event that is being worked on,
\* settling it ends its only session, and the clock stops short of expiry.
LEMMA NextLive ==
  Undisturbed /\ TypeOK /\ TokensDistinct /\ AllLive /\ [Next]_vars => AllLive'
<1> SUFFICES ASSUME Undisturbed, TypeOK, TokensDistinct, AllLive, [Next]_vars,
                    NEW x \in Sessions, ses'[x].pc # "idle"
             PROVE  LeaseLive(x)'
  BY DEF AllLive
<1>1. \A e \in Events : ev[e] \in EventDoc
  BY DEF TypeOK
<1>2. ses[x].pc # "idle" => ses[x].e \in Events /\ LeaseLive(x)
  BY DEF TypeOK, SessionRec, AllLive
<1>3. ASSUME ses[x].pc # "idle", ses'[x].e = ses[x].e, ses'[x].tok = ses[x].tok,
             ev'[ses[x].e] = ev[ses[x].e]
      PROVE  LeaseLive(x)'
  BY <1>2, <1>3 DEF LeaseLive, Holds
<1>4. CASE \E s \in Sessions : Claim(s)
  <2>1. PICK s \in Sessions : Claim(s)
    BY <1>4
  <2>2. PICK e \in Events, plan \in Requests, t \in Tokens :
          /\ OldestClaimable(e)
          /\ ev' = [ev EXCEPT ![e] = Claimed(e, WorkerOf[s], t)]
          /\ ses' = [ses EXCEPT ![s] = [IdleSession EXCEPT !.pc = "lease", !.e = e,
                                                           !.tok = t, !.plan = plan]]
    <3>1. (CHOOSE t \in FreshTokens : TRUE) \in Tokens
      BY <2>1 DEF Claim, FreshTokens
    <3> QED
      BY <2>1, <3>1 DEF Claim
  <2>3. CASE x = s
    <3>1. ses'[x].e = e /\ ses'[x].tok = t
      BY <2>2, <2>3 DEF TypeOK, IdleSession
    <3>2. ASSUME NEW d, d = Claimed(e, WorkerOf[s], t)
          PROVE  d.state = "PROCESSING" /\ d.worker = WorkerOf[s] /\ d.token = t /\ d.lease = LeaseTicks
      BY <1>1, <3>2 DEF Claimed, EventDoc
    <3>3. /\ ev'[e].state = "PROCESSING" /\ ev'[e].worker = WorkerOf[s]
          /\ ev'[e].token = t /\ ev'[e].lease = LeaseTicks
      BY <2>2, <3>2 DEF TypeOK
    <3>4. e # NoEvent /\ LeaseTicks > 0
      BY QueueAssumption
    <3> QED
      BY <2>3, <3>1, <3>3, <3>4 DEF LeaseLive, Holds
  <2>4. CASE x # s
    <3>1. ses'[x] = ses[x]
      BY <2>2, <2>4 DEF TypeOK
    <3>2. ev[ses[x].e].state = "PROCESSING" /\ ev[ses[x].e].lease # 0
      BY <1>1, <1>2, <3>1 DEF LeaseLive, Holds, EventDoc
    <3>3. ses[x].e # e
      BY <2>2, <3>2 DEF OldestClaimable, Claimable
    <3>4. ev'[ses[x].e] = ev[ses[x].e]
      BY <1>2, <2>2, <3>1, <3>3 DEF TypeOK
    <3> QED
      BY <1>3, <3>1, <3>4
  <2> QED
    BY <2>3, <2>4
<1>5. CASE \E s \in Sessions : Deliver(s) \/ Settle(s) \/ Fault(s)
  <2>1. PICK s \in Sessions : Deliver(s) \/ Settle(s) \/ Fault(s)
    BY <1>5
  <2>2. ses[s].pc # "idle"
    BY <2>1, WorkStep
  <2>3. ses[x].pc # "idle" /\ ses'[x].e = ses[x].e /\ ses'[x].tok = ses[x].tok
    BY <2>1, WorkStep DEF IdleSession
  <2>4. CASE Ack(s) \/ FailWrite(s)
    <3>1. ses'[s].pc = "idle"
      BY <2>4 DEF Ack, FailWrite, EndSession, TypeOK, IdleSession
    <3>2. ses[x].e # ses[s].e
      BY <2>2, <2>3, <3>1, OnlySession
    <3>3. ev'[ses[x].e] = ev[ses[x].e]
      BY <1>2, <2>3, <2>4, <3>2 DEF Ack, FailWrite, TypeOK
    <3> QED
      BY <1>3, <2>3, <3>3
  <2>5. CASE ~(Ack(s) \/ FailWrite(s))
    <3>1. UNCHANGED ev
      BY <2>1, <2>5 DEF Deliver, Settle, Fault, Crash, DatabaseError, CheckLease, ReadAction, MarkAction, SendOk,
         SendRefused, SendFailed, FinishAction, DeferAction, RetryAction, LeaseLost, FailRead
    <3> QED
      BY <1>3, <2>3, <3>1
  <2> QED
    BY <2>4, <2>5
<1>6. CASE \E m \in Materializers : UpsertEvent(m)
  <2>1. PICK m \in Materializers : UpsertEvent(m)
    BY <1>6
  <2>2. ses'[x] = ses[x]
    BY <2>1 DEF UpsertEvent
  <2>3. ev[ses[x].e].state = "PROCESSING"
    BY <1>2, <2>2 DEF LeaseLive, Holds
  <2>4. ev'[ses[x].e] = ev[ses[x].e]
    BY <1>2, <2>1, <2>2, <2>3 DEF UpsertEvent, TypeOK
  <2> QED
    BY <1>3, <2>2, <2>4
<1>7. CASE Tick
  <2>1. ses'[x] = ses[x]
    BY <1>7 DEF Tick
  <2>2. ses[x].e \in Events /\ Holds(x) /\ ev[ses[x].e].lease > 1
    BY <1>2, <1>7, <2>1 DEF Tick, Undisturbed, LeaseLive
  <2>3. PICK e \in Events : e = ses[x].e
    BY <2>2
  <2>4. ev[e].lease \in Nat
    BY <1>1 DEF EventDoc
  <2>5. ASSUME NEW d, d = [ev[e] EXCEPT !.lease = Down(@), !.delay = Down(@)]
        PROVE  /\ d.state = ev[e].state /\ d.worker = ev[e].worker /\ d.token = ev[e].token
               /\ d.lease = Down(ev[e].lease)
    BY <1>1, <2>5 DEF EventDoc
  <2>6. /\ ev'[e].state = ev[e].state /\ ev'[e].worker = ev[e].worker /\ ev'[e].token = ev[e].token
        /\ ev'[e].lease = Down(ev[e].lease)
    BY <1>7, <2>5 DEF Tick
  <2>7. ev'[e].lease > 0
    BY <2>2, <2>3, <2>4, <2>6 DEF Down
  <2> QED
    BY <2>1, <2>2, <2>3, <2>6, <2>7 DEF LeaseLive, Holds
<1>8. CASE \/ \E f \in Events : AppendHistory(f)
           \/ \E m \in Materializers, f \in Events : Transition(m, f) \/ Backfill(m, f)
           \/ \E m \in Materializers : UpsertAction(m) \/ AbandonMaterialize(m)
           \/ UNCHANGED vars
  <2>1. UNCHANGED <<ev, ses>>
    BY <1>8 DEF AppendHistory, Transition, Backfill, UpsertAction, AbandonMaterialize, vars
  <2> QED
    BY <1>3, <2>1
<1> QED
  BY <1>4, <1>5, <1>6, <1>7, <1>8, NextCases

\* Action rows stay in being, and the channel of an engaged session stays open:
\* the only session that could settle it is the engaged one.
LEMMA NextOpen ==
  Undisturbed /\ TypeOK /\ WalkDone /\ TokensDistinct /\ OnceInv /\ [Next]_vars
    => RowsExist' /\ EngagedOpen'
<1> SUFFICES ASSUME Undisturbed, TypeOK, WalkDone, TokensDistinct, OnceInv, [Next]_vars
             PROVE  RowsExist' /\ EngagedOpen'
  OBVIOUS
<1>1. RowsExist'
  <2> SUFFICES ASSUME NEW e \in Events, NEW c \in Channels PROVE row'[e][c] # "NONE"
    BY DEF RowsExist
  <2>1. row[e][c] # "NONE"
    BY DEF OnceInv, RowsExist
  <2>2. ASSUME NEW s \in Sessions, FinishAction(s) PROVE ses[s].fin # "NONE"
    BY <2>2 DEF FinishAction, OnceInv, EngagedOpen, Settled
  <2> QED
    BY <2>1, <2>2, RowStep
<1>2. ASSUME NEW x \in Sessions, Engaged(x)'
      PROVE  row'[ses'[x].e][Chan(x)'] \notin Settled
  <2>1. /\ ses'[x].e = ses[x].e /\ Chan(x)' = Chan(x)
        /\ \/ Engaged(x)
           \/ ReadAction(x) /\ row[ses[x].e][Chan(x)] \notin Settled
    BY <1>2, EngagedStep DEF Engaged
  <2>2. row[ses[x].e][Chan(x)] \notin Settled
    BY <2>1 DEF OnceInv, EngagedOpen
  <2>3. ses[x].pc # "idle" /\ ses[x].e \in Events /\ Chan(x) \in Channels
    BY <2>1, ChanType DEF Engaged, ReadAction
  <2>4. CASE \E s \in Sessions : /\ ses[s].pc # "idle" /\ ses[s].e = ses[x].e /\ FinishAction(s)
    <3>1. FinishAction(x)
      BY <2>3, <2>4, OnlySession DEF OnceInv
    <3>2. ses'[x].pc \in {"read", "ack"}
      BY <3>1, SessionMoves DEF FinishAction, TypeOK
    <3> QED
      BY <1>2, <3>2 DEF Engaged
  <2>5. CASE ~\E s \in Sessions : /\ ses[s].pc # "idle" /\ ses[s].e = ses[x].e /\ FinishAction(s)
    <3>1. row'[ses[x].e][Chan(x)] \notin Settled
      BY <2>2, <2>3, <2>5, RowStep DEF Settled
    <3> QED
      BY <2>1, <3>1
  <2> QED
    BY <2>4, <2>5
<1>3. ASSUME NEW x \in Sessions, ses'[x].pc = "finish" PROVE ses'[x].fin \in Settled
  <2>1. Engaged(x)'
    BY <1>3 DEF Engaged
  <2>2. ses'[x] = ses[x] \/ ses'[x].fin \in Settled
    BY <1>3, <2>1, EngagedStep
  <2>3. CASE ses'[x] = ses[x]
    BY <1>3, <2>3 DEF OnceInv, EngagedOpen
  <2> QED
    BY <2>2, <2>3
<1>4. EngagedOpen'
  BY <1>2, <1>3 DEF EngagedOpen
<1> QED
  BY <1>1, <1>4

\* What has been sent stays paid for, and only an unpaid channel is sent to.
LEMMA NextPaid ==
  Undisturbed /\ TypeOK /\ WalkDone /\ TokensDistinct /\ OnceInv /\ [Next]_vars
    => SentIsPaid' /\ SentAtMostOnce'
<1> SUFFICES ASSUME Undisturbed, TypeOK, WalkDone, TokensDistinct, OnceInv, [Next]_vars,
                    NEW e \in Events, NEW c \in Channels
             PROVE  sends'[e][c] <= 1 /\ (sends'[e][c] >= 1 => Paid(e, c)')
  BY DEF SentIsPaid, SentAtMostOnce
<1>1. sends[e][c] \in Nat /\ sends[e][c] <= 1 /\ (sends[e][c] >= 1 => Paid(e, c))
  BY QueueAssumption DEF TypeOK, OnceInv, SentIsPaid, SentAtMostOnce
<1>2. CASE \E s \in Sessions : SendOk(s) /\ ses[s].e = e /\ Chan(s) = c
  <2>1. PICK s \in Sessions : SendOk(s) /\ ses[s].e = e /\ Chan(s) = c
    BY <1>2
  <2>2. ses[s].pc = "send" /\ Engaged(s) /\ row[e][c] # "COMPLETED"
    BY <2>1 DEF SendOk, Engaged, OnceInv, EngagedOpen, Settled
  <2>3. ~Paid(e, c)
    <3> SUFFICES ASSUME NEW a \in Sessions, ses[a].pc = "finish", ses[a].e = e PROVE FALSE
      BY <2>2 DEF Paid
    <3>1. a = s
      BY <2>1, <2>2, OnlySession DEF OnceInv
    <3> QED
      BY <2>2, <3>1
  <2>4. sends'[e][c] = 1
    <3>1. sends[e][c] = 0 /\ SendCap > 0
      BY <1>1, <2>3, QueueAssumption
    <3> QED
      BY <2>1, <3>1 DEF SendOk, Accepted, TypeOK
  <2>5. ses' = [ses EXCEPT ![s] = ToFinish(s, "COMPLETED")]
    BY <2>1 DEF SendOk
  <2>6. ses'[s].pc = "finish" /\ ses'[s].fin = "COMPLETED" /\ ses'[s].e = e /\ Chan(s)' = c
    BY <2>1, <2>5, FinishType DEF TypeOK, Chan
  <2> QED
    BY <2>4, <2>6 DEF Paid
<1>3. CASE ~\E s \in Sessions : SendOk(s) /\ ses[s].e = e /\ Chan(s) = c
  <2>1. sends'[e][c] = sends[e][c]
    <3>1. CASE \E s \in Sessions : SendOk(s)
      <4>1. PICK s \in Sessions : SendOk(s)
        BY <3>1
      <4>2. ses[s].e # e \/ Chan(s) # c
        BY <1>3, <4>1
      <4>3. Accepted(s) /\ ses[s].e \in Events /\ Chan(s) \in Channels
        BY <4>1, ChanType DEF SendOk
      <4> QED
        BY <4>2, <4>3 DEF Accepted, TypeOK
    <3>2. CASE ~\E s \in Sessions : SendOk(s)
      <4>1. UNCHANGED sends
        BY <3>2, NextCases DEF Undisturbed, Deliver, Settle, Fault, Crash, DatabaseError, CheckLease, ReadAction,
           MarkAction, SendRefused, SendFailed, FinishAction, DeferAction, RetryAction, Ack, LeaseLost, FailRead,
           FailWrite, Claim, AppendHistory, Transition, Backfill, UpsertEvent, UpsertAction, AbandonMaterialize,
           Tick, vars
      <4> QED
        BY <4>1
    <3> QED
      BY <3>1, <3>2
  <2>2. CASE row[e][c] = "COMPLETED"
    <3>1. ~\E s \in Sessions : Engaged(s) /\ ses[s].e = e /\ Chan(s) = c
      BY <2>2 DEF OnceInv, EngagedOpen, Settled
    <3>2. row'[e][c] = "COMPLETED"
      BY <2>2, <3>1, RowStep
    <3> QED
      BY <1>1, <2>1, <3>2 DEF Paid
  <2>3. ASSUME NEW s \in Sessions, ses[s].pc = "finish", ses[s].fin = "COMPLETED", ses[s].e = e, Chan(s) = c
        PROVE  Paid(e, c)'
    <3>1. CASE ses'[s] = ses[s]
      <4>1. Chan(s)' = Chan(s)
        BY <3>1 DEF Chan
      <4> QED
        BY <2>3, <3>1, <4>1 DEF Paid
    <3>2. CASE FinishAction(s)
      <4>1. row[e][c] # "NONE"
        BY DEF OnceInv, RowsExist
      <4>2. row' = RowSet(e, c, "COMPLETED")
        BY <2>3, <3>2 DEF FinishAction
      <4>3. row'[e][c] = "COMPLETED"
        BY <4>1, <4>2 DEF RowSet, TypeOK
      <4> QED
        BY <4>3 DEF Paid
    <3> QED
      BY <2>3, <3>1, <3>2, EngagedStep
  <2> QED
    BY <1>1, <2>1, <2>2, <2>3 DEF Paid
<1> QED
  BY <1>2, <1>3

\* Nothing was sent when the queue starts.
LEMMA InitOnce == ASSUME Undisturbed PROVE Init => OnceInv
<1> SUFFICES ASSUME Init PROVE OnceInv
  OBVIOUS
<1>1. \A e \in Events, c \in Channels : row[e][c] = "PENDING" /\ sends[e][c] = 0
  BY DEF Init, Undisturbed
<1>2. \A s \in Sessions : ses[s].pc = "idle"
  BY DEF Init, IdleSession
<1> QED
  BY <1>1, <1>2 DEF OnceInv, RowsExist, AllLive, EngagedOpen, Engaged, SentIsPaid, SentAtMostOnce

\* No step sends what was sent before, while nothing disturbs the workers.
LEMMA NextOnce == ASSUME Undisturbed PROVE QueueInv /\ OnceInv /\ [Next]_vars => OnceInv'
<1> SUFFICES ASSUME QueueInv, OnceInv, [Next]_vars PROVE OnceInv'
  OBVIOUS
<1>1. TypeOK /\ WalkDone /\ TokensDistinct /\ AllLive
  BY DEF QueueInv, OnceInv
<1>2. RowsExist' /\ EngagedOpen'
  BY <1>1, NextOpen
<1>3. AllLive'
  BY <1>1, NextLive
<1>4. SentIsPaid' /\ SentAtMostOnce'
  BY <1>1, NextPaid
<1> QED
  BY <1>2, <1>3, <1>4 DEF OnceInv

\* Without overrun leases, process deaths, database errors and ambiguous sends,
\* and with the action rows in place, no customer is sent a message twice.
THEOREM SentOnce == ASSUME Undisturbed PROVE Spec => []SentAtMostOnce
<1>1. Init => OnceInv
  BY InitOnce
<1>2. QueueInv /\ OnceInv /\ [Next]_vars => OnceInv'
  BY NextOnce
<1>3. OnceInv => SentAtMostOnce
  BY DEF OnceInv
<1> QED
  BY <1>1, <1>2, <1>3, Invariance, PTL DEF Spec

\* The same of a run that follows either an undisturbed queue or one with crashes,
\* overruns and ambiguous sends, whatever the other one does with the same
\* variables: the choice is made once, and an undisturbed queue stays one.
THEOREM CleanSentOnce == ASSUME Undisturbed PROVE EitherSpec => []CleanSendsOnce
<1> DEFINE CleanInv == following = "clean" => QueueInv /\ OnceInv
<1>1. EitherInit => CleanInv
  BY InitInv, InitOnce DEF EitherInit
<1>2. CleanInv /\ [EitherNext]_<<following, vars>> => CleanInv'
  <2> SUFFICES ASSUME CleanInv, [EitherNext]_<<following, vars>>, following' = "clean"
               PROVE  QueueInv' /\ OnceInv'
    OBVIOUS
  <2>1. following = "clean" /\ [Next]_vars
    BY DEF EitherNext
  <2> QED
    BY <2>1, NextInv, NextOnce
<1>3. CleanInv => CleanSendsOnce
  BY DEF OnceInv, CleanSendsOnce
<1> QED
  BY <1>1, <1>2, <1>3, PTL DEF EitherSpec
=============================================================================
