------------------------ MODULE TripLocationProofs -------------------------
(***************************************************************************)
(* Proofs about TripLocationService: a fix goes to the trip it was         *)
(* captured on, fixes arrive in the order of capture, and none vanishes,   *)
(* for any trips, bounds of the queue, fixes, service instances and deaths *)
(* of the process.                                                         *)
(***************************************************************************)
EXTENDS TripLocationService, TLAPS

\* The fixes the backend has taken.
Taken == UNION {Elems(got[t]) : t \in Trips}

Increasing(s) == \A j, k \in DOMAIN s : j < k => s[j] < s[k]

Before(S, T) == \A m \in S : \A n \in T : m < n

UpTo(S, T) == \A m \in S : \A n \in T : m <= n

\* Which of its lists an executor uses at each step, and their bound.
Shape(e) ==
  /\ e.pc = "idle" <=> e.cur = 0
  /\ e.todo # <<>> => e.rest /\ e.pc \in {"post", "wait", "recheck"}
  /\ e.copy # <<>> => e.pc = "store"
  /\ e.rest => e.pc \in {"post", "wait", "recheck", "store"}
  /\ e.rest /\ e.pc \in {"post", "wait"} => e.todo # <<>>
  /\ e.pc = "recheck" => e.rest
  /\ Len(e.todo) <= MaxQueue /\ Len(e.copy) <= MaxQueue

Shapes == \A i \in Instances : Shape(exec[i])

\* Every fix in a list has been captured.
Numbered ==
  /\ Elems(queue) \subseteq DOMAIN fixTrip
  /\ Elems(disk.queue) \subseteq DOMAIN fixTrip
  /\ Taken \subseteq DOMAIN fixTrip
  /\ \A i \in Instances : Held(exec[i]) \subseteq DOMAIN fixTrip

\* Only the live instance has work.
Alone == \A i \in Instances : Busy(i) => i = inst

\* Without a trip there is no queue and no task has begun.
Ended ==
  /\ trip = NoTrip => queue = <<>> /\ \A i \in Instances : exec[i].pc = "idle"
  /\ disk.trip = NoTrip => disk.queue = <<>>

\* Whatever waits to be posted belongs to the saved trip.
Owned ==
  /\ \A n \in Elems(queue) : fixTrip[n] = trip
  /\ \A n \in Elems(disk.queue) : fixTrip[n] = disk.trip
  /\ \A i \in Instances : \A n \in Held(exec[i]) : fixTrip[n] = trip
  /\ \A i \in Instances : exec[i].pc = "wait" => exec[i].to = trip
  /\ \A t \in Trips : \A n \in Elems(got[t]) : fixTrip[n] = t

\* What the stored queue q still lists and the list an executor e is about to
\* write over it does not was received or given up.
Covered(e, q, gone) ==
  /\ e.rest => Elems(q) \subseteq Elems(e.todo) \cup Elems(e.copy) \cup gone
  /\ e.pc = "store" /\ ~e.rest =>
       Elems(q) \cup {e.cur} \subseteq Elems(e.copy) \cup gone

Coverage == \A i \in Instances : Covered(exec[i], queue, Taken \cup given)

\* Every captured fix is accounted for.
Everywhere == Taken \cup Elems(queue) \cup given \cup UNION {Held(exec[i]) : i \in Instances}
Accounted == DOMAIN fixTrip \subseteq Everywhere

Clean == Alone /\ Ended /\ Owned /\ Coverage /\ Accounted

\* What an executor e will post, in this order: the queue or what is left of
\* it, the current fix, the waiting tasks.
Ahead(e, q) ==
  IF e.rest THEN Elems(e.todo) \cup Elems(e.copy)
  ELSE IF e.pc = "store" THEN Elems(e.copy) ELSE Elems(q)

Current(e) == IF e.pc = "store" /\ ~e.rest THEN {} ELSE {e.cur} \ {0}

Ordered(e, q, T) ==
  /\ Increasing(e.tasks) /\ Increasing(e.todo) /\ Increasing(e.copy)
  /\ UpTo(T, Ahead(e, q) \cup Current(e) \cup Elems(e.tasks))
  /\ Before(Ahead(e, q), Current(e))
  /\ Before(Ahead(e, q) \cup Current(e), Elems(e.tasks))
  /\ ~e.rest /\ e.pc \in {"post", "wait", "guard"} => q = <<>>

NeverBack == \A t \in Trips : \A k \in 1..(Len(got[t]) - 1) : got[t][k] <= got[t][k + 1]

InOrder ==
  /\ Increasing(queue) /\ NeverBack
  /\ UpTo(Taken, Elems(queue)) \/ \E i \in Instances : Busy(i)
  /\ \A i \in Instances : Busy(i) => Ordered(exec[i], queue, Taken)

IInv ==
  /\ TypeOK /\ Shapes /\ Numbered
  /\ ~mixed => Clean
  /\ ~mixed /\ crashes = 0 => InOrder

-----------------------------------------------------------------------------
(* Lists of fixes. *)

\* The empty list has no members, is increasing and within the bound.
LEMMA EmptyList == /\ Elems(<<>>) = {} /\ Increasing(<<>>)
                   /\ Len(<<>>) = 0 /\ Len(<<>>) <= MaxQueue
  BY TripAssumption DEF Elems, Increasing

\* The members of a list belong to the set it is a list over.
LEMMA ListOf ==
  ASSUME NEW S, NEW s \in Seq(S)
  PROVE  Elems(s) \subseteq S
  BY DEF Elems

\* What Append does to a list.
LEMMA AppendFields ==
  ASSUME NEW S, NEW s \in Seq(S), NEW x \in S
  PROVE  /\ Len(Append(s, x)) = Len(s) + 1 /\ Append(s, x)[Len(s) + 1] = x
         /\ \A k \in 1..Len(s) : Append(s, x)[k] = s[k]
         /\ DOMAIN Append(s, x) = 1..(Len(s) + 1) /\ DOMAIN s = 1..Len(s)
         /\ Len(s) \in Nat /\ Append(s, x) \in Seq(S)
  OBVIOUS

\* Appending x adds x to the members.
LEMMA AppendElems ==
  ASSUME NEW S, NEW s \in Seq(S), NEW x \in S
  PROVE  Elems(Append(s, x)) = Elems(s) \cup {x}
  <1> DEFINE a == Append(s, x)
  <1>1. /\ a[Len(s) + 1] = x /\ \A k \in 1..Len(s) : a[k] = s[k]
        /\ DOMAIN a = 1..(Len(s) + 1) /\ DOMAIN s = 1..Len(s) /\ Len(s) \in Nat
    BY AppendFields
  <1> HIDE DEF a
  <1>2. ASSUME NEW y \in Elems(a) PROVE y \in Elems(s) \cup {x}
    BY <1>1 DEF Elems
  <1>3. ASSUME NEW y \in Elems(s) PROVE y \in Elems(a)
    BY <1>1 DEF Elems
  <1>4. x \in Elems(a)
    BY <1>1 DEF Elems
  <1>5. Elems(a) = Elems(s) \cup {x}
    BY <1>2, <1>3, <1>4
  <1> QED
    BY <1>5 DEF a

\* A list stays increasing when it is extended with a higher number.
LEMMA AppendIncreasing ==
  ASSUME NEW S \in SUBSET Int, NEW s \in Seq(S), NEW x \in S,
         Increasing(s), Before(Elems(s), {x})
  PROVE  Increasing(Append(s, x))
  <1> DEFINE a == Append(s, x)
  <1>1. /\ a[Len(s) + 1] = x /\ \A k \in 1..Len(s) : a[k] = s[k]
        /\ DOMAIN a = 1..(Len(s) + 1) /\ DOMAIN s = 1..Len(s) /\ Len(s) \in Nat
    BY AppendFields
  <1> HIDE DEF a
  <1>2. ASSUME NEW j \in DOMAIN a, NEW k \in DOMAIN a, j < k
        PROVE  a[j] < a[k]
    <2>1. j \in 1..Len(s) /\ a[j] = s[j]
      BY <1>1, <1>2
    <2>2. CASE k = Len(s) + 1
      BY <1>1, <1>2, <2>1, <2>2 DEF Before, Elems
    <2>3. CASE k # Len(s) + 1
      BY <1>1, <1>2, <2>1, <2>3 DEF Increasing
    <2> QED
      BY <2>2, <2>3
  <1> QED
    BY <1>2 DEF a, Increasing

\* The head of an increasing list is below its tail, which is increasing.
LEMMA TailList ==
  ASSUME NEW S, NEW s \in Seq(S), s # <<>>
  PROVE  /\ Head(s) \in S /\ Tail(s) \in Seq(S)
         /\ Len(s) \in Nat /\ Len(Tail(s)) = Len(s) - 1
         /\ Len(s) # 1 => Tail(s) # <<>>
         /\ Elems(s) = {Head(s)} \cup Elems(Tail(s))
         /\ S \subseteq Int /\ Increasing(s)
              => Increasing(Tail(s)) /\ Before({Head(s)}, Elems(Tail(s)))
  <1> DEFINE a == Tail(s)
  <1>1. /\ Len(s) \in Nat \ {0} /\ DOMAIN s = 1..Len(s) /\ DOMAIN a = 1..(Len(s) - 1)
        /\ \A k \in 1..(Len(s) - 1) : a[k] = s[k + 1]
        /\ Head(s) = s[1] /\ s[1] \in S /\ a \in Seq(S) /\ Len(a) = Len(s) - 1
    OBVIOUS
  <1> HIDE DEF a
  <1>4. Len(s) # 1 => a # <<>>
    BY <1>1, EmptyList
  <1>2. Elems(s) = {Head(s)} \cup Elems(a)
    <2>1. ASSUME NEW k \in DOMAIN s PROVE s[k] \in {Head(s)} \cup Elems(a)
      <3>1. CASE k = 1
        BY <1>1, <3>1
      <3>2. CASE k # 1
        <4>1. k - 1 \in DOMAIN a /\ a[k - 1] = s[k]
          BY <1>1, <3>2
        <4> QED
          BY <4>1 DEF Elems
      <3> QED
        BY <3>1, <3>2
    <2>2. ASSUME NEW k \in DOMAIN a PROVE a[k] \in Elems(s)
      BY <1>1 DEF Elems
    <2>3. Head(s) \in Elems(s)
      BY <1>1 DEF Elems
    <2> QED
      BY <2>1, <2>2, <2>3 DEF Elems
  <1>3. ASSUME S \subseteq Int, Increasing(s)
        PROVE  Increasing(a) /\ Before({Head(s)}, Elems(a))
    <2>1. ASSUME NEW j \in DOMAIN a, NEW k \in DOMAIN a, j < k
          PROVE  a[j] < a[k]
      <3>1. /\ j \in 1..(Len(s) - 1) /\ k \in 1..(Len(s) - 1) /\ a[j] = s[j + 1] /\ a[k] = s[k + 1]
            /\ j + 1 \in DOMAIN s /\ k + 1 \in DOMAIN s /\ j + 1 < k + 1
        BY <1>1, <2>1
      <3> QED
        BY <1>3, <3>1 DEF Increasing
    <2>2. ASSUME NEW k \in DOMAIN a PROVE s[1] < a[k]
      BY <1>1, <1>3 DEF Increasing
    <2> QED
      BY <1>1, <2>1, <2>2 DEF Increasing, Before, Elems
  <1> QED
    BY <1>1, <1>2, <1>3, <1>4 DEF a

\* What remains of a list when its first k members go.
LEMMA SuffixList ==
  ASSUME NEW S, NEW s \in Seq(S), NEW k \in 0..Len(s)
  PROVE  /\ SubSeq(s, k + 1, Len(s)) \in Seq(S)
         /\ Len(SubSeq(s, k + 1, Len(s))) = Len(s) - k
         /\ Elems(s) = Elems(SubSeq(s, k + 1, Len(s))) \cup {s[j] : j \in 1..k}
         /\ S \subseteq Int /\ Increasing(s) => Increasing(SubSeq(s, k + 1, Len(s)))
  <1> DEFINE a == SubSeq(s, k + 1, Len(s))
  <1>1. /\ Len(s) \in Nat /\ DOMAIN s = 1..Len(s) /\ DOMAIN a = 1..(Len(s) - k)
        /\ \A j \in 1..(Len(s) - k) : a[j] = s[j + k]
        /\ a \in Seq(S) /\ Len(a) = Len(s) - k
    OBVIOUS
  <1> HIDE DEF a
  <1>2. Elems(s) = Elems(a) \cup {s[j] : j \in 1..k}
    <2>1. ASSUME NEW j \in DOMAIN s PROVE s[j] \in Elems(a) \cup {s[n] : n \in 1..k}
      <3>1. CASE j \in 1..k
        BY <3>1
      <3>2. CASE j \notin 1..k
        <4>1. j - k \in DOMAIN a /\ a[j - k] = s[j]
          BY <1>1, <3>2
        <4> QED
          BY <4>1 DEF Elems
      <3> QED
        BY <3>1, <3>2
    <2>2. ASSUME NEW j \in DOMAIN a PROVE a[j] \in Elems(s)
      BY <1>1 DEF Elems
    <2>3. ASSUME NEW j \in 1..k PROVE s[j] \in Elems(s)
      BY <1>1 DEF Elems
    <2> QED
      BY <2>1, <2>2, <2>3 DEF Elems
  <1>3. ASSUME S \subseteq Int, Increasing(s) PROVE Increasing(a)
    <2>1. ASSUME NEW j \in DOMAIN a, NEW n \in DOMAIN a, j < n PROVE a[j] < a[n]
      <3>1. j + k \in DOMAIN s /\ n + k \in DOMAIN s /\ j + k < n + k
        BY <1>1, <2>1
      <3> QED
        BY <1>1, <1>3, <2>1, <3>1 DEF Increasing
    <2> QED
      BY <2>1 DEF Increasing
  <1> QED
    BY <1>1, <1>2, <1>3 DEF a

\* Strictly before is at most.
LEMMA BeforeIsUpTo ==
  ASSUME NEW S \in SUBSET Int, NEW T \in SUBSET Int, Before(S, T)
  PROVE  UpTo(S, T)
  BY DEF Before, UpTo

-----------------------------------------------------------------------------
(* What a step of an executor keeps. *)

\* Fixes are positive numbers.
LEMMA FixesAreNumbers == Fixes \subseteq Nat \ {0} /\ Fixes \subseteq Int /\ 0 \notin Fixes
  BY TripAssumption DEF Fixes

\* The types of an executor's lists and of the lists it works on.
LEMMA ListTypes ==
  ASSUME TypeOK, NEW i \in Instances
  PROVE  /\ exec[i] \in Executors
         /\ exec[i].tasks \in Seq(Fixes) /\ exec[i].todo \in Seq(Fixes)
         /\ exec[i].copy \in Seq(Fixes) /\ exec[i].cur \in 0..MaxWork
         /\ exec[i].rest \in BOOLEAN /\ exec[i].to \in MaybeTrip
         /\ queue \in Seq(Fixes)
         /\ \A t \in Trips : got[t] \in Seq(Fixes)
  BY DEF TypeOK, Executors

\* An executor without work holds nothing.
LEMMA RestingHoldsNothing ==
  ASSUME NEW e, Shape(e), e.pc = "idle", e.tasks = <<>>
  PROVE  Held(e) = {} /\ ~e.rest
  BY EmptyList DEF Shape, Held

\* Only one executor changes, whatever it does with the queue.
LEMMA ExecTypes ==
  ASSUME TypeOK, NEW i \in Instances, NEW f \in Executors, exec' = [exec EXCEPT ![i] = f],
         UNCHANGED <<trip, disk, call, service, fixTrip, mixed, bounds>>,
         f.pc = "wait" => f.to \in Trips,
         queue' \in Seq(Fixes), Len(queue') <= MaxQueue,
         got' \in [Trips -> Seq(Fixes)], given' \subseteq Fixes
  PROVE  TypeOK'
  <1>1. exec' \in [Instances -> Executors]
    BY DEF TypeOK
  <1>2. \A j \in Instances : exec'[j].pc = "wait" => exec'[j].to \in Trips
    BY DEF TypeOK
  <1> QED
    BY <1>1, <1>2 DEF TypeOK, service, bounds

\* An executor that takes its fixes from where they were keeps them captured.
LEMMA ExecNumbered ==
  ASSUME TypeOK, Shapes, Numbered,
         NEW i \in Instances, NEW f \in Executors, exec' = [exec EXCEPT ![i] = f],
         UNCHANGED <<trip, disk, call, service, fixTrip, mixed, bounds>>,
         Shape(f),
         Elems(queue') \cup Taken' \cup Held(f) \subseteq Elems(queue) \cup Taken \cup Held(exec[i])
  PROVE  Shapes' /\ Numbered'
  <1>1. \A j \in Instances : exec'[j] = IF j = i THEN f ELSE exec[j]
    BY DEF TypeOK
  <1>2. Shapes'
    BY <1>1 DEF Shapes
  <1>3. \A j \in Instances : Held(exec'[j]) \subseteq DOMAIN fixTrip
    BY <1>1 DEF Numbered
  <1> QED
    BY <1>2, <1>3 DEF Numbered

\* An executor with work that becomes f keeps what holds while nothing is mixed.
LEMMA ExecClean ==
  ASSUME TypeOK, Shapes, Numbered, Clean,
         NEW i \in Instances, NEW f \in Executors, exec' = [exec EXCEPT ![i] = f],
         UNCHANGED <<trip, disk, call, service, fixTrip, mixed, bounds>>,
         Busy(i),
         Elems(queue') \cup Held(f) \subseteq Elems(queue) \cup Held(exec[i]),
         trip = NoTrip => f.pc = "idle" /\ queue' = queue,
         f.pc = "wait" => f.to = trip,
         \A t \in Trips : \A n \in Elems(got'[t]) : n \in Elems(got[t]) \/ fixTrip[n] = t,
         Covered(f, queue', Taken' \cup given'),
         Elems(queue) \cup Taken \cup given \cup Held(exec[i])
           \subseteq Elems(queue') \cup Taken' \cup given' \cup Held(f)
  PROVE  Clean'
  <1>1. \A j \in Instances : exec'[j] = IF j = i THEN f ELSE exec[j]
    BY DEF TypeOK
  <1>2. i = inst /\ inst' = inst
    BY DEF Clean, Alone, service
  <1>3. \A j \in Instances : j # i => exec[j].pc = "idle" /\ exec[j].tasks = <<>>
    BY <1>2 DEF Clean, Alone, Busy
  <1>4. \A j \in Instances : j # i => Held(exec[j]) = {} /\ ~exec[j].rest
    BY <1>3, RestingHoldsNothing DEF Shapes
  <1>5. Alone'
    BY <1>1, <1>2, <1>3 DEF Alone, Busy
  <1>6. Ended'
    <2>1. trip = NoTrip => queue = <<>> /\ \A j \in Instances : exec'[j].pc = "idle"
      BY <1>1 DEF Clean, Ended
    <2> QED
      BY <2>1 DEF Clean, Ended
  <1>7. Owned'
    <2>1. \A n \in Elems(queue') \cup Held(f) : fixTrip[n] = trip
      BY DEF Clean, Owned
    <2>2. \A j \in Instances : \A n \in Held(exec'[j]) : fixTrip[n] = trip
      BY <1>1, <2>1 DEF Clean, Owned
    <2>3. \A j \in Instances : exec'[j].pc = "wait" => exec'[j].to = trip
      BY <1>1 DEF Clean, Owned
    <2>4. \A t \in Trips : \A n \in Elems(got'[t]) : fixTrip[n] = t
      BY DEF Clean, Owned
    <2> QED
      BY <2>1, <2>2, <2>3, <2>4 DEF Clean, Owned
  <1>8. Coverage'
    <2>1. \A j \in Instances : Covered(exec'[j], queue', Taken' \cup given')
      BY <1>1, <1>3, <1>4 DEF Covered
    <2> QED
      BY <2>1 DEF Coverage
  <1>9. Accounted'
    <2>1. \A n \in DOMAIN fixTrip : n \in Elems(queue) \cup Taken \cup given \cup Held(exec[i])
      BY <1>4 DEF Clean, Accounted, Everywhere
    <2>2. Held(f) \subseteq UNION {Held(exec'[j]) : j \in Instances}
      BY <1>1
    <2> QED
      BY <2>1, <2>2 DEF Accounted, Everywhere
  <1> QED
    BY <1>5, <1>6, <1>7, <1>8, <1>9 DEF Clean

\* The same for the order of the fixes.
LEMMA ExecInOrder ==
  ASSUME TypeOK, Shapes, Clean, InOrder,
         NEW i \in Instances, NEW f \in Executors, exec' = [exec EXCEPT ![i] = f],
         UNCHANGED <<trip, disk, call, service, fixTrip, mixed, bounds>>,
         Busy(i), Increasing(queue'), NeverBack',
         Shape(f), Ordered(f, queue', Taken')
  PROVE  InOrder'
  <1>1. \A j \in Instances : exec'[j] = IF j = i THEN f ELSE exec[j]
    BY DEF TypeOK
  <1>2. i = inst /\ inst' = inst
    BY DEF Clean, Alone, service
  <1>3. \A j \in Instances : j # i => exec[j].pc = "idle" /\ exec[j].tasks = <<>>
    BY <1>2 DEF Clean, Alone, Busy
  <1>4. \A j \in Instances : Busy(j)' => Ordered(exec'[j], queue', Taken')
    BY <1>1, <1>3 DEF Busy
  <1>5. UpTo(Taken', Elems(queue')) \/ \E j \in Instances : Busy(j)'
    <2>1. CASE f.pc # "idle"
      BY <1>1, <2>1 DEF Busy
    <2>2. CASE f.pc = "idle"
      BY <2>2 DEF Ordered, Shape, Ahead, UpTo
    <2> QED
      BY <2>1, <2>2
  <1> QED
    BY <1>4, <1>5 DEF InOrder

\* A step of one executor e that becomes f, the queue staying or not.
LEMMA ExecStep ==
  ASSUME IInv, NEW i \in Instances, NEW f \in Executors, exec' = [exec EXCEPT ![i] = f],
         UNCHANGED <<trip, disk, call, service, fixTrip, mixed, bounds>>,
         Busy(i), Shape(f),
         f.pc = "wait" => f.to \in Trips,
         queue' \in Seq(Fixes), Len(queue') <= MaxQueue,
         got' \in [Trips -> Seq(Fixes)], given' \subseteq Fixes,
         Elems(queue') \cup Taken' \cup Held(f) \subseteq Elems(queue) \cup Taken \cup Held(exec[i]),
         ~mixed /\ Clean =>
           /\ Elems(queue') \cup Held(f) \subseteq Elems(queue) \cup Held(exec[i])
           /\ trip = NoTrip => f.pc = "idle" /\ queue' = queue
           /\ f.pc = "wait" => f.to = trip
           /\ \A t \in Trips : \A n \in Elems(got'[t]) : n \in Elems(got[t]) \/ fixTrip[n] = t
           /\ Covered(f, queue', Taken' \cup given')
           /\ Elems(queue) \cup Taken \cup given \cup Held(exec[i])
                \subseteq Elems(queue') \cup Taken' \cup given' \cup Held(f),
         Clean /\ InOrder =>
           Increasing(queue') /\ NeverBack' /\ Ordered(f, queue', Taken')
  PROVE  IInv'
  <1>1. TypeOK'
    BY ExecTypes DEF IInv
  <1>2. Shapes' /\ Numbered'
    BY ExecNumbered DEF IInv
  <1>3. ~mixed => Clean'
    BY ExecClean DEF IInv
  <1>4. ~mixed /\ crashes = 0 => InOrder'
    BY ExecInOrder DEF IInv
  <1> QED
    BY <1>1, <1>2, <1>3, <1>4 DEF IInv, bounds

\* The same for a step that posts nothing and writes nothing.
LEMMA QuietStep ==
  ASSUME IInv, NEW i \in Instances, NEW f \in Executors, exec' = [exec EXCEPT ![i] = f],
         UNCHANGED <<prefs, disk, call, service, fixTrip, got, mixed, bounds>>,
         Busy(i), Shape(f),
         f.pc = "wait" => f.to \in Trips,
         given \subseteq given', given' \subseteq Fixes,
         Held(f) \subseteq Elems(queue) \cup Held(exec[i]),
         ~mixed /\ Clean =>
           /\ trip = NoTrip => f.pc = "idle"
           /\ f.pc = "wait" => f.to = trip
           /\ Covered(f, queue, Taken \cup given')
           /\ Held(exec[i]) \subseteq Elems(queue) \cup Taken \cup given' \cup Held(f),
         Clean /\ InOrder => Ordered(f, queue, Taken)
  PROVE  IInv'
  <1>1. Taken' = Taken /\ queue' = queue /\ got' = got
    BY DEF Taken, prefs
  <1>2. queue \in Seq(Fixes) /\ Len(queue) <= MaxQueue /\ got \in [Trips -> Seq(Fixes)]
    BY DEF IInv, TypeOK
  <1>3. UNCHANGED <<trip, disk, call, service, fixTrip, mixed, bounds>>
    BY DEF prefs
  <1>4. Clean /\ InOrder => Increasing(queue') /\ NeverBack' /\ Ordered(f, queue', Taken')
    BY <1>1 DEF InOrder, NeverBack
  <1>5. Elems(queue') \cup Taken' \cup Held(f) \subseteq Elems(queue) \cup Taken \cup Held(exec[i])
    BY <1>1
  <1>6. ~mixed /\ Clean =>
           /\ Elems(queue') \cup Held(f) \subseteq Elems(queue) \cup Held(exec[i])
           /\ trip = NoTrip => f.pc = "idle" /\ queue' = queue
           /\ f.pc = "wait" => f.to = trip
           /\ \A t \in Trips : \A n \in Elems(got'[t]) : n \in Elems(got[t]) \/ fixTrip[n] = t
           /\ Covered(f, queue', Taken' \cup given')
           /\ Elems(queue) \cup Taken \cup given \cup Held(exec[i])
                \subseteq Elems(queue') \cup Taken' \cup given' \cup Held(f)
    BY <1>1
  <1> QED
    BY <1>1, <1>2, <1>3, <1>4, <1>5, <1>6, ExecStep

\* readQueue: the stored queue becomes what is ahead of the current fix.
LEMMA ReadQueueStep ==
  ASSUME IInv, NEW i \in Instances, ReadQueue(i)
  PROVE  IInv'
  <1> DEFINE e == exec[i]
             f == [pc |-> "post", tasks |-> e.tasks, cur |-> e.cur, todo |-> queue,
                   to |-> e.to, copy |-> e.copy, rest |-> queue # <<>>]
  <1>1. /\ e \in Executors /\ e.pc = "read" /\ queue \in Seq(Fixes) /\ Shape(e)
        /\ e.tasks \in Seq(Fixes)
    BY ListTypes DEF IInv, Shapes, ReadQueue, Step
  <1>2. f \in Executors
    BY <1>1, ListTypes DEF IInv, Executors, PCs
  <1>3. exec' = [exec EXCEPT ![i] = f]
    <2>1. exec' = [exec EXCEPT ![i] = [e EXCEPT !.pc = "post", !.todo = queue,
                                                !.rest = queue # <<>>]]
      BY DEF ReadQueue
    <2>2. ASSUME NEW g, g = [e EXCEPT !.pc = "post", !.todo = queue, !.rest = queue # <<>>]
          PROVE  g = f
      BY <1>1, <2>2 DEF Executors
    <2> QED
      BY <2>1, <2>2
  <1>4. e.cur # 0 /\ e.todo = <<>> /\ e.copy = <<>> /\ ~e.rest
    BY <1>1 DEF Shape
  <1>5. Busy(i) /\ Shape(f)
    BY <1>1, <1>4, EmptyList DEF Busy, Shape, IInv, TypeOK
  <1>6. Held(f) = Held(e) \cup Elems(queue)
    BY <1>4, EmptyList DEF Held
  <1>7. Covered(f, queue, Taken \cup given)
    BY DEF Covered
  <1>8. Clean /\ InOrder => Ordered(f, queue, Taken)
    <2>1. SUFFICES ASSUME Clean, InOrder PROVE Ordered(f, queue, Taken)
      OBVIOUS
    <2>2. Ordered(e, queue, Taken) /\ Increasing(queue)
      BY <1>5, <2>1 DEF InOrder
    <2>3. Ahead(f, queue) = Ahead(e, queue) /\ Current(f) = Current(e)
      BY <1>1, <1>4, EmptyList DEF Ahead, Current
    <2> QED
      BY <1>1, <1>4, <2>2, <2>3 DEF Ordered
  <1>9. ~mixed /\ Clean => trip # NoTrip
    BY <1>1 DEF Clean, Ended
  <1>10. given \subseteq Fixes
    BY DEF IInv, TypeOK
  <1> HIDE DEF f
  <1>11. UNCHANGED <<prefs, disk, call, service, fixTrip, got, mixed, bounds>> /\ given' = given
    BY DEF ReadQueue, ghosts
  <1>12. f.pc = "post"
    BY DEF f
  <1> QED
    BY <1>2, <1>3, <1>5, <1>6, <1>7, <1>8, <1>9, <1>10, <1>11, <1>12, QuietStep

\* An executor whose request failed goes on with the same lists.
Failing(e) ==
  [pc |-> IF e.rest THEN "recheck" ELSE "guard", tasks |-> e.tasks, cur |-> e.cur,
   todo |-> e.todo, to |-> NoTrip, copy |-> e.copy, rest |-> e.rest]

\* A failed request loses nothing and keeps the order.
LEMMA FailingKeeps ==
  ASSUME NEW e \in Executors, Shape(e), e.pc \in {"post", "wait"}
  PROVE  /\ Failing(e) \in Executors /\ Shape(Failing(e)) /\ Failing(e).pc # "wait"
         /\ Held(Failing(e)) = Held(e)
         /\ \A q, g : Covered(e, q, g) => Covered(Failing(e), q, g)
         /\ \A q, T : Ordered(e, q, T) => Ordered(Failing(e), q, T)
  <1> DEFINE f == Failing(e)
  <1>1. /\ f.pc = (IF e.rest THEN "recheck" ELSE "guard") /\ f.tasks = e.tasks
        /\ f.cur = e.cur /\ f.todo = e.todo /\ f.copy = e.copy /\ f.rest = e.rest
        /\ f.to = NoTrip
    BY DEF Failing
  <1>2. f \in Executors
    BY DEF Failing, Executors, PCs, MaybeTrip
  <1> HIDE DEF f
  <1>3. Shape(f)
    BY <1>1 DEF Shape
  <1>4. Held(f) = Held(e)
    BY <1>1 DEF Held
  <1>5. ASSUME NEW q, NEW g, Covered(e, q, g) PROVE Covered(f, q, g)
    BY <1>1, <1>5 DEF Covered
  <1>6. ASSUME NEW q, NEW T, Ordered(e, q, T) PROVE Ordered(f, q, T)
    <2>1. Ahead(f, q) = Ahead(e, q) /\ Current(f) = Current(e)
      BY <1>1 DEF Ahead, Current
    <2> QED
      BY <1>1, <1>6, <2>1 DEF Ordered
  <1> QED
    BY <1>1, <1>2, <1>3, <1>4, <1>5, <1>6 DEF f

\* The step of an executor whose request failed.
LEMMA FailStep ==
  ASSUME IInv, NEW i \in Instances, exec[i].pc \in {"post", "wait"},
         exec' = [exec EXCEPT ![i] = Failing(exec[i])],
         UNCHANGED <<prefs, disk, call, service, ghosts, bounds>>,
         exec[i].pc = "post" => trip = NoTrip
  PROVE  IInv'
  <1> DEFINE e == exec[i]
             f == Failing(e)
  <1>1. e \in Executors /\ Shape(e) /\ Busy(i) /\ given \subseteq Fixes
    BY ListTypes DEF IInv, Shapes, Busy, TypeOK
  <1>2. /\ f \in Executors /\ Shape(f) /\ f.pc # "wait"
        /\ Held(f) = Held(e)
        /\ Covered(e, queue, Taken \cup given) => Covered(f, queue, Taken \cup given)
        /\ Ordered(e, queue, Taken) => Ordered(f, queue, Taken)
    BY <1>1, FailingKeeps
  <1>3. Clean /\ InOrder => Ordered(f, queue, Taken)
    BY <1>1, <1>2 DEF InOrder
  <1>4. ~mixed /\ Clean => Covered(f, queue, Taken \cup given) /\ trip # NoTrip
    BY <1>2 DEF Clean, Coverage, Ended
  <1>5. UNCHANGED <<prefs, disk, call, service, fixTrip, got, mixed, bounds>> /\ given' = given
    BY DEF ghosts
  <1> HIDE DEF f
  <1>6. exec' = [exec EXCEPT ![i] = f]
    BY DEF f
  <1> QED
    BY <1>1, <1>2, <1>3, <1>4, <1>5, <1>6, QuietStep

\* Settling a failed request.
LEMMA FailSettles ==
  ASSUME NEW i \in Instances, exec[i] \in Executors,
         Settle(i, Failed(exec[i]))
  PROVE  exec' = [exec EXCEPT ![i] = Failing(exec[i])]
  <1> DEFINE e == exec[i]
  <1>1. Failed(e).pc # "done"
    BY DEF Failed, Executors
  <1>2. ASSUME NEW g, g = [Failed(e) EXCEPT !.to = NoTrip] PROVE g = Failing(e)
    <2>1. PICK h : h = Failed(e)
      OBVIOUS
    <2> QED
      BY <1>2, <2>1 DEF Failed, Failing, Executors
  <1> QED
    BY <1>1, <1>2 DEF Settle

\* The request is opened for the saved trip, or fails for want of one.
LEMMA OpenRequestStep ==
  ASSUME IInv, NEW i \in Instances, OpenRequest(i)
  PROVE  IInv'
  <1> DEFINE e == exec[i]
             f == [pc |-> "wait", tasks |-> e.tasks, cur |-> e.cur, todo |-> e.todo,
                   to |-> trip, copy |-> e.copy, rest |-> e.rest]
  <1>1. /\ e \in Executors /\ e.pc = "post" /\ Shape(e) /\ Busy(i)
        /\ trip \in MaybeTrip /\ given \subseteq Fixes
    BY ListTypes DEF IInv, Shapes, OpenRequest, Step, Busy, TypeOK
  <1>2. CASE trip = NoTrip
    <2>1. Settle(i, Failed(e)) /\ UNCHANGED <<prefs, disk, call, service, ghosts, bounds>>
      BY <1>2 DEF OpenRequest
    <2> QED
      BY <1>1, <1>2, <2>1, FailSettles, FailStep
  <1>3. CASE trip # NoTrip
    <2>1. f \in Executors /\ trip \in Trips
      BY <1>1, <1>3 DEF Executors, PCs, MaybeTrip
    <2>2. exec' = [exec EXCEPT ![i] = f]
      <3>1. exec' = [exec EXCEPT ![i] = [e EXCEPT !.pc = "wait", !.to = trip]]
        BY <1>3 DEF OpenRequest
      <3>2. ASSUME NEW g, g = [e EXCEPT !.pc = "wait", !.to = trip] PROVE g = f
        BY <1>1, <3>2 DEF Executors
      <3> QED
        BY <3>1, <3>2
    <2>3. Shape(f)
      BY <1>1 DEF Shape
    <2>4. Held(f) = Held(e)
      BY DEF Held
    <2>5. ~mixed /\ Clean => Covered(f, queue, Taken \cup given)
      BY <1>1 DEF Clean, Coverage, Covered
    <2>6. Clean /\ InOrder => Ordered(f, queue, Taken)
      <3>1. SUFFICES ASSUME Ordered(e, queue, Taken) PROVE Ordered(f, queue, Taken)
        BY <1>1 DEF InOrder
      <3>2. Ahead(f, queue) = Ahead(e, queue) /\ Current(f) = Current(e)
        BY <1>1 DEF Ahead, Current
      <3> QED
        BY <1>1, <3>1, <3>2 DEF Ordered
    <2>7. UNCHANGED <<prefs, disk, call, service, fixTrip, got, mixed, bounds>> /\ given' = given
      BY DEF OpenRequest, ghosts
    <2>8. f.to = trip
      OBVIOUS
    <2> HIDE DEF f
    <2> QED
      BY <1>1, <1>3, <2>1, <2>2, <2>3, <2>4, <2>5, <2>6, <2>7, <2>8, QuietStep
  <1> QED
    BY <1>2, <1>3

\* A refused request is a failed one.
LEMMA RefusedStep ==
  ASSUME IInv, NEW i \in Instances, Refused(i)
  PROVE  IInv'
  <1>1. exec[i] \in Executors /\ exec[i].pc = "wait"
    BY ListTypes DEF IInv, Refused, Step
  <1> QED
    BY <1>1, FailSettles, FailStep DEF Refused

\* What a request is about is the first of what is ahead.
LEMMA PostingIsNext ==
  ASSUME NEW e \in Executors, Shape(e), e.pc = "wait"
  PROVE  /\ Posting(e) \in Fixes /\ Posting(e) \in Held(e)
         /\ \A q, T : Ordered(e, q, T) => UpTo(T, {Posting(e)}) /\ Ordered(e, q, T \cup {Posting(e)})
  <1>1. /\ e.todo \in Seq(Fixes) /\ e.tasks \in Seq(Fixes) /\ e.copy \in Seq(Fixes)
        /\ e.cur \in 0..MaxWork /\ e.rest \in BOOLEAN
    BY DEF Executors
  <1>2. CASE e.rest
    <2>1. /\ e.todo # <<>> /\ e.copy = <<>> /\ Posting(e) = Head(e.todo)
      BY <1>2 DEF Shape, Posting
    <2>2. Posting(e) \in Fixes /\ Elems(e.todo) = {Posting(e)} \cup Elems(Tail(e.todo))
      BY <1>1, <2>1, TailList
    <2>3. Elems(e.todo) \subseteq Fixes /\ Elems(e.tasks) \subseteq Fixes /\ Elems(e.copy) = {}
      BY <1>1, <2>1, ListOf, EmptyList
    <2>4. ASSUME NEW q, NEW T, Ordered(e, q, T)
          PROVE  UpTo(T, {Posting(e)}) /\ Ordered(e, q, T \cup {Posting(e)})
      <3>1. Ahead(e, q) = Elems(e.todo)
        BY <1>2, <2>3 DEF Ahead
      <3>2. UpTo(T, {Posting(e)})
        BY <2>2, <2>4, <3>1 DEF Ordered, UpTo
      <3>3. Before({Posting(e)}, Elems(Tail(e.todo)))
        BY <1>1, <2>1, <2>4, TailList, FixesAreNumbers DEF Ordered
      <3>4. UpTo({Posting(e)}, Elems(e.todo))
        <4>1. Elems(Tail(e.todo)) \subseteq Int /\ {Posting(e)} \subseteq Int
          BY <2>2, <2>3, FixesAreNumbers
        <4>2. UpTo({Posting(e)}, Elems(Tail(e.todo)))
          BY <3>3, <4>1, BeforeIsUpTo
        <4>3. Posting(e) <= Posting(e)
          BY <4>1
        <4> QED
          BY <2>2, <4>2, <4>3 DEF UpTo
      <3>5. UpTo({Posting(e)}, Current(e) \cup Elems(e.tasks))
        <4>1. e.cur \in Int
          BY <1>1, TripAssumption
        <4>2. Current(e) \cup Elems(e.tasks) \subseteq Int /\ {Posting(e)} \subseteq Int
          BY <2>2, <2>3, <4>1, FixesAreNumbers DEF Current
        <4>3. Before({Posting(e)}, Current(e) \cup Elems(e.tasks))
          BY <2>2, <2>4, <3>1 DEF Ordered, Before
        <4> QED
          BY <4>2, <4>3, BeforeIsUpTo
      <3>6. UpTo(T \cup {Posting(e)}, Ahead(e, q) \cup Current(e) \cup Elems(e.tasks))
        BY <2>4, <3>1, <3>4, <3>5 DEF Ordered, UpTo
      <3> QED
        BY <2>4, <3>2, <3>6 DEF Ordered
    <2> QED
      BY <2>2, <2>4 DEF Held
  <1>3. CASE ~e.rest
    <2>1. Posting(e) = e.cur /\ e.cur \in Fixes
      BY <1>1, <1>3 DEF Shape, Posting, Fixes
    <2>2. Posting(e) \in Held(e) /\ Current(e) = {e.cur}
      BY <2>1, FixesAreNumbers DEF Held, Current
    <2>3. ASSUME NEW q, NEW T, Ordered(e, q, T)
          PROVE  UpTo(T, {Posting(e)}) /\ Ordered(e, q, T \cup {Posting(e)})
      <3>1. Ahead(e, q) = {}
        BY <1>3, <2>3, EmptyList DEF Ahead, Ordered
      <3>2. UpTo(T, {Posting(e)})
        BY <2>1, <2>2, <2>3 DEF Ordered, UpTo
      <3>3. UpTo({e.cur}, Current(e) \cup Elems(e.tasks))
        <4>1. Elems(e.tasks) \subseteq Int /\ {e.cur} \subseteq Int
          BY <1>1, <2>1, ListOf, FixesAreNumbers
        <4>2. Before({e.cur}, Elems(e.tasks))
          BY <2>2, <2>3 DEF Ordered, Before
        <4>3. UpTo({e.cur}, Elems(e.tasks)) /\ e.cur <= e.cur
          BY <4>1, <4>2, BeforeIsUpTo
        <4> QED
          BY <2>2, <4>3 DEF UpTo
      <3>4. UpTo(T \cup {Posting(e)}, Ahead(e, q) \cup Current(e) \cup Elems(e.tasks))
        BY <2>1, <2>3, <3>1, <3>3 DEF Ordered, UpTo
      <3> QED
        BY <2>3, <3>2, <3>4 DEF Ordered
    <2> QED
      BY <2>1, <2>2, <2>3
  <1> QED
    BY <1>2, <1>3

\* What the backend holds after it took fix x of trip t.
LEMMA TakenGrows ==
  ASSUME TypeOK, NEW t \in Trips, NEW x \in Fixes,
         got' = [got EXCEPT ![t] = Append(@, x)]
  PROVE  /\ got' \in [Trips -> Seq(Fixes)]
         /\ Taken' = Taken \cup {x}
         /\ \A u \in Trips : \A n \in Elems(got'[u]) : n \in Elems(got[u]) \/ (u = t /\ n = x)
         /\ NeverBack /\ UpTo(Taken, {x}) => NeverBack'
  <1>1. got \in [Trips -> Seq(Fixes)]
    BY DEF TypeOK
  <1>2. \A u \in Trips : got'[u] = IF u = t THEN Append(got[t], x) ELSE got[u]
    BY <1>1
  <1>3. /\ got[t] \in Seq(Fixes) /\ got'[t] = Append(got[t], x)
        /\ Elems(got'[t]) = Elems(got[t]) \cup {x}
    <2>1. got[t] \in Seq(Fixes) /\ got'[t] = Append(got[t], x)
      BY <1>1, <1>2
    <2> QED
      BY <2>1, AppendElems
  <1>4. got' \in [Trips -> Seq(Fixes)]
    BY <1>1, <1>3
  <1>5. \A u \in Trips : \A n \in Elems(got'[u]) : n \in Elems(got[u]) \/ (u = t /\ n = x)
    BY <1>2, <1>3
  <1>6. Taken' = Taken \cup {x}
    <2>1. Taken' \subseteq Taken \cup {x}
      BY <1>5 DEF Taken
    <2>2. \A u \in Trips : Elems(got[u]) \subseteq Elems(got'[u])
      BY <1>2, <1>3
    <2>3. x \in Taken' /\ Taken \subseteq Taken'
      BY <1>3, <2>2 DEF Taken
    <2> QED
      BY <2>1, <2>3
  <1>7. ASSUME NeverBack, UpTo(Taken, {x}) PROVE NeverBack'
    <2>1. ASSUME NEW k \in 1..(Len(got'[t]) - 1) PROVE got'[t][k] <= got'[t][k + 1]
      <3>1. /\ Len(got'[t]) = Len(got[t]) + 1 /\ Len(got[t]) \in Nat
            /\ got'[t][Len(got[t]) + 1] = x
            /\ \A n \in 1..Len(got[t]) : got'[t][n] = got[t][n]
            /\ DOMAIN got[t] = 1..Len(got[t])
        BY <1>3, AppendFields
      <3>2. CASE k = Len(got[t])
        <4>1. got'[t][k] \in Elems(got[t])
          BY <3>1, <3>2, <2>1 DEF Elems
        <4> QED
          BY <1>7, <3>1, <3>2, <4>1 DEF Taken, UpTo
      <3>3. CASE k # Len(got[t])
        <4>1. k \in 1..(Len(got[t]) - 1)
          BY <2>1, <3>1, <3>3
        <4> QED
          BY <1>7, <3>1, <4>1 DEF NeverBack
      <3> QED
        BY <3>2, <3>3
    <2> QED
      BY <1>2, <1>7, <2>1 DEF NeverBack
  <1> QED
    BY <1>4, <1>5, <1>6, <1>7

\* The backend takes the fix, and the executor becomes f.
LEMMA TakeStep ==
  ASSUME IInv, NEW i \in Instances, NEW f \in Executors, exec[i].pc = "wait",
         exec' = [exec EXCEPT ![i] = f],
         got' = [got EXCEPT ![exec[i].to] = Append(@, Posting(exec[i]))],
         UNCHANGED <<prefs, disk, call, service, fixTrip, given, mixed, bounds>>,
         Shape(f), f.pc # "wait", Held(f) \subseteq Held(exec[i]),
         Held(exec[i]) \subseteq Held(f) \cup {Posting(exec[i])},
         \A g : Covered(exec[i], queue, g) => Covered(f, queue, g \cup {Posting(exec[i])}),
         \A T : Ordered(exec[i], queue, T) => Ordered(f, queue, T)
  PROVE  IInv'
  <1>1. PICK e \in Executors : e = exec[i]
    BY ListTypes DEF IInv
  <1>2. PICK x : x = Posting(e)
    OBVIOUS
  <1>3. /\ e.pc = "wait" /\ Shape(e) /\ e.to \in Trips /\ Busy(i)
    BY <1>1 DEF IInv, Shapes, TypeOK, Busy
  <1>4. /\ x \in Fixes /\ x \in Held(e)
        /\ \A q, T : Ordered(e, q, T) => UpTo(T, {x}) /\ Ordered(e, q, T \cup {x})
    BY <1>2, <1>3, PostingIsNext
  <1>5. got' = [got EXCEPT ![e.to] = Append(@, x)]
    BY <1>1, <1>2
  <1>6. /\ got' \in [Trips -> Seq(Fixes)] /\ Taken' = Taken \cup {x}
        /\ \A u \in Trips : \A n \in Elems(got'[u]) : n \in Elems(got[u]) \/ (u = e.to /\ n = x)
        /\ NeverBack /\ UpTo(Taken, {x}) => NeverBack'
    BY <1>3, <1>4, <1>5, TakenGrows DEF IInv
  <1>7. /\ queue' = queue /\ queue \in Seq(Fixes) /\ Len(queue) <= MaxQueue
        /\ given' = given /\ given \subseteq Fixes
    BY DEF prefs, IInv, TypeOK
  <1>8. UNCHANGED <<trip, disk, call, service, fixTrip, mixed, bounds>>
    BY DEF prefs
  <1>9. Elems(queue') \cup Taken' \cup Held(f) \subseteq Elems(queue) \cup Taken \cup Held(exec[i])
    BY <1>1, <1>4, <1>6, <1>7
  <1>10. ASSUME Clean
         PROVE  /\ trip # NoTrip
                /\ \A t \in Trips : \A n \in Elems(got'[t]) : n \in Elems(got[t]) \/ fixTrip[n] = t
                /\ Covered(f, queue', Taken' \cup given')
    <2>1. trip # NoTrip /\ e.to = trip /\ fixTrip[x] = trip
      BY <1>1, <1>3, <1>4, <1>10 DEF Clean, Ended, Owned
    <2>2. Covered(f, queue, (Taken \cup given) \cup {x})
      BY <1>1, <1>2, <1>10 DEF Clean, Coverage
    <2>3. (Taken \cup given) \cup {x} = Taken' \cup given'
      BY <1>6, <1>7
    <2> QED
      BY <1>6, <1>7, <2>1, <2>2, <2>3
  <1>11. ASSUME Clean
         PROVE  Elems(queue) \cup Taken \cup given \cup Held(exec[i])
                  \subseteq Elems(queue') \cup Taken' \cup given' \cup Held(f)
    BY <1>1, <1>2, <1>6, <1>7
  <1>12. ASSUME Clean, InOrder
         PROVE  Increasing(queue') /\ NeverBack' /\ Ordered(f, queue', Taken')
    <2>1. Ordered(e, queue, Taken) /\ Increasing(queue) /\ NeverBack
      BY <1>1, <1>3, <1>12 DEF InOrder
    <2>2. Ordered(f, queue, Taken \cup {x}) /\ UpTo(Taken, {x})
      BY <1>1, <1>4, <2>1
    <2> QED
      BY <1>6, <1>7, <2>1, <2>2
  <1>13. ~mixed /\ Clean =>
           /\ Elems(queue') \cup Held(f) \subseteq Elems(queue) \cup Held(exec[i])
           /\ trip = NoTrip => f.pc = "idle" /\ queue' = queue
           /\ f.pc = "wait" => f.to = trip
           /\ \A t \in Trips : \A n \in Elems(got'[t]) : n \in Elems(got[t]) \/ fixTrip[n] = t
           /\ Covered(f, queue', Taken' \cup given')
           /\ Elems(queue) \cup Taken \cup given \cup Held(exec[i])
                \subseteq Elems(queue') \cup Taken' \cup given' \cup Held(f)
    BY <1>7, <1>10, <1>11
  <1> QED
    BY <1>3, <1>6, <1>7, <1>8, <1>9, <1>12, <1>13, ExecStep

\* An executor whose task has ended.
Resting(e) ==
  [pc |-> "idle", tasks |-> e.tasks, cur |-> 0, todo |-> <<>>, to |-> NoTrip,
   copy |-> <<>>, rest |-> FALSE]

\* What an executor without a task holds.
LEMMA RestingKeeps ==
  ASSUME NEW e \in Executors
  PROVE  /\ Resting(e) \in Executors /\ Shape(Resting(e))
         /\ Held(Resting(e)) = Elems(e.tasks)
         /\ \A q, g : Covered(Resting(e), q, g)
         /\ \A q : Ahead(Resting(e), q) = Elems(q)
         /\ Current(Resting(e)) = {}
         /\ Resting(e).pc = "idle" /\ Resting(e).tasks = e.tasks
         /\ Resting(e).todo = <<>> /\ Resting(e).copy = <<>>
  <1> DEFINE f == Resting(e)
  <1>1. /\ f.pc = "idle" /\ f.tasks = e.tasks /\ f.cur = 0 /\ f.todo = <<>>
        /\ f.copy = <<>> /\ ~f.rest
    BY DEF Resting
  <1>2. f \in Executors
    BY TripAssumption DEF Resting, Executors, PCs, MaybeTrip
  <1> HIDE DEF f
  <1>3. Shape(f) /\ Held(f) = Elems(e.tasks) /\ (\A q, g : Covered(f, q, g))
    BY <1>1, EmptyList DEF Shape, Held, Covered
  <1>4. (\A q : Ahead(f, q) = Elems(q)) /\ Current(f) = {}
    BY <1>1 DEF Ahead, Current
  <1> QED
    BY <1>1, <1>2, <1>3, <1>4 DEF f

\* Return(i) is the executor without its task.
LEMMA ReturnRests ==
  ASSUME NEW i, exec[i] \in Executors
  PROVE  Return(i) = Resting(exec[i])
  <1>1. ASSUME NEW g, g = Return(i) PROVE g = Resting(exec[i])
    BY <1>1 DEF Return, Resting, Executors
  <1> QED
    BY <1>1

\* The queued fix that was posted leaves the executor's list.
Advanced(e) ==
  [pc |-> IF Len(e.todo) = 1 THEN "recheck" ELSE "post", tasks |-> e.tasks,
   cur |-> e.cur, todo |-> Tail(e.todo), to |-> NoTrip, copy |-> e.copy, rest |-> e.rest]

\* A posted fix that leaves the list is all that the executor no longer holds.
LEMMA AdvancedKeeps ==
  ASSUME NEW e \in Executors, Shape(e), e.pc = "wait", e.rest
  PROVE  /\ Advanced(e) \in Executors /\ Shape(Advanced(e)) /\ Advanced(e).pc # "wait"
         /\ Held(Advanced(e)) \subseteq Held(e)
         /\ Held(e) \subseteq Held(Advanced(e)) \cup {Posting(e)}
         /\ \A q, g : Covered(e, q, g) => Covered(Advanced(e), q, g \cup {Posting(e)})
         /\ \A q, T : Ordered(e, q, T) => Ordered(Advanced(e), q, T)
  <1> DEFINE f == Advanced(e)
  <1>1. /\ f.pc = (IF Len(e.todo) = 1 THEN "recheck" ELSE "post") /\ f.tasks = e.tasks
        /\ f.cur = e.cur /\ f.todo = Tail(e.todo) /\ f.copy = e.copy /\ f.rest = e.rest
    BY DEF Advanced
  <1>2. e.todo \in Seq(Fixes) /\ e.todo # <<>> /\ e.copy = <<>> /\ Posting(e) = Head(e.todo)
    BY DEF Executors, Shape, Posting
  <1>3. /\ Tail(e.todo) \in Seq(Fixes) /\ Elems(e.todo) = {Posting(e)} \cup Elems(Tail(e.todo))
        /\ Increasing(e.todo) => Increasing(Tail(e.todo))
    BY <1>2, TailList, FixesAreNumbers
  <1>4. /\ Len(e.todo) # 1 => Tail(e.todo) # <<>>
        /\ Len(Tail(e.todo)) <= MaxQueue
    <2>1. Len(e.todo) \in Nat /\ Len(e.todo) <= MaxQueue /\ MaxQueue \in Nat
      BY <1>2, TripAssumption DEF Shape
    <2>2. PICK s \in Seq(Fixes) : s = e.todo /\ s # <<>>
      BY <1>2
    <2>3. Len(Tail(s)) = Len(s) - 1 /\ (Len(s) # 1 => Tail(s) # <<>>)
      BY <2>2, TailList
    <2> QED
      BY <2>1, <2>2, <2>3
  <1>5. f \in Executors
    BY <1>3 DEF Advanced, Executors, PCs, MaybeTrip
  <1> HIDE DEF f
  <1>6. Shape(f)
    BY <1>1, <1>2, <1>4 DEF Shape
  <1>7. Held(f) \subseteq Held(e) /\ Held(e) \subseteq Held(f) \cup {Posting(e)}
    BY <1>1, <1>3 DEF Held
  <1>8. ASSUME NEW q, NEW g, Covered(e, q, g) PROVE Covered(f, q, g \cup {Posting(e)})
    BY <1>1, <1>3, <1>8 DEF Covered
  <1>9. ASSUME NEW q, NEW T, Ordered(e, q, T) PROVE Ordered(f, q, T)
    <2>1. Ahead(f, q) \subseteq Ahead(e, q) /\ Current(f) = Current(e)
      BY <1>1, <1>3 DEF Ahead, Current
    <2> QED
      BY <1>1, <1>3, <1>9, <2>1 DEF Ordered, UpTo, Before
  <1> QED
    BY <1>1, <1>5, <1>6, <1>7, <1>8, <1>9 DEF f

\* The backend takes a fix; the executor goes on, returns or has failed.
LEMMA ReceivedStep ==
  ASSUME IInv, NEW i \in Instances, NEW answered \in BOOLEAN, Received(i, answered)
  PROVE  IInv'
  <1>1. PICK e \in Executors : e = exec[i]
    BY ListTypes DEF IInv
  <1>2. e.pc = "wait" /\ Shape(e)
    BY <1>1 DEF IInv, Shapes, Received, Step
  <1>3. /\ got' = [got EXCEPT ![exec[i].to] = Append(@, Posting(exec[i]))]
        /\ UNCHANGED <<prefs, disk, call, service, fixTrip, given, mixed, bounds>>
    BY DEF Received
  <1>4. CASE ~answered
    <2>1. exec' = [exec EXCEPT ![i] = Failing(exec[i])]
      BY <1>1, <1>4, FailSettles DEF Received
    <2>2. PICK f \in Executors : f = Failing(e)
      BY <1>2, FailingKeeps
    <2>3. /\ Shape(f) /\ f.pc # "wait" /\ Held(f) = Held(e)
          /\ \A q, g : Covered(e, q, g) => Covered(f, q, g)
          /\ \A q, T : Ordered(e, q, T) => Ordered(f, q, T)
      BY <1>2, <2>2, FailingKeeps
    <2>4. \A q, g : Covered(f, q, g) => Covered(f, q, g \cup {Posting(e)})
      BY DEF Covered
    <2> QED
      BY <1>1, <1>2, <1>3, <2>1, <2>2, <2>3, <2>4, TakeStep
  <1>5. CASE answered /\ e.rest
    <2>1. exec' = [exec EXCEPT ![i] = Advanced(e)]
      <3>1. PICK h : h = Succeeded(e)
        OBVIOUS
      <3>2. /\ h = [e EXCEPT !.todo = Tail(@),
                             !.pc = IF Len(e.todo) = 1 THEN "recheck" ELSE "post"]
            /\ exec' = [exec EXCEPT ![i] = IF h.pc = "done" THEN Return(i)
                                           ELSE [h EXCEPT !.to = NoTrip]]
        BY <1>1, <1>5, <3>1 DEF Received, Settle, Succeeded
      <3>3. h.pc # "done"
        BY <3>2 DEF Executors
      <3>4. ASSUME NEW g, g = [h EXCEPT !.to = NoTrip] PROVE g = Advanced(e)
        BY <3>2, <3>4 DEF Advanced, Executors
      <3> QED
        BY <3>2, <3>3, <3>4
    <2>2. PICK f \in Executors : f = Advanced(e)
      BY <1>2, <1>5, AdvancedKeeps
    <2>3. /\ Shape(f) /\ f.pc # "wait" /\ Held(f) \subseteq Held(e)
          /\ Held(e) \subseteq Held(f) \cup {Posting(e)}
          /\ \A q, g : Covered(e, q, g) => Covered(f, q, g \cup {Posting(e)})
          /\ \A q, T : Ordered(e, q, T) => Ordered(f, q, T)
      BY <1>2, <1>5, <2>2, AdvancedKeeps
    <2> QED
      BY <1>1, <1>2, <1>3, <2>1, <2>2, <2>3, TakeStep
  <1>6. CASE answered /\ ~e.rest
    <2>1. exec' = [exec EXCEPT ![i] = Resting(e)]
      <3>1. PICK h : h = Succeeded(e)
        OBVIOUS
      <3>2. /\ h = [e EXCEPT !.pc = "done"]
            /\ exec' = [exec EXCEPT ![i] = IF h.pc = "done" THEN Return(i)
                                           ELSE [h EXCEPT !.to = NoTrip]]
        BY <1>1, <1>6, <3>1 DEF Received, Settle, Succeeded
      <3>3. h.pc = "done"
        BY <3>2 DEF Executors
      <3> QED
        BY <1>1, <3>2, <3>3, ReturnRests
    <2>2. PICK f \in Executors : f = Resting(e)
      BY RestingKeeps
    <2>3. /\ Shape(f) /\ Held(f) = Elems(e.tasks) /\ f.pc = "idle" /\ f.tasks = e.tasks
          /\ f.todo = <<>> /\ f.copy = <<>>
          /\ \A q, g : Covered(f, q, g)
          /\ (\A q : Ahead(f, q) = Elems(q)) /\ Current(f) = {}
      BY <2>2, RestingKeeps
    <2>4. Held(f) \subseteq Held(e) /\ Held(e) \subseteq Held(f) \cup {Posting(e)}
      <3>1. e.todo = <<>> /\ e.copy = <<>> /\ Posting(e) = e.cur
        BY <1>2, <1>6 DEF Shape, Posting
      <3> QED
        BY <2>3, <3>1, EmptyList DEF Held
    <2>5. ASSUME NEW T, Ordered(e, queue, T) PROVE Ordered(f, queue, T)
      <3>1. Ahead(e, queue) = Elems(queue) /\ queue = <<>>
        BY <1>2, <1>6, <2>5 DEF Ahead, Ordered
      <3> QED
        BY <2>3, <2>5, <3>1, EmptyList DEF Ordered, UpTo, Before
    <2> QED
      BY <1>1, <1>2, <1>3, <2>1, <2>2, <2>3, <2>4, <2>5, TakeStep
  <1> QED
    BY <1>4, <1>5, <1>6

\* A task that ends because the trip has: what it held is given up.
LEMMA AbandonStep ==
  ASSUME IInv, NEW i \in Instances, exec[i].pc # "idle", trip = NoTrip,
         exec' = [exec EXCEPT ![i] = Return(i)],
         Shape(exec[i]), exec[i].copy = <<>>,
         given' = given \cup Elems(exec[i].todo) \cup {exec[i].cur},
         UNCHANGED <<prefs, disk, call, service, fixTrip, got, mixed, bounds>>
  PROVE  IInv'
  <1>1. PICK e \in Executors : e = exec[i]
    BY ListTypes DEF IInv
  <1>2. PICK f \in Executors : f = Resting(e)
    BY RestingKeeps
  <1>3. /\ Shape(f) /\ Held(f) = Elems(e.tasks) /\ f.pc = "idle"
        /\ \A q, g : Covered(f, q, g)
    BY <1>2, RestingKeeps
  <1>4. e.todo \in Seq(Fixes) /\ e.cur \in Fixes /\ given \subseteq Fixes
    BY <1>1 DEF Executors, Shape, Fixes, IInv, TypeOK
  <1>5. given \subseteq given' /\ given' \subseteq Fixes
    BY <1>1, <1>4, ListOf
  <1>6. Held(f) \subseteq Held(e) /\ Held(e) \subseteq given' \cup Held(f)
    BY <1>1, <1>3, EmptyList DEF Held
  <1>7. ~Clean
    BY DEF Clean, Ended
  <1>8. exec' = [exec EXCEPT ![i] = f] /\ Busy(i)
    BY <1>1, <1>2, ReturnRests DEF Busy
  <1> QED
    BY <1>1, <1>3, <1>5, <1>6, <1>7, <1>8, QuietStep

\* The remains of the queue are ready to be written, or the task ends.
LEMMA RecheckStep ==
  ASSUME IInv, NEW i \in Instances, Recheck(i)
  PROVE  IInv'
  <1>1. PICK e \in Executors : e = exec[i]
    BY ListTypes DEF IInv
  <1>2. /\ e.pc = "recheck" /\ Shape(e) /\ e.copy = <<>> /\ e.rest /\ Busy(i)
        /\ given \subseteq Fixes /\ e.todo \in Seq(Fixes)
    BY <1>1 DEF IInv, Shapes, Recheck, Step, Shape, Busy, TypeOK, Executors
  <1>3. CASE trip = NoTrip
    BY <1>1, <1>2, <1>3, AbandonStep DEF Recheck
  <1>4. CASE trip # NoTrip
    <2> DEFINE f == [pc |-> "store", tasks |-> e.tasks, cur |-> e.cur, todo |-> <<>>,
                     to |-> e.to, copy |-> e.todo, rest |-> e.rest]
    <2>1. f \in Executors
      BY <1>2 DEF Executors, PCs
    <2>2. exec' = [exec EXCEPT ![i] = f]
      <3>1. exec' = [exec EXCEPT ![i] = [e EXCEPT !.pc = "store", !.copy = e.todo,
                                                  !.todo = <<>>]]
        BY <1>1, <1>4 DEF Recheck
      <3>2. ASSUME NEW g, g = [e EXCEPT !.pc = "store", !.copy = e.todo, !.todo = <<>>]
            PROVE  g = f
        BY <3>2 DEF Executors
      <3> QED
        BY <3>1, <3>2
    <2>3. Shape(f)
      BY <1>2 DEF Shape
    <2>4. Held(f) = Held(e)
      BY <1>2, EmptyList DEF Held
    <2>5. \A g : Covered(e, queue, g) => Covered(f, queue, g)
      BY <1>2, EmptyList DEF Covered
    <2>6. Ordered(e, queue, Taken) => Ordered(f, queue, Taken)
      <3>1. Ahead(f, queue) = Ahead(e, queue) /\ Current(f) = Current(e)
        BY <1>2, EmptyList DEF Ahead, Current
      <3> QED
        BY <1>2, <3>1, EmptyList DEF Ordered
    <2>7. UNCHANGED <<prefs, disk, call, service, fixTrip, got, mixed, bounds>> /\ given' = given
      BY <1>4 DEF Recheck
    <2>8. f.pc = "store"
      OBVIOUS
    <2> HIDE DEF f
    <2>9. ~mixed /\ Clean => Covered(f, queue, Taken \cup given)
      BY <1>1, <2>5 DEF Clean, Coverage
    <2>10. Clean /\ InOrder => Ordered(f, queue, Taken)
      BY <1>1, <1>2, <2>6 DEF InOrder
    <2> QED
      BY <1>1, <1>2, <1>4, <2>1, <2>2, <2>3, <2>4, <2>7, <2>8, <2>9, <2>10, QuietStep
  <1> QED
    BY <1>3, <1>4

\* The current fix failed: it is about to be queued, or the task ends.
LEMMA GuardStep ==
  ASSUME IInv, NEW i \in Instances, Guard(i)
  PROVE  IInv'
  <1>1. PICK e \in Executors : e = exec[i]
    BY ListTypes DEF IInv
  <1>2. /\ e.pc = "guard" /\ Shape(e) /\ e.copy = <<>> /\ e.todo = <<>> /\ ~e.rest /\ Busy(i)
        /\ given \subseteq Fixes
    BY <1>1 DEF IInv, Shapes, Guard, Step, Shape, Busy, TypeOK
  <1>3. CASE trip = NoTrip
    <2>1. given' = given \cup Elems(e.todo) \cup {e.cur}
      BY <1>1, <1>2, <1>3, EmptyList DEF Guard
    <2> QED
      BY <1>1, <1>2, <1>3, <2>1, AbandonStep DEF Guard
  <1>4. CASE trip # NoTrip
    <2> DEFINE f == [pc |-> "enqueue", tasks |-> e.tasks, cur |-> e.cur, todo |-> e.todo,
                     to |-> e.to, copy |-> e.copy, rest |-> e.rest]
    <2>1. f \in Executors
      BY DEF Executors, PCs
    <2>2. exec' = [exec EXCEPT ![i] = f]
      <3>1. exec' = [exec EXCEPT ![i] = [e EXCEPT !.pc = "enqueue"]]
        BY <1>1, <1>4 DEF Guard
      <3>2. ASSUME NEW g, g = [e EXCEPT !.pc = "enqueue"] PROVE g = f
        BY <3>2 DEF Executors
      <3> QED
        BY <3>1, <3>2
    <2>3. Shape(f)
      BY <1>2 DEF Shape
    <2>4. Held(f) = Held(e)
      BY DEF Held
    <2>5. \A g : Covered(f, queue, g)
      BY <1>2 DEF Covered
    <2>6. Ordered(e, queue, Taken) => Ordered(f, queue, Taken)
      <3>1. Ahead(f, queue) = Ahead(e, queue) /\ Current(f) = Current(e)
        BY <1>2 DEF Ahead, Current
      <3> QED
        BY <1>2, <3>1 DEF Ordered
    <2>7. UNCHANGED <<prefs, disk, call, service, fixTrip, got, mixed, bounds>> /\ given' = given
      BY <1>4 DEF Guard
    <2>8. f.pc = "enqueue"
      OBVIOUS
    <2> HIDE DEF f
    <2>9. Clean /\ InOrder => Ordered(f, queue, Taken)
      BY <1>1, <1>2, <2>6 DEF InOrder
    <2> QED
      BY <1>1, <1>2, <1>4, <2>1, <2>2, <2>3, <2>4, <2>5, <2>7, <2>8, <2>9, QuietStep
  <1> QED
    BY <1>3, <1>4

\* enqueue: the copy holds the youngest fixes of the queue and the current one;
\* the others are given up.
LEMMA EnqueueStep ==
  ASSUME IInv, NEW i \in Instances, Enqueue(i)
  PROVE  IInv'
  <1>1. PICK e \in Executors : e = exec[i]
    BY ListTypes DEF IInv
  <1>2. /\ e.pc = "enqueue" /\ Shape(e) /\ e.copy = <<>> /\ e.todo = <<>> /\ ~e.rest /\ Busy(i)
        /\ e.cur \in Fixes /\ given \subseteq Fixes
        /\ queue \in Seq(Fixes) /\ Len(queue) <= MaxQueue
    <2>1. e.pc = "enqueue" /\ Shape(e) /\ Busy(i)
      BY <1>1 DEF IInv, Shapes, Enqueue, Step, Busy
    <2>2. e.copy = <<>> /\ e.todo = <<>> /\ ~e.rest /\ e.cur # 0
      BY <2>1 DEF Shape
    <2>3. e.cur \in Fixes
      BY <2>2 DEF Executors, Fixes
    <2> QED
      BY <2>1, <2>2, <2>3 DEF IInv, TypeOK
  <1> DEFINE all == Append(queue, e.cur)
             copy == SubSeq(all, Over + 1, Len(all))
             f == [pc |-> "store", tasks |-> e.tasks, cur |-> e.cur, todo |-> e.todo,
                   to |-> e.to, copy |-> copy, rest |-> e.rest]
  <1>3. all \in Seq(Fixes) /\ Over \in 0..Len(all) /\ Elems(all) = Elems(queue) \cup {e.cur}
    <2>1. Len(queue) \in Nat /\ Len(all) = Len(queue) + 1 /\ all \in Seq(Fixes)
      BY <1>2
    <2>2. Over \in 0..(Len(queue) + 1)
      BY <1>2, <2>1, TripAssumption DEF Over
    <2>3. Elems(all) = Elems(queue) \cup {e.cur}
      BY <1>2, AppendElems
    <2> QED
      BY <2>1, <2>2, <2>3
  <1>4. /\ copy \in Seq(Fixes)
        /\ Elems(all) = Elems(copy) \cup {all[k] : k \in 1..Over}
        /\ Increasing(all) => Increasing(copy)
    BY <1>3, SuffixList, FixesAreNumbers
  <1>5. Len(copy) <= MaxQueue
    <2>1. Len(copy) = Len(all) - Over /\ Len(all) = Len(queue) + 1 /\ Len(queue) \in Nat
      BY <1>2, <1>3, SuffixList
    <2> HIDE DEF all, copy
    <2> QED
      BY <1>2, <2>1, TripAssumption DEF Over
  <1>6. given' = given \cup {all[k] : k \in 1..Over}
    BY <1>1 DEF Enqueue
  <1>7. exec' = [exec EXCEPT ![i] = f]
    <2>1. exec' = [exec EXCEPT ![i] = [e EXCEPT !.pc = "store", !.copy = copy]]
      BY <1>1 DEF Enqueue
    <2>2. PICK c : c = copy
      OBVIOUS
    <2>3. ASSUME NEW g, g = [e EXCEPT !.pc = "store", !.copy = c]
          PROVE  g = [pc |-> "store", tasks |-> e.tasks, cur |-> e.cur, todo |-> e.todo,
                      to |-> e.to, copy |-> c, rest |-> e.rest]
      BY <2>3 DEF Executors
    <2> QED
      BY <2>1, <2>2, <2>3
  <1> HIDE DEF all, copy
  <1>8. f \in Executors
    BY <1>2, <1>4 DEF Executors, PCs
  <1>9. Shape(f)
    BY <1>2, <1>4, <1>5, EmptyList DEF Shape
  <1>10. given \subseteq given' /\ given' \subseteq Fixes
    <2>1. Elems(all) \subseteq Fixes
      BY <1>3, ListOf
    <2> QED
      BY <1>2, <1>4, <1>6, <2>1
  <1>11. /\ Held(f) \subseteq Elems(queue) \cup Held(e)
        /\ Held(e) \subseteq given' \cup Held(f)
    <2>1. /\ Held(e) = Elems(e.tasks) \cup {e.cur}
      BY <1>2, EmptyList, FixesAreNumbers DEF Held
    <2>2. Held(f) = Elems(e.tasks) \cup Elems(copy) \cup {e.cur}
      BY <1>2, EmptyList, FixesAreNumbers DEF Held
    <2> QED
      BY <1>3, <1>4, <2>1, <2>2
  <1>12. Covered(f, queue, Taken \cup given')
    BY <1>2, <1>3, <1>4, <1>6 DEF Covered
  <1>13. ASSUME Clean, InOrder PROVE Ordered(f, queue, Taken)
    <2>1. Ordered(e, queue, Taken) /\ Increasing(queue)
      BY <1>1, <1>2, <1>13 DEF InOrder
    <2>2. Ahead(e, queue) = Elems(queue) /\ Current(e) = {e.cur}
      BY <1>2, FixesAreNumbers DEF Ahead, Current
    <2>3. Increasing(copy)
      <3>1. Before(Elems(queue), {e.cur})
        BY <2>1, <2>2 DEF Ordered
      <3>2. Increasing(all)
        BY <1>2, <2>1, <3>1, AppendIncreasing, FixesAreNumbers DEF all
      <3> QED
        BY <1>4, <3>2
    <2>4. Ahead(f, queue) \subseteq Ahead(e, queue) \cup Current(e) /\ Current(f) = {}
      BY <1>2, <1>3, <1>4, <2>2 DEF Ahead, Current
    <2> QED
      BY <1>2, <2>1, <2>3, <2>4 DEF Ordered, UpTo, Before
  <1>14. UNCHANGED <<prefs, disk, call, service, fixTrip, got, mixed, bounds>>
    BY DEF Enqueue
  <1>15. f.pc = "store"
    OBVIOUS
  <1> HIDE DEF f
  <1>16. Clean => trip # NoTrip
    BY <1>1, <1>2 DEF Clean, Ended
  <1> QED
    BY <1>1, <1>2, <1>7, <1>8, <1>9, <1>10, <1>11, <1>12, <1>13, <1>14, <1>15, <1>16, QuietStep

\* writeQueue: what the executor kept is the queue now.
LEMMA WriteQueueStep ==
  ASSUME IInv, NEW i \in Instances, WriteQueue(i)
  PROVE  IInv'
  <1>1. PICK e \in Executors : e = exec[i]
    BY ListTypes DEF IInv
  <1>2. /\ e.pc = "store" /\ Shape(e) /\ e.todo = <<>> /\ Busy(i) /\ e.cur \in Fixes
        /\ given \subseteq Fixes /\ e.copy \in Seq(Fixes) /\ got \in [Trips -> Seq(Fixes)]
    <2>1. e.pc = "store" /\ Shape(e) /\ Busy(i)
      BY <1>1 DEF IInv, Shapes, WriteQueue, Step, Busy
    <2>2. e.todo = <<>> /\ e.cur # 0
      BY <2>1 DEF Shape
    <2>3. e.cur \in Fixes
      BY <2>2 DEF Executors, Fixes
    <2> QED
      BY <2>1, <2>2, <2>3 DEF IInv, TypeOK, Executors
  <1>3. /\ queue' = e.copy /\ Taken' = Taken /\ given' = given /\ got' = got
        /\ UNCHANGED <<trip, disk, call, service, fixTrip, mixed, bounds>>
    BY <1>1 DEF WriteQueue, ghosts, Taken
  <1>4. Clean => trip # NoTrip
    BY <1>1, <1>2 DEF Clean, Ended
  <1>5. Clean => Covered(e, queue, Taken \cup given)
    BY <1>1 DEF Clean, Coverage
  <1>6. Clean /\ InOrder => Ordered(e, queue, Taken) /\ NeverBack
    BY <1>1, <1>2 DEF InOrder
  <1>7. NeverBack => NeverBack'
    BY <1>3 DEF NeverBack
  <1>8. Len(e.copy) <= MaxQueue
    BY <1>2 DEF Shape
  <1>9. CASE ~e.rest
    <2>1. PICK f \in Executors : f = Resting(e)
      BY RestingKeeps
    <2>2. /\ Shape(f) /\ Held(f) = Elems(e.tasks) /\ f.pc = "idle" /\ f.tasks = e.tasks
          /\ f.todo = <<>> /\ f.copy = <<>>
          /\ \A q, g : Covered(f, q, g)
          /\ (\A q : Ahead(f, q) = Elems(q)) /\ Current(f) = {}
      BY <2>1, RestingKeeps
    <2>3. exec' = [exec EXCEPT ![i] = f]
      BY <1>1, <1>9, <2>1, ReturnRests DEF WriteQueue
    <2>4. Held(e) = Elems(e.tasks) \cup Elems(e.copy) \cup {e.cur}
      BY <1>2, EmptyList, FixesAreNumbers DEF Held
    <2>5. Elems(queue') \cup Held(f) \subseteq Held(e)
      BY <1>3, <2>2, <2>4
    <2>6. Clean => Elems(queue) \cup Taken \cup given \cup Held(e)
                     \subseteq Elems(queue') \cup Taken' \cup given' \cup Held(f)
      BY <1>2, <1>3, <1>5, <1>9, <2>2, <2>4 DEF Covered
    <2>7. Clean /\ InOrder => Increasing(queue') /\ Ordered(f, queue', Taken')
      <3>1. SUFFICES ASSUME Ordered(e, queue, Taken)
                     PROVE  Increasing(queue') /\ Ordered(f, queue', Taken')
        BY <1>6
      <3>2. Ahead(e, queue) = Elems(e.copy)
        BY <1>2, <1>9 DEF Ahead
      <3> QED
        BY <1>3, <2>2, <3>1, <3>2, EmptyList DEF Ordered, UpTo, Before
    <2>8. ~mixed /\ Clean =>
             /\ Elems(queue') \cup Held(f) \subseteq Elems(queue) \cup Held(exec[i])
             /\ trip = NoTrip => f.pc = "idle" /\ queue' = queue
             /\ f.pc = "wait" => f.to = trip
             /\ \A t \in Trips : \A n \in Elems(got'[t]) : n \in Elems(got[t]) \/ fixTrip[n] = t
             /\ Covered(f, queue', Taken' \cup given')
             /\ Elems(queue) \cup Taken \cup given \cup Held(exec[i])
                  \subseteq Elems(queue') \cup Taken' \cup given' \cup Held(f)
      BY <1>1, <1>3, <1>4, <2>2, <2>5, <2>6
    <2> QED
      BY <1>1, <1>2, <1>3, <1>6, <1>7, <1>8, <2>2, <2>3, <2>5, <2>7, <2>8, ExecStep
  <1>10. CASE e.rest
    <2> DEFINE f == [pc |-> IF e.copy = <<>> THEN "post" ELSE "enqueue", tasks |-> e.tasks,
                     cur |-> e.cur, todo |-> e.todo, to |-> e.to, copy |-> <<>>,
                     rest |-> FALSE]
    <2>1. f \in Executors
      BY DEF Executors, PCs
    <2>2. exec' = [exec EXCEPT ![i] = f]
      <3>1. exec' = [exec EXCEPT ![i] =
                       [e EXCEPT !.pc = IF e.copy = <<>> THEN "post" ELSE "enqueue",
                                 !.copy = <<>>, !.rest = FALSE]]
        BY <1>1, <1>10 DEF WriteQueue
      <3>2. ASSUME NEW g, g = [e EXCEPT !.pc = IF e.copy = <<>> THEN "post" ELSE "enqueue",
                                        !.copy = <<>>, !.rest = FALSE]
            PROVE  g = f
        BY <3>2 DEF Executors
      <3> QED
        BY <3>1, <3>2
    <2>3. /\ f.pc \in {"post", "enqueue"} /\ f.tasks = e.tasks /\ f.cur = e.cur
          /\ f.todo = <<>> /\ f.copy = <<>> /\ ~f.rest
          /\ f.pc = "post" => e.copy = <<>>
      BY <1>2
    <2> HIDE DEF f
    <2>4. Shape(f)
      BY <1>2, <2>3, FixesAreNumbers DEF Shape
    <2>5. Held(e) = Elems(e.tasks) \cup Elems(e.copy) \cup {e.cur}
      BY <1>2, EmptyList, FixesAreNumbers DEF Held
    <2>6. Held(f) = Elems(e.tasks) \cup {e.cur}
      BY <1>2, <2>3, EmptyList, FixesAreNumbers DEF Held
    <2>7. Elems(queue') \cup Held(f) = Held(e)
      BY <1>3, <2>5, <2>6
    <2>8. Clean => Elems(queue) \cup Taken \cup given \cup Held(e)
                     \subseteq Elems(queue') \cup Taken' \cup given' \cup Held(f)
      BY <1>2, <1>3, <1>5, <1>10, <2>7, EmptyList DEF Covered
    <2>9. Covered(f, queue', Taken' \cup given')
      BY <2>3 DEF Covered
    <2>10. Clean /\ InOrder => Increasing(queue') /\ Ordered(f, queue', Taken')
      <3>1. SUFFICES ASSUME Ordered(e, queue, Taken)
                     PROVE  Increasing(queue') /\ Ordered(f, queue', Taken')
        BY <1>6
      <3>2. Ahead(e, queue) = Elems(e.copy) /\ Current(e) = {e.cur}
        BY <1>2, <1>10, EmptyList, FixesAreNumbers DEF Ahead, Current
      <3>3. Ahead(f, queue') = Elems(e.copy) /\ Current(f) = {e.cur}
        BY <1>2, <1>3, <2>3, FixesAreNumbers DEF Ahead, Current
      <3> QED
        BY <1>3, <2>3, <3>1, <3>2, <3>3, EmptyList DEF Ordered
    <2>11. ~mixed /\ Clean =>
             /\ Elems(queue') \cup Held(f) \subseteq Elems(queue) \cup Held(exec[i])
             /\ trip = NoTrip => f.pc = "idle" /\ queue' = queue
             /\ f.pc = "wait" => f.to = trip
             /\ \A t \in Trips : \A n \in Elems(got'[t]) : n \in Elems(got[t]) \/ fixTrip[n] = t
             /\ Covered(f, queue', Taken' \cup given')
             /\ Elems(queue) \cup Taken \cup given \cup Held(exec[i])
                  \subseteq Elems(queue') \cup Taken' \cup given' \cup Held(f)
      BY <1>1, <1>3, <1>4, <2>3, <2>7, <2>8, <2>9
    <2>12. Elems(queue') \cup Taken' \cup Held(f) \subseteq Elems(queue) \cup Taken \cup Held(exec[i])
      BY <1>1, <1>3, <2>7
    <2> QED
      BY <1>1, <1>2, <1>3, <1>6, <1>7, <1>8, <2>1, <2>2, <2>3, <2>4, <2>10, <2>11, <2>12,
         ExecStep
  <1> QED
    BY <1>2, <1>9, <1>10 DEF Executors

\* A task begins with the oldest waiting fix, or gives it up without a trip.
LEMMA BeginStep ==
  ASSUME IInv, NEW i \in Instances, Begin(i)
  PROVE  IInv'
  <1>1. PICK e \in Executors : e = exec[i]
    BY ListTypes DEF IInv
  <1>2. /\ e.pc = "idle" /\ Shape(e) /\ Busy(i) /\ given \subseteq Fixes
        /\ e.tasks \in Seq(Fixes) /\ e.tasks # <<>>
    BY <1>1 DEF IInv, Shapes, Begin, Step, Busy, TypeOK, Executors
  <1>3. e.todo = <<>> /\ e.copy = <<>> /\ ~e.rest /\ e.cur = 0
    BY <1>2 DEF Shape
  <1>4. PICK x \in Fixes : x = Head(e.tasks)
    BY <1>2, TailList
  <1>5. PICK s \in Seq(Fixes) : s = Tail(e.tasks)
    BY <1>2, TailList
  <1>6. /\ Elems(e.tasks) = {x} \cup Elems(s)
        /\ Increasing(e.tasks) => Increasing(s) /\ Before({x}, Elems(s))
    BY <1>2, <1>4, <1>5, TailList, FixesAreNumbers
  <1>7. Held(e) = {x} \cup Elems(s)
    BY <1>3, <1>6, EmptyList DEF Held
  <1>8. UNCHANGED <<prefs, disk, call, service, fixTrip, got, mixed, bounds>>
    BY DEF Begin
  <1>9. ASSUME Clean, InOrder
        PROVE  /\ Increasing(s) /\ UpTo(Taken, Elems(queue) \cup {x} \cup Elems(s))
               /\ Before(Elems(queue), {x}) /\ Before(Elems(queue) \cup {x}, Elems(s))
    <2>1. Ordered(e, queue, Taken)
      BY <1>1, <1>2, <1>9 DEF InOrder
    <2>2. Ahead(e, queue) = Elems(queue) /\ Current(e) = {}
      BY <1>2, <1>3 DEF Ahead, Current
    <2> QED
      BY <1>6, <2>1, <2>2 DEF Ordered, UpTo, Before
  <1>10. CASE trip = NoTrip
    <2> DEFINE f == [pc |-> e.pc, tasks |-> s, cur |-> 0, todo |-> e.todo, to |-> e.to,
                     copy |-> e.copy, rest |-> e.rest]
    <2>1. f \in Executors
      BY TripAssumption DEF Executors
    <2>2. exec' = [exec EXCEPT ![i] = f] /\ given' = given \cup {x}
      <3>1. PICK h : h = [e EXCEPT !.tasks = Tail(@), !.cur = x]
        OBVIOUS
      <3>2. exec' = [exec EXCEPT ![i] = [h EXCEPT !.cur = 0]] /\ given' = given \cup {x}
        BY <1>1, <1>4, <1>10, <3>1 DEF Begin
      <3>3. ASSUME NEW g, g = [h EXCEPT !.cur = 0] PROVE g = f
        BY <1>5, <3>1, <3>3 DEF Executors
      <3> QED
        BY <3>2, <3>3
    <2>3. /\ f.pc = "idle" /\ f.tasks = s /\ f.cur = 0 /\ f.todo = <<>> /\ f.copy = <<>>
          /\ ~f.rest
      BY <1>2, <1>3
    <2> HIDE DEF f
    <2>4. Shape(f)
      BY <2>3, EmptyList DEF Shape
    <2>5. Held(f) = Elems(s)
      BY <2>3, EmptyList DEF Held
    <2>6. Covered(f, queue, Taken \cup given')
      BY <2>3 DEF Covered
    <2>7. Clean /\ InOrder => Ordered(f, queue, Taken)
      <3>1. Ahead(f, queue) = Elems(queue) /\ Current(f) = {}
        BY <2>3 DEF Ahead, Current
      <3> QED
        BY <1>9, <2>3, <3>1, EmptyList DEF Ordered, UpTo, Before
    <2> QED
      BY <1>1, <1>2, <1>7, <1>8, <2>1, <2>2, <2>3, <2>4, <2>5, <2>6, <2>7, QuietStep
  <1>11. CASE trip # NoTrip
    <2> DEFINE f == [pc |-> "read", tasks |-> s, cur |-> x, todo |-> e.todo, to |-> e.to,
                     copy |-> e.copy, rest |-> e.rest]
    <2>1. f \in Executors
      BY DEF Executors, PCs, Fixes
    <2>2. exec' = [exec EXCEPT ![i] = f] /\ given' = given
      <3>1. PICK h : h = [e EXCEPT !.tasks = Tail(@), !.cur = x]
        OBVIOUS
      <3>2. exec' = [exec EXCEPT ![i] = [h EXCEPT !.pc = "read"]] /\ given' = given
        BY <1>1, <1>4, <1>11, <3>1 DEF Begin
      <3>3. ASSUME NEW g, g = [h EXCEPT !.pc = "read"] PROVE g = f
        BY <1>5, <3>1, <3>3 DEF Executors
      <3> QED
        BY <3>2, <3>3
    <2>3. /\ f.pc = "read" /\ f.tasks = s /\ f.cur = x /\ f.todo = <<>> /\ f.copy = <<>>
          /\ ~f.rest /\ x # 0
      BY <1>3, FixesAreNumbers
    <2> HIDE DEF f
    <2>4. Shape(f)
      BY <2>3, EmptyList DEF Shape
    <2>5. Held(f) = {x} \cup Elems(s)
      BY <2>3, EmptyList DEF Held
    <2>6. Covered(f, queue, Taken \cup given')
      BY <2>3 DEF Covered
    <2>7. Clean /\ InOrder => Ordered(f, queue, Taken)
      <3>1. Ahead(f, queue) = Elems(queue) /\ Current(f) = {x}
        BY <2>3 DEF Ahead, Current
      <3> QED
        BY <1>9, <2>3, <3>1, EmptyList DEF Ordered
    <2> QED
      BY <1>1, <1>2, <1>7, <1>8, <1>11, <2>1, <2>2, <2>3, <2>4, <2>5, <2>6, <2>7, QuietStep
  <1> QED
    BY <1>10, <1>11

-----------------------------------------------------------------------------
(* The module's calls, the main thread and the device. *)

\* Without work in flight no executor holds anything.
LEMMA NoWork ==
  ASSUME Shapes, ~InFlight, NEW i \in Instances
  PROVE  Held(exec[i]) = {} /\ exec[i].pc = "idle" /\ exec[i].tasks = <<>> /\ ~Busy(i)
  <1>1. exec[i].pc = "idle" /\ exec[i].tasks = <<>> /\ ~Busy(i)
    BY DEF InFlight, Busy
  <1> QED
    BY <1>1, RestingHoldsNothing DEF Shapes

\* A step that leaves the saved trip, every list and every executor alone; the
\* preferences file may catch up.
LEMMA ElsewhereStep ==
  ASSUME IInv, TypeOK', UNCHANGED <<prefs, exec, ghosts, crashes>>,
         inst' = inst \/ inst = 0,
         disk' = disk \/ disk' = [trip |-> trip, queue |-> queue]
  PROVE  IInv'
  <1>1. /\ trip' = trip /\ queue' = queue /\ exec' = exec /\ fixTrip' = fixTrip
        /\ got' = got /\ given' = given /\ mixed' = mixed /\ crashes' = crashes
        /\ Taken' = Taken
    BY DEF prefs, ghosts, Taken
  <1>2. Shapes' /\ (InOrder => InOrder')
    BY <1>1 DEF IInv, Shapes, InOrder, NeverBack, Busy
  <1>3. Numbered'
    BY <1>1 DEF IInv, Numbered
  <1>4. ASSUME Clean PROVE Clean'
    <2>1. Alone'
      <3>1. inst = 0 => \A i \in Instances : ~Busy(i)
        BY <1>4, TripAssumption DEF Clean, Alone, Instances
      <3> QED
        BY <1>1, <1>4, <3>1 DEF Clean, Alone, Busy
    <2>2. Ended' /\ Owned'
      BY <1>1, <1>4 DEF Clean, Ended, Owned
    <2>3. Coverage' /\ Accounted'
      BY <1>1, <1>4 DEF Clean, Coverage, Accounted, Everywhere
    <2> QED
      BY <2>1, <2>2, <2>3 DEF Clean
  <1> QED
    BY <1>1, <1>2, <1>3, <1>4 DEF IInv

\* startForegroundService touches no list.
LEMMA RequestStartStep ==
  ASSUME IInv, RequestStart
  PROVE  IInv'
  <1>1. TypeOK'
    BY DEF IInv, TypeOK, RequestStart, prefs, ghosts, bounds
  <1> QED
    BY <1>1, ElsewhereStep DEF RequestStart, bounds

\* Tearing the service down once keeps the inbox a list of messages.
LEMMA TearDownTypes ==
  ASSUME NEW box \in Seq({"start", "destroy"}), started \in BOOLEAN, TearDown(box)
  PROVE  started' \in BOOLEAN /\ inbox' \in Seq({"start", "destroy"})
  <1>1. Append(box, "destroy") \in Seq({"start", "destroy"})
    OBVIOUS
  <1> QED
    BY <1>1 DEF TearDown

\* stopService touches no list.
LEMMA RequestStopStep ==
  ASSUME IInv, RequestStop
  PROVE  IInv'
  <1>1. started' \in BOOLEAN /\ inbox' \in Seq({"start", "destroy"})
    BY TearDownTypes DEF IInv, TypeOK, RequestStop
  <1>2. TypeOK'
    BY <1>1 DEF IInv, TypeOK, RequestStop, prefs, ghosts, bounds
  <1> QED
    BY <1>2, ElsewhereStep DEF RequestStop, bounds

\* onStartCommand touches no list; a new instance has no work.
LEMMA OnStartStep ==
  ASSUME IInv, NEW granted \in BOOLEAN, OnStart(granted)
  PROVE  IInv'
  <1>1. Tail(inbox) \in Seq({"start", "destroy"}) /\ started \in BOOLEAN
    BY DEF IInv, TypeOK, OnStart
  <1>2. started' \in BOOLEAN /\ inbox' \in Seq({"start", "destroy"})
    BY <1>1, TearDownTypes DEF OnStart
  <1>3. /\ created' \in 0..MaxInstances /\ inst' \in 0..created' /\ inst' # 0
        /\ inst' = inst \/ inst = 0
    BY TripAssumption DEF IInv, TypeOK, OnStart
  <1>4. updating' \in BOOLEAN
    BY DEF IInv, TypeOK, OnStart
  <1>5. UNCHANGED <<prefs, disk, call, exec, ghosts, bounds>>
    BY DEF OnStart
  <1>6. TypeOK'
    BY <1>2, <1>3, <1>4, <1>5 DEF IInv, TypeOK, prefs, ghosts, bounds
  <1> QED
    BY <1>3, <1>5, <1>6, ElsewhereStep DEF bounds

\* The file catches up with the preferences.
LEMMA FlushStep ==
  ASSUME IInv, Flush
  PROVE  IInv'
  <1>1. TypeOK'
    BY DEF IInv, TypeOK, Flush, prefs, service, ghosts, bounds
  <1> QED
    BY <1>1, ElsewhereStep DEF Flush, bounds, service

\* A trip is saved: under a delivery, or in place of another trip, it is mixed.
LEMMA SaveTripStep ==
  ASSUME IInv, NEW t \in Trips, SaveTrip(t)
  PROVE  IInv'
  <1>1. /\ trip' = t /\ queue' = queue /\ exec' = exec /\ fixTrip' = fixTrip
        /\ got' = got /\ given' = given /\ disk' = disk /\ inst' = inst
        /\ crashes' = crashes /\ Taken' = Taken
        /\ mixed' = (mixed \/ InFlight \/ trip \notin {NoTrip, t})
    BY DEF SaveTrip, service, Taken
  <1>2. TypeOK'
    <2>1. Len(fixTrip) \in Nat /\ starts' \in Nat /\ starts' + Len(fixTrip) <= MaxWork
      BY TripAssumption DEF IInv, TypeOK, SaveTrip
    <2>2. trip' \in MaybeTrip /\ mixed' \in BOOLEAN /\ call' = "start"
      BY <1>1 DEF IInv, TypeOK, SaveTrip, MaybeTrip
    <2> QED
      BY <1>1, <2>1, <2>2 DEF IInv, TypeOK, SaveTrip, service
  <1>3. Shapes' /\ (InOrder => InOrder')
    BY <1>1 DEF IInv, Shapes, InOrder, NeverBack, Busy
  <1>4. Numbered'
    BY <1>1 DEF IInv, Numbered
  <1>5. ASSUME Clean, ~mixed' PROVE Clean'
    <2>1. ~InFlight /\ trip \in {NoTrip, t}
      BY <1>1, <1>5
    <2>2. \A n \in Elems(queue) : fixTrip[n] = t
      <3>1. CASE trip = NoTrip
        BY <1>5, <3>1, EmptyList DEF Clean, Ended
      <3>2. CASE trip = t
        BY <1>5, <3>2 DEF Clean, Owned
      <3> QED
        BY <2>1, <3>1, <3>2
    <2>3. \A i \in Instances : Held(exec[i]) = {} /\ exec[i].pc = "idle"
      BY <2>1, NoWork DEF IInv
    <2>4. Alone'
      BY <1>1, <1>5 DEF Clean, Alone, Busy
    <2>5. Ended'
      BY <1>1, <1>5, TripAssumption DEF Clean, Ended
    <2>6. Owned'
      BY <1>1, <1>5, <2>2, <2>3 DEF Clean, Owned
    <2>7. Coverage' /\ Accounted'
      BY <1>1, <1>5 DEF Clean, Coverage, Accounted, Everywhere
    <2> QED
      BY <2>4, <2>5, <2>6, <2>7 DEF Clean
  <1>6. ~mixed' => ~mixed
    BY <1>1 DEF IInv, TypeOK
  <1> QED
    BY <1>1, <1>2, <1>3, <1>4, <1>5, <1>6 DEF IInv

\* The preferences are cleared, the queue with them.
LEMMA ClearPrefsStep ==
  ASSUME IInv, ClearPrefs
  PROVE  IInv'
  <1>1. /\ trip' = NoTrip /\ queue' = <<>> /\ exec' = exec /\ fixTrip' = fixTrip
        /\ got' = got /\ given' = given \cup Elems(queue) /\ disk' = disk /\ inst' = inst
        /\ crashes' = crashes /\ Taken' = Taken /\ mixed' = (mixed \/ InFlight)
        /\ Elems(queue') = {}
    BY EmptyList DEF ClearPrefs, service, bounds, Taken
  <1>2. TypeOK'
    <2>1. given' \subseteq Fixes
      BY <1>1, ListOf DEF IInv, TypeOK
    <2>2. queue' \in Seq(Fixes) /\ Len(queue') <= MaxQueue
      BY <1>1, EmptyList
    <2>3. trip' \in MaybeTrip /\ mixed' \in BOOLEAN /\ call' = "stop"
      BY <1>1 DEF IInv, TypeOK, ClearPrefs, MaybeTrip
    <2> QED
      BY <1>1, <2>1, <2>2, <2>3 DEF IInv, TypeOK, ClearPrefs, service, bounds
  <1>3. Shapes'
    BY <1>1 DEF IInv, Shapes
  <1>4. Numbered'
    BY <1>1 DEF IInv, Numbered
  <1>5. ASSUME ~mixed'
        PROVE  \A i \in Instances : /\ Held(exec[i]) = {} /\ exec[i].pc = "idle" /\ ~Busy(i)
                                    /\ ~exec[i].rest
    <2>1. ~InFlight
      BY <1>1, <1>5
    <2> QED
      BY <2>1, NoWork, RestingHoldsNothing DEF IInv, Shapes
  <1>6. ASSUME Clean, ~mixed' PROVE Clean'
    <2>1. Alone'
      BY <1>1, <1>6 DEF Clean, Alone, Busy
    <2>2. Ended'
      BY <1>1, <1>5, <1>6 DEF Clean, Ended
    <2>3. Owned'
      BY <1>1, <1>5, <1>6 DEF Clean, Owned
    <2>4. Coverage'
      BY <1>1, <1>5, <1>6 DEF Coverage, Covered
    <2>5. Accounted'
      BY <1>1, <1>6 DEF Clean, Accounted, Everywhere
    <2> QED
      BY <2>1, <2>2, <2>3, <2>4, <2>5 DEF Clean
  <1>7. ASSUME InOrder, ~mixed' PROVE InOrder'
    <2>1. \A i \in Instances : ~Busy(i)'
      BY <1>1, <1>5, <1>7 DEF Busy
    <2>2. NeverBack' /\ Increasing(queue') /\ UpTo(Taken', Elems(queue'))
      BY <1>1, <1>7, EmptyList DEF InOrder, NeverBack, UpTo
    <2> QED
      BY <2>1, <2>2 DEF InOrder
  <1>8. ~mixed' => ~mixed
    BY <1>1 DEF IInv, TypeOK
  <1> QED
    BY <1>1, <1>2, <1>3, <1>4, <1>6, <1>7, <1>8 DEF IInv

\* The live instance is destroyed: with work it is mixed.
LEMMA OnDestroyStep ==
  ASSUME IInv, OnDestroy
  PROVE  IInv'
  <1>1. /\ trip' = trip /\ queue' = queue /\ fixTrip' = fixTrip
        /\ got' = got /\ inst' = 0 /\ disk' = [trip |-> trip, queue |-> queue]
        /\ crashes' = crashes /\ Taken' = Taken
        /\ mixed' = (mixed \/ (inst # 0 /\ Busy(inst)))
    BY DEF OnDestroy, prefs, bounds, Taken
  <1>2. Tail(inbox) \in Seq({"start", "destroy"})
    BY DEF IInv, TypeOK, OnDestroy
  <1>3. CASE inst = 0
    <2>1. exec' = exec /\ given' = given /\ mixed' = mixed
      BY <1>1, <1>3 DEF OnDestroy, IInv, TypeOK
    <2>2. TypeOK'
      <3>1. disk' \in [trip : MaybeTrip, queue : Seq(Fixes)] /\ Len(disk'.queue) <= MaxQueue
        BY <1>1 DEF IInv, TypeOK
      <3>2. inst' \in 0..created' /\ inbox' \in Seq({"start", "destroy"})
        BY <1>1, <1>2, TripAssumption DEF IInv, TypeOK, OnDestroy
      <3>3. updating' = FALSE
        BY DEF OnDestroy
      <3> QED
        BY <1>1, <2>1, <3>1, <3>2, <3>3 DEF IInv, TypeOK, OnDestroy, bounds
    <2> QED
      BY <1>1, <1>3, <2>1, <2>2, ElsewhereStep DEF prefs, ghosts
  <1>4. CASE inst # 0
    <2>1. PICK i \in Instances : i = inst
      BY <1>4, TripAssumption DEF IInv, TypeOK, Instances
    <2>2. PICK e \in Executors : e = exec[i]
      BY ListTypes DEF IInv
    <2> DEFINE f == [pc |-> e.pc, tasks |-> <<>>, cur |-> e.cur, todo |-> e.todo, to |-> e.to,
                     copy |-> e.copy, rest |-> e.rest]
    <2>3. exec' = [exec EXCEPT ![i] = f] /\ given' = given \cup Elems(e.tasks)
      <3>1. /\ exec' = [exec EXCEPT ![i] = [e EXCEPT !.tasks = <<>>]]
            /\ given' = given \cup Elems(e.tasks)
        BY <1>4, <2>1, <2>2 DEF OnDestroy
      <3>2. ASSUME NEW g, g = [e EXCEPT !.tasks = <<>>] PROVE g = f
        BY <3>2 DEF Executors
      <3> QED
        BY <3>1, <3>2
    <2>4. f \in Executors
      BY DEF Executors
    <2>5. Shape(e) /\ e.tasks \in Seq(Fixes) /\ (e.pc = "wait" => e.to \in Trips)
      BY <2>2 DEF IInv, Shapes, Executors, TypeOK
    <2>6. Shape(f)
      BY <2>5 DEF Shape
    <2>7. Held(f) \subseteq Held(e)
      BY EmptyList DEF Held
    <2>8. e.tasks = <<>> => f = e
      BY DEF Executors
    <2>9. f.pc = e.pc /\ f.to = e.to
      OBVIOUS
    <2> HIDE DEF f
    <2>10. \A j \in Instances : exec'[j] = IF j = i THEN f ELSE exec[j]
      BY <2>3 DEF IInv, TypeOK
    <2>11. TypeOK'
      <3>1. exec' \in [Instances -> Executors]
        BY <2>3, <2>4 DEF IInv, TypeOK
      <3>2. \A j \in Instances : exec'[j].pc = "wait" => exec'[j].to \in Trips
        BY <2>5, <2>9, <2>10 DEF IInv, TypeOK
      <3>3. given' \subseteq Fixes
        BY <2>3, <2>5, ListOf DEF IInv, TypeOK
      <3>4. disk' \in [trip : MaybeTrip, queue : Seq(Fixes)] /\ Len(disk'.queue) <= MaxQueue
        BY <1>1 DEF IInv, TypeOK
      <3>5. mixed' \in BOOLEAN /\ inst' \in 0..created' /\ inbox' \in Seq({"start", "destroy"})
        BY <1>1, <1>2, TripAssumption DEF IInv, TypeOK, OnDestroy
      <3>6. updating' = FALSE
        BY DEF OnDestroy
      <3> QED
        BY <1>1, <3>1, <3>2, <3>3, <3>4, <3>5, <3>6 DEF IInv, TypeOK, OnDestroy, bounds
    <2>12. Shapes' /\ Numbered'
      <3>1. Shapes'
        BY <2>6, <2>10 DEF IInv, Shapes
      <3>2. \A j \in Instances : Held(exec'[j]) \subseteq DOMAIN fixTrip
        BY <2>2, <2>7, <2>10 DEF IInv, Numbered
      <3> QED
        BY <1>1, <3>1, <3>2 DEF IInv, Numbered
    <2>13. ASSUME ~mixed' PROVE exec' = exec /\ (\A j \in Instances : ~Busy(j))
                                 /\ ~mixed /\ given' = given
      <3>1. ~mixed /\ ~Busy(i)
        BY <1>1, <1>4, <2>1, <2>13 DEF IInv, TypeOK
      <3>2. e.tasks = <<>>
        BY <2>2, <3>1 DEF Busy
      <3>3. exec' = exec
        BY <2>2, <2>3, <2>8, <3>2 DEF IInv, TypeOK
      <3>4. \A j \in Instances : ~Busy(j)
        BY <2>1, <3>1 DEF IInv, Clean, Alone
      <3> QED
        BY <2>3, <3>1, <3>2, <3>3, <3>4, EmptyList
    <2>14. ASSUME ~mixed' PROVE Clean'
      <3>1. Alone'
        BY <2>13, <2>14 DEF Alone, Busy
      <3>2. Ended' /\ Owned'
        BY <1>1, <2>13, <2>14 DEF IInv, Clean, Ended, Owned
      <3>3. Coverage' /\ Accounted'
        BY <1>1, <2>13, <2>14 DEF IInv, Clean, Coverage, Accounted, Everywhere
      <3> QED
        BY <3>1, <3>2, <3>3 DEF Clean
    <2>15. ASSUME ~mixed', crashes = 0 PROVE InOrder'
      <3>1. InOrder
        BY <2>13, <2>15 DEF IInv
      <3> QED
        BY <1>1, <2>13, <2>15, <3>1 DEF InOrder, NeverBack, Busy
    <2> QED
      BY <1>1, <2>11, <2>12, <2>14, <2>15 DEF IInv
  <1> QED
    BY <1>3, <1>4

\* A fix is captured: its number is above every other, and it waits last.
LEMMA OnFixStep ==
  ASSUME IInv, OnFix
  PROVE  IInv'
  <1>1. PICK i \in Instances : i = inst
    BY TripAssumption DEF IInv, TypeOK, OnFix, Instances
  <1>2. PICK e \in Executors : e = exec[i]
    BY ListTypes DEF IInv
  <1>3. PICK x : x = Len(fixTrip) + 1
    OBVIOUS
  <1>4. /\ trip' = trip /\ queue' = queue /\ disk' = disk /\ got' = got /\ given' = given
        /\ inst' = inst /\ mixed' = mixed /\ crashes' = crashes /\ Taken' = Taken
        /\ fixTrip' = Append(fixTrip, trip)
    BY DEF OnFix, prefs, service, bounds, Taken
  <1>5. /\ fixTrip \in Seq(MaybeTrip) /\ trip \in MaybeTrip
        /\ starts \in Nat /\ starts + Len(fixTrip) < MaxWork
    BY DEF IInv, TypeOK, OnFix
  <1>6. /\ Len(fixTrip) \in Nat /\ DOMAIN fixTrip = 1..Len(fixTrip)
        /\ Len(fixTrip') = Len(fixTrip) + 1 /\ DOMAIN fixTrip' = 1..(Len(fixTrip) + 1)
        /\ fixTrip'[x] = trip /\ fixTrip' \in Seq(MaybeTrip)
        /\ \A n \in DOMAIN fixTrip : fixTrip'[n] = fixTrip[n]
    BY <1>3, <1>4, <1>5, AppendFields
  <1>7. x \in Fixes /\ x \notin DOMAIN fixTrip /\ DOMAIN fixTrip' = DOMAIN fixTrip \cup {x}
        /\ \A n \in DOMAIN fixTrip : n \in Int /\ n < x
    BY <1>3, <1>5, <1>6, TripAssumption DEF Fixes
  <1>8. e.tasks \in Seq(Fixes) /\ Shape(e) /\ (e.pc = "wait" => e.to \in Trips)
    BY <1>2 DEF Executors, IInv, Shapes, TypeOK
  <1>9. PICK s \in Seq(Fixes) : s = Append(e.tasks, x)
    BY <1>7, <1>8, AppendFields
  <1>10. Elems(s) = Elems(e.tasks) \cup {x}
    BY <1>7, <1>8, <1>9, AppendElems
  <1> DEFINE f == [pc |-> e.pc, tasks |-> s, cur |-> e.cur, todo |-> e.todo, to |-> e.to,
                   copy |-> e.copy, rest |-> e.rest]
  <1>11. f \in Executors
    BY DEF Executors
  <1>12. exec' = [exec EXCEPT ![i] = f]
    <2>1. exec' = [exec EXCEPT ![i] = [e EXCEPT !.tasks = Append(@, x)]]
      BY <1>1, <1>2, <1>3 DEF OnFix
    <2>2. ASSUME NEW g, g = [e EXCEPT !.tasks = Append(@, x)] PROVE g = f
      BY <1>9, <2>2 DEF Executors
    <2> QED
      BY <2>1, <2>2
  <1>13. /\ f.pc = e.pc /\ f.tasks = s /\ f.cur = e.cur /\ f.todo = e.todo /\ f.to = e.to
         /\ f.copy = e.copy /\ f.rest = e.rest
    OBVIOUS
  <1> HIDE DEF f
  <1>14. Shape(f) /\ Held(f) = Held(e) \cup {x}
    BY <1>8, <1>10, <1>13 DEF Shape, Held
  <1>15. /\ \A j \in Instances : exec'[j] = IF j = i THEN f ELSE exec[j]
         /\ exec' \in [Instances -> Executors]
    BY <1>11, <1>12 DEF IInv, TypeOK
  <1>16. TypeOK'
    <2>1. \A j \in Instances : exec'[j].pc = "wait" => exec'[j].to \in Trips
      BY <1>8, <1>13, <1>15 DEF IInv, TypeOK
    <2>2. starts' = starts /\ starts' + Len(fixTrip') <= MaxWork
      BY <1>5, <1>6, TripAssumption DEF OnFix, bounds
    <2> QED
      BY <1>4, <1>6, <1>15, <2>1, <2>2 DEF IInv, TypeOK, OnFix, service, bounds, prefs
  <1>17. Shapes' /\ Numbered'
    <2>1. Shapes'
      BY <1>14, <1>15 DEF IInv, Shapes
    <2>2. \A j \in Instances : Held(exec'[j]) \subseteq DOMAIN fixTrip'
      BY <1>2, <1>7, <1>14, <1>15 DEF IInv, Numbered
    <2> QED
      BY <1>4, <1>7, <2>1, <2>2 DEF IInv, Numbered
  <1>18. ASSUME Clean PROVE Clean'
    <2>1. \A j \in Instances : j # i => ~Busy(j)
      BY <1>1, <1>18 DEF Clean, Alone
    <2>2. Alone'
      BY <1>1, <1>4, <1>15, <2>1 DEF Alone, Busy
    <2>3. Ended'
      BY <1>2, <1>4, <1>13, <1>15, <1>18 DEF Clean, Ended
    <2>4. Owned'
      <3>1. \A n \in Elems(queue) : fixTrip'[n] = trip
        BY <1>6, <1>18 DEF Clean, Owned, IInv, Numbered
      <3>2. \A n \in Elems(disk.queue) : fixTrip'[n] = disk.trip
        BY <1>6, <1>18 DEF Clean, Owned, IInv, Numbered
      <3>3. \A j \in Instances : \A n \in Held(exec[j]) : fixTrip'[n] = trip
        BY <1>6, <1>18 DEF Clean, Owned, IInv, Numbered
      <3>4. \A j \in Instances : \A n \in Held(exec'[j]) : fixTrip'[n] = trip
        BY <1>2, <1>6, <1>14, <1>15, <3>3
      <3>5. \A j \in Instances : exec'[j].pc = "wait" => exec'[j].to = trip
        BY <1>2, <1>13, <1>15, <1>18 DEF Clean, Owned
      <3>6. \A t \in Trips : \A n \in Elems(got[t]) : n \in DOMAIN fixTrip
        BY DEF IInv, Numbered, Taken
      <3>7. \A t \in Trips : \A n \in Elems(got[t]) : fixTrip'[n] = t
        BY <1>6, <1>18, <3>6 DEF Clean, Owned
      <3> QED
        BY <1>4, <3>1, <3>2, <3>4, <3>5, <3>7 DEF Owned
    <2>5. Coverage'
      <3>1. Covered(f, queue, Taken \cup given)
        BY <1>2, <1>13, <1>18 DEF Clean, Coverage, Covered
      <3>2. \A j \in Instances : Covered(exec'[j], queue, Taken \cup given)
        BY <1>15, <1>18, <3>1 DEF Clean, Coverage
      <3> QED
        BY <1>4, <3>2 DEF Coverage
    <2>6. Accounted'
      <3>1. \A j \in Instances : Held(exec[j]) \subseteq Held(exec'[j])
        BY <1>2, <1>14, <1>15
      <3>2. x \in Held(exec'[i])
        BY <1>14, <1>15
      <3>3. Everywhere \subseteq Everywhere' /\ x \in Everywhere'
        BY <1>4, <3>1, <3>2 DEF Everywhere
      <3> QED
        BY <1>7, <1>18, <3>3 DEF Clean, Accounted
    <2> QED
      BY <2>2, <2>3, <2>4, <2>5, <2>6 DEF Clean
  <1>19. ASSUME Clean, InOrder PROVE InOrder'
    <2>1. \A j \in Instances : j # i => ~Busy(j)
      BY <1>1, <1>19 DEF Clean, Alone
    <2>2. \A n \in Elems(queue) \cup Taken \cup Held(e) : n < x
      BY <1>2, <1>7 DEF IInv, Numbered
    <2>3. UpTo(Taken, {x})
      BY <1>7, <2>2 DEF UpTo, IInv, Numbered
    <2>4. Ordered(f, queue, Taken)
      <3>1. CASE Busy(i)
        <4>1. Ordered(e, queue, Taken)
          BY <1>2, <1>19, <3>1 DEF InOrder
        <4>2. Ahead(f, queue) = Ahead(e, queue) /\ Current(f) = Current(e)
          BY <1>13 DEF Ahead, Current
        <4>3. Ahead(e, queue) \cup Current(e) \cup Elems(e.tasks)
                \subseteq Elems(queue) \cup Held(e)
          BY DEF Ahead, Current, Held
        <4>4. Increasing(s)
          <5>1. Before(Elems(e.tasks), {x})
            BY <2>2, <4>3 DEF Before
          <5> QED
            BY <1>7, <1>8, <1>9, <4>1, <5>1, AppendIncreasing, FixesAreNumbers DEF Ordered
        <4>5. Before(Ahead(e, queue) \cup Current(e), {x})
          BY <2>2, <4>3 DEF Before
        <4>6. UpTo(Taken, Ahead(f, queue) \cup Current(f) \cup Elems(s))
          BY <1>10, <2>3, <4>1, <4>2 DEF Ordered, UpTo
        <4>7. Before(Ahead(f, queue) \cup Current(f), Elems(s))
          BY <1>10, <4>1, <4>2, <4>5 DEF Ordered, Before
        <4> QED
          BY <1>13, <4>1, <4>2, <4>4, <4>6, <4>7 DEF Ordered
      <3>2. CASE ~Busy(i)
        <4>1. e.pc = "idle" /\ e.tasks = <<>>
          BY <1>2, <3>2 DEF Busy
        <4>2. e.todo = <<>> /\ e.copy = <<>> /\ ~e.rest /\ e.cur = 0
          BY <1>8, <4>1 DEF Shape
        <4>3. Ahead(f, queue) = Elems(queue) /\ Current(f) = {}
          BY <1>13, <4>1, <4>2 DEF Ahead, Current
        <4>4. Increasing(s) /\ Elems(s) = {x}
          BY <1>7, <1>8, <1>9, <1>10, <4>1, EmptyList, AppendIncreasing, FixesAreNumbers
             DEF Before
        <4>5. \A j \in Instances : ~Busy(j)
          BY <2>1, <3>2
        <4>6. UpTo(Taken, Elems(queue))
          BY <1>19, <4>5 DEF InOrder
        <4>7. UpTo(Taken, Elems(queue) \cup {x}) /\ Before(Elems(queue), {x})
          BY <2>2, <2>3, <4>6 DEF UpTo, Before
        <4> QED
          BY <1>13, <4>1, <4>2, <4>3, <4>4, <4>7, EmptyList DEF Ordered, UpTo, Before
      <3> QED
        BY <3>1, <3>2
    <2>5. \A j \in Instances : Busy(j)' => Ordered(exec'[j], queue, Taken)
      BY <1>15, <2>1, <2>4 DEF Busy
    <2>6. Busy(i)'
      <3>1. s # <<>>
        BY <1>10, EmptyList
      <3> QED
        BY <1>13, <1>15, <3>1 DEF Busy
    <2> QED
      BY <1>4, <1>19, <2>5, <2>6 DEF InOrder, NeverBack
  <1> QED
    BY <1>4, <1>16, <1>17, <1>18, <1>19 DEF IInv

\* The process dies: the file is what is left, and the rest is given up.
LEMMA ProcessDeathStep ==
  ASSUME IInv, ProcessDeath
  PROVE  IInv'
  <1>1. /\ trip' = disk.trip /\ queue' = disk.queue /\ disk' = disk /\ fixTrip' = fixTrip
        /\ got' = got /\ inst' = 0 /\ crashes' = crashes + 1 /\ Taken' = Taken
        /\ mixed' = mixed /\ exec' = [i \in Instances |-> NewExecutor]
        /\ given' = given \cup ((Elems(queue) \cup UNION {Held(exec[i]) : i \in Instances})
                                  \ Elems(disk.queue))
    BY DEF ProcessDeath, Taken
  <1>2. NewExecutor \in Executors
    BY TripAssumption DEF NewExecutor, Executors, PCs, MaybeTrip
  <1>3. /\ NewExecutor.pc = "idle" /\ NewExecutor.tasks = <<>> /\ ~NewExecutor.rest
        /\ Shape(NewExecutor)
    BY EmptyList DEF NewExecutor, Shape
  <1>4. Held(NewExecutor) = {}
    BY <1>3, RestingHoldsNothing
  <1>5. /\ exec' \in [Instances -> Executors]
        /\ \A i \in Instances : exec'[i] = NewExecutor
    BY <1>1, <1>2
  <1>6. Elems(queue) \subseteq Fixes /\ \A i \in Instances : Held(exec[i]) \subseteq Fixes
    <2>1. ASSUME NEW i \in Instances PROVE Held(exec[i]) \subseteq Fixes
      <3>1. /\ Elems(exec[i].tasks) \subseteq Fixes /\ Elems(exec[i].todo) \subseteq Fixes
            /\ Elems(exec[i].copy) \subseteq Fixes
        BY ListTypes, ListOf DEF IInv
      <3>2. {exec[i].cur} \ {0} \subseteq Fixes
        BY ListTypes, TripAssumption DEF IInv, Fixes
      <3> QED
        BY <3>1, <3>2 DEF Held
    <2> QED
      BY <2>1, ListOf DEF IInv, TypeOK
  <1>7. TypeOK'
    <2>1. given' \subseteq Fixes
      BY <1>1, <1>6 DEF IInv, TypeOK
    <2>2. trip' \in MaybeTrip /\ queue' \in Seq(Fixes) /\ Len(queue') <= MaxQueue
      BY <1>1 DEF IInv, TypeOK
    <2>3. inbox' \in Seq({"start", "destroy"})
      <3>1. <<>> \in Seq({"start", "destroy"}) /\ <<"start">> \in Seq({"start", "destroy"})
        OBVIOUS
      <3> QED
        BY <3>1 DEF ProcessDeath
    <2>4. crashes' \in 0..MaxCrashes /\ inst' \in 0..created'
      BY <1>1, TripAssumption DEF IInv, TypeOK, ProcessDeath
    <2>5. call' = "none" /\ updating' = FALSE
      BY DEF ProcessDeath
    <2> QED
      BY <1>1, <1>3, <1>5, <2>1, <2>2, <2>3, <2>4, <2>5 DEF IInv, TypeOK, ProcessDeath
  <1>8. Shapes' /\ Numbered'
    BY <1>1, <1>3, <1>4, <1>5 DEF IInv, Shapes, Numbered
  <1>9. ASSUME Clean PROVE Clean'
    <2>1. Alone' /\ Ended'
      BY <1>1, <1>3, <1>5, <1>9 DEF Clean, Alone, Ended, Busy
    <2>2. Owned'
      BY <1>1, <1>3, <1>4, <1>5, <1>9 DEF Clean, Owned
    <2>3. Coverage'
      BY <1>3, <1>5 DEF Coverage, Covered
    <2>4. Accounted'
      BY <1>1, <1>9 DEF Clean, Accounted, Everywhere
    <2> QED
      BY <2>1, <2>2, <2>3, <2>4 DEF Clean
  <1>10. crashes' # 0
    BY <1>1 DEF IInv, TypeOK
  <1> QED
    BY <1>1, <1>7, <1>8, <1>9, <1>10 DEF IInv

-----------------------------------------------------------------------------
(* The invariant, and what follows. *)

\* The service starts with nothing saved and nothing in flight.
LEMMA InitInv == Init => IInv
  <1> SUFFICES ASSUME Init PROVE IInv
    OBVIOUS
  <1>1. NewExecutor \in Executors
    BY TripAssumption DEF NewExecutor, Executors, PCs, MaybeTrip
  <1>2. /\ NewExecutor.pc = "idle" /\ NewExecutor.tasks = <<>> /\ ~NewExecutor.rest
        /\ Shape(NewExecutor)
    BY EmptyList DEF NewExecutor, Shape
  <1>3. Held(NewExecutor) = {}
    BY <1>2, RestingHoldsNothing
  <1>4. Elems(queue) = {} /\ Elems(disk.queue) = {} /\ Taken = {} /\ DOMAIN fixTrip = {}
    BY EmptyList DEF Init, Taken, Elems
  <1>5. \A i \in Instances : exec[i] = NewExecutor /\ ~Busy(i)
    BY <1>2 DEF Init, Busy
  <1>6. TypeOK
    <2>1. exec \in [Instances -> Executors] /\ inbox \in Seq({"start", "destroy"})
      BY <1>1 DEF Init
    <2>2. /\ disk \in [trip : MaybeTrip, queue : Seq(Fixes)] /\ Len(disk.queue) <= MaxQueue
          /\ queue \in Seq(Fixes) /\ Len(queue) <= MaxQueue
      BY EmptyList DEF Init, MaybeTrip
    <2>3. got \in [Trips -> Seq(Fixes)] /\ fixTrip \in Seq(MaybeTrip)
      BY DEF Init
    <2>4. /\ created \in 0..MaxInstances /\ inst \in 0..created /\ crashes \in 0..MaxCrashes
          /\ starts \in Nat /\ starts + Len(fixTrip) <= MaxWork
      BY EmptyList, TripAssumption DEF Init
    <2> QED
      BY <1>2, <1>5, <2>1, <2>2, <2>3, <2>4 DEF Init, TypeOK, MaybeTrip
  <1>7. Shapes /\ Numbered
    BY <1>2, <1>3, <1>4, <1>5 DEF Shapes, Numbered
  <1>8. Clean
    <2>1. Alone /\ Ended /\ Accounted
      BY <1>2, <1>4, <1>5 DEF Alone, Ended, Accounted, Init
    <2>2. Owned
      BY <1>2, <1>3, <1>4, <1>5 DEF Owned, Taken
    <2>3. Coverage
      BY <1>2, <1>5 DEF Coverage, Covered
    <2> QED
      BY <2>1, <2>2, <2>3 DEF Clean
  <1>9. InOrder
    <2>1. NeverBack
      BY DEF NeverBack, Init
    <2> QED
      BY <1>4, <1>5, <2>1, EmptyList DEF InOrder, UpTo, Init
  <1> QED
    BY <1>6, <1>7, <1>8, <1>9 DEF IInv

\* A stuttering step keeps the invariant.
LEMMA Stutter == IInv /\ UNCHANGED vars => IInv'
  <1> SUFFICES ASSUME IInv, UNCHANGED vars PROVE IInv'
    OBVIOUS
  <1>1. TypeOK'
    BY DEF IInv, TypeOK, vars, prefs, service, ghosts, bounds
  <1> QED
    BY <1>1, ElsewhereStep DEF vars, service, ghosts, bounds

\* Every step of the service, of the module and of the device keeps the
\* invariant.
THEOREM NextInv == IInv /\ [Next]_vars => IInv'
  <1> SUFFICES ASSUME IInv, [Next]_vars PROVE IInv'
    OBVIOUS
  <1>1. ASSUME NEW t \in Trips, SaveTrip(t) PROVE IInv'
    BY <1>1, SaveTripStep
  <1>2. CASE RequestStart
    BY <1>2, RequestStartStep
  <1>3. CASE ClearPrefs
    BY <1>3, ClearPrefsStep
  <1>4. CASE RequestStop
    BY <1>4, RequestStopStep
  <1>5. CASE MainThread
    BY <1>5, OnStartStep, OnDestroyStep DEF MainThread
  <1>6. CASE OnFix
    BY <1>6, OnFixStep
  <1>7. ASSUME NEW i \in Instances, Deliver(i) PROVE IInv'
    BY <1>7, BeginStep, ReadQueueStep, OpenRequestStep, RefusedStep, ReceivedStep,
       RecheckStep, GuardStep, EnqueueStep, WriteQueueStep DEF Deliver
  <1>8. CASE Flush
    BY <1>8, FlushStep
  <1>9. CASE ProcessDeath
    BY <1>9, ProcessDeathStep
  <1>10. CASE UNCHANGED vars
    BY <1>10, Stutter
  <1> QED
    BY <1>1, <1>2, <1>3, <1>4, <1>5, <1>6, <1>7, <1>8, <1>9, <1>10 DEF Next

\* The invariant holds in every reachable state.
THEOREM Invariance == Spec => []IInv
  <1>1. Init => IInv
    BY InitInv
  <1>2. IInv /\ [Next]_vars => IInv'
    BY NextInv
  <1> QED
    BY <1>1, <1>2, PTL DEF Spec

\* Every variable has its type: the queue, in memory and on disk, never holds
\* more than MAX_QUEUE_SIZE fixes.
THEOREM TypeCorrect == Spec => []TypeOK
  <1>1. IInv => TypeOK
    BY DEF IInv
  <1> QED
    BY <1>1, Invariance, PTL

\* A fix is posted to the trip it was captured on, as long as no stop, start or
\* destroy falls into a delivery.
THEOREM PostedToItsTrip == Spec => []OwnTrip
  <1>1. IInv => OwnTrip
    BY DEF IInv, Clean, Owned, OwnTrip
  <1> QED
    BY <1>1, Invariance, PTL

\* The backend sees the fixes in the order of capture, until the process dies.
THEOREM PostedInOrder == Spec => []OldestFirst
  <1>1. IInv => OldestFirst
    BY DEF IInv, InOrder, NeverBack, OldestFirst
  <1> QED
    BY <1>1, Invariance, PTL

\* No captured fix vanishes without a reason, the death of the process included.
THEOREM EveryFixAccounted == Spec => []NoSilentLoss
  <1>1. IInv => NoSilentLoss
    BY DEF IInv, Clean, Accounted, Everywhere, Taken, NoSilentLoss
  <1> QED
    BY <1>1, Invariance, PTL
=============================================================================
