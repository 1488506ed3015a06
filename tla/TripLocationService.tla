------------------------ MODULE TripLocationService ------------------------
(***************************************************************************)
(* The Android foreground service that reports a mixer's position while a  *)
(* trip is active (frontend/modules/trip-location): the preferences that   *)
(* hold the trip and the queue of unsent fixes, the service's lifecycle,   *)
(* and the single-thread executor that posts each fix behind the queue.    *)
(*                                                                         *)
(* Three threads meet here: the module's calls (startTracking,             *)
(* stopTracking), the main thread (intents, fixes, onDestroy) and the      *)
(* executor of each service instance.  shutdownNow does not stop a task    *)
(* that is inside a request, so the executor of a destroyed instance can   *)
(* overlap the next instance's.  Preferences are written with apply(): at  *)
(* once in memory, later on disk.                                          *)
(*                                                                         *)
(* A fix is its number, in the order of capture.                           *)
(***************************************************************************)
EXTENDS Integers, Sequences, FiniteSets

CONSTANTS
  Trips,        \* trip ids
  NoTrip,       \* no trip saved: snapshot() is null
  MaxQueue,     \* MAX_QUEUE_SIZE (100)
  MaxWork,      \* bound: startTracking calls and captured fixes together
  MaxInstances, \* bound: service instances created
  MaxCrashes    \* bound: deaths of the application's process

ASSUME TripAssumption ==
  /\ NoTrip \notin Trips
  /\ MaxQueue \in Nat \ {0} /\ MaxWork \in Nat
  /\ MaxInstances \in Nat /\ MaxCrashes \in Nat

Fixes == 1..MaxWork
Instances == 1..MaxInstances
MaybeTrip == Trips \cup {NoTrip}

VARIABLES
  trip,     \* preferences in memory: the snapshot's trip, or NoTrip
  queue,    \* preferences in memory: the queue of unsent fixes
  disk,     \* what the preferences file holds: [trip, queue]
  call,     \* the module call in progress: "none", "start" or "stop"
  started,  \* the system considers the service started
  inbox,    \* lifecycle messages waiting for the main thread
  inst,     \* the live service instance, 0 if none
  created,  \* instances created so far
  updating, \* requestingUpdates of the live instance
  exec,     \* per instance: its executor and the task it runs
  fixTrip,  \* ghost: for each captured fix, the snapshot's trip at capture
  got,      \* ghost: per trip, the fixes the backend received, in order
  given,    \* ghost: fixes given up: over the bound, trip ended, process died
  mixed,    \* ghost: a trip began or ended under a delivery, or was replaced
  starts, crashes

prefs == <<trip, queue>>
ghosts == <<fixTrip, got, given, mixed>>
service == <<started, inbox, inst, created, updating>>
bounds == <<starts, crashes>>
vars == <<prefs, disk, call, service, exec, ghosts, bounds>>

PCs == {"idle", "read", "post", "wait", "recheck", "store", "guard", "enqueue"}

Executors == [pc : PCs, tasks : Seq(Fixes), cur : 0..MaxWork, todo : Seq(Fixes),
              to : MaybeTrip, copy : Seq(Fixes), rest : BOOLEAN]

\* An executor: the tasks waiting for it, and the running task's fix (cur),
\* the queued fixes it has still to post (todo), the trip its request went to
\* (to), the list it is about to store (copy), and whether the list is the
\* remains of the queue (then the current fix comes after it).
NewExecutor == [pc |-> "idle", tasks |-> <<>>, cur |-> 0, todo |-> <<>>,
                to |-> NoTrip, copy |-> <<>>, rest |-> FALSE]

Init ==
  /\ trip = NoTrip /\ queue = <<>> /\ disk = [trip |-> NoTrip, queue |-> <<>>]
  /\ call = "none" /\ started = FALSE /\ inbox = <<>>
  /\ inst = 0 /\ created = 0 /\ updating = FALSE
  /\ exec = [i \in Instances |-> NewExecutor]
  /\ fixTrip = <<>> /\ got = [t \in Trips |-> <<>>] /\ given = {}
  /\ mixed = FALSE
  /\ starts = 0 /\ crashes = 0

Busy(i) == exec[i].pc # "idle" \/ exec[i].tasks # <<>>
InFlight == \E i \in Instances : Busy(i)

Elems(s) == {s[k] : k \in DOMAIN s}

-----------------------------------------------------------------------------
(* The module's calls. *)

\* startTracking, first half: save() overwrites trip, backend and token, and
\* leaves the queue as it is.
SaveTrip(t) ==
  /\ call = "none" /\ starts + Len(fixTrip) < MaxWork
  /\ trip' = t /\ call' = "start" /\ starts' = starts + 1
  /\ mixed' = (mixed \/ InFlight \/ trip \notin {NoTrip, t})
  /\ UNCHANGED <<queue, disk, service, exec, fixTrip, got, given, crashes>>

\* startTracking, second half: startForegroundService.
RequestStart ==
  /\ call = "start" /\ call' = "none"
  /\ started' = TRUE /\ inbox' = Append(inbox, "start")
  /\ UNCHANGED <<prefs, disk, inst, created, updating, exec, ghosts, bounds>>

\* Mutant: the queue outlives its trip.
ClearTripOnly ==
  /\ call = "none" /\ trip # NoTrip
  /\ trip' = NoTrip /\ call' = "stop"
  /\ mixed' = (mixed \/ InFlight)
  /\ UNCHANGED <<queue, given, disk, service, exec, fixTrip, got, bounds>>

\* stopTracking, first half: clear() empties the preferences, queue included.
ClearPrefs ==
  /\ call = "none" /\ trip # NoTrip
  /\ trip' = NoTrip /\ queue' = <<>> /\ call' = "stop"
  /\ given' = given \cup Elems(queue)
  /\ mixed' = (mixed \/ InFlight)
  /\ UNCHANGED <<disk, service, exec, fixTrip, got, bounds>>

\* The system tears the service down once, however often it is asked to.
TearDown(box) ==
  /\ started' = FALSE
  /\ inbox' = IF started THEN Append(box, "destroy") ELSE box

\* stopTracking, second half: stopService.
RequestStop ==
  /\ call = "stop" /\ call' = "none"
  /\ TearDown(inbox)
  /\ UNCHANGED <<prefs, disk, inst, created, updating, exec, ghosts, bounds>>

-----------------------------------------------------------------------------
(* The main thread. *)

\* Mutant: a restart does not look for a saved trip.
OnStartBlind(granted) ==
  /\ inbox # <<>> /\ Head(inbox) = "start"
  /\ \/ inst # 0 /\ UNCHANGED <<inst, created>>
     \/ /\ inst = 0 /\ created < MaxInstances
        /\ created' = created + 1 /\ inst' = created + 1
  /\ IF granted \/ updating
       THEN updating' = TRUE /\ inbox' = Tail(inbox) /\ UNCHANGED started
       ELSE UNCHANGED updating /\ TearDown(Tail(inbox))
  /\ UNCHANGED <<prefs, disk, call, exec, ghosts, bounds>>

\* onStartCommand, after onCreate when no instance lives: without a trip, or
\* without permission, the service stops itself; otherwise it asks for fixes.
OnStart(granted) ==
  /\ inbox # <<>> /\ Head(inbox) = "start"
  /\ \/ inst # 0 /\ UNCHANGED <<inst, created>>
     \/ /\ inst = 0 /\ created < MaxInstances
        /\ created' = created + 1 /\ inst' = created + 1
  /\ IF trip # NoTrip /\ (granted \/ updating)
       THEN updating' = TRUE /\ inbox' = Tail(inbox) /\ UNCHANGED started
       ELSE UNCHANGED updating /\ TearDown(Tail(inbox))
  /\ UNCHANGED <<prefs, disk, call, exec, ghosts, bounds>>

\* onDestroy: no more fixes, waiting tasks are dropped, a running task goes
\* on; the system waits for pending apply() writes.
OnDestroy ==
  /\ inbox # <<>> /\ Head(inbox) = "destroy" /\ inbox' = Tail(inbox)
  /\ updating' = FALSE /\ inst' = 0
  /\ IF inst = 0
       THEN UNCHANGED <<exec, given>>
       ELSE /\ exec' = [exec EXCEPT ![inst].tasks = <<>>]
            /\ given' = given \cup Elems(exec[inst].tasks)
  /\ mixed' = (mixed \/ (inst # 0 /\ Busy(inst)))
  /\ disk' = [trip |-> trip, queue |-> queue]
  /\ UNCHANGED <<prefs, call, started, created, fixTrip, got, bounds>>

\* onLocationResult: a fix becomes a task of the instance's executor.
OnFix ==
  /\ updating /\ starts + Len(fixTrip) < MaxWork
  /\ fixTrip' = Append(fixTrip, trip)
  /\ exec' = [exec EXCEPT ![inst].tasks = Append(@, Len(fixTrip) + 1)]
  /\ UNCHANGED <<prefs, disk, call, service, got, given, mixed, bounds>>

-----------------------------------------------------------------------------
(* The executor: deliverWithQueue. *)

Step(i, pc) == exec[i].pc = pc

\* The task ends; what it held is given up unless it was received or stored.
Return(i) == [exec[i] EXCEPT !.pc = "idle", !.cur = 0, !.todo = <<>>,
                             !.to = NoTrip, !.copy = <<>>, !.rest = FALSE]

\* A task begins: without a trip it returns at once.
Begin(i) ==
  /\ Step(i, "idle") /\ exec[i].tasks # <<>>
  /\ LET fix == Head(exec[i].tasks)
         taken == [exec[i] EXCEPT !.tasks = Tail(@), !.cur = fix]
     IN  IF trip = NoTrip
           THEN /\ exec' = [exec EXCEPT ![i] = [taken EXCEPT !.cur = 0]]
                /\ given' = given \cup {fix}
           ELSE /\ exec' = [exec EXCEPT ![i] = [taken EXCEPT !.pc = "read"]]
                /\ UNCHANGED given
  /\ UNCHANGED <<prefs, disk, call, service, fixTrip, got, mixed, bounds>>

\* readQueue: the fixes to post before the current one.
ReadQueue(i) ==
  /\ Step(i, "read")
  /\ exec' = [exec EXCEPT ![i].pc = "post", ![i].todo = queue,
                          ![i].rest = queue # <<>>]
  /\ UNCHANGED <<prefs, disk, call, service, ghosts, bounds>>

\* What a request is about: the next queued fix, then the current one.
Posting(e) == IF e.rest THEN Head(e.todo) ELSE e.cur

\* The request for Posting(e) succeeded, or failed: the first failure keeps
\* the fix and every later one.
Succeeded(e) ==
  IF ~e.rest THEN [e EXCEPT !.pc = "done"]
  ELSE [e EXCEPT !.todo = Tail(@), !.pc = IF Len(e.todo) = 1 THEN "recheck" ELSE "post"]

\* Mutant: the fix that failed is taken off the queue.
FailedDropping(e) ==
  [e EXCEPT !.pc = IF e.rest THEN "recheck" ELSE "guard",
            !.todo = IF e.rest THEN Tail(@) ELSE @]


Failed(e) == [e EXCEPT !.pc = IF e.rest THEN "recheck" ELSE "guard"]

Settle(i, e) ==
  exec' = [exec EXCEPT ![i] = IF e.pc = "done" THEN Return(i)
                              ELSE [e EXCEPT !.to = NoTrip]]

\* postPayload reads the snapshot afresh: without one the post fails; with one
\* the request goes to the trip it names, whatever the fix was captured on.
OpenRequest(i) ==
  /\ Step(i, "post")
  /\ IF trip = NoTrip
       THEN Settle(i, Failed(exec[i]))
       ELSE exec' = [exec EXCEPT ![i].pc = "wait", ![i].to = trip]
  /\ UNCHANGED <<prefs, disk, call, service, ghosts, bounds>>

\* The backend takes the fix and answers; the answer may be lost.
Received(i, answered) ==
  /\ Step(i, "wait")
  /\ got' = [got EXCEPT ![exec[i].to] = Append(@, Posting(exec[i]))]
  /\ Settle(i, IF answered THEN Succeeded(exec[i]) ELSE Failed(exec[i]))
  /\ UNCHANGED <<prefs, disk, call, service, fixTrip, given, mixed, bounds>>

\* The request does not reach the backend, or is refused.
Refused(i) ==
  /\ Step(i, "wait")
  /\ Settle(i, Failed(exec[i]))
  /\ UNCHANGED <<prefs, disk, call, service, ghosts, bounds>>

\* The loop is over: if the trip has ended meanwhile the task returns and the
\* remains are lost, otherwise they are written back over the queue.
Recheck(i) ==
  /\ Step(i, "recheck")
  /\ IF trip = NoTrip
       THEN /\ exec' = [exec EXCEPT ![i] = Return(i)]
            /\ given' = given \cup Elems(exec[i].todo) \cup {exec[i].cur}
       ELSE /\ exec' = [exec EXCEPT ![i].pc = "store", ![i].copy = exec[i].todo,
                                  ![i].todo = <<>>]
            /\ UNCHANGED given
  /\ UNCHANGED <<prefs, disk, call, service, fixTrip, got, mixed, bounds>>

\* The current fix failed: it is queued unless the trip has ended meanwhile.
Guard(i) ==
  /\ Step(i, "guard")
  /\ IF trip = NoTrip
       THEN /\ exec' = [exec EXCEPT ![i] = Return(i)]
            /\ given' = given \cup {exec[i].cur}
       ELSE exec' = [exec EXCEPT ![i].pc = "enqueue"] /\ UNCHANGED given
  /\ UNCHANGED <<prefs, disk, call, service, fixTrip, got, mixed, bounds>>

\* enqueue, its read: the fix joins the end of a copy of the queue, and the
\* oldest fixes over the bound leave it.
Over == IF Len(queue) >= MaxQueue THEN Len(queue) + 1 - MaxQueue ELSE 0
Enqueue(i) ==
  /\ Step(i, "enqueue")
  /\ LET all == Append(queue, exec[i].cur) IN
     /\ exec' = [exec EXCEPT ![i].pc = "store",
                             ![i].copy = SubSeq(all, Over + 1, Len(all))]
     /\ given' = given \cup {all[k] : k \in 1..Over}
  /\ UNCHANGED <<prefs, disk, call, service, fixTrip, got, mixed, bounds>>

\* Mutant: the current fix is posted although older ones are still queued.
WriteQueueHasty(i) ==
  /\ Step(i, "store")
  /\ queue' = exec[i].copy
  /\ exec' = [exec EXCEPT ![i] =
       IF ~exec[i].rest THEN Return(i)
       ELSE [exec[i] EXCEPT !.pc = "post", !.copy = <<>>, !.rest = FALSE]]
  /\ UNCHANGED <<trip, disk, call, service, ghosts, bounds>>

\* writeQueue.  After the remains: the current fix is queued behind them if
\* the loop was blocked, and posted otherwise.  After enqueue: the task ends.
WriteQueue(i) ==
  /\ Step(i, "store")
  /\ queue' = exec[i].copy
  /\ exec' = [exec EXCEPT ![i] =
       IF ~exec[i].rest THEN Return(i)
       ELSE [exec[i] EXCEPT !.pc = IF exec[i].copy = <<>> THEN "post" ELSE "enqueue",
                            !.copy = <<>>, !.rest = FALSE]]
  /\ UNCHANGED <<trip, disk, call, service, ghosts, bounds>>

-----------------------------------------------------------------------------
(* The device. *)

\* A pending apply() reaches the file (which only a death of the process reads).
Flush ==
  /\ crashes < MaxCrashes
  /\ disk' = [trip |-> trip, queue |-> queue]
  /\ UNCHANGED <<prefs, call, service, exec, ghosts, bounds>>

Held(e) == Elems(e.tasks) \cup Elems(e.todo) \cup Elems(e.copy) \cup ({e.cur} \ {0})

\* The process dies: only the file survives.  START_STICKY has the system
\* start a service it considers started again.
ProcessDeath ==
  /\ crashes < MaxCrashes /\ crashes' = crashes + 1
  /\ trip' = disk.trip /\ queue' = disk.queue
  /\ call' = "none" /\ updating' = FALSE /\ inst' = 0
  /\ inbox' = IF started THEN <<"start">> ELSE <<>>
  /\ exec' = [i \in Instances |-> NewExecutor]
  /\ given' = given \cup ((Elems(queue) \cup UNION {Held(exec[i]) : i \in Instances})
                            \ Elems(disk.queue))
  /\ UNCHANGED <<disk, started, created, fixTrip, got, mixed, starts>>

-----------------------------------------------------------------------------
Deliver(i) ==
  \/ Begin(i) \/ ReadQueue(i) \/ OpenRequest(i) \/ Refused(i)
  \/ \E answered \in BOOLEAN : Received(i, answered)
  \/ Recheck(i) \/ Guard(i) \/ Enqueue(i) \/ WriteQueue(i)

MainThread == (\E granted \in BOOLEAN : OnStart(granted)) \/ OnDestroy

Next ==
  \/ \E t \in Trips : SaveTrip(t)
  \/ RequestStart \/ ClearPrefs \/ RequestStop
  \/ MainThread \/ OnFix
  \/ \E i \in Instances : Deliver(i)
  \/ Flush \/ ProcessDeath

Spec == Init /\ [][Next]_vars

\* A call runs to its end, and the main thread handles what it is sent.
FairSpec == Spec /\ WF_vars(RequestStart \/ RequestStop) /\ WF_vars(MainThread)

-----------------------------------------------------------------------------
\* Every variable has its type; in particular the stored queue, in memory and
\* on disk, never exceeds MAX_QUEUE_SIZE.
TypeOK ==
  /\ trip \in MaybeTrip /\ queue \in Seq(Fixes) /\ Len(queue) <= MaxQueue
  /\ disk \in [trip : MaybeTrip, queue : Seq(Fixes)] /\ Len(disk.queue) <= MaxQueue
  /\ call \in {"none", "start", "stop"} /\ started \in BOOLEAN
  /\ inbox \in Seq({"start", "destroy"})
  /\ created \in 0..MaxInstances /\ inst \in 0..created
  /\ updating \in BOOLEAN /\ (updating => inst # 0)
  /\ exec \in [Instances -> Executors]
  /\ \A i \in Instances : exec[i].pc = "wait" => exec[i].to \in Trips
  /\ fixTrip \in Seq(MaybeTrip) /\ starts \in Nat
  /\ starts + Len(fixTrip) <= MaxWork
  /\ got \in [Trips -> Seq(Fixes)] /\ given \subseteq Fixes
  /\ mixed \in BOOLEAN /\ crashes \in 0..MaxCrashes

\* A fix captured on one trip is posted to that trip.  The payload names no
\* trip and save() keeps the queue, so this needs more than the code checks:
\* no stop, start or destroy fell into a delivery, and no start replaced a trip.
OwnTrip ==
  ~mixed => \A t \in Trips : \A n \in Elems(got[t]) : fixTrip[n] = t

\* The backend sees fixes in the order of capture, repeats included: the
\* mixer's position does not go back.  A death of the process between a post
\* and the write of the queue may repeat older fixes.
OldestFirst ==
  ~mixed /\ crashes = 0 =>
    \A t \in Trips : \A k \in 1..(Len(got[t]) - 1) : got[t][k] <= got[t][k + 1]

\* No fix vanishes: it was received, waits in the queue, is in an executor's
\* hands, or was given up for a reason the code has (the bound, the end of the
\* trip, the death of the process).
NoSilentLoss ==
  ~mixed =>
    \A n \in DOMAIN fixTrip :
      \/ \E t \in Trips : n \in Elems(got[t])
      \/ n \in Elems(queue) \cup given
      \/ \E i \in Instances : n \in Held(exec[i])

\* Once the trip is cleared the service stops asking for fixes, also when the
\* process dies in between and the system starts the service again.
StopEndsUpdates == (trip = NoTrip) ~> (~updating \/ trip # NoTrip)
=============================================================================
