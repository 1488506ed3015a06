------------------------- MODULE TripTrackingProofs -------------------------
(***************************************************************************)
(* Proofs about TripTracking: nothing tracks the driver once a halt has    *)
(* ended with no start in flight, and no watcher outlives its screen, for  *)
(* any trips and any number of concurrent starts.                          *)
(***************************************************************************)
EXTENDS TripTracking, TLAPS

\* A trip that a screen shows as active has left ASSIGNED for good, and only a
\* mounted screen shows anything.
StatusMoves ==
  \A t \in Trips : /\ shown[t] \in Active => status[t] # "ASSIGNED"
                   /\ shown[t] # None => t \in mounted

\* A screen that waits for a permission, or discloses, shows an active trip; a
\* disclosure survives a sign-out, but nobody can reach it then.
AsksWhileActive ==
  /\ \A t \in asking : shown[t] \in Active
  /\ \A t \in disclosure : shown[t] \in Active \/ ~signedIn

\* The driver signs out at home and stays there.
SignsOutAtHome ==
  /\ halt["signOut"] # "none" \/ ~signedIn => top = "home"
  /\ ~signedIn => loading = {} /\ asking = {}

\* A run is stale once its screen no longer shows an active trip, and gone once
\* the screen is.
RunKnows(e) ==
  e.pc # "idle" =>
    /\ e.trip \in Trips
    /\ e.gone => e.stale
    /\ ~e.gone => e.trip \in mounted
    /\ ~e.stale => shown[e.trip] \in Active

RunsKnow == \A r \in Runs : RunKnows(run[r])

\* A halt that meets no run undoes the background for good, step by step.
HaltUndoes ==
  ~overlap =>
    /\ Flying = {} \/ Halting = {}
    /\ \A c \in Callers : /\ halt[c] \in {"native", "expo"} => key = None
                          /\ halt[c] = "expo" => native = None
    /\ quiet => Flying = {}

IInv == /\ TypeOK /\ StatusMoves /\ AsksWhileActive /\ SignsOutAtHome /\ RunsKnow
        /\ WatcherEndsWithScreen /\ HaltUndoes /\ OffAfterHalt

-----------------------------------------------------------------------------
(* What the steps have in common. *)

RunRecords == [pc : PCs, trip : Trips \cup {None}, stale : BOOLEAN, gone : BOOLEAN]

\* An idle run is a run.
LEMMA IdleRun == Idle \in RunRecords /\ Idle.pc = "idle"
  BY DEF Idle, RunRecords, PCs

\* A visible trip's screen is neither the home nor the POD screen.
LEMMA PlacesDiffer ==
  /\ \A t \in Trips : t # "home" /\ t # "pod"
  /\ None \notin Trips /\ None \notin Runs /\ None \notin Statuses
  BY TrackingAssumption

\* A step that moves no run, no halt and nothing in the background.
LEMMA NoMove ==
  ASSUME HaltUndoes, OffAfterHalt, UNCHANGED <<run, halt, background, quiet, overlap>>
  PROVE  HaltUndoes' /\ OffAfterHalt'
  BY DEF HaltUndoes, OffAfterHalt, Flying, Halting, background

\* The cleanup of a screen's effect moves no run.
LEMMA CleanupMovesNothing ==
  ASSUME TypeOK, NEW T, run' = Left(T) \/ run' = Gone(T)
  PROVE  /\ run' \in [Runs -> RunRecords] /\ Flying' = Flying
         /\ \A r \in Runs : /\ run'[r].pc = run[r].pc /\ run'[r].trip = run[r].trip
                            /\ run'[r].stale = (run[r].stale \/ run[r].trip \in T)
                            /\ run[r].gone => run'[r].gone
                            /\ run'[r].gone => run[r].gone \/ run[r].trip \in T
         /\ run' = Gone(T) => \A r \in Runs : run[r].trip \in T => run'[r].gone
         /\ run' = Left(T) => \A r \in Runs : run'[r].gone = run[r].gone
  <1>1. run \in [Runs -> RunRecords]
    BY DEF TypeOK, RunRecords
  <1>2. ASSUME NEW r \in Runs
        PROVE  /\ run'[r] \in RunRecords
               /\ run'[r].pc = run[r].pc /\ run'[r].trip = run[r].trip
               /\ run'[r].stale = (run[r].stale \/ run[r].trip \in T)
               /\ run[r].gone => run'[r].gone
               /\ run'[r].gone => run[r].gone \/ run[r].trip \in T
               /\ run' = Gone(T) /\ run[r].trip \in T => run'[r].gone
               /\ run' = Left(T) => run'[r].gone = run[r].gone
    <2>1. PICK e \in RunRecords : e = run[r]
      BY <1>1
    <2>2. CASE e.trip \in T
      BY <2>1, <2>2 DEF Left, Gone, RunRecords
    <2>3. CASE e.trip \notin T
      BY <2>1, <2>3 DEF Left, Gone, RunRecords
    <2> QED
      BY <2>2, <2>3
  <1>3. DOMAIN run' = Runs /\ run' = [r \in Runs |-> run'[r]]
    BY DEF Left, Gone
  <1>4. Flying' = Flying
    BY <1>2 DEF Flying
  <1> QED
    BY <1>2, <1>3, <1>4

\* A halt begins, or none does.
LEMMA MayHalt ==
  ASSUME TypeOK, HaltUndoes, OffAfterHalt, NEW c \in Callers,
         \/ StartHalt(c)
         \/ UNCHANGED <<halt, overlap>>,
         Flying' = Flying, UNCHANGED <<background, quiet>>
  PROVE  /\ halt' \in [Callers -> {"none", "key", "native", "expo"}] /\ overlap' \in BOOLEAN
         /\ HaltUndoes' /\ OffAfterHalt'
         /\ \A d \in Callers \ {c} : halt'[d] = halt[d]
  <1>1. CASE UNCHANGED <<halt, overlap>>
    <2>1. Halting' = Halting
      BY <1>1 DEF Halting
    <2> QED
      BY <1>1, <2>1 DEF TypeOK, HaltUndoes, OffAfterHalt, background
  <1>2. CASE StartHalt(c)
    <2>1. \A d \in Callers : halt'[d] = IF d = c THEN "key" ELSE halt[d]
      BY <1>2 DEF TypeOK, StartHalt
    <2>2. overlap' = (overlap \/ Flying # {}) /\ overlap' \in BOOLEAN
      BY <1>2 DEF StartHalt, TypeOK
    <2>3. halt' \in [Callers -> {"none", "key", "native", "expo"}]
      BY <1>2 DEF TypeOK, StartHalt
    <2>4. HaltUndoes'
      BY <2>1, <2>2 DEF HaltUndoes, background, TypeOK
    <2>5. OffAfterHalt'
      BY <2>2 DEF OffAfterHalt, background, TypeOK
    <2> QED
      BY <2>1, <2>2, <2>3, <2>4, <2>5
  <1> QED
    BY <1>1, <1>2

\* A run begins for a trip that its mounted screen shows as active.
LEMMA RunBegins ==
  ASSUME TypeOK, RunsKnow, HaltUndoes, NEW t \in Trips, StartRun(t),
         t \in mounted, shown[t] \in Active, UNCHANGED <<mounted, shown, halt, background>>
  PROVE  /\ run' \in [Runs -> RunRecords] /\ quiet' \in BOOLEAN /\ overlap' \in BOOLEAN
         /\ RunsKnow' /\ HaltUndoes' /\ OffAfterHalt'
         /\ dialog # None => run'[dialog].pc = "consent"
  <1>1. PICK r \in Runs :
          /\ run[r].pc = "idle"
          /\ run' = [run EXCEPT ![r] = [Idle EXCEPT !.pc = "ask", !.trip = t]]
    BY DEF StartRun
  <1> DEFINE e == [pc |-> "ask", trip |-> t, stale |-> FALSE, gone |-> FALSE]
  <1>2. run' = [run EXCEPT ![r] = e]
    <2>1. ASSUME NEW g, g = [Idle EXCEPT !.pc = "ask", !.trip = t] PROVE g = e
      BY <2>1 DEF Idle
    <2> QED
      BY <1>1, <2>1
  <1>3. e \in RunRecords
    BY DEF RunRecords, PCs
  <1>4. /\ e.pc = "ask" /\ e.trip = t /\ ~e.stale /\ ~e.gone
    OBVIOUS
  <1> HIDE DEF e
  <1>5. \A s \in Runs : run'[s] = IF s = r THEN e ELSE run[s]
    BY <1>2 DEF TypeOK
  <1>6. run' \in [Runs -> RunRecords]
    BY <1>2, <1>3 DEF TypeOK, RunRecords
  <1>7. RunsKnow'
    <2>1. ASSUME NEW s \in Runs PROVE RunKnows(run[s])'
      BY <1>4, <1>5 DEF RunsKnow, RunKnows
    <2> QED
      BY <2>1 DEF RunsKnow
  <1>8. /\ quiet' = FALSE /\ overlap' = (overlap \/ Halting # {}) /\ Halting' = Halting
    BY DEF StartRun, Halting
  <1>9. HaltUndoes' /\ OffAfterHalt'
    BY <1>8 DEF HaltUndoes, OffAfterHalt, background, TypeOK
  <1>10. dialog # None => run'[dialog].pc = "consent"
    BY <1>1, <1>5 DEF TypeOK, At
  <1> QED
    BY <1>6, <1>7, <1>8, <1>9, <1>10 DEF TypeOK

\* A run in flight moves or ends, whatever it does to the background: nothing
\* is quiet, and with no overlap no halt is in flight.
LEMMA RunMoves ==
  ASSUME IInv, NEW r \in Runs, run[r].pc # "idle",
         \A s \in Runs \ {r} : run'[s] = run[s],
         \/ run'[r].pc = "idle"
         \/ /\ run'[r].trip = run[r].trip /\ run'[r].stale = run[r].stale
            /\ run'[r].gone = run[r].gone,
         UNCHANGED <<status, screen, place, halt, quiet, overlap>>
  PROVE  /\ StatusMoves' /\ AsksWhileActive' /\ SignsOutAtHome' /\ RunsKnow'
         /\ HaltUndoes' /\ OffAfterHalt'
  <1>1. StatusMoves' /\ AsksWhileActive' /\ SignsOutAtHome'
    BY DEF IInv, StatusMoves, AsksWhileActive, SignsOutAtHome, screen, place
  <1>2. RunsKnow'
    <2>1. ASSUME NEW s \in Runs PROVE RunKnows(run[s])'
      BY DEF IInv, RunsKnow, RunKnows, screen
    <2> QED
      BY <2>1 DEF RunsKnow
  <1>3. r \in Flying /\ Flying' \subseteq Flying /\ Halting' = Halting
    BY DEF Flying, Halting
  <1>4. ~overlap => ~quiet /\ Halting = {}
    BY <1>3 DEF IInv, HaltUndoes, TypeOK
  <1>5. HaltUndoes' /\ OffAfterHalt'
    BY <1>3, <1>4 DEF HaltUndoes, OffAfterHalt, Halting
  <1> QED
    BY <1>1, <1>2, <1>5

-----------------------------------------------------------------------------
(* The steps of a run. *)

\* What a run is after it went on to step p, or ended.
LEMMA GotoFields ==
  ASSUME TypeOK, NEW r \in Runs, NEW p \in PCs, Goto(r, p)
  PROVE  /\ run' \in [Runs -> RunRecords]
         /\ \A s \in Runs \ {r} : run'[s] = run[s]
         /\ run'[r].pc = p /\ run'[r].trip = run[r].trip
         /\ run'[r].stale = run[r].stale /\ run'[r].gone = run[r].gone
  BY DEF TypeOK, Goto, RunRecords

\* A run that ends becomes idle and the others stay as they are.
LEMMA EndFields ==
  ASSUME TypeOK, NEW r \in Runs, End(r)
  PROVE  /\ run' \in [Runs -> RunRecords]
         /\ \A s \in Runs \ {r} : run'[s] = run[s]
         /\ run'[r].pc = "idle"
  BY IdleRun DEF TypeOK, End, RunRecords

\* A run's step keeps the invariant if it keeps the types and gives no watcher.
LEMMA RunStep ==
  ASSUME IInv, NEW r \in Runs, run[r].pc # "idle",
         (\E p \in PCs : Goto(r, p)) \/ End(r),
         UNCHANGED <<others, foreground, quiet, overlap, late>>,
         key' \in Trips \cup {None}, native' \in Trips \cup {None}, expo' \in BOOLEAN,
         bgGranted' \in BOOLEAN, refused' \in BOOLEAN,
         dialog' \in Runs \cup {None}, dialog' # None => run'[dialog'].pc = "consent"
  PROVE  IInv'
  <1>1. /\ run' \in [Runs -> RunRecords] /\ \A s \in Runs \ {r} : run'[s] = run[s]
        /\ \/ run'[r].pc = "idle"
           \/ /\ run'[r].trip = run[r].trip /\ run'[r].stale = run[r].stale
              /\ run'[r].gone = run[r].gone
    BY GotoFields, EndFields DEF IInv
  <1>2. UNCHANGED <<status, screen, place, halt, quiet, overlap>>
    BY DEF others
  <1>3. /\ StatusMoves' /\ AsksWhileActive' /\ SignsOutAtHome' /\ RunsKnow'
        /\ HaltUndoes' /\ OffAfterHalt'
    BY <1>1, <1>2, RunMoves
  <1>4. TypeOK'
    BY <1>1 DEF IInv, TypeOK, RunRecords, others, screen, place, foreground, At
  <1>5. WatcherEndsWithScreen'
    BY DEF IInv, WatcherEndsWithScreen, others, screen, foreground
  <1> QED
    BY <1>3, <1>4, <1>5 DEF IInv

\* The steps a run can be at, and the trip it is about.
LEMMA RunFacts ==
  ASSUME IInv, NEW r \in Runs
  PROVE  /\ run[r] \in RunRecords /\ run[r].trip \in Trips \cup {None}
         /\ key \in Trips \cup {None} /\ native \in Trips \cup {None}
         /\ {expo, bgGranted, refused} \subseteq BOOLEAN
         /\ dialog \in Runs \cup {None} /\ (dialog # None => run[dialog].pc = "consent")
         /\ {"idle", "ask", "position", "consent", "prompt", "native", "unexpo", "expo",
             "watch"} = PCs
  BY DEF IInv, TypeOK, RunRecords, At, PCs

\* A dialog that is for another run stays so.
LEMMA DialogStays ==
  ASSUME IInv, NEW r \in Runs, run[r].pc # "consent", UNCHANGED dialog,
         \A s \in Runs \ {r} : run'[s] = run[s]
  PROVE  dialog' \in Runs \cup {None} /\ (dialog' # None => run'[dialog'].pc = "consent")
  BY RunFacts

\* Asking for the foreground permission keeps the invariant.
LEMMA AskStep ==
  ASSUME IInv, NEW r \in Runs, Ask(r)
  PROVE  IInv'
  <1>1. run[r].pc = "ask" /\ UNCHANGED dialog /\ ((\E p \in PCs : Goto(r, p)) \/ End(r))
    BY RunFacts DEF Ask, At
  <1>2. \A s \in Runs \ {r} : run'[s] = run[s]
    BY <1>1, GotoFields, EndFields DEF IInv
  <1>3. key' \in Trips \cup {None} /\ refused' \in BOOLEAN
    BY RunFacts DEF Ask
  <1>4. UNCHANGED <<others, native, expo, foreground, dialog, bgGranted, quiet, overlap, late>>
    BY DEF Ask
  <1> QED
    BY <1>1, <1>2, <1>3, <1>4, DialogStays, RunFacts, RunStep

\* The run whose dialog opens is the one the dialog will resolve.
LEMMA PositionStep ==
  ASSUME IInv, NEW r \in Runs, Position(r)
  PROVE  IInv'
  <1>1. run[r].pc = "position" /\ \E p \in PCs : Goto(r, p)
    BY RunFacts DEF Position, At
  <1>2. \A s \in Runs \ {r} : run'[s] = run[s]
    BY <1>1, GotoFields DEF IInv
  <1>3. dialog' \in Runs \cup {None} /\ (dialog' # None => run'[dialog'].pc = "consent")
    <2>1. CASE bgGranted
      BY <1>1, <1>2, <2>1, DialogStays DEF Position
    <2>2. CASE ~bgGranted
      <3>1. Goto(r, "consent") /\ dialog' = r
        BY <2>2 DEF Position
      <3> QED
        BY <3>1, GotoFields, RunFacts DEF IInv
    <2> QED
      BY <2>1, <2>2
  <1>4. UNCHANGED <<others, background, foreground, bgGranted, ghosts>>
    BY DEF Position
  <1> QED
    BY <1>1, <1>3, <1>4, RunFacts, RunStep DEF background, ghosts

\* The answer to the consent dialog of a run keeps the invariant.
LEMMA SettleStep ==
  ASSUME IInv, NEW granted \in BOOLEAN, Settle(granted)
  PROVE  IInv'
  <1>1. PICK r \in Runs : r = dialog /\ run[r].pc = "consent"
    BY DEF Settle, IInv, TypeOK, At
  <1>2. \E p \in PCs : Goto(r, p)
    BY <1>1, RunFacts DEF Settle
  <1>3. dialog' = None /\ refused' \in BOOLEAN
    BY <1>1, RunFacts DEF Settle
  <1>4. UNCHANGED <<others, background, foreground, bgGranted, quiet, overlap, late>>
    BY DEF Settle
  <1> QED
    BY <1>1, <1>2, <1>3, <1>4, RunFacts, RunStep DEF background

\* Asking for the background permission keeps the invariant.
LEMMA PromptStep ==
  ASSUME IInv, NEW r \in Runs, PromptBackground(r)
  PROVE  IInv'
  <1>1. run[r].pc = "prompt" /\ UNCHANGED dialog /\ (\E p \in PCs : Goto(r, p))
    BY RunFacts DEF PromptBackground, At
  <1>2. \A s \in Runs \ {r} : run'[s] = run[s]
    BY <1>1, GotoFields DEF IInv
  <1>3. bgGranted' \in BOOLEAN /\ refused' \in BOOLEAN
    BY RunFacts DEF PromptBackground
  <1>4. UNCHANGED <<others, background, foreground, dialog, quiet, overlap, late>>
    BY DEF PromptBackground
  <1> QED
    BY <1>1, <1>2, <1>3, <1>4, DialogStays, RunFacts, RunStep DEF background

\* Starting the native service keeps the invariant: a halt under way will stop it.
LEMMA StartNativeStep ==
  ASSUME IInv, NEW r \in Runs, StartNative(r)
  PROVE  IInv'
  <1>1. run[r].pc = "native" /\ UNCHANGED dialog /\ (\E p \in PCs : Goto(r, p))
    BY RunFacts DEF StartNative, At
  <1>2. \A s \in Runs \ {r} : run'[s] = run[s]
    BY <1>1, GotoFields DEF IInv
  <1>3. native' \in Trips \cup {None}
    BY RunFacts DEF StartNative
  <1>4. UNCHANGED <<others, key, expo, foreground, dialog, bgGranted, ghosts>>
    BY DEF StartNative
  <1> QED
    BY <1>1, <1>2, <1>3, <1>4, DialogStays, RunFacts, RunStep DEF ghosts

\* Removing the other background task keeps the invariant.
LEMMA DropExpoStep ==
  ASSUME IInv, NEW r \in Runs, DropExpo(r)
  PROVE  IInv'
  <1>1. run[r].pc = "unexpo" /\ UNCHANGED dialog /\ End(r) /\ expo' = FALSE
    BY DEF DropExpo, At
  <1>2. \A s \in Runs \ {r} : run'[s] = run[s]
    BY <1>1, EndFields DEF IInv
  <1>3. UNCHANGED <<others, key, native, foreground, dialog, bgGranted, ghosts>>
    BY DEF DropExpo
  <1> QED
    BY <1>1, <1>2, <1>3, DialogStays, RunFacts, RunStep DEF ghosts

\* Starting the other background task keeps the invariant.
LEMMA StartExpoStep ==
  ASSUME IInv, NEW r \in Runs, StartExpo(r)
  PROVE  IInv'
  <1>1. run[r].pc = "expo" /\ UNCHANGED dialog /\ ((\E p \in PCs : Goto(r, p)) \/ End(r))
    BY RunFacts DEF StartExpo, At
  <1>2. \A s \in Runs \ {r} : run'[s] = run[s]
    BY <1>1, GotoFields, EndFields DEF IInv
  <1>3. expo' \in BOOLEAN
    BY RunFacts DEF StartExpo
  <1>4. UNCHANGED <<others, key, native, foreground, dialog, bgGranted, ghosts>>
    BY DEF StartExpo
  <1> QED
    BY <1>1, <1>2, <1>3, <1>4, DialogStays, RunFacts, RunStep DEF ghosts

\* The watcher of a run that is not stale goes to the screen of an active trip.
LEMMA WatchStep ==
  ASSUME IInv, NEW r \in Runs, Watch(r)
  PROVE  IInv'
  <1>1. run[r].pc = "watch" /\ UNCHANGED dialog /\ End(r)
    BY DEF Watch, At
  <1>2. /\ run' \in [Runs -> RunRecords] /\ run'[r].pc = "idle"
        /\ \A s \in Runs \ {r} : run'[s] = run[s]
    BY <1>1, EndFields DEF IInv
  <1>3. UNCHANGED <<others, background, dialog, bgGranted, quiet, overlap, refused>>
    BY DEF Watch
  <1>4. /\ StatusMoves' /\ AsksWhileActive' /\ SignsOutAtHome' /\ RunsKnow'
        /\ HaltUndoes' /\ OffAfterHalt'
    BY <1>1, <1>2, <1>3, RunMoves DEF others
  <1>5. /\ run[r].trip \in Trips /\ (run[r].gone => run[r].stale)
        /\ (~run[r].gone => run[r].trip \in mounted)
        /\ (~run[r].stale => shown[run[r].trip] \in Active)
    BY <1>1 DEF IInv, RunsKnow, RunKnows
  <1>6. dialog' \in Runs \cup {None} /\ (dialog' # None => run'[dialog'].pc = "consent")
    BY <1>1, <1>2, DialogStays
  <1>7. run[r].stale \in BOOLEAN /\ late \in BOOLEAN /\ late' = (late \/ run[r].stale)
    BY RunFacts DEF RunRecords, Watch, IInv, TypeOK
  <1>8. watch' \subseteq mounted /\ orphans' \subseteq Trips
    BY <1>5 DEF Watch, IInv, TypeOK
  <1>9. TypeOK'
    BY <1>2, <1>3, <1>6, <1>7, <1>8
       DEF IInv, TypeOK, RunRecords, others, screen, place, background, At
  <1>10. WatcherEndsWithScreen'
    BY <1>3, <1>5, <1>7 DEF IInv, WatcherEndsWithScreen, Watch, others, screen
  <1> QED
    BY <1>4, <1>9, <1>10 DEF IInv

-----------------------------------------------------------------------------
(* The screens. *)

\* Opening a trip's screen keeps the invariant.
LEMMA OpenStep ==
  ASSUME IInv, NEW t \in Trips, Open(t)
  PROVE  IInv'
  <1>1. TypeOK'
    BY PlacesDiffer DEF IInv, TypeOK, Open, AtHome, background, foreground, ghosts, At
  <1>2. StatusMoves' /\ AsksWhileActive' /\ WatcherEndsWithScreen'
    BY DEF IInv, StatusMoves, AsksWhileActive, WatcherEndsWithScreen, Open, foreground, ghosts
  <1>3. SignsOutAtHome'
    BY DEF IInv, SignsOutAtHome, Open, AtHome
  <1>4. RunsKnow'
    BY DEF IInv, RunsKnow, RunKnows, Open
  <1> QED
    BY <1>1, <1>2, <1>3, <1>4, NoMove DEF IInv, Open, ghosts

\* What the screen shows after a GET, and what the effect did with its runs.
LEMMA LoadStep ==
  ASSUME IInv, NEW t \in Trips, Load(t)
  PROVE  IInv'
  <1>1. /\ t \in mounted /\ signedIn /\ status[t] \in Statuses /\ loading' = loading \ {t}
        /\ UNCHANGED <<status, mounted, place, background, orphans, dialog, bgGranted>>
    BY DEF Load, IInv, TypeOK, SignsOutAtHome
  <1>2. CASE shown[t] = status[t]
    <2>1. UNCHANGED <<shown, asking, disclosure, watch, run, halt, ghosts>>
      BY <1>2 DEF Load, Show
    <2>2. TypeOK'
      BY <1>1, <2>1 DEF IInv, TypeOK, place, background, ghosts, At
    <2>3. StatusMoves' /\ AsksWhileActive' /\ WatcherEndsWithScreen' /\ SignsOutAtHome'
      BY <1>1, <2>1 DEF IInv, StatusMoves, AsksWhileActive, WatcherEndsWithScreen,
                        SignsOutAtHome, place, ghosts
    <2>4. RunsKnow'
      BY <1>1, <2>1 DEF IInv, RunsKnow, RunKnows
    <2> QED
      BY <1>1, <2>1, <2>2, <2>3, <2>4, NoMove DEF IInv, ghosts
  <1>3. CASE shown[t] # status[t]
    <2>1. /\ shown' = [shown EXCEPT ![t] = status[t]] /\ watch' = watch \ {t}
          /\ run' = Left({t}) /\ UNCHANGED <<quiet, refused, late>>
          /\ asking' = IF status[t] \in Active THEN asking \cup {t} ELSE asking \ {t}
      BY <1>3 DEF Load, Show
    <2>2. \A u \in Trips : shown'[u] = IF u = t THEN status[t] ELSE shown[u]
      BY <2>1 DEF IInv, TypeOK
    <2>3. /\ run' \in [Runs -> RunRecords] /\ Flying' = Flying
          /\ \A r \in Runs : /\ run'[r].pc = run[r].pc /\ run'[r].trip = run[r].trip
                             /\ run'[r].stale = (run[r].stale \/ run[r].trip \in {t})
                             /\ run'[r].gone = run[r].gone
      BY <2>1, CleanupMovesNothing DEF IInv
    <2>4. "screen" \in Callers /\ (StartHalt("screen") \/ UNCHANGED <<halt, overlap>>)
      BY <1>3 DEF Load, Show, Callers
    <2>5. /\ halt' \in [Callers -> {"none", "key", "native", "expo"}] /\ overlap' \in BOOLEAN
          /\ HaltUndoes' /\ OffAfterHalt' /\ halt'["signOut"] = halt["signOut"]
      <3>1. "signOut" \in Callers \ {"screen"}
        BY DEF Callers
      <3> QED
        BY <1>1, <2>1, <2>3, <2>4, <3>1, MayHalt DEF IInv
    <2>6. IF status[t] = "DELIVERED" THEN disclosure' = disclosure \ {t}
                                     ELSE disclosure' = disclosure
      BY <1>3 DEF Load, Show
    <2>7. TypeOK'
      <3>1. shown' \in [Trips -> Statuses \cup {None}]
        BY <1>1, <2>1 DEF IInv, TypeOK
      <3>2. {loading', asking', disclosure', watch'} \subseteq SUBSET mounted
        BY <1>1, <2>1, <2>6 DEF IInv, TypeOK
      <3>3. dialog \in Runs \cup {None} /\ (dialog # None => run'[dialog].pc = "consent")
        BY <2>3 DEF IInv, TypeOK, At
      <3> QED
        BY <1>1, <2>1, <2>3, <2>5, <3>1, <3>2, <3>3
           DEF IInv, TypeOK, RunRecords, place, background, At
    <2>8. StatusMoves'
      BY <1>1, <2>2 DEF IInv, StatusMoves, Active
    <2>9. AsksWhileActive'
      <3>1. t \in disclosure' => status[t] \in Active
        BY <1>1, <1>3, <2>6 DEF IInv, AsksWhileActive, StatusMoves, Statuses
      <3>2. \A u \in asking' : u \in Trips
        BY <2>7 DEF TypeOK
      <3>3. \A u \in disclosure' : u \in Trips /\ u \in disclosure
        BY <2>6, <2>7 DEF TypeOK
      <3>4. \A u \in asking' : shown'[u] \in Active
        BY <2>1, <2>2, <3>2 DEF IInv, AsksWhileActive
      <3>5. \A u \in disclosure' : shown'[u] \in Active \/ ~signedIn'
        BY <1>1, <2>2, <3>1, <3>3 DEF IInv, AsksWhileActive, place
      <3> QED
        BY <3>4, <3>5 DEF AsksWhileActive
    <2>10. SignsOutAtHome'
      BY <1>1, <2>5 DEF IInv, SignsOutAtHome, place
    <2>11. RunsKnow'
      <3>1. ASSUME NEW r \in Runs, run'[r].pc # "idle"
            PROVE  /\ run'[r].trip \in Trips
                   /\ run'[r].gone => run'[r].stale
                   /\ ~run'[r].gone => run'[r].trip \in mounted
                   /\ ~run'[r].stale => shown'[run'[r].trip] \in Active
        <4>1. /\ run[r].trip \in Trips /\ (run[r].gone => run[r].stale)
              /\ (~run[r].gone => run[r].trip \in mounted)
              /\ (~run[r].stale => shown[run[r].trip] \in Active)
          BY <2>3, <3>1 DEF IInv, RunsKnow, RunKnows
        <4> QED
          BY <2>2, <2>3, <4>1
      <3> QED
        BY <1>1, <3>1 DEF RunsKnow, RunKnows
    <2>12. WatcherEndsWithScreen'
      <3>1. \A u \in watch' : u \in Trips /\ u # t /\ u \in watch
        BY <2>1, <2>7 DEF TypeOK
      <3> QED
        BY <1>1, <2>1, <2>2, <3>1 DEF IInv, WatcherEndsWithScreen
    <2> QED
      BY <2>5, <2>7, <2>8, <2>9, <2>10, <2>11, <2>12 DEF IInv
  <1> QED
    BY <1>2, <1>3

\* The answer of the permission check starts a run or shows the screen's disclosure.
LEMMA PermissionKnownStep ==
  ASSUME IInv, NEW t \in Trips, PermissionKnown(t)
  PROVE  IInv'
  <1>1. t \in mounted /\ shown[t] \in Active /\ asking' = asking \ {t}
        /\ UNCHANGED <<status, mounted, shown, loading, place, halt, background,
                       foreground, dialog, bgGranted, refused, late>>
    BY DEF PermissionKnown, IInv, TypeOK, AsksWhileActive
  <1>2. StatusMoves' /\ SignsOutAtHome' /\ WatcherEndsWithScreen'
    BY <1>1 DEF IInv, StatusMoves, SignsOutAtHome, WatcherEndsWithScreen, place, foreground
  <1>3. CASE bgGranted
    <2>1. StartRun(t) /\ UNCHANGED disclosure
      BY <1>3 DEF PermissionKnown
    <2>2. /\ run' \in [Runs -> RunRecords] /\ quiet' \in BOOLEAN /\ overlap' \in BOOLEAN
          /\ RunsKnow' /\ HaltUndoes' /\ OffAfterHalt'
          /\ dialog # None => run'[dialog].pc = "consent"
      BY <1>1, <2>1, RunBegins DEF IInv
    <2>3. TypeOK'
      BY <1>1, <2>1, <2>2 DEF IInv, TypeOK, RunRecords, place, background, foreground, At
    <2>4. AsksWhileActive'
      BY <1>1, <2>1 DEF IInv, AsksWhileActive, place
    <2> QED
      BY <1>2, <2>2, <2>3, <2>4 DEF IInv
  <1>4. CASE ~bgGranted
    <2>1. disclosure' = disclosure \cup {t} /\ UNCHANGED <<run, quiet, overlap>>
      BY <1>4 DEF PermissionKnown
    <2>2. TypeOK'
      BY <1>1, <2>1 DEF IInv, TypeOK, place, background, foreground, At
    <2>3. AsksWhileActive' /\ RunsKnow'
      BY <1>1, <2>1 DEF IInv, AsksWhileActive, RunsKnow, RunKnows, place
    <2> QED
      BY <1>1, <1>2, <2>1, <2>2, <2>3, NoMove DEF IInv
  <1> QED
    BY <1>3, <1>4

\* Accepting the screen's disclosure starts a run for an active trip.
LEMMA AcceptDisclosureStep ==
  ASSUME IInv, NEW t \in Trips, AcceptDisclosure(t)
  PROVE  IInv'
  <1>1. t \in mounted /\ shown[t] \in Active /\ disclosure' = disclosure \ {t} /\ StartRun(t)
        /\ UNCHANGED <<status, mounted, shown, loading, asking, place, halt, background,
                       foreground, dialog, bgGranted, refused, late>>
    BY PlacesDiffer DEF AcceptDisclosure, IInv, TypeOK, AsksWhileActive, SignsOutAtHome
  <1>2. /\ run' \in [Runs -> RunRecords] /\ quiet' \in BOOLEAN /\ overlap' \in BOOLEAN
        /\ RunsKnow' /\ HaltUndoes' /\ OffAfterHalt'
        /\ dialog # None => run'[dialog].pc = "consent"
    BY <1>1, RunBegins DEF IInv
  <1>3. TypeOK'
    BY <1>1, <1>2 DEF IInv, TypeOK, RunRecords, place, background, foreground, At
  <1>4. StatusMoves' /\ SignsOutAtHome' /\ WatcherEndsWithScreen' /\ AsksWhileActive'
    BY <1>1 DEF IInv, StatusMoves, SignsOutAtHome, WatcherEndsWithScreen, AsksWhileActive,
                place, foreground
  <1> QED
    BY <1>2, <1>3, <1>4 DEF IInv

\* Declining the screen's disclosure keeps the invariant.
LEMMA DeclineDisclosureStep ==
  ASSUME IInv, NEW t \in Trips, DeclineDisclosure(t)
  PROVE  IInv'
  <1>1. TypeOK'
    BY DEF IInv, TypeOK, DeclineDisclosure, place, background, foreground, At
  <1>2. /\ StatusMoves' /\ SignsOutAtHome' /\ WatcherEndsWithScreen' /\ AsksWhileActive'
        /\ RunsKnow'
    BY DEF IInv, StatusMoves, SignsOutAtHome, WatcherEndsWithScreen, AsksWhileActive,
           RunsKnow, RunKnows, DeclineDisclosure, place, foreground
  <1> QED
    BY <1>1, <1>2, NoMove DEF IInv, DeclineDisclosure


\* The backend never takes a trip back to ASSIGNED.
LEMMA AdvanceStep ==
  ASSUME IInv, NEW t \in Trips, Advance(t)
  PROVE  IInv'
  <1>1. /\ top = t /\ t \in mounted /\ loading' \subseteq mounted
        /\ UNCHANGED <<mounted, shown, asking, disclosure, place, run, halt, background,
                       foreground, dialog, bgGranted, ghosts>>
    <2>1. shown[t] \in Statuses
      BY DEF Advance, Statuses, Active
    <2>2. t \in mounted
      BY <2>1, PlacesDiffer DEF IInv, StatusMoves
    <2> QED
      BY <2>2 DEF Advance, IInv, TypeOK
  <1>2. /\ status' \in [Trips -> Statuses]
        /\ \A u \in Trips : status[u] # "ASSIGNED" => status'[u] # "ASSIGNED"
    BY DEF Advance, IInv, TypeOK, Statuses, Active
  <1>3. TypeOK'
    BY <1>1, <1>2 DEF IInv, TypeOK, place, background, foreground, ghosts, At
  <1>4. StatusMoves'
    BY <1>1, <1>2 DEF IInv, StatusMoves
  <1>5. signedIn
    BY <1>1, PlacesDiffer DEF IInv, SignsOutAtHome, TypeOK
  <1>6. SignsOutAtHome' /\ WatcherEndsWithScreen' /\ AsksWhileActive' /\ RunsKnow'
    BY <1>1, <1>5 DEF IInv, SignsOutAtHome, WatcherEndsWithScreen, AsksWhileActive,
                RunsKnow, RunKnows, place, foreground, ghosts
  <1> QED
    BY <1>1, <1>3, <1>4, <1>6, NoMove DEF IInv, ghosts

\* Leaving a screen takes its watcher along, and its runs are gone.
LEMMA BackStep ==
  ASSUME IInv, NEW t \in Trips, Back(t)
  PROVE  IInv'
  <1>1. /\ top' = "home" /\ mounted' = mounted \ {t} /\ shown' = [shown EXCEPT ![t] = None]
        /\ loading' = loading \ {t} /\ asking' = asking \ {t}
        /\ disclosure' = disclosure \ {t} /\ run' = Gone({t}) /\ watch' = watch \ {t}
        /\ UNCHANGED <<status, podOf, signedIn, halt, background, dialog, bgGranted, ghosts>>
        /\ top = t
    BY DEF Back
  <1>2. /\ run' \in [Runs -> RunRecords] /\ Flying' = Flying
        /\ \A r \in Runs : /\ run'[r].pc = run[r].pc /\ run'[r].trip = run[r].trip
                           /\ run'[r].stale = (run[r].stale \/ run[r].trip \in {t})
                           /\ run[r].gone => run'[r].gone
                           /\ run'[r].gone => run[r].gone \/ run[r].trip \in {t}
                           /\ run[r].trip \in {t} => run'[r].gone
    BY <1>1, CleanupMovesNothing DEF IInv
  <1>3. \A u \in Trips : shown'[u] = IF u = t THEN None ELSE shown[u]
    BY <1>1 DEF IInv, TypeOK
  <1>4. orphans' \subseteq Trips
    BY DEF Back, IInv, TypeOK
  <1>5. podOf = None
    BY <1>1, PlacesDiffer DEF IInv, TypeOK
  <1>6. TypeOK'
    <2>1. shown' \in [Trips -> Statuses \cup {None}]
      BY <1>1 DEF IInv, TypeOK
    <2>2. {loading', asking', disclosure', watch'} \subseteq SUBSET mounted'
      BY <1>1 DEF IInv, TypeOK
    <2>3. dialog \in Runs \cup {None} /\ (dialog # None => run'[dialog].pc = "consent")
      BY <1>2 DEF IInv, TypeOK, At
    <2> QED
      BY <1>1, <1>2, <1>4, <1>5, <2>1, <2>2, <2>3
         DEF IInv, TypeOK, RunRecords, background, ghosts, At
  <1>7. StatusMoves'
    <2>1. None \notin Active
      BY PlacesDiffer DEF Statuses
    <2> QED
      BY <1>1, <1>3, <2>1 DEF IInv, StatusMoves
  <1>8. AsksWhileActive' /\ SignsOutAtHome'
    <2>1. \A u \in asking' \cup disclosure' : u \in Trips /\ u # t
      BY <1>1 DEF IInv, TypeOK
    <2> QED
      BY <1>1, <1>3, <2>1 DEF IInv, AsksWhileActive, SignsOutAtHome
  <1>9. RunsKnow'
    <2>1. ASSUME NEW r \in Runs, run'[r].pc # "idle"
          PROVE  /\ run'[r].trip \in Trips
                 /\ run'[r].gone => run'[r].stale
                 /\ ~run'[r].gone => run'[r].trip \in mounted'
                 /\ ~run'[r].stale => shown'[run'[r].trip] \in Active
      <3>1. /\ run[r].trip \in Trips /\ (run[r].gone => run[r].stale)
            /\ (~run[r].gone => run[r].trip \in mounted)
            /\ (~run[r].stale => shown[run[r].trip] \in Active)
        BY <1>2, <2>1 DEF IInv, RunsKnow, RunKnows
      <3> QED
        BY <1>1, <1>2, <1>3, <3>1
    <2> QED
      BY <2>1 DEF RunsKnow, RunKnows
  <1>10. WatcherEndsWithScreen'
    <2>1. \A u \in watch' : u \in Trips /\ u # t /\ u \in watch
      BY <1>1 DEF IInv, TypeOK
    <2>2. ~late => orphans' = {}
      BY DEF Back, IInv, WatcherEndsWithScreen
    <2> QED
      BY <1>1, <1>3, <2>1, <2>2 DEF IInv, WatcherEndsWithScreen, ghosts
  <1>11. HaltUndoes' /\ OffAfterHalt'
    <2>1. Halting' = Halting
      BY <1>1 DEF Halting
    <2> QED
      BY <1>1, <1>2, <2>1 DEF IInv, HaltUndoes, OffAfterHalt, background, ghosts
  <1> QED
    BY <1>6, <1>7, <1>8, <1>9, <1>10, <1>11 DEF IInv

\* A step to another visible screen.
LEMMA PlaceStep ==
  ASSUME IInv, UNCHANGED <<status, screen, signedIn, run, halt, background, foreground,
                           dialog, bgGranted, ghosts>>,
         top' \in Trips \cup {"home", "pod"}, podOf' \in Trips \cup {None},
         (top' = "pod") = (podOf' # None),
         top' = "home" \/ (signedIn /\ halt["signOut"] = "none")
  PROVE  IInv'
  <1>1. TypeOK'
    BY DEF IInv, TypeOK, screen, background, foreground, ghosts, At
  <1>2. /\ StatusMoves' /\ AsksWhileActive' /\ SignsOutAtHome' /\ RunsKnow'
        /\ WatcherEndsWithScreen'
    BY DEF IInv, StatusMoves, AsksWhileActive, SignsOutAtHome, RunsKnow, RunKnows,
           WatcherEndsWithScreen, screen, foreground, ghosts
  <1> QED
    BY <1>1, <1>2, NoMove DEF IInv, ghosts

\* Going back to a buried screen, or on to the proof of delivery, keeps the invariant.
LEMMA NavigateStep ==
  ASSUME IInv, NEW t \in Trips, BackToBuried(t) \/ OpenPod(t)
  PROVE  IInv'
  <1>1. CASE BackToBuried(t)
    <2>1. podOf = None
      BY <1>1 DEF BackToBuried, AtHome, IInv, TypeOK
    <2> QED
      BY <1>1, <2>1, PlacesDiffer, PlaceStep DEF BackToBuried, AtHome
  <1>2. CASE OpenPod(t)
    <2>1. signedIn /\ halt["signOut"] = "none"
      BY <1>2, PlacesDiffer DEF OpenPod, IInv, SignsOutAtHome
    <2> QED
      BY <1>2, <2>1, PlacesDiffer, PlaceStep DEF OpenPod
  <1> QED
    BY <1>1, <1>2

\* Leaving the proof of delivery keeps the invariant.
LEMMA LeavePodStep ==
  ASSUME IInv, LeavePod
  PROVE  IInv'
  <1>1. signedIn /\ halt["signOut"] = "none"
    BY DEF LeavePod, IInv, SignsOutAtHome
  <1>2. podOf \in Trips
    BY DEF LeavePod, IInv, TypeOK
  <1> QED
    BY <1>1, <1>2, PlacesDiffer, PlaceStep DEF LeavePod

\* Submitting the proof of delivery keeps the invariant: its halt follows.
LEMMA SubmitPodStep ==
  ASSUME IInv, SubmitPod
  PROVE  IInv'
  <1>1. /\ top = "pod" /\ podOf \in Trips
        /\ status' = [status EXCEPT ![podOf] = "DELIVERED"]
        /\ UNCHANGED <<screen, place, run, background, foreground, dialog, bgGranted,
                       quiet, refused, late>>
    BY DEF SubmitPod, IInv, TypeOK
  <1>2. "pod" \in Callers /\ (StartHalt("pod") \/ UNCHANGED <<halt, overlap>>)
    BY DEF SubmitPod, Callers
  <1>3. Flying' = Flying
    BY <1>1 DEF Flying
  <1>4. /\ halt' \in [Callers -> {"none", "key", "native", "expo"}] /\ overlap' \in BOOLEAN
        /\ HaltUndoes' /\ OffAfterHalt' /\ halt'["signOut"] = halt["signOut"]
    <2>1. "signOut" \in Callers \ {"pod"}
      BY DEF Callers
    <2> QED
      BY <1>1, <1>2, <1>3, <2>1, MayHalt DEF IInv
  <1>5. /\ status' \in [Trips -> Statuses]
        /\ \A u \in Trips : status'[u] = IF u = podOf THEN "DELIVERED" ELSE status[u]
    BY <1>1 DEF IInv, TypeOK, Statuses
  <1>6. TypeOK'
    BY <1>1, <1>4, <1>5 DEF IInv, TypeOK, screen, place, background, foreground, At
  <1>7. /\ StatusMoves' /\ AsksWhileActive' /\ SignsOutAtHome' /\ RunsKnow'
        /\ WatcherEndsWithScreen'
    BY <1>1, <1>4, <1>5 DEF IInv, StatusMoves, AsksWhileActive, SignsOutAtHome, RunsKnow,
       RunKnows, WatcherEndsWithScreen, screen, place, foreground
  <1> QED
    BY <1>4, <1>6, <1>7 DEF IInv

\* Signing out starts a halt from home, where no screen asks for tracking.
LEMMA SignOutStep ==
  ASSUME IInv, SignOut
  PROVE  IInv'
  <1>1. /\ top = "home" /\ StartHalt("signOut") /\ "signOut" \in Callers
        /\ UNCHANGED <<status, screen, place, run, background, foreground, dialog, bgGranted,
                       quiet, refused, late>>
    BY DEF SignOut, AtHome, Callers
  <1>2. Flying' = Flying
    BY <1>1 DEF Flying
  <1>3. /\ halt' \in [Callers -> {"none", "key", "native", "expo"}] /\ overlap' \in BOOLEAN
        /\ HaltUndoes' /\ OffAfterHalt'
    BY <1>1, <1>2, MayHalt DEF IInv
  <1>4. TypeOK'
    BY <1>1, <1>3 DEF IInv, TypeOK, screen, place, background, foreground, At
  <1>5. /\ StatusMoves' /\ AsksWhileActive' /\ SignsOutAtHome' /\ RunsKnow'
        /\ WatcherEndsWithScreen'
    BY <1>1 DEF IInv, StatusMoves, AsksWhileActive, SignsOutAtHome, RunsKnow,
       RunKnows, WatcherEndsWithScreen, screen, place, foreground
  <1> QED
    BY <1>3, <1>4, <1>5 DEF IInv

-----------------------------------------------------------------------------
(* The steps of a halt. *)

\* A halt goes on: what it has undone stays undone, for no run is in flight.
LEMMA HaltStep ==
  ASSUME IInv, NEW c \in Callers, NEW next \in {"native", "expo"},
         halt[c] # "none", halt' = [halt EXCEPT ![c] = next],
         UNCHANGED <<status, screen, place, run, expo, foreground, dialog, bgGranted, ghosts>>,
         key' = key \/ key' = None, native' = native \/ native' = None,
         key' = None \/ (halt[c] \in {"native", "expo"} /\ key' = key),
         next = "expo" => native' = None
  PROVE  IInv'
  <1>1. /\ halt' \in [Callers -> {"none", "key", "native", "expo"}]
        /\ \A d \in Callers : halt'[d] = IF d = c THEN next ELSE halt[d]
    BY DEF IInv, TypeOK
  <1>2. TypeOK'
    BY <1>1 DEF IInv, TypeOK, screen, place, foreground, ghosts, At
  <1>3. /\ StatusMoves' /\ AsksWhileActive' /\ SignsOutAtHome' /\ RunsKnow'
        /\ WatcherEndsWithScreen'
    <2>1. "signOut" \in Callers
      BY DEF Callers
    <2> QED
      BY <1>1, <2>1 DEF IInv, StatusMoves, AsksWhileActive, SignsOutAtHome, RunsKnow, RunKnows,
         WatcherEndsWithScreen, screen, place, foreground, ghosts
  <1>4. Halting' = Halting /\ Flying' = Flying
    BY <1>1 DEF Halting, Flying
  <1>5. HaltUndoes' /\ OffAfterHalt'
    BY <1>1, <1>4 DEF IInv, HaltUndoes, OffAfterHalt, ghosts
  <1> QED
    BY <1>2, <1>3, <1>5 DEF IInv

\* Forgetting the active trip keeps what the halt has undone.
LEMMA RemoveKeyStep ==
  ASSUME IInv, NEW c \in Callers, RemoveKey(c)
  PROVE  IInv'
  BY HaltStep DEF RemoveKey

\* Stopping the native service keeps what the halt has undone.
LEMMA StopNativeStep ==
  ASSUME IInv, NEW c \in Callers, StopNative(c)
  PROVE  IInv'
  BY HaltStep DEF StopNative

\* The halt ends.  Its trip has no run in flight unless the two overlapped.
LEMMA StopExpoStep ==
  ASSUME IInv, NEW c \in Callers, StopExpo(c)
  PROVE  IInv'
  <1>1. /\ halt[c] = "expo" /\ halt' = [halt EXCEPT ![c] = "none"]
        /\ expo' = FALSE /\ quiet' = (Flying = {})
        /\ UNCHANGED <<status, key, native, orphans, dialog, bgGranted, overlap, refused,
                       late>>
    BY DEF StopExpo
  <1>2. /\ halt' \in [Callers -> {"none", "key", "native", "expo"}]
        /\ \A d \in Callers : halt'[d] = IF d = c THEN "none" ELSE halt[d]
    BY <1>1 DEF IInv, TypeOK
  <1>3. ASSUME Flying' = Flying PROVE HaltUndoes' /\ OffAfterHalt'
    <2>1. Halting' \subseteq Halting
      BY <1>2 DEF Halting
    <2>2. ~overlap => key = None /\ native = None /\ \A d \in Callers : halt'[d] \in {"none", halt[d]}
      BY <1>1, <1>2 DEF IInv, HaltUndoes
    <2> QED
      BY <1>1, <1>3, <2>1, <2>2 DEF IInv, HaltUndoes, OffAfterHalt
  <1>4. CASE c = "pod"
    <2>1. /\ top' = "home" /\ podOf' = None /\ UNCHANGED <<signedIn, screen, run, watch>>
      BY <1>4 DEF StopExpo
    <2>2. TypeOK'
      BY <1>1, <1>2, <2>1 DEF IInv, TypeOK, screen, At
    <2>3. /\ StatusMoves' /\ AsksWhileActive' /\ SignsOutAtHome' /\ RunsKnow'
          /\ WatcherEndsWithScreen'
      BY <1>1, <2>1 DEF IInv, StatusMoves, AsksWhileActive, SignsOutAtHome, RunsKnow, RunKnows,
         WatcherEndsWithScreen, screen
    <2> QED
      BY <1>3, <2>1, <2>2, <2>3 DEF IInv, Flying
  <1>5. CASE c = "signOut"
    <2>1. /\ signedIn' = FALSE /\ top' = "home" /\ shown' = [t \in Trips |-> None]
          /\ run' = Left(mounted) /\ watch' = {} /\ asking' = {} /\ loading' = {}
          /\ UNCHANGED <<podOf, mounted, disclosure>>
      BY <1>5 DEF StopExpo
    <2>2. /\ run' \in [Runs -> RunRecords] /\ Flying' = Flying
          /\ \A r \in Runs : /\ run'[r].pc = run[r].pc /\ run'[r].trip = run[r].trip
                             /\ run'[r].stale = (run[r].stale \/ run[r].trip \in mounted)
                             /\ run'[r].gone = run[r].gone
      BY <2>1, CleanupMovesNothing DEF IInv
    <2>3. top = "home"
      BY <1>1, <1>5 DEF IInv, SignsOutAtHome
    <2>4. TypeOK'
      <3>1. shown' \in [Trips -> Statuses \cup {None}]
        BY <2>1
      <3>2. {loading', asking', disclosure', watch'} \subseteq SUBSET mounted'
        BY <2>1 DEF IInv, TypeOK
      <3>3. dialog \in Runs \cup {None} /\ (dialog # None => run'[dialog].pc = "consent")
        BY <2>2 DEF IInv, TypeOK, At
      <3>4. quiet' \in BOOLEAN
        BY <1>1
      <3> QED
        BY <1>1, <1>2, <2>1, <2>2, <2>3, <3>1, <3>2, <3>3, <3>4 DEF IInv, TypeOK, RunRecords, At
    <2>5. StatusMoves'
      <3>1. None \notin Active /\ \A t \in Trips : shown'[t] = None
        BY <2>1, PlacesDiffer DEF Statuses
      <3> QED
        BY <3>1 DEF StatusMoves
    <2>6. AsksWhileActive' /\ SignsOutAtHome'
      BY <2>1 DEF AsksWhileActive, SignsOutAtHome
    <2>7. RunsKnow'
      <3>1. ASSUME NEW r \in Runs, run'[r].pc # "idle"
            PROVE  /\ run'[r].trip \in Trips
                   /\ run'[r].gone => run'[r].stale
                   /\ ~run'[r].gone => run'[r].trip \in mounted
                   /\ run'[r].stale
        <4>1. /\ run[r].trip \in Trips /\ (run[r].gone => run[r].stale)
              /\ (~run[r].gone => run[r].trip \in mounted)
          BY <2>2, <3>1 DEF IInv, RunsKnow, RunKnows
        <4> QED
          BY <2>2, <4>1
      <3> QED
        BY <2>1, <3>1 DEF RunsKnow, RunKnows
    <2>8. WatcherEndsWithScreen'
      BY <1>1, <2>1 DEF IInv, WatcherEndsWithScreen
    <2> QED
      BY <1>3, <2>2, <2>4, <2>5, <2>6, <2>7, <2>8 DEF IInv
  <1>6. CASE c = "screen"
    <2>1. UNCHANGED <<place, screen, run, watch>>
      BY <1>6 DEF StopExpo
    <2>2. TypeOK'
      BY <1>1, <1>2, <2>1 DEF IInv, TypeOK, screen, place, At
    <2>3. /\ StatusMoves' /\ AsksWhileActive' /\ RunsKnow' /\ WatcherEndsWithScreen'
      BY <1>1, <2>1 DEF IInv, StatusMoves, AsksWhileActive, RunsKnow, RunKnows,
         WatcherEndsWithScreen, screen, place
    <2>4. SignsOutAtHome'
      <3>1. "signOut" \in Callers
        BY DEF Callers
      <3> QED
        BY <1>2, <1>6, <2>1, <3>1 DEF IInv, SignsOutAtHome, screen, place
    <2> QED
      BY <1>3, <2>1, <2>2, <2>3, <2>4 DEF IInv, Flying
  <1> QED
    BY <1>4, <1>5, <1>6 DEF Callers

-----------------------------------------------------------------------------
(* The invariant, and what follows. *)

\* The application starts at home, with nothing in flight.
LEMMA InitInv == Init => IInv
  <1> SUFFICES ASSUME Init PROVE IInv
    OBVIOUS
  <1>1. run \in [Runs -> RunRecords] /\ \A r \in Runs : run[r].pc = "idle"
    BY IdleRun DEF Init
  <1>2. TypeOK
    BY <1>1, TrackingAssumption DEF Init, TypeOK, RunRecords, At
  <1>3. StatusMoves /\ AsksWhileActive /\ SignsOutAtHome
    <2>1. None \notin Active
      BY PlacesDiffer DEF Statuses
    <2> QED
      BY <2>1 DEF Init, StatusMoves, AsksWhileActive, SignsOutAtHome, Callers
  <1>4. RunsKnow /\ WatcherEndsWithScreen
    BY <1>1 DEF Init, RunsKnow, RunKnows, WatcherEndsWithScreen
  <1>5. HaltUndoes /\ OffAfterHalt
    BY <1>1 DEF Init, HaltUndoes, OffAfterHalt, Flying
  <1> QED
    BY <1>2, <1>3, <1>4, <1>5 DEF IInv

\* A stuttering step keeps the invariant.
LEMMA Stutter == IInv /\ UNCHANGED vars => IInv'
  <1> SUFFICES ASSUME IInv, UNCHANGED vars PROVE IInv'
    OBVIOUS
  <1>1. TypeOK'
    BY DEF IInv, TypeOK, vars, screen, place, background, foreground, ghosts, At
  <1>2. /\ StatusMoves' /\ AsksWhileActive' /\ SignsOutAtHome' /\ RunsKnow'
        /\ WatcherEndsWithScreen'
    BY DEF IInv, vars, StatusMoves, AsksWhileActive, SignsOutAtHome, RunsKnow, RunKnows,
           WatcherEndsWithScreen, screen, place, foreground, ghosts
  <1> QED
    BY <1>1, <1>2, NoMove DEF IInv, vars, ghosts

\* Every step of the screens, of a start and of a halt keeps the invariant.
LEMMA NextInv == IInv /\ [Next]_vars => IInv'
  <1> SUFFICES ASSUME IInv, [Next]_vars PROVE IInv'
    OBVIOUS
  <1>1. ASSUME NEW t \in Trips, Driver(t) PROVE IInv'
    BY <1>1, OpenStep, DeclineDisclosureStep, AdvanceStep, BackStep, NavigateStep DEF Driver
  <1>2. ASSUME NEW t \in Trips, Load(t) \/ PermissionKnown(t) \/ AcceptDisclosure(t) PROVE IInv'
    BY <1>2, LoadStep, PermissionKnownStep, AcceptDisclosureStep
  <1>3. CASE SubmitPod \/ LeavePod \/ SignOut
    BY <1>3, SubmitPodStep, LeavePodStep, SignOutStep
  <1>4. ASSUME NEW granted \in BOOLEAN, Settle(granted) PROVE IInv'
    BY <1>4, SettleStep
  <1>5. ASSUME NEW c \in Callers, Stopping(c) PROVE IInv'
    BY <1>5, RemoveKeyStep, StopNativeStep, StopExpoStep DEF Stopping
  <1>6. ASSUME NEW r \in Runs, Starting(r) PROVE IInv'
    BY <1>6, AskStep, PositionStep, PromptStep, StartNativeStep, DropExpoStep, StartExpoStep,
       WatchStep DEF Starting
  <1>7. CASE UNCHANGED vars
    BY <1>7, Stutter
  <1> QED
    BY <1>1, <1>2, <1>3, <1>4, <1>5, <1>6, <1>7 DEF Next

\* The invariant holds in every reachable state.
THEOREM Invariance == Spec => []IInv
  <1> QED
    BY InitInv, NextInv, PTL DEF Spec

\* Every variable has its type; the consent dialog answers a run that waits.
THEOREM TypeCorrect == Spec => []TypeOK
  <1>1. IInv => TypeOK
    BY DEF IInv
  <1> QED
    BY <1>1, Invariance, PTL

\* Nothing in the background tracks the driver once stopTripLocationTracking has
\* returned with no start in flight.
THEOREM NothingTracksAfterHalt == Spec => []OffAfterHalt
  <1>1. IInv => OffAfterHalt
    BY DEF IInv
  <1> QED
    BY <1>1, Invariance, PTL

\* No watcher outlives the screen of its active trip, except one a start gets
\* after the cleanup of the effect that began it.
THEOREM NoWatcherOutlivesScreen == Spec => []WatcherEndsWithScreen
  <1>1. IInv => WatcherEndsWithScreen
    BY DEF IInv
  <1> QED
    BY <1>1, Invariance, PTL
=============================================================================
