----------------------- MODULE StaffScreensProofs ------------------------
(***************************************************************************)
(* The parts of the application the staff of a plant and its owner use,    *)
(* and the web demo: what they keep is invariant for every number of       *)
(* requests, plants, people, orders and records. Every part has an         *)
(* inductive invariant over its own variables; the last section puts them  *)
(* together.                                                               *)
(***************************************************************************)
EXTENDS MCStaffScreens, Integers, FiniteSetTheorems, WellFoundedInduction, TLAPS

-----------------------------------------------------------------------------
(* What the fold MapThenSumSet computes.  Its induction over the set is    *)
(* the statement that every family of subsets of a finite set has a        *)
(* smallest member.                                                        *)

SumOf(fun, S) == Production!MapThenSumSet(LAMBDA x : fun[x], S)

\* The element the fold takes out of a set first.
Pick(s) == CHOOSE x \in s : TRUE

\* g is the table of the partial sums that the fold of fun over S computes.
SumTable(fun, S, g) ==
  g = [s \in SUBSET S |-> IF s = {} THEN 0 ELSE fun[Pick(s)] + g[s \ {Pick(s)}]]

\* It is one of them.
LEMMA PickIn == ASSUME NEW s, s # {} PROVE Pick(s) \in s
  BY DEF Pick

\* A family of subsets of a finite set has a smallest member.
LEMMA Smallest ==
  ASSUME NEW S, IsFiniteSet(S), NEW F \in SUBSET SUBSET S, F # {}
  PROVE  \E T \in F : \A U \in F : U \subseteq T => U = T
<1>1. IsWellFoundedOn(StrictSubsetOrdering(S), SUBSET S)
  BY FS_StrictSubsetOrderingWellFounded, FS_FiniteSubsetsOfFinite
<1>2. \E T \in F : \A U \in F : ~(<<U, T>> \in StrictSubsetOrdering(S))
  <2> HIDE DEF IsWellFoundedOn
  <2> DEFINE R == StrictSubsetOrdering(S)
  <2>1. IsWellFoundedOn(R, SUBSET S)
    BY <1>1
  <2>2. F \subseteq SUBSET S
    OBVIOUS
  <2> HIDE DEF R
  <2>3. \E T \in F : \A U \in F : ~(<<U, T>> \in R)
    BY <2>1, <2>2, WFMin
  <2> QED
    BY <2>3 DEF R
<1> QED
  BY <1>2 DEF StrictSubsetOrdering

\* A sum is the last entry of a table.
LEMMA Unfold ==
  ASSUME NEW fun, NEW S
  PROVE  SumOf(fun, S) = (CHOOSE g : SumTable(fun, S, g))[S]
  BY DEF SumOf, Production!MapThenSumSet, Production!MapThenFoldSet, SumTable, Pick

\* Two tables agree on the sets that both have.
LEMMA TablesAgree ==
  ASSUME NEW fun, NEW S, NEW T, NEW g, NEW h, IsFiniteSet(S), SumTable(fun, S, g), SumTable(fun, T, h)
  PROVE  \A s \in SUBSET S : s \subseteq T => g[s] = h[s]
<1> DEFINE F == {s \in SUBSET S : s \subseteq T /\ g[s] # h[s]}
<1>1. SUFFICES F = {}
  OBVIOUS
<1>2. SUFFICES ASSUME F # {} PROVE FALSE
  OBVIOUS
<1>3. PICK s \in F : \A u \in F : u \subseteq s => u = s
  <2>1. F \in SUBSET SUBSET S
    OBVIOUS
  <2>2. F # {}
    BY <1>2
  <2> HIDE DEF F
  <2> QED
    BY <2>1, <2>2, Smallest
<1>4. CASE s = {}
  BY <1>3, <1>4 DEF SumTable
<1>5. CASE s # {}
  <2>1. Pick(s) \in s
    BY <1>5, PickIn
  <2>2. s \ {Pick(s)} \subseteq s /\ s \ {Pick(s)} # s
    BY <2>1
  <2>3. g[s \ {Pick(s)}] = h[s \ {Pick(s)}]
    BY <1>3, <2>2
  <2>4. g[s] = fun[Pick(s)] + g[s \ {Pick(s)}] /\ h[s] = fun[Pick(s)] + h[s \ {Pick(s)}]
    BY <1>5 DEF SumTable
  <2> QED
    BY <2>3, <2>4
<1> QED
  BY <1>4, <1>5

\* Every finite set has a table.
LEMMA TableExists ==
  ASSUME NEW fun, NEW S, IsFiniteSet(S)
  PROVE  \E g : SumTable(fun, S, g)
<1> DEFINE F == {T \in SUBSET S : ~\E g : SumTable(fun, T, g)}
<1>1. SUFFICES ASSUME F # {} PROVE FALSE
  OBVIOUS
<1>2. PICK T \in F : \A U \in F : U \subseteq T => U = T
  <2>1. F \in SUBSET SUBSET S
    OBVIOUS
  <2>2. F # {}
    BY <1>1
  <2> HIDE DEF F
  <2> QED
    BY <2>1, <2>2, Smallest
<1> DEFINE table(U) == CHOOSE g : SumTable(fun, U, g)
<1>3. ASSUME NEW U \in SUBSET T, U # T PROVE SumTable(fun, U, table(U))
  BY <1>2, <1>3
<1> HIDE DEF table
<1> DEFINE g == [s \in SUBSET T |->
                   IF s = {} THEN 0 ELSE fun[Pick(s)] + table(s \ {Pick(s)})[s \ {Pick(s)}]]
<1>4. ASSUME NEW u \in SUBSET T, u # T PROVE g[u] = table(u)[u]
  <2>1. SumTable(fun, u, table(u))
    BY <1>3, <1>4
  <2>2. CASE u = {}
    BY <2>1, <2>2 DEF SumTable
  <2>3. CASE u # {}
    <3> DEFINE w == u \ {Pick(u)}
    <3>1. w \in SUBSET u /\ w # T /\ IsFiniteSet(w)
      BY <1>4, FS_Subset
    <3>2. SumTable(fun, w, table(w))
      BY <1>3, <3>1
    <3>3. table(w)[w] = table(u)[w]
      BY <2>1, <3>1, <3>2, TablesAgree
    <3>4. g[u] = fun[Pick(u)] + table(w)[w]
      BY <2>3
    <3>5. table(u)[u] = fun[Pick(u)] + table(u)[w]
      BY <2>1, <2>3 DEF SumTable
    <3> QED
      BY <3>3, <3>4, <3>5
  <2> QED
    BY <2>2, <2>3
<1>5. \A s \in SUBSET T : g[s] = IF s = {} THEN 0 ELSE fun[Pick(s)] + g[s \ {Pick(s)}]
  <2> SUFFICES ASSUME NEW s \in SUBSET T, s # {} PROVE g[s] = fun[Pick(s)] + g[s \ {Pick(s)}]
    OBVIOUS
  <2>1. s \ {Pick(s)} \in SUBSET T /\ s \ {Pick(s)} # T
    BY PickIn
  <2>2. g[s \ {Pick(s)}] = table(s \ {Pick(s)})[s \ {Pick(s)}]
    BY <1>4, <2>1
  <2> QED
    BY <2>2
<1>6. SumTable(fun, T, g)
  <2> DEFINE h == g
  <2>1. g = [s \in SUBSET T |-> g[s]]
    OBVIOUS
  <2> HIDE DEF g
  <2> QED
    BY <1>5, <2>1 DEF SumTable
<1> QED
  BY <1>2, <1>6

\* The sum over a set, one element at a time.
LEMMA SumStep ==
  ASSUME NEW fun, NEW S, IsFiniteSet(S)
  PROVE  /\ S = {} => SumOf(fun, S) = 0
         /\ S # {} => SumOf(fun, S) = fun[Pick(S)] + SumOf(fun, S \ {Pick(S)})
<1> DEFINE table(U) == CHOOSE g : SumTable(fun, U, g)
<1>1. \A U \in SUBSET S : SumTable(fun, U, table(U))
  BY TableExists, FS_Subset
<1>2. \A U \in SUBSET S : SumOf(fun, U) = table(U)[U]
  BY Unfold
<1> HIDE DEF table
<1>3. S = {} => table(S)[S] = 0
  BY <1>1 DEF SumTable
<1>4. ASSUME S # {} PROVE table(S)[S] = fun[Pick(S)] + table(S \ {Pick(S)})[S \ {Pick(S)}]
  <2>1. table(S)[S \ {Pick(S)}] = table(S \ {Pick(S)})[S \ {Pick(S)}]
    BY <1>1, TablesAgree
  <2>2. table(S)[S] = fun[Pick(S)] + table(S)[S \ {Pick(S)}]
    BY <1>1, <1>4 DEF SumTable
  <2> QED
    BY <2>1, <2>2
<1> QED
  BY <1>2, <1>3, <1>4

\* Sums of integers are integers.
LEMMA SumIsInt ==
  ASSUME NEW fun, NEW S, IsFiniteSet(S), \A x \in S : fun[x] \in Int
  PROVE  SumOf(fun, S) \in Int
<1> DEFINE F == {T \in SUBSET S : SumOf(fun, T) \notin Int}
<1>1. SUFFICES ASSUME F # {} PROVE FALSE
  OBVIOUS
<1>2. PICK T \in F : \A U \in F : U \subseteq T => U = T
  <2>1. F \in SUBSET SUBSET S
    OBVIOUS
  <2>2. F # {}
    BY <1>1
  <2> HIDE DEF F
  <2> QED
    BY <2>1, <2>2, Smallest
<1>3. IsFiniteSet(T) /\ T # {}
  <2>1. IsFiniteSet(T) /\ SumOf(fun, T) \notin Int
    BY <1>2, FS_Subset
  <2>2. SumOf(fun, {}) = 0
    <3>1. \A E : E = {} => SumOf(fun, E) = 0
      BY FS_EmptySet, SumStep
    <3> QED
      BY <3>1
  <2> QED
    BY <2>1, <2>2
<1>4. Pick(T) \in T /\ SumOf(fun, T \ {Pick(T)}) \in Int
  BY <1>2, <1>3, PickIn
<1> QED
  BY <1>2, <1>3, <1>4, SumStep

\* Any element can be taken out first.
LEMMA SumRemove ==
  ASSUME NEW fun, NEW S, IsFiniteSet(S), \A x \in S : fun[x] \in Int, NEW y \in S
  PROVE  SumOf(fun, S) = fun[y] + SumOf(fun, S \ {y})
<1> DEFINE F == {T \in SUBSET S : \E x \in T : SumOf(fun, T) # fun[x] + SumOf(fun, T \ {x})}
<1>1. SUFFICES ASSUME F # {} PROVE FALSE
  OBVIOUS
<1>2. PICK T \in F : \A U \in F : U \subseteq T => U = T
  <2>1. F \in SUBSET SUBSET S
    OBVIOUS
  <2>2. F # {}
    BY <1>1
  <2> HIDE DEF F
  <2> QED
    BY <2>1, <2>2, Smallest
<1>3. PICK x \in T : SumOf(fun, T) # fun[x] + SumOf(fun, T \ {x})
  BY <1>2
<1> DEFINE p == Pick(T)
           U == T \ {p}
           V == T \ {x}
           W == (T \ {p}) \ {x}
<1>4. p \in T /\ x \in S
  BY <1>3, PickIn
<1>5. \A A \in SUBSET T : IsFiniteSet(A) /\ SumOf(fun, A) \in Int
  BY <1>2, FS_Subset, SumIsInt
<1>6. SumOf(fun, T) = fun[p] + SumOf(fun, U)
  BY <1>2, <1>3, <1>5, SumStep
<1>7. x # p
  BY <1>3, <1>6
<1> HIDE DEF p
<1>8. SumOf(fun, U) = fun[x] + SumOf(fun, W)
  <2>1. U \notin F /\ x \in U
    BY <1>2, <1>4, <1>7
  <2> QED
    BY <1>2, <2>1
<1>9. SumOf(fun, V) = fun[p] + SumOf(fun, W)
  <2>1. V \notin F /\ p \in V /\ V \ {p} = W
    BY <1>2, <1>4, <1>7
  <2> QED
    BY <1>2, <2>1
<1>10. fun[p] \in Int /\ fun[x] \in Int /\ SumOf(fun, W) \in Int
  BY <1>2, <1>4, <1>5
<1> QED
  BY <1>3, <1>6, <1>8, <1>9, <1>10

\* A sum of zeros is zero.
LEMMA SumZero ==
  ASSUME NEW fun, NEW S, IsFiniteSet(S), \A x \in S : fun[x] = 0
  PROVE  SumOf(fun, S) = 0
<1> DEFINE F == {T \in SUBSET S : SumOf(fun, T) # 0}
<1>1. SUFFICES ASSUME F # {} PROVE FALSE
  OBVIOUS
<1>2. PICK T \in F : \A U \in F : U \subseteq T => U = T
  <2>1. F \in SUBSET SUBSET S
    OBVIOUS
  <2>2. F # {}
    BY <1>1
  <2> HIDE DEF F
  <2> QED
    BY <2>1, <2>2, Smallest
<1>3. IsFiniteSet(T) /\ T # {}
  BY <1>2, FS_Subset, SumStep
<1>4. Pick(T) \in T /\ SumOf(fun, T \ {Pick(T)}) = 0
  BY <1>2, <1>3, PickIn
<1> QED
  BY <1>2, <1>3, <1>4, SumStep

\* Sums of equal values are equal.
LEMMA SumSame ==
  ASSUME NEW fun, NEW gun, NEW S, IsFiniteSet(S), \A x \in S : fun[x] \in Int /\ gun[x] = fun[x]
  PROVE  SumOf(gun, S) = SumOf(fun, S)
<1> DEFINE F == {T \in SUBSET S : SumOf(gun, T) # SumOf(fun, T)}
<1>1. SUFFICES ASSUME F # {} PROVE FALSE
  OBVIOUS
<1>2. PICK T \in F : \A U \in F : U \subseteq T => U = T
  <2>1. F \in SUBSET SUBSET S
    OBVIOUS
  <2>2. F # {}
    BY <1>1
  <2> HIDE DEF F
  <2> QED
    BY <2>1, <2>2, Smallest
<1>3. IsFiniteSet(T) /\ T # {}
  BY <1>2, FS_Subset, SumStep
<1>4. Pick(T) \in T /\ SumOf(gun, T \ {Pick(T)}) = SumOf(fun, T \ {Pick(T)})
  BY <1>2, <1>3, PickIn
<1> QED
  BY <1>2, <1>3, <1>4, SumStep

\* One value changes.
LEMMA SumChange ==
  ASSUME NEW fun, NEW gun, NEW S, IsFiniteSet(S), NEW y \in S, NEW v \in Int,
         \A x \in S : fun[x] \in Int /\ gun[x] = IF x = y THEN v ELSE fun[x]
  PROVE  SumOf(gun, S) = SumOf(fun, S) + v - fun[y]
<1>1. SumOf(fun, S) = fun[y] + SumOf(fun, S \ {y}) /\ SumOf(gun, S) = v + SumOf(gun, S \ {y})
  BY SumRemove
<1>2. SumOf(gun, S \ {y}) = SumOf(fun, S \ {y}) /\ SumOf(fun, S \ {y}) \in Int
  BY SumSame, SumIsInt, FS_Subset
<1> QED
  BY <1>1, <1>2

-----------------------------------------------------------------------------
(* ProductionDesk: what a stock has lost is in the recorded batches or in  *)
(* the hands of a request that posts one.                                  *)

BatchAssumption ==
  /\ IsFiniteSet(BatchedOrders) /\ IsFiniteSet(Calls) /\ OwnersOrder \in BatchedOrders /\ None \notin BatchedOrders
  /\ Ordered \in Int /\ Opening \in Int

\* A request of one of the screens, and the materials h that it has drawn.
BatchCall(k, h) ==
  /\ k = [by |-> k.by, does |-> k.does, order |-> k.order, quantity |-> k.quantity, pc |-> k.pc]
  /\ k.quantity \in Int /\ h \subseteq Materials
  /\ k.does # "" => k.order \in BatchedOrders
  /\ k.pc \in {"draw", "inserted", "undo", "undo inserted"} => k.does = "batch"
  /\ k.pc = "inserted" => h = Materials
  /\ k.pc \notin {"draw", "inserted", "undo", "undo inserted"} => h = {}
  /\ k.pc \in {"free", "sent", "counted", "draw", "inserted", "undo", "undo inserted", "ok", "failed"}
  /\ k.pc \in {"free", "counted"} => k.does # "batch"

\* What it has drawn of m less what it has recorded.
Owed(k, h, m) ==
  IF k.pc \in {"draw", "undo"} /\ m \in h THEN k.quantity
  ELSE IF k.pc = "undo inserted" /\ m \notin h THEN 0 - k.quantity ELSE 0

OwedBy(m) == [c \in Calls |-> Owed(prodCalls[c], prodHeld[c], m)]

Card(i) ==
  /\ i = [sees |-> i.sees, left |-> i.left, quantity |-> i.quantity, open |-> i.open, busy |-> i.busy]
  /\ i.left \in Int \cup {None} /\ i.quantity \in Int

Windows == prodSelected \in BatchedOrders \cup {None} /\ quantity \in Int /\ Card(prodCard)

Balanced ==
  overlapped \/ \A m \in Materials :
    /\ prodStock[m] \in Int /\ adjusted[m] \in Int
    /\ prodStock[m] + SumOf(produced, BatchedOrders) + SumOf(OwedBy(m), Calls) = Opening + adjusted[m]

BatchInv ==
  /\ prodCalls = [c \in Calls |-> prodCalls[c]] /\ prodHeld = [c \in Calls |-> prodHeld[c]]
  /\ \A c \in Calls : BatchCall(prodCalls[c], prodHeld[c])
  /\ produced \in [BatchedOrders -> Int]
  /\ prodStock = [m \in Materials |-> prodStock[m]] /\ adjusted = [m \in Materials |-> adjusted[m]]
  /\ Windows /\ Balanced

LEMMA OwedIsInt == ASSUME NEW k, NEW h, NEW m, k.quantity \in Int PROVE Owed(k, h, m) \in Int
<1>1. PICK q \in Int : q = k.quantity
  OBVIOUS
<1>2. CASE k.pc \in {"draw", "undo"} /\ m \in h
  BY <1>2 DEF Owed
<1>3. CASE ~(k.pc \in {"draw", "undo"} /\ m \in h) /\ k.pc = "undo inserted" /\ m \notin h
  <2>1. Owed(k, h, m) = 0 - q
    BY <1>1, <1>3 DEF Owed
  <2> QED
    BY <2>1
<1>4. CASE ~(k.pc \in {"draw", "undo"} /\ m \in h) /\ ~(k.pc = "undo inserted" /\ m \notin h)
  <2>1. Owed(k, h, m) = 0
    BY <1>4 DEF Owed
  <2> QED
    BY <2>1
<1> QED
  BY <1>2, <1>3, <1>4

\* Nothing is drawn and nothing recorded at first.
LEMMA BatchesStart == ASSUME BatchAssumption, Production!Init PROVE BatchInv
<1> USE DEF BatchAssumption
<1>1. \A c \in Calls : prodHeld[c] = {} /\ prodCalls[c] = Production!Free
  BY DEF Production!Init
<1>2. BatchCall(Production!Free, {})
  BY DEF BatchCall, Production!Free
<1>3. SumOf(produced, BatchedOrders) = 0
  BY SumZero DEF Production!Init
<1>4. ASSUME NEW m \in Materials PROVE SumOf(OwedBy(m), Calls) = 0
  <2>1. Owed(Production!Free, {}, m) = 0
    BY DEF Owed, Production!Free
  <2>2. \A c \in Calls : OwedBy(m)[c] = 0
    BY <1>1, <2>1 DEF OwedBy
  <2> HIDE DEF OwedBy
  <2> QED
    BY <2>2, SumZero
<1>5. Balanced
  BY <1>3, <1>4 DEF Balanced, Production!Init
<1>6. Windows
  BY DEF Windows, Card, Production!Init
<1> QED
  BY <1>1, <1>2, <1>5, <1>6 DEF Production!Init, BatchInv

\* What is left to produce of an order is a number.
LEMMA LeftIsInt == ASSUME BatchAssumption, BatchInv, NEW o \in BatchedOrders PROVE Production!Left(o) \in Int
  BY DEF BatchAssumption, BatchInv, Production!Left

\* The request j with h takes x of the materials and records p, and is k with i then.
Takes(k, i, j, h, x, p) ==
  \A m \in Materials : x[m] \in Int /\ Owed(k, i, m) = Owed(j, h, m) + x[m] - p
OwedAs(k, i, j, h) == \A m \in Materials : Owed(k, i, m) = Owed(j, h, m)
Recorded(p) == produced' \in [BatchedOrders -> Int]
/\ SumOf(produced', BatchedOrders) = SumOf(produced, BatchedOrders) + p
Lowered(x) ==
  /\ prodStock' = [m \in Materials |-> prodStock'[m]]
  /\ ~overlapped => \A m \in Materials : prodStock'[m] = prodStock[m] - x[m]

\* A request takes a step that draws x, records p and leaves k and h.
LEMMA PostingMoves ==
  ASSUME BatchAssumption, BatchInv, NEW c \in Calls, NEW k, NEW h, BatchCall(k, h),
         prodCalls' = [prodCalls EXCEPT ![c] = k], prodHeld' = [prodHeld EXCEPT ![c] = h],
         NEW p \in Int, NEW x, Takes(k, h, prodCalls[c], prodHeld[c], x, p), Recorded(p), Lowered(x),
             UNCHANGED <<adjusting, adjusted, overlapped>>, Windows'
  PROVE  BatchInv'
<1>1. /\ prodCalls' = [d \in Calls |-> IF d = c THEN k ELSE prodCalls[d]]
      /\ prodHeld' = [d \in Calls |-> IF d = c THEN h ELSE prodHeld[d]]
  BY DEF BatchInv
<1>2. \A d \in Calls : BatchCall(prodCalls'[d], prodHeld'[d])
  BY <1>1 DEF BatchInv
<1>3. Balanced'
  <2>1. CASE overlapped
    BY <2>1 DEF Balanced
  <2>2. CASE ~overlapped
    <3> SUFFICES ASSUME NEW m \in Materials
                 PROVE  /\ prodStock'[m] \in Int /\ adjusted'[m] \in Int
                        /\ prodStock'[m] + SumOf(produced', BatchedOrders) + SumOf(OwedBy(m)', Calls) =
                               Opening + adjusted'[m]
      BY DEF Balanced
    <3>1. /\ prodStock[m] \in Int /\ adjusted[m] \in Int /\ adjusted'[m] = adjusted[m]
          /\ prodStock[m] + SumOf(produced, BatchedOrders) + SumOf(OwedBy(m), Calls) = Opening + adjusted[m]
      BY <2>2 DEF BatchInv, Balanced
    <3>2. \A d \in Calls : OwedBy(m)[d] \in Int
      BY OwedIsInt DEF OwedBy, BatchInv, BatchCall
    <3>3. Owed(k, h, m) \in Int
      BY OwedIsInt DEF BatchCall
    <3>4. \A d \in Calls : OwedBy(m)'[d] = IF d = c THEN Owed(k, h, m) ELSE OwedBy(m)[d]
      BY <1>1 DEF OwedBy
    <3>5. OwedBy(m)[c] = Owed(prodCalls[c], prodHeld[c], m)
      BY DEF OwedBy
    <3>6. SumOf(produced, BatchedOrders) \in Int
      BY SumIsInt DEF BatchInv, BatchAssumption
    <3> DEFINE f == OwedBy(m)
               g == OwedBy(m)'
    <3>7. IsFiniteSet(Calls)
      BY DEF BatchAssumption
    <3>8. \A d \in Calls : f[d] \in Int
      BY <3>2
    <3>9. \A d \in Calls : g[d] = IF d = c THEN Owed(k, h, m) ELSE f[d]
      BY <3>4
    <3>10. f[c] = Owed(prodCalls[c], prodHeld[c], m) /\ f[c] \in Int
      BY <3>5, <3>2
    <3>11. Opening \in Int
      BY DEF BatchAssumption
    <3>12. /\ prodStock'[m] = prodStock[m] - x[m] /\ x[m] \in Int
           /\ SumOf(produced', BatchedOrders) = SumOf(produced, BatchedOrders) + p
      BY <2>2 DEF Takes, Lowered, Recorded
    <3>13. Owed(k, h, m) = f[c] + x[m] - p
      BY <3>10 DEF Takes
    <3> HIDE DEF f, g
    <3>14. PICK v \in Int : v = Owed(k, h, m)
      BY <3>3
    <3>15. \A d \in Calls : f[d] \in Int /\ g[d] = IF d = c THEN v ELSE f[d]
      BY <3>8, <3>9, <3>14
    <3>16. SumOf(g, Calls) = SumOf(f, Calls) + v - f[c]
      BY ONLY <3>7, <3>15, SumChange, c \in Calls, v \in Int
    <3>17. SumOf(f, Calls) \in Int
      BY <3>7, <3>8, SumIsInt
    <3>18. SumOf(g, Calls) = SumOf(f, Calls) + Owed(k, h, m) - f[c] /\ SumOf(f, Calls) \in Int
      BY <3>16, <3>17, <3>14
    <3>19. prodStock[m] + SumOf(produced, BatchedOrders) + SumOf(f, Calls) = Opening + adjusted[m]
      BY <3>1 DEF f
    <3>20. prodStock'[m] + SumOf(produced', BatchedOrders) + SumOf(g, Calls) = Opening + adjusted'[m]
           /\ prodStock'[m] \in Int
      BY <3>1, <3>3, <3>6, <3>10, <3>11, <3>12, <3>13, <3>18, <3>19
    <3> QED
      BY <3>1, <3>20 DEF g
  <2> QED
    BY <2>1, <2>2
<1> QED
  BY <1>1, <1>2, <1>3 DEF BatchInv, Recorded, Lowered

\* A request takes a step that moves no stock and records nothing.
LEMMA CallMoves ==
  ASSUME BatchAssumption, BatchInv, NEW c \in Calls, NEW k, NEW h, BatchCall(k, h),
         prodCalls' = [prodCalls EXCEPT ![c] = k], prodHeld' = [prodHeld EXCEPT ![c] = h],
         OwedAs(k, h, prodCalls[c], prodHeld[c]),
         UNCHANGED <<produced, prodStock, adjusting, adjusted, overlapped>>, Windows'
  PROVE  BatchInv'
<1>1. PICK z \in Int : z = 0
  OBVIOUS
<1>2. Recorded(z)
  <2>1. SumOf(produced, BatchedOrders) \in Int
    BY SumIsInt DEF BatchAssumption, BatchInv
  <2> QED
    BY <1>1, <2>1 DEF BatchInv, Recorded
<1>3. \A m \in Materials : Owed(prodCalls[c], prodHeld[c], m) \in Int
  BY OwedIsInt DEF BatchInv, BatchCall
<1>4. PICK x : x = [m \in Materials |-> 0]
  OBVIOUS
<1>5. Takes(k, h, prodCalls[c], prodHeld[c], x, z)
  BY <1>1, <1>3, <1>4 DEF Takes, OwedAs
<1>6. Lowered(x)
  BY <1>4 DEF BatchInv, Balanced, Lowered
<1>7. UNCHANGED <<adjusting, adjusted, overlapped>>
  OBVIOUS
<1> QED
  BY <1>2, <1>5, <1>6, <1>7, PostingMoves

\* A request that does not hold what it has drawn takes a step.
LEMMA IdleMoves ==
  ASSUME BatchAssumption, BatchInv, NEW c \in Calls, NEW k,
         prodCalls[c].pc \notin {"draw", "inserted", "undo", "undo inserted"}, BatchCall(k, {}),
         k.pc # "undo inserted",
         prodCalls' = [prodCalls EXCEPT ![c] = k],
         UNCHANGED <<produced, prodStock, prodHeld, adjusting, adjusted, overlapped>>, Windows'
  PROVE  BatchInv'
<1>1. prodHeld[c] = {} /\ BatchCall(prodCalls[c], prodHeld[c]) /\ prodHeld = [d \in Calls |-> prodHeld[d]]
  BY DEF BatchInv, BatchCall
<1>2. PICK h : h = {} /\ prodHeld[c] = h /\ prodHeld' = [prodHeld EXCEPT ![c] = h]
  BY <1>1
<1>3. OwedAs(k, h, prodCalls[c], prodHeld[c])
  BY <1>2 DEF Owed, OwedAs
<1>4. BatchCall(k, h)
  BY <1>2
<1>5. UNCHANGED <<produced, prodStock, adjusting, adjusted, overlapped>>
  OBVIOUS
<1> QED
  BY <1>2, <1>3, <1>4, <1>5, CallMoves

\* A press.
LEMMA PressMoves ==
  ASSUME BatchAssumption, BatchInv, NEW by, NEW does, does # "", NEW o \in BatchedOrders, NEW q \in Int,
         Production!Send(by, does, o, q),
         UNCHANGED <<produced, prodStock, prodHeld, adjusting, adjusted, overlapped>>, Windows'
  PROVE  BatchInv'
<1>1. PICK c \in Calls : /\ prodCalls[c] = Production!Free
                         /\ prodCalls' = [prodCalls EXCEPT ![c] = [by |-> by, does |-> does, order |-> o,
                                                                   quantity |-> q, pc |-> "sent"]]
  BY DEF Production!Send
<1>2. PICK k : k = [by |-> by, does |-> does, order |-> o, quantity |-> q, pc |-> "sent"]
  OBVIOUS
<1>3. BatchCall(k, {}) /\ k.pc = "sent"
  BY <1>2 DEF BatchCall
<1>4. prodCalls[c].pc = "free"
  <2>1. Production!Free.pc = "free"
    BY DEF Production!Free
  <2> QED
    BY <1>1, <2>1
<1>5. prodCalls' = [prodCalls EXCEPT ![c] = k]
  BY <1>1, <1>2
<1> QED
  BY <1>3, <1>4, <1>5, IdleMoves

\* A request is at another point of its handler.
LEMMA MovedTo ==
  ASSUME BatchInv, NEW c \in Calls, NEW pc, Production!To(c, pc)
  PROVE  prodCalls' = [prodCalls EXCEPT ![c] = [by |-> prodCalls[c].by, does |-> prodCalls[c].does,
                                                order |-> prodCalls[c].order,
                                                quantity |-> prodCalls[c].quantity, pc |-> pc]]
<1>1. prodCalls[c] = [by |-> prodCalls[c].by, does |-> prodCalls[c].does, order |-> prodCalls[c].order,
                      quantity |-> prodCalls[c].quantity, pc |-> prodCalls[c].pc]
  BY DEF BatchInv, BatchCall
<1>2. PICK j : j = prodCalls[c]
  OBVIOUS
<1>3. [j EXCEPT !.pc = pc] = [by |-> j.by, does |-> j.does, order |-> j.order, quantity |-> j.quantity, pc |-> pc]
  BY <1>1, <1>2
<1> QED
  BY <1>2, <1>3 DEF Production!To

\* A request that has drawn nothing is at another point of its handler.
LEMMA IdleMovesTo ==
  ASSUME BatchAssumption, BatchInv, NEW c \in Calls, NEW pc,
         prodCalls[c].pc \notin {"draw", "inserted", "undo", "undo inserted"},
         pc \in {"counted", "draw", "ok", "failed"},
         pc = "counted" => prodCalls[c].does # "batch", pc = "draw" => prodCalls[c].does = "batch",
         Production!To(c, pc), UNCHANGED <<produced, prodStock, prodHeld, adjusting, adjusted, overlapped>>,
             Windows'
  PROVE  BatchInv'
<1>1. BatchCall(prodCalls[c], {})
  BY DEF BatchInv, BatchCall
<1>2. PICK k : k = [by |-> prodCalls[c].by, does |-> prodCalls[c].does, order |-> prodCalls[c].order,
                    quantity |-> prodCalls[c].quantity, pc |-> pc]
  OBVIOUS
<1>3. prodCalls' = [prodCalls EXCEPT ![c] = k]
  BY <1>2, MovedTo
<1>4. BatchCall(k, {}) /\ k.pc # "undo inserted"
  BY <1>1, <1>2 DEF BatchCall
<1> QED
  BY <1>3, <1>4, IdleMoves

\* A request that posts a batch takes a step and leaves h drawn.
LEMMA PostingMovesTo ==
  ASSUME BatchAssumption, BatchInv, NEW c \in Calls, NEW pc, NEW h \in SUBSET Materials,
         prodCalls[c].does = "batch", pc \in {"draw", "inserted", "undo", "undo inserted", "ok", "failed"},
         pc = "inserted" => h = Materials, pc \in {"ok", "failed"} => h = {},
         Production!To(c, pc)
  PROVE  \E k : /\ prodCalls' = [prodCalls EXCEPT ![c] = k] /\ BatchCall(k, h)
                /\ k.pc = pc /\ k.quantity = prodCalls[c].quantity
<1>1. BatchCall(prodCalls[c], prodHeld[c])
  BY DEF BatchInv
<1>2. PICK k : k = [by |-> prodCalls[c].by, does |-> prodCalls[c].does, order |-> prodCalls[c].order,
                    quantity |-> prodCalls[c].quantity, pc |-> pc]
  OBVIOUS
<1>3. prodCalls' = [prodCalls EXCEPT ![c] = k]
  BY <1>2, MovedTo
<1>4. BatchCall(k, h) /\ k.pc = pc /\ k.quantity = prodCalls[c].quantity
  BY <1>1, <1>2 DEF BatchCall
<1> QED
  BY <1>3, <1>4

\* The operator's screen sends and shows.
LEMMA OperatorSteady ==
  ASSUME BatchAssumption, BatchInv,
         \/ Production!Reload \/ Production!AddBatch \/ Production!CloseBatch
            \/ (\E q \in 1..Ordered : Production!EditBatch(q))
         \/ \E o \in BatchedOrders : Production!Start(o) \/ Production!OpenBatch(o) \/ Production!Complete(o)
  PROVE  BatchInv'
<1>1. UNCHANGED <<produced, prodStock, prodHeld, adjusting, adjusted, overlapped>>
  BY DEF Production!Reload, Production!AddBatch, Production!CloseBatch, Production!EditBatch, Production!Start,
     Production!OpenBatch, Production!Complete, Production!server, Production!store
<1>2. Windows'
  BY DEF BatchInv, Windows, Production!Reload, Production!AddBatch, Production!CloseBatch, Production!EditBatch,
     Production!Start, Production!OpenBatch, Production!Complete
<1>3. CASE UNCHANGED prodCalls
  BY <1>1, <1>2, <1>3 DEF BatchInv, Balanced, OwedBy
<1>4. CASE Production!AddBatch
  BY <1>1, <1>2, <1>4, PressMoves DEF Production!AddBatch, BatchInv, Windows
<1>5. ASSUME NEW o \in BatchedOrders, Production!Start(o) \/ Production!OpenBatch(o) \/ Production!Complete(o)
      PROVE  BatchInv'
  <2>1. PICK does \in {"start", "open", "complete"} : Production!Send("operator", does, o, 0)
    BY <1>5 DEF Production!Start, Production!OpenBatch, Production!Complete
  <2>2. does # ""
    BY <2>1
  <2>3. PICK q \in Int : q = 0
    OBVIOUS
  <2> QED
    BY <1>1, <1>2, <2>1, <2>2, <2>3, PressMoves
<1> QED
  BY <1>3, <1>4, <1>5 DEF Production!Reload, Production!CloseBatch, Production!EditBatch

\* The owner's card sends and shows.
LEMMA CardSteady ==
  ASSUME BatchAssumption, BatchInv,
         \/ \E q \in 1..Ordered : Production!EditCard(q)
         \/ Production!CardLoads \/ Production!OpenCard \/ Production!CancelCard
         \/ \E does \in {"start", "batch", "complete"} : Production!CardCall(does)
  PROVE  BatchInv'
<1>1. UNCHANGED <<produced, prodStock, prodHeld, adjusting, adjusted, overlapped>>
  BY DEF Production!EditCard, Production!CardLoads, Production!OpenCard, Production!CancelCard,
     Production!CardCall, Production!server, Production!store
<1>2. Windows'
  <2>1. PICK j : j = prodCard /\ Card(j)
    BY DEF BatchInv, Windows
  <2>2. UNCHANGED <<prodSelected, quantity>> /\ Production!Left(OwnersOrder) \in Int
    BY LeftIsInt DEF Production!EditCard, Production!CardLoads, Production!OpenCard, Production!CancelCard,
       Production!CardCall, Production!operator, BatchAssumption
  <2>3. \/ \E q \in 1..Ordered : prodCard' = [j EXCEPT !.quantity = q]
        \/ \E left \in {None, Production!Left(OwnersOrder)} :
             prodCard' = [j EXCEPT !.sees = prodStatus[OwnersOrder], !.left = IF prodStatus[OwnersOrder] =
                          "ACCEPTED" THEN @ ELSE left]
        \/ prodCard' = [j EXCEPT !.open = TRUE, !.quantity = IF j.left = None THEN 0 ELSE j.left]
        \/ prodCard' = [j EXCEPT !.open = FALSE]
        \/ prodCard' = [j EXCEPT !.busy = TRUE]
    BY <2>1 DEF Production!EditCard, Production!CardLoads, Production!OpenCard, Production!CancelCard,
       Production!CardCall
  <2>4. Card(prodCard')
    <3>1. CASE \E q \in 1..Ordered : prodCard' = [j EXCEPT !.quantity = q]
      BY <2>1, <3>1 DEF Card
    <3>2. ASSUME NEW left \in {None, Production!Left(OwnersOrder)}, NEW s,
                 prodCard' = [j EXCEPT !.sees = s, !.left = IF s = "ACCEPTED" THEN @ ELSE left]
          PROVE  Card(prodCard')
      <4>1. PICK l \in Int \cup {None} : l = IF s = "ACCEPTED" THEN j.left ELSE left
        BY <2>1, <2>2 DEF Card
      <4>2. prodCard' = [sees |-> s, left |-> l, quantity |-> j.quantity, open |-> j.open, busy |-> j.busy]
        BY <2>1, <3>2, <4>1 DEF Card
      <4> QED
        BY <2>1, <4>2 DEF Card
    <3>3. CASE prodCard' = [j EXCEPT !.open = TRUE, !.quantity = IF j.left = None THEN 0 ELSE j.left]
      <4>1. PICK q \in Int : q = IF j.left = None THEN 0 ELSE j.left
        BY <2>1 DEF Card
      <4>2. prodCard' = [sees |-> j.sees, left |-> j.left, quantity |-> q, open |-> TRUE, busy |-> j.busy]
        BY <2>1, <3>3, <4>1 DEF Card
      <4> QED
        BY <2>1, <4>2 DEF Card
    <3>4. CASE prodCard' = [j EXCEPT !.open = FALSE] \/ prodCard' = [j EXCEPT !.busy = TRUE]
      BY <2>1, <3>4 DEF Card
    <3> QED
      BY <2>3, <3>1, <3>2, <3>3, <3>4
  <2> QED
    BY <2>2, <2>4 DEF BatchInv, Windows
<1>3. CASE UNCHANGED prodCalls
  BY <1>1, <1>2, <1>3 DEF BatchInv, Balanced, OwedBy
<1>4. ASSUME NEW does \in {"start", "batch", "complete"}, Production!CardCall(does) PROVE BatchInv'
  <2>1. Production!Send("owner", does, OwnersOrder, prodCard.quantity) /\ prodCard.quantity \in Int
        /\ OwnersOrder \in BatchedOrders
    BY <1>4 DEF Production!CardCall, BatchInv, Windows, Card, BatchAssumption
  <2> QED
    BY <1>1, <1>2, <2>1, PressMoves
<1> QED
  BY <1>3, <1>4 DEF Production!EditCard, Production!CardLoads, Production!OpenCard, Production!CancelCard

\* The screens hear of a request, or stop waiting for it.
LEMMA AnswersSteady ==
  ASSUME BatchAssumption, BatchInv, NEW c \in Calls,
         Production!OperatorAnswered(c) \/ Production!CardAnswered(c) \/ Production!GiveUp(c) \/ Production!Ended(c)
  PROVE  BatchInv'
<1>1. PICK j : j = prodCalls[c] /\ BatchCall(j, prodHeld[c])
  BY DEF BatchInv
<1>2. UNCHANGED <<produced, prodStock, prodHeld, adjusting, adjusted, overlapped>>
  BY DEF Production!OperatorAnswered, Production!CardAnswered, Production!GiveUp, Production!Ended,
     Production!server, Production!store
<1>3. BatchCall(Production!Free, {}) /\ Production!Free.pc = "free"
  BY DEF Production!Free, BatchCall
<1>4. CASE Production!OperatorAnswered(c)
  <2>1. j.does \in {"open", "figures"} /\ j.pc = "sent" => j.order \in BatchedOrders
        /\ Production!Left(j.order) \in Int
    BY <1>1, LeftIsInt DEF BatchCall
  <2>2. Windows'
    <3>1. /\ prodSelected' \in {prodSelected, None} \/ (prodSelected' = j.order /\ j.does = "open" /\ j.pc = "sent")
          /\ quantity' = quantity
             \/ (quantity' = Production!Left(j.order) /\ j.does \in {"open", "figures"} /\ j.pc = "sent")
          /\ prodCard' = prodCard
      BY <1>1, <1>4 DEF Production!OperatorAnswered, Production!Filled, Production!operator
    <3> QED
      BY <2>1, <3>1 DEF BatchInv, Windows
  <2>3. CASE j.pc = "ok" /\ j.does = "batch"
        /\ prodCalls' = [prodCalls EXCEPT ![c] = [j EXCEPT !.does = "figures", !.pc = "sent"]]
    <3>1. PICK k : k = [j EXCEPT !.does = "figures", !.pc = "sent"]
      OBVIOUS
    <3>2. k = [by |-> j.by, does |-> "figures", order |-> j.order, quantity |-> j.quantity, pc |-> "sent"]
      BY <1>1, <3>1 DEF BatchCall
    <3>3. BatchCall(k, {}) /\ k.pc # "undo inserted"
      BY <1>1, <2>3, <3>2 DEF BatchCall
    <3> QED
      BY <1>1, <1>2, <2>2, <2>3, <3>1, <3>3, IdleMoves
  <2>4. CASE j.pc \notin {"draw", "inserted", "undo", "undo inserted"}
        /\ prodCalls' = [prodCalls EXCEPT ![c] = Production!Free]
    BY <1>1, <1>2, <1>3, <2>2, <2>4, IdleMoves
  <2>5. j.does \in {"open", "figures", "start", "complete"} =>
          j.pc \notin {"draw", "inserted", "undo", "undo inserted"}
    <3>1. j.pc \in {"draw", "inserted", "undo", "undo inserted"} => j.does = "batch"
      BY <1>1 DEF BatchCall
    <3> QED
      BY <3>1
  <2> QED
    BY <1>1, <1>4, <2>3, <2>4, <2>5 DEF Production!OperatorAnswered
<1>5. CASE Production!CardAnswered(c)
  <2>1. Card(prodCard')
    <3>1. PICK i : i = prodCard /\ Card(i) /\ Production!Left(OwnersOrder) \in Int
      BY LeftIsInt DEF BatchInv, Windows, BatchAssumption
    <3>2. PICK l \in Int \cup {None} : l = IF j.pc = "ok" THEN Production!Left(OwnersOrder) ELSE i.left
      BY <3>1 DEF Card
    <3>3. PICK q \in Int : q = IF j.does = "batch" THEN 0 ELSE i.quantity
      BY <3>1 DEF Card
    <3>4. PICK s, o : prodCard' = [sees |-> s, left |-> l, quantity |-> q, open |-> o, busy |-> FALSE]
      BY <1>1, <1>5, <3>1, <3>2, <3>3 DEF Production!CardAnswered
    <3> QED
      BY <3>4 DEF Card
  <2>2. Windows'
    BY <1>5, <2>1 DEF Production!CardAnswered, Production!operator, BatchInv, Windows
  <2> QED
    BY <1>1, <1>2, <1>3, <1>5, <2>2, IdleMoves DEF Production!CardAnswered
<1>6. CASE Production!GiveUp(c)
  <2>1. Card(prodCard')
    <3>1. PICK i : i = prodCard /\ Card(i)
      BY DEF BatchInv, Windows
    <3>2. \/ prodCard' = i
          \/ prodCard' = [i EXCEPT !.busy = FALSE, !.open = @ /\ j.does # "batch",
                                   !.quantity = IF j.does = "batch" THEN 0 ELSE @]
      BY <1>1, <1>6, <3>1 DEF Production!GiveUp
    <3>3. PICK q \in Int : q = IF j.does = "batch" THEN 0 ELSE i.quantity
      BY <3>1 DEF Card
    <3>4. prodCard' = i
          \/ \E o : prodCard' = [sees |-> i.sees, left |-> i.left, quantity |-> q, open |-> o, busy |-> FALSE]
      BY <3>1, <3>2, <3>3 DEF Card
    <3> QED
      BY <3>1, <3>4 DEF Card
  <2>2. Windows'
    BY <1>6, <2>1 DEF Production!GiveUp, BatchInv, Windows
  <2>3. PICK k : k = [by |-> "nobody", does |-> j.does, order |-> j.order, quantity |-> j.quantity, pc |-> j.pc]
    OBVIOUS
  <2>4. [j EXCEPT !.by = "nobody"] = k
    <3>1. j = [by |-> j.by, does |-> j.does, order |-> j.order, quantity |-> j.quantity, pc |-> j.pc]
      BY <1>1 DEF BatchCall
    <3> QED
      BY <2>3, <3>1
  <2>5. prodCalls' = [prodCalls EXCEPT ![c] = k]
    BY <1>1, <1>6, <2>4 DEF Production!GiveUp
  <2>6. BatchCall(k, prodHeld[c]) /\ OwedAs(k, prodHeld[c], prodCalls[c], prodHeld[c])
    BY <1>1, <2>3 DEF BatchCall, OwedAs, Owed
  <2>7. prodHeld' = [prodHeld EXCEPT ![c] = prodHeld[c]]
        /\ UNCHANGED <<produced, prodStock, adjusting, adjusted, overlapped>>
    BY <1>2 DEF BatchInv
  <2> QED
    BY <2>2, <2>5, <2>6, <2>7, CallMoves
<1>7. CASE Production!Ended(c)
  <2>1. Windows'
    BY <1>7 DEF Production!Ended, Production!Screens, Production!operator, BatchInv, Windows
  <2> QED
    BY <1>1, <1>2, <1>3, <1>7, <2>1, IdleMoves DEF Production!Ended
<1> QED
  BY <1>4, <1>5, <1>6, <1>7

\* The transitions of an order, and what is checked before a batch is drawn.
LEMMA ChecksSteady ==
  ASSUME BatchAssumption, BatchInv, NEW c \in Calls,
         Production!StartProduction(c) \/ Production!CountBatches(c) \/ Production!CompleteProduction(c)
         \/ Production!CheckBatch(c)
  PROVE  BatchInv'
<1>1. UNCHANGED <<produced, prodStock, prodHeld, adjusting, adjusted, overlapped>>
      /\ UNCHANGED <<prodSelected, quantity, prodCard>>
  BY DEF Production!StartProduction, Production!CountBatches, Production!CompleteProduction, Production!CheckBatch,
     Production!Moves, Production!server, Production!store, Production!Screens, Production!operator
<1>2. Windows'
  BY <1>1 DEF BatchInv, Windows
<1>3. \E pc \in {"counted", "draw", "ok", "failed"} :
         Production!To(c, pc) /\ (pc = "counted" => prodCalls[c].does # "batch")
         /\ (pc = "draw" => prodCalls[c].does = "batch")
  <2>1. CASE Production!StartProduction(c) \/ Production!CompleteProduction(c)
    BY <2>1 DEF Production!StartProduction, Production!CompleteProduction, Production!Moves
  <2>2. CASE Production!CountBatches(c)
    BY <2>2 DEF Production!CountBatches, Production!At
  <2>3. CASE Production!CheckBatch(c)
    BY <2>3 DEF Production!CheckBatch, Production!At
  <2> QED
    BY <2>1, <2>2, <2>3
<1>4. prodCalls[c].pc \notin {"draw", "inserted", "undo", "undo inserted"}
  BY DEF Production!StartProduction, Production!CountBatches, Production!CompleteProduction, Production!CheckBatch,
     Production!At
<1> QED
  BY <1>1, <1>2, <1>3, <1>4, IdleMovesTo

\* A request draws a material, or gives one back.
LEMMA DrawingSteady ==
  ASSUME BatchAssumption, BatchInv, NEW c \in Calls, NEW m \in Materials,
         Production!DrawMaterial(c, m) \/ Production!ReturnMaterial(c, m)
  PROVE  BatchInv'
<1>1. PICK j : j = prodCalls[c] /\ BatchCall(j, prodHeld[c]) /\ j.quantity \in Int
  BY DEF BatchInv, BatchCall
<1>2. PICK z \in Int : z = 0
  OBVIOUS
<1>3. Recorded(z)
  <2>1. SumOf(produced, BatchedOrders) \in Int
    BY SumIsInt DEF BatchAssumption, BatchInv
  <2>2. produced' = produced
    BY DEF Production!DrawMaterial, Production!ReturnMaterial
  <2> QED
    BY <1>2, <2>1, <2>2 DEF BatchInv, Recorded
<1>4. UNCHANGED <<adjusting, adjusted, overlapped>> /\ prodCalls' = [prodCalls EXCEPT ![c] = j]
  BY <1>1 DEF Production!DrawMaterial, Production!ReturnMaterial, Production!store, BatchInv
<1>5. Windows'
  BY DEF Production!DrawMaterial, Production!ReturnMaterial, Production!Screens, Production!operator, BatchInv,
     Windows
<1>6. CASE Production!DrawMaterial(c, m)
  <2>1. PICK h : h = prodHeld[c] \cup {m}
    OBVIOUS
  <2>2. PICK x : x = [n \in Materials |-> IF n = m THEN j.quantity ELSE 0]
    OBVIOUS
  <2>3. \A n \in Materials : x[n] \in Int
    BY <1>1, <2>2
  <2>4. j.pc = "draw" /\ j.does = "batch" /\ m \notin prodHeld[c]
    BY <1>1, <1>6 DEF Production!DrawMaterial, Production!At
  <2>5. Takes(j, h, prodCalls[c], prodHeld[c], x, z)
    <3> SUFFICES ASSUME NEW n \in Materials PROVE Owed(j, h, n) = Owed(j, prodHeld[c], n) + x[n] - z
      BY <1>1, <2>3 DEF Takes
    <3>1. CASE n = m
      <4>1. Owed(j, h, n) = j.quantity /\ Owed(j, prodHeld[c], n) = 0 /\ x[n] = j.quantity
        BY <2>1, <2>2, <2>4, <3>1 DEF Owed
      <4> QED
        BY <1>1, <1>2, <4>1
    <3>2. CASE n # m
      <4>1. Owed(j, h, n) = Owed(j, prodHeld[c], n) /\ x[n] = 0
        BY <2>1, <2>2, <2>4, <3>2 DEF Owed
      <4>2. Owed(j, prodHeld[c], n) \in Int
        BY <1>1, OwedIsInt
      <4> QED
        BY <1>2, <4>1, <4>2
    <3> QED
      BY <3>1, <3>2
  <2>6. Lowered(x)
    <3>1. prodStock' = [prodStock EXCEPT ![m] = @ - j.quantity]
      BY <1>1, <1>6 DEF Production!DrawMaterial
    <3> QED
      BY <1>1, <2>2, <3>1 DEF Lowered, BatchInv, Balanced
  <2>7. BatchCall(j, h) /\ prodHeld' = [prodHeld EXCEPT ![c] = h]
    BY <1>1, <1>6, <2>1, <2>4 DEF Production!DrawMaterial, BatchCall
  <2> QED
    BY <1>3, <1>4, <1>5, <2>5, <2>6, <2>7, PostingMoves
<1>7. CASE Production!ReturnMaterial(c, m)
  <2>1. PICK h : h = prodHeld[c] \ {m}
    OBVIOUS
  <2>2. PICK q \in Int : q = 0 - j.quantity
    BY <1>1
  <2>3. PICK x : x = [n \in Materials |-> IF n = m THEN q ELSE 0]
    OBVIOUS
  <2>4. \A n \in Materials : x[n] \in Int
    BY <2>2, <2>3
  <2>5. j.pc \in {"undo", "undo inserted"} /\ m \in prodHeld[c] /\ j.does = "batch"
    BY <1>1, <1>7 DEF Production!ReturnMaterial, BatchCall
  <2>6. Takes(j, h, prodCalls[c], prodHeld[c], x, z)
    <3> SUFFICES ASSUME NEW n \in Materials PROVE Owed(j, h, n) = Owed(j, prodHeld[c], n) + x[n] - z
      BY <1>1, <2>4 DEF Takes
    <3>1. CASE n = m /\ j.pc = "undo"
      <4>1. Owed(j, h, n) = 0 /\ Owed(j, prodHeld[c], n) = j.quantity /\ x[n] = q
        BY <2>1, <2>3, <2>5, <3>1 DEF Owed
      <4> QED
        BY <1>1, <1>2, <2>2, <4>1
    <3>2. CASE n = m /\ j.pc = "undo inserted"
      <4>1. Owed(j, h, n) = 0 - j.quantity /\ Owed(j, prodHeld[c], n) = 0 /\ x[n] = q
        BY <2>1, <2>3, <2>5, <3>2 DEF Owed
      <4> QED
        BY <1>1, <1>2, <2>2, <4>1
    <3>3. CASE n # m
      <4>1. Owed(j, h, n) = Owed(j, prodHeld[c], n) /\ x[n] = 0
        BY <2>1, <2>3, <2>5, <3>3 DEF Owed
      <4>2. Owed(j, prodHeld[c], n) \in Int
        BY <1>1, OwedIsInt
      <4> QED
        BY <1>2, <4>1, <4>2
    <3> QED
      BY <2>5, <3>1, <3>2, <3>3
  <2>7. Lowered(x)
    <3>1. prodStock' = [prodStock EXCEPT ![m] = @ + j.quantity]
      BY <1>1, <1>7 DEF Production!ReturnMaterial
    <3>2. \A n \in Materials : prodStock'[n] = IF n = m THEN prodStock[n] + j.quantity ELSE prodStock[n]
      BY <3>1 DEF BatchInv
    <3>3. ASSUME ~overlapped, NEW n \in Materials PROVE prodStock'[n] = prodStock[n] - x[n]
      BY <1>1, <2>2, <2>3, <3>2, <3>3 DEF BatchInv, Balanced
    <3> QED
      BY <3>1, <3>3 DEF Lowered, BatchInv
  <2>8. BatchCall(j, h) /\ prodHeld' = [prodHeld EXCEPT ![c] = h]
    BY <1>1, <1>7, <2>1, <2>5 DEF Production!ReturnMaterial, BatchCall
  <2> QED
    BY <1>3, <1>4, <1>5, <2>6, <2>7, <2>8, PostingMoves
<1> QED
  BY <1>6, <1>7

\* The sum of the batches follows a batch that is inserted or deleted.
LEMMA BatchIsRecorded ==
  ASSUME BatchAssumption, BatchInv, NEW o \in BatchedOrders, NEW q \in Int,
         produced' = [produced EXCEPT ![o] = @ + q]
  PROVE  Recorded(q)
<1>1. PICK v \in Int : v = produced[o] + q
  BY DEF BatchInv
<1>2. PICK g : g = produced'
  OBVIOUS
<1>3. g \in [BatchedOrders -> Int] /\ \A x \in BatchedOrders : produced[x] \in Int
      /\ g[x] = IF x = o THEN v ELSE produced[x]
  BY <1>1, <1>2 DEF BatchInv
<1>4. IsFiniteSet(BatchedOrders)
  BY DEF BatchAssumption
<1>5. SumOf(g, BatchedOrders) = SumOf(produced, BatchedOrders) + v - produced[o]
  BY ONLY <1>3, <1>4, SumChange, o \in BatchedOrders, v \in Int
<1>6. SumOf(produced, BatchedOrders) \in Int
  BY <1>3, <1>4, SumIsInt
<1>7. SumOf(g, BatchedOrders) = SumOf(produced, BatchedOrders) + q
  BY <1>1, <1>3, <1>5, <1>6
<1> QED
  BY <1>2, <1>3, <1>7 DEF Recorded

\* Nothing is recorded, and no stock moves.
LEMMA NothingIsRecorded ==
  ASSUME BatchAssumption, BatchInv, UNCHANGED produced, NEW z \in Int, z = 0 PROVE Recorded(z)
<1>1. SumOf(produced, BatchedOrders) \in Int
  BY SumIsInt DEF BatchAssumption, BatchInv
<1> QED
  BY <1>1 DEF BatchInv, Recorded

LEMMA NothingIsDrawn ==
  ASSUME BatchInv, UNCHANGED prodStock, NEW x, x = [m \in Materials |-> 0] PROVE Lowered(x)
  BY DEF BatchInv, Balanced, Lowered

LEMMA RecordingOnly ==
  ASSUME NEW k, NEW i, NEW j, NEW h, NEW p \in Int, NEW x, x = [m \in Materials |-> 0],
         \A m \in Materials : Owed(j, h, m) \in Int /\ Owed(k, i, m) = Owed(j, h, m) - p
  PROVE  Takes(k, i, j, h, x, p)
<1> SUFFICES ASSUME NEW m \in Materials PROVE x[m] \in Int /\ Owed(k, i, m) = Owed(j, h, m) + x[m] - p
  BY DEF Takes
<1>1. PICK b \in Int : b = Owed(j, h, m)
  OBVIOUS
<1>2. x[m] = 0 /\ b + 0 = b
  OBVIOUS
<1> QED
  BY <1>1, <1>2

\* A batch is inserted, its movements are, or the posting fails and is undone.
LEMMA PostingSteady ==
  ASSUME BatchAssumption, BatchInv, NEW c \in Calls,
         Production!DrawFails(c) \/ Production!InsertBatch(c) \/ Production!InsertMovements(c)
         \/ Production!Undone(c)
  PROVE  BatchInv'
<1>1. PICK j : j = prodCalls[c] /\ BatchCall(j, prodHeld[c]) /\ j.quantity \in Int
  BY DEF BatchInv, BatchCall
<1>2. j.does = "batch" /\ j.pc \in {"draw", "inserted", "undo", "undo inserted"} /\ j.order \in BatchedOrders
  BY <1>1 DEF Production!DrawFails, Production!InsertBatch, Production!InsertMovements, Production!Undone,
     Production!At, BatchCall
<1>3. UNCHANGED <<prodStock, adjusting, adjusted, overlapped>> /\ Windows'
  BY DEF Production!DrawFails, Production!InsertBatch, Production!InsertMovements, Production!Undone,
     Production!server, Production!store, Production!Screens, Production!operator, BatchInv, Windows
<1>4. PICK x : x = [m \in Materials |-> 0]
  OBVIOUS
<1>5. Lowered(x) /\ \A m \in Materials : x[m] \in Int
  BY <1>3, <1>4, NothingIsDrawn
<1>6. \A m \in Materials : Owed(j, prodHeld[c], m) \in Int
  BY <1>1, OwedIsInt
<1>7. ASSUME NEW p \in Int, NEW h \in SUBSET Materials,
             NEW pc \in {"draw", "inserted", "undo", "undo inserted", "ok", "failed"},
             pc = "inserted" => h = Materials, pc \in {"ok", "failed"} => h = {}, Production!To(c, pc), Recorded(p),
             prodHeld' = [prodHeld EXCEPT ![c] = h],
             \A k : (k.pc = pc /\ k.quantity = j.quantity) =>
               \A m \in Materials : Owed(k, h, m) = Owed(j, prodHeld[c], m) - p
      PROVE  BatchInv'
  <2>1. PICK k : /\ prodCalls' = [prodCalls EXCEPT ![c] = k] /\ BatchCall(k, h)
                 /\ k.pc = pc /\ k.quantity = j.quantity
    <3>1. prodCalls[c].does = "batch" /\ prodCalls[c].quantity = j.quantity
      BY <1>1, <1>2
    <3>2. \E k : /\ prodCalls' = [prodCalls EXCEPT ![c] = k] /\ BatchCall(k, h)
                 /\ k.pc = pc /\ k.quantity = prodCalls[c].quantity
      BY <1>7, <3>1, PostingMovesTo
    <3> QED
      BY <3>1, <3>2
  <2>2. Takes(k, h, prodCalls[c], prodHeld[c], x, p)
    <3>1. \A m \in Materials : Owed(j, prodHeld[c], m) \in Int /\ Owed(k, h, m) = Owed(j, prodHeld[c], m) - p
      BY <1>6, <1>7, <2>1
    <3>2. Takes(k, h, j, prodHeld[c], x, p)
      BY <1>4, <3>1, RecordingOnly
    <3> QED
      BY <1>1, <3>2
  <2> QED
    BY <1>3, <1>5, <1>7, <2>1, <2>2, PostingMoves
<1>8. PICK z \in Int : z = 0
  OBVIOUS
<1>9. PICK h \in SUBSET Materials : h = prodHeld[c]
  BY <1>1 DEF BatchCall
<1>10. prodHeld' = [prodHeld EXCEPT ![c] = h] \/ ~UNCHANGED prodHeld
  BY <1>9 DEF BatchInv
<1>11. CASE UNCHANGED prodHeld /\ UNCHANGED produced /\ j.pc = "draw" /\ Production!To(c, "undo")
  <2>1. \A k : (k.pc = "undo" /\ k.quantity = j.quantity) =>
               \A m \in Materials : Owed(k, h, m) = Owed(j, prodHeld[c], m) - z
    BY <1>1, <1>6, <1>8, <1>9, <1>11 DEF Owed
  <2> QED
    BY <1>7, <1>8, <1>10, <1>11, <2>1, NothingIsRecorded
<1>12. CASE /\ j.pc = "draw" /\ h = Materials /\ UNCHANGED prodHeld /\ Production!To(c, "inserted")
            /\ produced' = [produced EXCEPT ![j.order] = @ + j.quantity]
  <2>1. Recorded(j.quantity)
    BY <1>1, <1>2, <1>12, BatchIsRecorded
  <2>2. \A k : (k.pc = "inserted" /\ k.quantity = j.quantity) =>
               \A m \in Materials : Owed(k, h, m) = Owed(j, prodHeld[c], m) - j.quantity
    <3>1. \A m \in Materials : Owed(j, prodHeld[c], m) = j.quantity
      BY <1>9, <1>12 DEF Owed
    <3>2. \A k : k.pc = "inserted" => \A m \in Materials : Owed(k, h, m) = 0
      BY DEF Owed
    <3>3. j.quantity - j.quantity = 0
      BY <1>1
    <3> QED
      BY <3>1, <3>2, <3>3
  <2> QED
    BY <1>1, <1>7, <1>10, <1>12, <2>1, <2>2
<1>13. CASE j.pc = "inserted" /\ UNCHANGED produced /\ Production!To(c, "ok")
       /\ prodHeld' = [prodHeld EXCEPT ![c] = {}]
  <2>1. PICK i \in SUBSET Materials : i = {}
    OBVIOUS
  <2>2. \A k : (k.pc = "ok" /\ k.quantity = j.quantity) =>
               \A m \in Materials : Owed(k, i, m) = Owed(j, prodHeld[c], m) - z
    <3>1. \A m \in Materials : Owed(j, prodHeld[c], m) = 0
      BY <1>13 DEF Owed
    <3>2. \A k : k.pc = "ok" => \A m \in Materials : Owed(k, i, m) = 0
      BY DEF Owed
    <3> QED
      BY <1>8, <3>1, <3>2
  <2> QED
    BY <1>7, <1>8, <1>13, <2>1, <2>2, NothingIsRecorded
<1>14. CASE j.pc = "inserted" /\ UNCHANGED produced /\ UNCHANGED prodHeld /\ Production!To(c, "undo inserted")
  <2>1. prodHeld[c] = Materials
    BY <1>1, <1>14 DEF BatchCall
  <2>2. \A k : (k.pc = "undo inserted" /\ k.quantity = j.quantity) =>
               \A m \in Materials : Owed(k, h, m) = Owed(j, prodHeld[c], m) - z
    <3>1. \A m \in Materials : Owed(j, prodHeld[c], m) = 0
      BY <1>14 DEF Owed
    <3>2. \A k : k.pc = "undo inserted" => \A m \in Materials : Owed(k, h, m) = 0
      BY <1>9, <2>1 DEF Owed
    <3>3. 0 - z = 0
      BY <1>8
    <3> QED
      BY <3>1, <3>2, <3>3
  <2> QED
    BY <1>7, <1>8, <1>10, <1>14, <2>2, NothingIsRecorded
<1>15. CASE j.pc = "undo" /\ h = {} /\ UNCHANGED produced /\ UNCHANGED prodHeld /\ Production!To(c, "failed")
  <2>1. \A k : (k.pc = "failed" /\ k.quantity = j.quantity) =>
               \A m \in Materials : Owed(k, h, m) = Owed(j, prodHeld[c], m) - z
    <3>1. \A m \in Materials : Owed(j, prodHeld[c], m) = 0
      BY <1>9, <1>15 DEF Owed
    <3>2. \A k : k.pc = "failed" => \A m \in Materials : Owed(k, h, m) = 0
      BY DEF Owed
    <3> QED
      BY <1>8, <3>1, <3>2
  <2> QED
    BY <1>7, <1>8, <1>10, <1>15, <2>1, NothingIsRecorded
<1>16. CASE /\ j.pc = "undo inserted" /\ h = {} /\ UNCHANGED prodHeld /\ Production!To(c, "failed")
            /\ produced' = [produced EXCEPT ![j.order] = @ - j.quantity]
  <2>1. PICK q \in Int : q = 0 - j.quantity
    BY <1>1
  <2>2. produced' = [produced EXCEPT ![j.order] = @ + q]
    <3>1. produced[j.order] - j.quantity = produced[j.order] + q
      <4>1. PICK v \in Int : v = produced[j.order]
        BY <1>2 DEF BatchInv
      <4>2. PICK n \in Int : n = j.quantity
        BY <1>1
      <4>3. q = 0 - n
        BY <2>1, <4>2
      <4>4. v - n = v + q
        BY <4>3
      <4> QED
        BY <4>1, <4>2, <4>4
    <3> QED
      BY <1>16, <3>1
  <2>3. Recorded(q)
    BY <1>2, <2>2, BatchIsRecorded
  <2>4. \A k : (k.pc = "failed" /\ k.quantity = j.quantity) =>
               \A m \in Materials : Owed(k, h, m) = Owed(j, prodHeld[c], m) - q
    <3>1. \A m \in Materials : Owed(j, prodHeld[c], m) = q
      BY <1>9, <1>16, <2>1 DEF Owed
    <3>2. \A k : k.pc = "failed" => \A m \in Materials : Owed(k, h, m) = 0
      BY DEF Owed
    <3> QED
      BY <2>1, <3>1, <3>2
  <2> QED
    BY <1>7, <1>10, <1>16, <2>3, <2>4
<1>17. CASE Production!DrawFails(c)
  BY <1>1, <1>11, <1>17 DEF Production!DrawFails, Production!At, Production!server
<1>18. CASE Production!InsertBatch(c)
  BY <1>1, <1>9, <1>11, <1>12, <1>18 DEF Production!InsertBatch, Production!At
<1>19. CASE Production!InsertMovements(c)
  BY <1>1, <1>13, <1>14, <1>19 DEF Production!InsertMovements, Production!At
<1>20. CASE Production!Undone(c)
  BY <1>1, <1>9, <1>15, <1>16, <1>20 DEF Production!Undone, Production!DeleteBatch
<1> QED
  BY <1>17, <1>18, <1>19, <1>20

\* The store manager reads a stock, and writes it.
LEMMA ManagerSteady ==
  ASSUME BatchAssumption, BatchInv, Production!WriteStock \/ \E m \in Materials : Production!ReadStock(m)
  PROVE  BatchInv'
<1>1. UNCHANGED <<prodCalls, prodHeld, produced>> /\ Windows'
  BY DEF Production!WriteStock, Production!ReadStock, Production!Screens, Production!operator, BatchInv, Windows
<1>2. CASE \E m \in Materials : Production!ReadStock(m)
  BY <1>1, <1>2 DEF Production!ReadStock, BatchInv, Balanced, OwedBy
<1>3. CASE Production!WriteStock
  <2>1. PICK m, v : /\ prodStock' = [prodStock EXCEPT ![m] = v + 1] /\ adjusted' = [adjusted EXCEPT ![m] = @ + 1]
                    /\ overlapped' = (overlapped \/ prodStock[m] # v)
    BY <1>3 DEF Production!WriteStock
  <2>2. prodStock' = [n \in Materials |-> prodStock'[n]] /\ adjusted' = [n \in Materials |-> adjusted'[n]]
    BY <2>1 DEF BatchInv
  <2>3. CASE overlapped \/ prodStock[m] # v
    BY <1>1, <2>1, <2>2, <2>3 DEF BatchInv, Balanced
  <2>4. CASE ~overlapped /\ prodStock[m] = v
    <3> SUFFICES ASSUME NEW n \in Materials
                 PROVE  /\ prodStock'[n] \in Int /\ adjusted'[n] \in Int
                        /\ prodStock'[n] + SumOf(produced', BatchedOrders) + SumOf(OwedBy(n)', Calls) =
                               Opening + adjusted'[n]
      BY <1>1, <2>2 DEF BatchInv, Balanced
    <3>1. UNCHANGED SumOf(produced, BatchedOrders) /\ UNCHANGED SumOf(OwedBy(n), Calls)
      BY <1>1 DEF OwedBy
    <3>2. SumOf(produced, BatchedOrders) \in Int /\ SumOf(OwedBy(n), Calls) \in Int
      <4>1. \A d \in Calls : OwedBy(n)[d] \in Int
        BY OwedIsInt DEF OwedBy, BatchInv, BatchCall
      <4> QED
        BY <4>1, SumIsInt DEF BatchInv, BatchAssumption
    <3>3. prodStock[n] \in Int /\ adjusted[n] \in Int /\ Opening \in Int
          /\ prodStock[n] + SumOf(produced, BatchedOrders) + SumOf(OwedBy(n), Calls) = Opening + adjusted[n]
      BY <2>4 DEF BatchInv, Balanced, BatchAssumption
    <3>4. \/ prodStock'[n] = prodStock[n] /\ adjusted'[n] = adjusted[n]
          \/ prodStock'[n] = prodStock[n] + 1 /\ adjusted'[n] = adjusted[n] + 1
      BY <2>1, <2>4 DEF BatchInv
    <3> QED
      BY <3>1, <3>2, <3>3, <3>4
  <2> QED
    BY <2>3, <2>4
<1> QED
  BY <1>2, <1>3

\* Every step keeps the invariant.
LEMMA BatchesSteady == ASSUME BatchAssumption, BatchInv, [Production!Next]_(Production!vars) PROVE BatchInv'
<1>1. CASE \/ Production!Reload \/ Production!AddBatch \/ Production!CloseBatch
           \/ \E q \in 1..Ordered : Production!EditBatch(q) \/ Production!EditCard(q)
           \/ \E o \in BatchedOrders : Production!Start(o) \/ Production!OpenBatch(o) \/ Production!Complete(o)
           \/ Production!CardLoads \/ Production!OpenCard \/ Production!CancelCard
           \/ \E does \in {"start", "batch", "complete"} : Production!CardCall(does)
  BY <1>1, OperatorSteady, CardSteady
<1>2. CASE Production!WriteStock \/ \E m \in Materials : Production!ReadStock(m)
  BY <1>2, ManagerSteady
<1>3. ASSUME NEW c \in Calls,
             Production!OperatorAnswered(c) \/ Production!CardAnswered(c) \/ Production!GiveUp(c)
             \/ Production!Ended(c)
      PROVE  BatchInv'
  BY <1>3, AnswersSteady
<1>4. ASSUME NEW c \in Calls,
             Production!StartProduction(c) \/ Production!CountBatches(c) \/ Production!CompleteProduction(c)
             \/ Production!CheckBatch(c)
      PROVE  BatchInv'
  BY <1>4, ChecksSteady
<1>5. ASSUME NEW c \in Calls,
             Production!DrawFails(c) \/ Production!InsertBatch(c) \/ Production!InsertMovements(c)
             \/ Production!Undone(c)
      PROVE  BatchInv'
  BY <1>5, PostingSteady
<1>6. ASSUME NEW c \in Calls, NEW m \in Materials, Production!DrawMaterial(c, m) \/ Production!ReturnMaterial(c, m)
      PROVE  BatchInv'
  BY <1>6, DrawingSteady
<1>7. CASE UNCHANGED Production!vars
  BY <1>7 DEF Production!vars, Production!server, Production!store, Production!operator, BatchInv, Windows,
     Balanced, OwedBy
<1> QED
  BY <1>1, <1>2, <1>3, <1>4, <1>5, <1>6, <1>7 DEF Production!Next

\* When no batch is being posted, no request owes anything.
LEMMA MaterialsFollow == ASSUME BatchAssumption, BatchInv PROVE Production!StockFollowsBatches
<1> SUFFICES ASSUME \A c \in Calls : prodCalls[c].does = "batch" => prodCalls[c].pc \in {"sent", "ok", "failed"},
                    ~overlapped, NEW m \in Materials
             PROVE  prodStock[m] + SumOf(produced, BatchedOrders) = Opening + adjusted[m]
  BY DEF Production!StockFollowsBatches, SumOf
<1>1. ASSUME NEW c \in Calls PROVE OwedBy(m)[c] = 0
  <2>1. BatchCall(prodCalls[c], prodHeld[c])
    BY DEF BatchInv
  <2>2. prodCalls[c].pc \notin {"draw", "undo", "undo inserted"}
    BY <2>1 DEF BatchCall
  <2> QED
    BY <2>2 DEF OwedBy, Owed
<1>2. SumOf(OwedBy(m), Calls) = 0
  <2> HIDE DEF OwedBy
  <2> QED
    BY <1>1, SumZero DEF BatchAssumption
<1>3. SumOf(produced, BatchedOrders) \in Int
  BY SumIsInt DEF BatchInv, BatchAssumption
<1>4. prodStock[m] \in Int
      /\ prodStock[m] + SumOf(produced, BatchedOrders) + SumOf(OwedBy(m), Calls) = Opening + adjusted[m]
  BY DEF BatchInv, Balanced
<1> QED
  BY <1>2, <1>3, <1>4

-----------------------------------------------------------------------------
(* PlantDesk: a receipt is posted by one request, and a stock is adjusted  *)
(* from the amount that was judged.                                        *)

\* A request, with what it may post or adjust.
PostingRequest(k) ==
  /\ k = [pc |-> k.pc, op |-> k.op, plant |-> k.plant, row |-> k.row, arg |-> k.arg, ui |-> k.ui]
  /\ k.pc # "free" => k.plant \in Stock!Plants
  /\ k.pc = "post" => k.op = "purchase"
  /\ k.pc \in {"write", "post"} /\ k.op \in {"purchase", "adjust"} => k.row \in Stock!Plants
  /\ k.pc \in {"sent", "write", "post"} /\ k.op = "purchase" => k.arg \in Receipts
  /\ k.pc = "sent" /\ k.op = "adjust" => k.arg \in {1, -1}
  /\ k.pc = "write" /\ k.op = "adjust" => k.arg.delta \in Int /\ k.arg.seen \in Int /\ k.arg.seen + k.arg.delta >= 0

Posted(p) == {r \in Receipts : stockReceipts[p][r] = "POSTED"}

\* Whoever posts a receipt does it alone.
PostsAlone ==
  /\ \A c \in StockCalls : stockDesk[c].pc = "post" => stockReceipts[stockDesk[c].row][stockDesk[c].arg] = "POSTING"
  /\ \A c, d \in StockCalls : (stockDesk[c].pc = "post" /\ stockDesk[d].pc = "post"
                               /\ stockDesk[c].row = stockDesk[d].row
                               /\ stockDesk[c].arg = stockDesk[d].arg) => c = d

Accounts ==
  ~stockLoose => \A p \in Stock!Plants : stockStock[p] >= 0
  /\ stockStock[p] = 1 + stockMoved[p] + Cardinality(Posted(p))

AccountsInv ==
  /\ stockPlantId \in Stock!Plants \cup {None}
  /\ stockDesk = [c \in StockCalls |-> stockDesk[c]] /\ \A c \in StockCalls : PostingRequest(stockDesk[c])
  /\ stockReceipts \in [Stock!Plants -> [Receipts -> {"NONE", "POSTING", "POSTED"}]]
  /\ stockStock \in [Stock!Plants -> Int] /\ stockMoved \in [Stock!Plants -> Int]
  /\ PostsAlone /\ Accounts

\* Nothing is posted at first.
LEMMA AccountsStart == ASSUME Stock!Init PROVE AccountsInv
<1>1. PostingRequest(Stock!Free) /\ Stock!Free.pc = "free"
  BY DEF Stock!Free, PostingRequest
<1>2. ASSUME NEW p \in Stock!Plants PROVE Posted(p) = {} /\ stockStock[p] = 1 /\ stockMoved[p] = 0
  BY <1>2 DEF Posted, Stock!Init
<1>3. Cardinality({}) = 0
  BY FS_EmptySet
<1>4. Accounts
  BY <1>2, <1>3 DEF Accounts
<1>5. PostsAlone
  BY <1>1 DEF Stock!Init, PostsAlone
<1> QED
  BY <1>1, <1>4, <1>5 DEF Stock!Init, AccountsInv

\* A request takes a step that leaves the stock and the receipts.
LEMMA StockRequestMoves ==
  ASSUME AccountsInv, NEW c \in StockCalls, NEW k, PostingRequest(k), stockDesk' = [stockDesk EXCEPT ![c] = k],
         k.pc = "post" => stockDesk[c].pc = "post" /\ k.row = stockDesk[c].row /\ k.arg = stockDesk[c].arg,
         UNCHANGED <<stockStock, stockReceipts, stockMoved, stockLoose>>, stockPlantId' \in Stock!Plants \cup {None}
  PROVE  AccountsInv'
<1>1. stockDesk' = [d \in StockCalls |-> IF d = c THEN k ELSE stockDesk[d]]
  BY DEF AccountsInv
<1>2. \A d \in StockCalls : PostingRequest(stockDesk'[d])
  BY <1>1 DEF AccountsInv
<1>3. PostsAlone'
  BY <1>1 DEF AccountsInv, PostsAlone
<1>4. Accounts'
  BY DEF AccountsInv, Accounts, Posted
<1> QED
  BY <1>1, <1>2, <1>3, <1>4 DEF AccountsInv

\* A request that starts posts nothing yet.
LEMMA StockStarting ==
  ASSUME AccountsInv, NEW op, NEW p \in Stock!Plants, NEW row, NEW arg, NEW ui, Stock!Start(op, p, row, arg, ui),
         op = "purchase" => arg \in Receipts, op = "adjust" => arg \in {1, -1},
         UNCHANGED <<stockStock, stockReceipts, stockMoved, stockLoose>>, stockPlantId' \in Stock!Plants \cup {None}
  PROVE  AccountsInv'
<1> DEFINE c == CHOOSE d \in {e \in StockCalls : stockDesk[e] = Stock!Free} : TRUE
<1>1. c \in StockCalls /\ stockDesk[c] = Stock!Free
  BY DEF Stock!Start
<1>2. PICK k : k = [pc |-> "sent", op |-> op, plant |-> p, row |-> row, arg |-> arg, ui |-> ui]
  OBVIOUS
<1>3. PostingRequest(k) /\ k.pc = "sent"
  BY <1>2 DEF PostingRequest
<1>4. stockDesk' = [stockDesk EXCEPT ![c] = k]
  BY <1>2 DEF Stock!Start
<1> HIDE DEF c
<1> QED
  BY <1>1, <1>3, <1>4, StockRequestMoves

\* A request is at another point of its handler.
LEMMA StockPcMoves ==
  ASSUME AccountsInv, NEW c \in StockCalls, NEW pc \in {"ok", "failed"}, Stock!Pc(c, pc), stockDesk[c].pc # "free"
  PROVE  \E k : PostingRequest(k) /\ stockDesk' = [stockDesk EXCEPT ![c] = k] /\ k.pc = pc
<1>1. PICK j : j = stockDesk[c] /\ PostingRequest(j)
  BY DEF AccountsInv
<1>2. PICK k : k = [j EXCEPT !.pc = pc]
  OBVIOUS
<1>3. PostingRequest(k) /\ k.pc = pc
  BY <1>1, <1>2 DEF PostingRequest
<1>4. stockDesk' = [stockDesk EXCEPT ![c] = k]
  BY <1>1, <1>2 DEF Stock!Pc
<1> QED
  BY <1>3, <1>4

\* The screen lets go of a request, or loads after it.
LEMMA StockAnswers ==
  ASSUME AccountsInv, NEW c \in StockCalls,
         Stock!Land(c) \/ Stock!Answered(c) \/ Stock!GiveUp(c) \/ Stock!Dropped(c)
  PROVE  AccountsInv'
<1>1. UNCHANGED <<stockStock, stockReceipts, stockMoved, stockLoose>> /\ stockPlantId' \in Stock!Plants \cup {None}
  BY DEF Stock!Land, Stock!Answered, Stock!GiveUp, Stock!Dropped, Stock!rows, Stock!stores, Stock!screen,
     AccountsInv
<1>2. PostingRequest(Stock!Free) /\ Stock!Free.pc = "free"
  BY DEF Stock!Free, PostingRequest
<1>3. PICK j : j = stockDesk[c] /\ PostingRequest(j)
  BY DEF AccountsInv
<1>4. CASE stockDesk' = [stockDesk EXCEPT ![c] = Stock!Free]
  BY <1>1, <1>2, <1>4, StockRequestMoves
<1>5. CASE j.pc = "ok"
      /\ stockDesk' = [stockDesk EXCEPT ![c] = [Stock!Free EXCEPT !.pc = "sent", !.plant = stockDesk[c].plant,
                                                !.ui = TRUE]]
  <2>1. PICK k : k = [Stock!Free EXCEPT !.pc = "sent", !.plant = stockDesk[c].plant, !.ui = TRUE]
    OBVIOUS
  <2>2. k = [pc |-> "sent", op |-> "load", plant |-> stockDesk[c].plant, row |-> None, arg |-> None, ui |-> TRUE]
    BY <2>1 DEF Stock!Free
  <2>3. stockDesk[c].plant \in Stock!Plants
    BY <1>3, <1>5 DEF PostingRequest
  <2>4. PostingRequest(k) /\ k.pc = "sent"
    BY <2>2, <2>3 DEF PostingRequest
  <2> QED
    BY <1>1, <1>5, <2>1, <2>4, StockRequestMoves
<1>6. CASE stockDesk' = [stockDesk EXCEPT ![c].ui = FALSE]
  <2>1. PICK k : k = [j EXCEPT !.ui = FALSE]
    OBVIOUS
  <2>2. PostingRequest(k) /\ k.pc = j.pc /\ k.row = j.row /\ k.arg = j.arg
    BY <1>3, <2>1 DEF PostingRequest
  <2>3. stockDesk' = [stockDesk EXCEPT ![c] = k]
    BY <1>3, <1>6, <2>1
  <2> QED
    BY <1>1, <1>3, <2>2, <2>3, StockRequestMoves
<1> QED
  BY <1>3, <1>4, <1>5, <1>6 DEF Stock!Land, Stock!Answered, Stock!GiveUp, Stock!Dropped

\* A row is found and judged, or a list read.
LEMMA StockReads ==
  ASSUME AccountsInv, NEW c \in StockCalls, Stock!Find(c) \/ Stock!Read(c)
  PROVE  AccountsInv'
<1>1. UNCHANGED <<stockStock, stockReceipts, stockMoved, stockLoose>> /\ stockPlantId' \in Stock!Plants \cup {None}
  BY DEF Stock!Find, Stock!Read, Stock!rows, Stock!stores, Stock!screen, AccountsInv
<1>2. PICK j : j = stockDesk[c] /\ PostingRequest(j) /\ j.pc = "sent"
  BY DEF AccountsInv, Stock!Find, Stock!Read
<1>3. CASE Stock!Pc(c, "failed")
  <2>1. PICK k : PostingRequest(k) /\ stockDesk' = [stockDesk EXCEPT ![c] = k] /\ k.pc = "failed"
    BY <1>2, <1>3, StockPcMoves
  <2> QED
    BY <1>1, <2>1, StockRequestMoves
<1>4. CASE Stock!Find(c) /\ Stock!Judged(c)
  <2>1. PICK a : a = IF j.op = "adjust" THEN [delta |-> j.arg, seen |-> stockStock[j.row]] ELSE j.arg
    OBVIOUS
  <2>2. PICK k : k = [j EXCEPT !.pc = "write", !.arg = a]
    OBVIOUS
  <2>3. stockDesk' = [stockDesk EXCEPT ![c] = k]
    <3>1. [j EXCEPT !.pc = "write",
                    !.arg = IF j.op = "adjust" THEN [delta |-> @, seen |-> stockStock[j.row]] ELSE @] = k
      BY <2>1, <2>2
    <3>2. stockDesk' = [stockDesk EXCEPT ![c] =
            [j EXCEPT !.pc = "write",
                      !.arg = IF j.op = "adjust" THEN [delta |-> @, seen |-> stockStock[j.row]] ELSE @]]
      BY <1>2, <1>4 DEF Stock!Find
    <3> QED
      BY <3>1, <3>2
  <2>4. j.op \in {"purchase", "adjust"} => j.row = j.plant /\ j.row \in Stock!Plants
    BY <1>2, <1>4 DEF Stock!Judged, Stock!Found, PostingRequest
  <2>5. k = [pc |-> "write", op |-> j.op, plant |-> j.plant, row |-> j.row, arg |-> a, ui |-> j.ui]
    BY <1>2, <2>2 DEF PostingRequest
  <2>6. j.op = "adjust" => a.delta \in Int /\ a.seen \in Int /\ a.seen + a.delta >= 0
    <3> SUFFICES ASSUME j.op = "adjust" PROVE a.delta \in Int /\ a.seen \in Int /\ a.seen + a.delta >= 0
      OBVIOUS
    <3>1. j.arg \in {1, -1}
      BY <1>2 DEF PostingRequest
    <3>2. PICK d \in Int : d = j.arg
      BY <3>1
    <3>3. PICK s \in Int : s = stockStock[j.row]
      BY <2>4 DEF AccountsInv
    <3>4. s + d >= 0
      BY <1>2, <1>4, <3>2, <3>3 DEF Stock!Judged
    <3>5. a.delta = d /\ a.seen = s
      BY <2>1, <3>2, <3>3
    <3> QED
      BY <3>4, <3>5
  <2>7. j.op = "purchase" => a \in Receipts
    BY <1>2, <2>1 DEF PostingRequest
  <2>8. PostingRequest(k) /\ k.pc = "write"
    <3>1. j.plant \in Stock!Plants
      BY <1>2 DEF PostingRequest
    <3> QED
      BY <2>4, <2>5, <2>6, <2>7, <3>1 DEF PostingRequest
  <2> QED
    BY <1>1, <2>3, <2>8, StockRequestMoves
<1>5. CASE stockDesk' = [stockDesk EXCEPT ![c].pc = "ok", ![c].arg = Stock!Shown(stockDesk[c].plant)]
  <2>1. PICK s : s = Stock!Shown(stockDesk[c].plant)
    OBVIOUS
  <2>2. PICK k : k = [j EXCEPT !.pc = "ok", !.arg = s]
    OBVIOUS
  <2>3. k = [pc |-> "ok", op |-> j.op, plant |-> j.plant, row |-> j.row, arg |-> s, ui |-> j.ui]
    BY <1>2, <2>2 DEF PostingRequest
  <2>4. PostingRequest(k) /\ k.pc = "ok"
    BY <1>2, <2>3 DEF PostingRequest
  <2>5. stockDesk' = [stockDesk EXCEPT ![c] = k]
    BY <1>2, <1>5, <2>1, <2>2
  <2> QED
    BY <1>1, <2>4, <2>5, StockRequestMoves
<1> QED
  BY <1>3, <1>4, <1>5 DEF Stock!Find, Stock!Read

\* A row is written that is neither a stock nor a receipt, or nothing is.
LEMMA StockStands ==
  ASSUME AccountsInv, NEW c \in StockCalls, NEW pc \in {"ok", "failed"}, stockDesk[c].pc \in {"write", "post"},
         Stock!Pc(c, pc),
         UNCHANGED <<stockStock, stockReceipts, stockMoved, stockLoose, stockPlantId>>
  PROVE  AccountsInv'
<1>1. PICK k : PostingRequest(k) /\ stockDesk' = [stockDesk EXCEPT ![c] = k] /\ k.pc = pc
  BY StockPcMoves
<1>2. stockPlantId' \in Stock!Plants \cup {None} /\ k.pc # "post"
  BY <1>1 DEF AccountsInv
<1> QED
  BY <1>1, <1>2, StockRequestMoves

\* The stock is adjusted from what it was judged by.
LEMMA StockAdjusts ==
  ASSUME IsFiniteSet(Receipts), AccountsInv, NEW c \in StockCalls, Stock!Adjust(c)
  PROVE  AccountsInv'
<1>1. PICK j : j = stockDesk[c] /\ PostingRequest(j) /\ j.pc = "write" /\ j.op = "adjust"
  BY DEF AccountsInv, Stock!Adjust, Stock!Writing
<1>2. PICK p \in Stock!Plants : p = j.row
  BY <1>1 DEF PostingRequest
<1>3. UNCHANGED <<stockReceipts, stockLoose, stockPlantId>>
  BY DEF Stock!Adjust, Stock!screen
<1>4. CASE Stock!Pc(c, "failed") /\ UNCHANGED <<stockStock, stockMoved>>
  BY <1>1, <1>3, <1>4, StockStands
<1>5. CASE /\ stockStock[p] = j.arg.seen /\ Stock!Pc(c, "ok")
           /\ stockStock' = [stockStock EXCEPT ![p] = @ + j.arg.delta]
              /\ stockMoved' = [stockMoved EXCEPT ![p] = @ + j.arg.delta]
  <2>1. PICK k : PostingRequest(k) /\ stockDesk' = [stockDesk EXCEPT ![c] = k] /\ k.pc = "ok"
    BY <1>1, <1>5, StockPcMoves
  <2>2. stockDesk' = [d \in StockCalls |-> IF d = c THEN k ELSE stockDesk[d]]
    BY <2>1 DEF AccountsInv
  <2>3. \A d \in StockCalls : PostingRequest(stockDesk'[d])
    BY <2>1, <2>2 DEF AccountsInv
  <2>4. PostsAlone'
    BY <1>3, <2>1, <2>2 DEF AccountsInv, PostsAlone
  <2>5. PICK a \in Int : a = j.arg.delta
    BY <1>1 DEF PostingRequest
  <2>6. stockStock[p] + a >= 0
    BY <1>1, <1>5, <2>5 DEF PostingRequest
  <2>7. /\ stockStock' = [stockStock EXCEPT ![p] = @ + a] /\ stockMoved' = [stockMoved EXCEPT ![p] = @ + a]
    BY <1>5, <2>5
  <2>8. Accounts'
    <3> SUFFICES ASSUME ~stockLoose, NEW q \in Stock!Plants
                 PROVE  stockStock'[q] >= 0 /\ stockStock'[q] = 1 + stockMoved'[q] + Cardinality(Posted(q)')
      BY <1>3 DEF Accounts
    <3>1. Posted(q)' = Posted(q)
      BY <1>3 DEF Posted
    <3>2. stockStock[q] >= 0 /\ stockStock[q] = 1 + stockMoved[q] + Cardinality(Posted(q)) /\ stockStock[q] \in Int
          /\ stockMoved[q] \in Int
      BY DEF AccountsInv, Accounts
    <3>3. PICK n \in Nat : n = Cardinality(Posted(q))
      <4>1. Posted(q) \subseteq Receipts
        BY DEF Posted
      <4> QED
        BY <4>1, FS_Subset, FS_CardinalityType
    <3>4. CASE q = p
      <4>1. stockStock'[q] = stockStock[q] + a /\ stockMoved'[q] = stockMoved[q] + a
        BY <2>7, <3>4 DEF AccountsInv
      <4>2. PICK s \in Int, m \in Int : s = stockStock[q] /\ m = stockMoved[q]
        BY <3>2
      <4>3. s + a >= 0 /\ s = 1 + m + n
        BY <2>6, <3>2, <3>3, <3>4, <4>2
      <4>4. s + a = 1 + (m + a) + n
        BY <4>3
      <4> QED
        BY <3>1, <3>3, <4>1, <4>2, <4>3, <4>4
    <3>5. CASE q # p
      BY <2>7, <3>1, <3>2, <3>5 DEF AccountsInv
    <3> QED
      BY <3>4, <3>5
  <2>9. stockStock' \in [Stock!Plants -> Int] /\ stockMoved' \in [Stock!Plants -> Int]
    BY <2>7 DEF AccountsInv
  <2> QED
    BY <1>3, <2>2, <2>3, <2>4, <2>8, <2>9 DEF AccountsInv
<1> QED
  BY <1>1, <1>2, <1>4, <1>5 DEF Stock!Adjust

\* A receipt is inserted once.
LEMMA StockInserts ==
  ASSUME AccountsInv, NEW c \in StockCalls, Stock!InsertReceipt(c)
  PROVE  AccountsInv'
<1>1. PICK j : j = stockDesk[c] /\ PostingRequest(j) /\ j.pc = "write" /\ j.op = "purchase"
  BY DEF AccountsInv, Stock!InsertReceipt, Stock!Writing
<1>2. PICK p \in Stock!Plants, r \in Receipts : p = j.row /\ r = j.arg
  BY <1>1 DEF PostingRequest
<1>3. UNCHANGED <<stockStock, stockMoved, stockLoose, stockPlantId>>
  BY DEF Stock!InsertReceipt, Stock!screen
<1>4. CASE Stock!Pc(c, "failed") /\ UNCHANGED stockReceipts
  BY <1>1, <1>3, <1>4, StockStands
<1>5. CASE stockReceipts[p][r] = "NONE" /\ stockReceipts' = [stockReceipts EXCEPT ![p][r] = "POSTING"]
      /\ Stock!Pc(c, "post")
  <2>1. PICK k : k = [j EXCEPT !.pc = "post"]
    OBVIOUS
  <2>2. PostingRequest(k) /\ k.pc = "post" /\ k.row = p /\ k.arg = r
    BY <1>1, <1>2, <2>1 DEF PostingRequest
  <2>3. stockDesk' = [d \in StockCalls |-> IF d = c THEN k ELSE stockDesk[d]]
    BY <1>1, <1>5, <2>1 DEF AccountsInv, Stock!Pc
  <2>4. \A d \in StockCalls : PostingRequest(stockDesk'[d])
    BY <2>2, <2>3 DEF AccountsInv
  <2>5. \A q \in Stock!Plants : \A s \in Receipts :
          stockReceipts'[q][s] = IF q = p /\ s = r THEN "POSTING" ELSE stockReceipts[q][s]
    BY <1>5 DEF AccountsInv
  <2>6. PostsAlone'
    <3>1. ASSUME NEW d \in StockCalls, d # c, stockDesk[d].pc = "post"
          PROVE  /\ stockReceipts[stockDesk[d].row][stockDesk[d].arg] = "POSTING"
                 /\ stockDesk[d].row \in Stock!Plants /\ stockDesk[d].arg \in Receipts
                 /\ ~(stockDesk[d].row = p /\ stockDesk[d].arg = r)
      <4>1. PICK i : i = stockDesk[d] /\ PostingRequest(i) /\ i.pc = "post"
            /\ stockReceipts[i.row][i.arg] = "POSTING"
        BY <3>1 DEF AccountsInv, PostsAlone
      <4>2. i.row \in Stock!Plants /\ i.arg \in Receipts
        BY <4>1 DEF PostingRequest
      <4> QED
        BY <1>5, <4>1, <4>2
    <3>2. \A d \in StockCalls : stockDesk'[d].pc = "post" =>
            stockReceipts'[stockDesk'[d].row][stockDesk'[d].arg] = "POSTING"
      BY <2>2, <2>3, <2>5, <3>1
    <3>3. \A d, e \in StockCalls : (stockDesk'[d].pc = "post" /\ stockDesk'[e].pc = "post"
                                    /\ stockDesk'[d].row = stockDesk'[e].row
                                    /\ stockDesk'[d].arg = stockDesk'[e].arg) => d = e
      BY <2>2, <2>3, <3>1 DEF AccountsInv, PostsAlone
    <3> QED
      BY <3>2, <3>3 DEF PostsAlone
  <2>7. Accounts'
    <3>1. \A q \in Stock!Plants : Posted(q)' = Posted(q)
      BY <1>5, <2>5 DEF Posted
    <3> QED
      BY <1>3, <3>1 DEF Accounts, AccountsInv
  <2>8. stockReceipts' \in [Stock!Plants -> [Receipts -> {"NONE", "POSTING", "POSTED"}]]
    BY <1>5 DEF AccountsInv
  <2> QED
    BY <1>3, <2>3, <2>4, <2>6, <2>7, <2>8 DEF AccountsInv
<1> QED
  BY <1>1, <1>2, <1>4, <1>5 DEF Stock!InsertReceipt

\* A receipt is posted with its stock, or something of the two is lost.
LEMMA StockPosts ==
  ASSUME IsFiniteSet(Receipts), AccountsInv, NEW c \in StockCalls, Stock!PostReceipt(c)
  PROVE  AccountsInv'
<1>1. PICK j : j = stockDesk[c] /\ PostingRequest(j) /\ j.pc = "post"
  BY DEF AccountsInv, Stock!PostReceipt
<1>2. PICK p \in Stock!Plants, r \in Receipts : p = j.row /\ r = j.arg
  BY <1>1 DEF PostingRequest
<1>3. UNCHANGED <<stockMoved, stockPlantId>> /\ stockReceipts[p][r] = "POSTING"
  BY <1>1, <1>2 DEF Stock!PostReceipt, Stock!screen, AccountsInv, PostsAlone
<1>4. PICK pc \in {"ok", "failed"}, v \in {"POSTED", "NONE", "POSTING"} :
        /\ Stock!Pc(c, pc) /\ stockReceipts' = [stockReceipts EXCEPT ![p][r] = v]
        /\ \E n \in Int : stockStock' = [stockStock EXCEPT ![p] = n]
        /\ \/ stockLoose'
           \/ v = "POSTED" /\ stockStock' = [stockStock EXCEPT ![p] = @ + 1] /\ UNCHANGED stockLoose
  <2>1. stockStock[p] \in Int
    BY DEF AccountsInv
  <2>2. CASE /\ stockStock' = [stockStock EXCEPT ![p] = @ + 1] /\ Stock!Pc(c, "ok") /\ UNCHANGED stockLoose
             /\ stockReceipts' = [stockReceipts EXCEPT ![p][r] = "POSTED"]
    <3>1. PICK n \in Int : n = stockStock[p] + 1
      BY <2>1
    <3>2. stockStock' = [stockStock EXCEPT ![p] = n]
      BY <2>2, <3>1
    <3> QED
      BY <2>2, <3>2
  <2>3. CASE /\ \E moves \in {0, 1} : stockStock' = [stockStock EXCEPT ![p] = @ + moves - 1]
             /\ stockReceipts' = [stockReceipts EXCEPT ![p][r] = "NONE"]
             /\ stockLoose' = TRUE /\ Stock!Pc(c, "failed")
    <3>1. PICK moves \in {0, 1} : stockStock' = [stockStock EXCEPT ![p] = @ + moves - 1]
      BY <2>3
    <3>2. PICK n \in Int : n = stockStock[p] + moves - 1
      BY <2>1
    <3>3. stockStock' = [stockStock EXCEPT ![p] = n]
      BY <3>1, <3>2
    <3> QED
      BY <2>3, <3>3
  <2>4. CASE /\ \E moves \in {0, 1} : stockStock' = [stockStock EXCEPT ![p] = @ + moves]
             /\ stockLoose' = TRUE /\ Stock!Pc(c, "failed") /\ UNCHANGED stockReceipts
    <3>1. PICK moves \in {0, 1} : stockStock' = [stockStock EXCEPT ![p] = @ + moves]
      BY <2>4
    <3>2. PICK n \in Int : n = stockStock[p] + moves
      BY <2>1
    <3>3. stockStock' = [stockStock EXCEPT ![p] = n]
      BY <3>1, <3>2
    <3>4. stockReceipts' = [stockReceipts EXCEPT ![p][r] = "POSTING"]
      BY <1>3, <2>4 DEF AccountsInv
    <3> QED
      BY <2>4, <3>3, <3>4
  <2> QED
    BY <1>1, <1>2, <2>2, <2>3, <2>4 DEF Stock!PostReceipt
<1>5. PICK k : PostingRequest(k) /\ stockDesk' = [stockDesk EXCEPT ![c] = k] /\ k.pc = pc
  BY <1>1, <1>4, StockPcMoves
<1>6. stockDesk' = [d \in StockCalls |-> IF d = c THEN k ELSE stockDesk[d]]
  BY <1>5 DEF AccountsInv
<1>7. \A d \in StockCalls : PostingRequest(stockDesk'[d])
  BY <1>5, <1>6 DEF AccountsInv
<1>8. \A q \in Stock!Plants : \A s \in Receipts : stockReceipts'[q][s] = IF q = p
      /\ s = r THEN v ELSE stockReceipts[q][s]
  BY <1>4 DEF AccountsInv
<1>9. PostsAlone'
  <2>1. ASSUME NEW d \in StockCalls, d # c, stockDesk[d].pc = "post"
        PROVE  stockReceipts'[stockDesk[d].row][stockDesk[d].arg] = "POSTING"
    <3>1. PICK i : i = stockDesk[d] /\ PostingRequest(i) /\ i.pc = "post" /\ stockReceipts[i.row][i.arg] = "POSTING"
      BY <2>1 DEF AccountsInv, PostsAlone
    <3>2. i.row \in Stock!Plants /\ i.arg \in Receipts
      BY <3>1 DEF PostingRequest
    <3>3. ~(i.row = p /\ i.arg = r)
      BY <1>1, <1>2, <2>1, <3>1 DEF AccountsInv, PostsAlone
    <3> QED
      BY <1>8, <3>1, <3>2, <3>3
  <2> QED
    BY <1>5, <1>6, <2>1 DEF AccountsInv, PostsAlone
<1>10. Accounts'
  <2>1. CASE stockLoose'
    BY <2>1 DEF Accounts
  <2>2. CASE v = "POSTED" /\ stockStock' = [stockStock EXCEPT ![p] = @ + 1] /\ UNCHANGED stockLoose
    <3> SUFFICES ASSUME ~stockLoose, NEW q \in Stock!Plants
                 PROVE  stockStock'[q] >= 0 /\ stockStock'[q] = 1 + stockMoved[q] + Cardinality(Posted(q)')
      BY <1>3, <2>2 DEF Accounts
    <3>1. stockStock[q] >= 0 /\ stockStock[q] = 1 + stockMoved[q] + Cardinality(Posted(q)) /\ stockStock[q] \in Int
          /\ stockMoved[q] \in Int
      BY DEF AccountsInv, Accounts
    <3>2. CASE q # p
      <4>1. Posted(q)' = Posted(q) /\ stockStock'[q] = stockStock[q]
        BY <1>8, <2>2, <3>2 DEF Posted, AccountsInv
      <4> QED
        BY <3>1, <4>1
    <3>3. CASE q = p
      <4>1. Posted(q)' = Posted(q) \cup {r} /\ r \notin Posted(q)
        BY <1>3, <1>8, <2>2, <3>3 DEF Posted
      <4>2. IsFiniteSet(Posted(q))
        <5>1. Posted(q) \subseteq Receipts
          BY DEF Posted
        <5> QED
          BY <5>1, FS_Subset
      <4>3. Cardinality(Posted(q)') = Cardinality(Posted(q)) + 1 /\ Cardinality(Posted(q)) \in Nat
        BY <4>1, <4>2, FS_AddElement, FS_CardinalityType
      <4>4. stockStock'[q] = stockStock[q] + 1
        BY <2>2, <3>3 DEF AccountsInv
      <4> QED
        BY <3>1, <4>3, <4>4
    <3> QED
      BY <3>2, <3>3
  <2> QED
    BY <1>4, <2>1, <2>2
<1>11. /\ stockStock' \in [Stock!Plants -> Int] /\ stockMoved' \in [Stock!Plants -> Int]
       /\ stockReceipts' \in [Stock!Plants -> [Receipts -> {"NONE", "POSTING", "POSTED"}]]
  BY <1>3, <1>4 DEF AccountsInv
<1> QED
  BY <1>3, <1>6, <1>7, <1>9, <1>10, <1>11 DEF AccountsInv

\* Every step keeps the invariant.
LEMMA AccountsSteady == ASSUME IsFiniteSet(Receipts), AccountsInv, [Stock!Next]_(Stock!vars) PROVE AccountsInv'
<1>1. CASE UNCHANGED <<stockDesk, stockPlantId, Stock!stores>>
  BY <1>1 DEF AccountsInv, PostsAlone, Accounts, Posted, Stock!stores
<1>2. CASE \/ Stock!OpenForm \/ Stock!CloseForm \/ Stock!OpenAdjustment \/ Stock!MixerTaken(FirstPlant)
      \/ UNCHANGED Stock!vars
  BY <1>1, <1>2 DEF Stock!OpenForm, Stock!CloseForm, Stock!OpenAdjustment, Stock!MixerTaken, Stock!screen,
     Stock!rows, Stock!vars
<1>3. ASSUME NEW op, NEW p \in Stock!Plants, NEW row, NEW arg, NEW ui, Stock!Start(op, p, row, arg, ui),
             op = "purchase" => arg \in Receipts, op = "adjust" => arg \in {1, -1},
             UNCHANGED Stock!stores, stockPlantId' \in Stock!Plants \cup {None}
      PROVE  AccountsInv'
  BY <1>3, StockStarting DEF Stock!stores
<1>4. ASSUME NEW op, NEW row, NEW arg, Stock!Send(op, row, arg), UNCHANGED <<stockPlantId, Stock!stores>>,
             op = "purchase" => arg \in Receipts, op = "adjust" => arg \in {1, -1}
      PROVE  AccountsInv'
  <2>1. stockPlantId \in Stock!Plants /\ stockPlantId' \in Stock!Plants \cup {None}
    BY <1>4 DEF Stock!Send, AccountsInv
  <2> QED
    BY <1>3, <1>4, <2>1 DEF Stock!Send
<1>5. CASE Stock!Refresh
  <2>1. Stock!Send("load", stockPlantId, None) /\ UNCHANGED <<stockPlantId, Stock!stores>>
    BY <1>5 DEF Stock!Refresh, Stock!rows
  <2> QED
    BY <1>4, <2>1
<1>6. CASE Stock!Submit
  <2>1. UNCHANGED <<stockPlantId, Stock!stores>>
    BY <1>6 DEF Stock!Submit, Stock!rows
  <2>2. CASE Stock!Send("profile", stockPlantId, stockForm)
    BY <1>4, <2>1, <2>2
  <2>3. ASSUME NEW r \in Receipts, Stock!Send("purchase", stockForm, r) PROVE AccountsInv'
    BY <1>4, <2>1, <2>3
  <2>4. CASE Stock!Send("append", stockPlantId, None)
    BY <1>4, <2>1, <2>4
  <2> QED
    BY <1>6, <2>2, <2>3, <2>4 DEF Stock!Submit
<1>7. CASE Stock!Toggle
  <2>1. UNCHANGED <<stockPlantId, Stock!stores>>
    BY <1>7 DEF Stock!Toggle, Stock!rows
  <2>2. CASE Stock!Send("status", stockData.of, IF stockData.shown = "maintenance" THEN "available"
                        ELSE "maintenance")
    <3>1. PICK to : Stock!Send("status", stockData.of, to)
      BY <2>2
    <3> QED
      BY <1>4, <2>1, <3>1
  <2>3. CASE Stock!Send("person", stockData.of, ~stockData.shown)
    <3>1. PICK to : Stock!Send("person", stockData.of, to)
      BY <2>3
    <3> QED
      BY <1>4, <2>1, <3>1
  <2>4. CASE Stock!Send("checkin", stockPlantId, None)
    BY <1>4, <2>1, <2>4
  <2>5. CASE Stock!Send("checkout", stockPlantId, None)
    BY <1>4, <2>1, <2>5
  <2> QED
    BY <1>7, <2>2, <2>3, <2>4, <2>5 DEF Stock!Toggle
<1>8. CASE Stock!SubmitAdjustment
  <2>1. UNCHANGED <<stockPlantId, Stock!stores>>
    BY <1>8 DEF Stock!SubmitAdjustment, Stock!rows
  <2>2. PICK delta \in {1, -1} : Stock!Send("adjust", stockAdjustRow, delta)
    BY <1>8 DEF Stock!SubmitAdjustment
  <2> QED
    BY <1>4, <2>1, <2>2
<1>9. ASSUME NEW p \in Stock!Plants, Stock!SelectPlant(p) PROVE AccountsInv'
  BY <1>3, <1>9 DEF Stock!SelectPlant, Stock!rows
<1>10. CASE Stock!Colleague(FirstPlant)
  <2>1. FirstPlant \in Stock!Plants /\ stockPlantId' \in Stock!Plants \cup {None} /\ UNCHANGED Stock!stores
    BY <1>10 DEF Stock!Colleague, Stock!Plants, Stock!rows, Stock!screen, AccountsInv
  <2> QED
    BY <1>3, <1>10, <2>1 DEF Stock!Colleague
<1>11. ASSUME NEW c \in StockCalls,
              Stock!Land(c) \/ Stock!Answered(c) \/ Stock!GiveUp(c) \/ Stock!Dropped(c) \/ Stock!Find(c)
              \/ Stock!Read(c)
      PROVE  AccountsInv'
  BY <1>11, StockAnswers, StockReads
<1>12. ASSUME NEW c \in StockCalls,
              \/ Stock!PutProfile(c) \/ Stock!Append(c) \/ Stock!SetVehicleStatus(c) \/ Stock!SetStaffStatus(c)
             \/ Stock!CheckIn(c) \/ Stock!CheckOut(c)
      PROVE  AccountsInv'
  <2>1. stockDesk[c].pc = "write" /\ Stock!Pc(c, "ok")
        /\ UNCHANGED <<stockStock, stockReceipts, stockMoved, stockLoose, stockPlantId>>
    BY <1>12 DEF Stock!PutProfile, Stock!Append, Stock!SetVehicleStatus, Stock!SetStaffStatus, Stock!CheckIn,
       Stock!CheckOut, Stock!Writing, Stock!rows, Stock!stores, Stock!screen
  <2> QED
    BY <2>1, StockStands
<1>13. ASSUME NEW c \in StockCalls, Stock!Adjust(c) \/ Stock!InsertReceipt(c) \/ Stock!PostReceipt(c)
       PROVE  AccountsInv'
  BY <1>13, StockAdjusts, StockInserts, StockPosts
<1> QED
  BY <1>2, <1>9, <1>10, <1>11, <1>12, <1>13, <1>5, <1>6, <1>7, <1>8 DEF Stock!Next

\* So every stock is what its adjustments and its receipts make of it.
LEMMA StockIsAccounted == ASSUME AccountsInv PROVE Stock!StockAccounts
  BY DEF AccountsInv, Accounts, Posted, Stock!StockAccounts, Stock!Cardinality, Cardinality

-----------------------------------------------------------------------------
(* StaffSecurity: a code is of a key the authenticator holds, and what     *)
(* carries a handle carries the account's.                                 *)

KeysAssumption == None \notin Secrets \cup Handles /\ Secrets # {}

CarriesHandle(k) ==
  \/ k.does = "options" /\ k.pc = "options"
  \/ k.does = "verify" /\ k.pc \in {"consumed", "taken"}

SecureCall(k, h, keys) ==
  /\ k = [by |-> k.by, does |-> k.does, code |-> k.code, n |-> k.n, q |-> k.q, handle |-> k.handle,
          heard |-> k.heard, pc |-> k.pc]
  /\ (k.does = "confirm" => k.code \in keys) /\ (k.does = "verify" => k.q \in Requests)
  /\ k.does = "options" /\ k.pc = "claim" => k.handle # None
  /\ CarriesHandle(k) => k.handle = h /\ h # None

SecureScreen(s, keys) ==
  /\ s = [page |-> s.page, key |-> s.key, code |-> s.code, codes |-> s.codes, loading |-> s.loading,
          session |-> s.session, registered |-> s.registered]
  /\ s.code \in keys \cup {None}

HandlesInv ==
  /\ \A p \in passkeys : p.handle = handle /\ handle # None
  /\ challenges = [q \in Requests |-> challenges[q]]
  /\ \A q \in Requests : challenges[q] \in {None, handle}

SecurityInv ==
  /\ secCalls = [c \in Calls |-> secCalls[c]] /\ \A c \in Calls : SecureCall(secCalls[c], handle, secHeld)
  /\ scr = [s \in Phones |-> scr[s]] /\ \A s \in Phones : SecureScreen(scr[s], secHeld)
  /\ enabled => secret \in secHeld
  /\ HandlesInv

LEMMA SecurityStarts == ASSUME KeysAssumption, Security!Init PROVE SecurityInv
<1>1. \A s \in Phones : scr[s] \in {Security!Screen("opening"), Security!Screen("passkey")}
  BY DEF Security!Init
<1>2. \A at : SecureScreen(Security!Screen(at), secHeld)
  BY DEF SecureScreen, Security!Screen
<1>3. SecureCall(Security!Free, handle, secHeld)
  BY DEF SecureCall, Security!Free, CarriesHandle
<1>4. enabled => secret \in secHeld
  <2>1. CASE enabled = FALSE
    BY <2>1
  <2>2. CASE secret = CHOOSE k \in Secrets : TRUE
    <3>1. secret \in Secrets
      BY <2>2 DEF KeysAssumption
    <3> QED
      BY <3>1 DEF Security!Init, KeysAssumption
  <2> QED
    BY <2>1, <2>2 DEF Security!Init
<1>5. scr = [s \in Phones |-> scr[s]]
  BY DEF Security!Init
<1>6. secCalls = [c \in Calls |-> secCalls[c]] /\ \A c \in Calls : secCalls[c] = Security!Free
  BY DEF Security!Init
<1>7. HandlesInv
  BY DEF Security!Init, HandlesInv
<1> QED
  BY <1>1, <1>2, <1>3, <1>4, <1>5, <1>6, <1>7 DEF SecurityInv

\* One call moves; the account may get its handle, the authenticator a key.
LEMMA SecureMoves ==
  ASSUME SecurityInv, NEW c \in Calls, NEW k, secCalls' = [secCalls EXCEPT ![c] = k],
         SecureCall(k, handle', secHeld'),
         secHeld \subseteq secHeld', handle' = handle \/ handle = None
  PROVE  secCalls' = [d \in Calls |-> secCalls'[d]] /\ \A d \in Calls : SecureCall(secCalls'[d], handle', secHeld')
<1>1. \A d \in Calls : secCalls'[d] = IF d = c THEN k ELSE secCalls[d]
  BY DEF SecurityInv
<1>2. \A d \in Calls : SecureCall(secCalls[d], handle', secHeld')
  BY DEF SecurityInv, SecureCall
<1> QED
  BY <1>1, <1>2 DEF SecurityInv

\* A call goes on to a state in which it carries no handle of its own.
LEMMA SecureTo ==
  ASSUME SecurityInv, NEW c \in Calls, NEW pc, Security!To(c, pc), UNCHANGED <<handle, secHeld>>,
         pc \notin {"claim", "options", "consumed"}, pc = "taken" => secCalls[c].pc = "consumed"
  PROVE  secCalls' = [d \in Calls |-> secCalls'[d]] /\ \A d \in Calls : SecureCall(secCalls'[d], handle', secHeld')
<1>1. PICK j : j = secCalls[c] /\ SecureCall(j, handle, secHeld)
  BY DEF SecurityInv
<1>2. PICK k : k = [j EXCEPT !.pc = pc]
  OBVIOUS
<1>3. SecureCall(k, handle', secHeld')
  BY <1>1, <1>2 DEF SecureCall, CarriesHandle
<1>4. secCalls' = [secCalls EXCEPT ![c] = k]
  BY <1>1, <1>2 DEF Security!To
<1> QED
  BY <1>3, <1>4, SecureMoves

\* A press sends a code that was typed.
LEMMA SecureSends ==
  ASSUME SecurityInv, NEW s, NEW does, NEW code, NEW q, Security!Sends(s, does, code, q),
         UNCHANGED <<handle, secHeld>>,
         does = "confirm" => code \in secHeld, does = "verify" => q \in Requests
  PROVE  secCalls' = [d \in Calls |-> secCalls'[d]] /\ \A d \in Calls : SecureCall(secCalls'[d], handle', secHeld')
<1>1. PICK k : k = [by |-> s, does |-> does, code |-> code, n |-> secPresses', q |-> q, handle |-> None,
                    heard |-> TRUE, pc |-> "sent"]
  OBVIOUS
<1>2. PICK c \in Calls : secCalls' = [secCalls EXCEPT ![c] = k]
  BY <1>1 DEF Security!Sends
<1>3. SecureCall(k, handle', secHeld')
  BY <1>1 DEF SecureCall, CarriesHandle
<1> QED
  BY <1>2, <1>3, SecureMoves

\* A screen that keeps its code, clears it or takes one that the person holds.
LEMMA SecureShows ==
  ASSUME SecurityInv, NEW s, NEW v, scr' = [scr EXCEPT ![s] = v], s \in Phones => SecureScreen(v, secHeld)
  PROVE  scr' = [t \in Phones |-> scr'[t]] /\ \A t \in Phones : SecureScreen(scr'[t], secHeld)
  BY DEF SecurityInv

\* The steps of a screen.
LEMMA SecureScreens ==
  ASSUME KeysAssumption, SecurityInv, NEW s \in Phones,
         \/ Security!Open(s) \/ Security!RestartSetup(s) \/ Security!AddKey(s) \/ Security!Confirm(s)
            \/ Security!Finish(s) \/ Security!SignOut(s)
         \/ Security!CreatePasskey(s) \/ Security!BrowserCloses(s) \/ Security!ContinueToDashboard(s)
         \/ \E k \in secHeld : Security!TypeCode(s, k)
  PROVE  SecurityInv'
<1>1. PICK w : w = scr[s] /\ SecureScreen(w, secHeld)
  BY DEF SecurityInv
<1>2. UNCHANGED <<enabled, secret, passkeys, challenges, handle>>
  BY DEF Security!Open, Security!RestartSetup, Security!AddKey, Security!Confirm, Security!Finish,
     Security!SignOut, Security!CreatePasskey, Security!BrowserCloses, Security!ContinueToDashboard,
         Security!TypeCode, Security!server, Security!account
<1>3. CASE Security!AddKey(s)
  <2>1. secHeld \subseteq secHeld' /\ UNCHANGED <<scr, secCalls>>
    BY <1>3 DEF Security!AddKey
  <2> QED
    BY <1>2, <2>1 DEF SecurityInv, SecureCall, SecureScreen, HandlesInv
<1>4. ASSUME ~Security!AddKey(s) PROVE UNCHANGED secHeld
  BY <1>4 DEF Security!Open, Security!RestartSetup, Security!Confirm, Security!Finish, Security!SignOut,
     Security!CreatePasskey, Security!BrowserCloses, Security!ContinueToDashboard, Security!TypeCode
<1>5. ASSUME ~Security!AddKey(s)
      PROVE  secCalls' = [d \in Calls |-> secCalls'[d]]
             /\ \A d \in Calls : SecureCall(secCalls'[d], handle', secHeld')
  <2>1. CASE Security!Open(s)
    BY <1>2, <1>4, <1>5, <2>1, SecureSends DEF Security!Open
  <2>2. CASE Security!RestartSetup(s)
    BY <1>2, <1>4, <1>5, <2>2, SecureSends DEF Security!RestartSetup
  <2>3. CASE Security!Confirm(s)
    <3>1. scr[s].code \in secHeld
      BY <1>1, <2>3 DEF Security!Confirm, SecureScreen
    <3> QED
      BY <1>2, <1>4, <1>5, <2>3, <3>1, SecureSends DEF Security!Confirm
  <2>4. CASE Security!CreatePasskey(s)
    BY <1>2, <1>4, <1>5, <2>4, SecureSends DEF Security!CreatePasskey
  <2>5. CASE ~(Security!Open(s) \/ Security!RestartSetup(s) \/ Security!Confirm(s) \/ Security!CreatePasskey(s))
    <3>1. UNCHANGED secCalls
      BY <1>5, <2>5 DEF Security!Finish, Security!SignOut, Security!BrowserCloses, Security!ContinueToDashboard,
         Security!TypeCode
    <3> QED
      BY <1>2, <1>4, <1>5, <3>1 DEF SecurityInv
  <2> QED
    BY <2>1, <2>2, <2>3, <2>4, <2>5
<1>6. ASSUME ~Security!AddKey(s)
      PROVE  scr' = [t \in Phones |-> scr'[t]] /\ \A t \in Phones : SecureScreen(scr'[t], secHeld)
  <2>1. CASE Security!Open(s)
    <3>1. PICK v : v = [w EXCEPT !.page = "mfa"]
      OBVIOUS
    <3>2. SecureScreen(v, secHeld)
      BY <1>1, <2>1, <3>1 DEF SecureScreen
    <3>3. scr' = [scr EXCEPT ![s] = v]
      BY <1>1, <2>1, <3>1 DEF Security!Open
    <3> QED
      BY <3>2, <3>3, SecureShows
  <2>2. CASE Security!RestartSetup(s) \/ Security!Confirm(s) \/ Security!CreatePasskey(s)
    <3>1. PICK v : v = [w EXCEPT !.loading = TRUE]
      OBVIOUS
    <3>2. SecureScreen(v, secHeld)
      BY <1>1, <2>2, <3>1 DEF SecureScreen
    <3>3. scr' = [scr EXCEPT ![s] = v]
      BY <1>1, <2>2, <3>1 DEF Security!RestartSetup, Security!Confirm, Security!CreatePasskey
    <3> QED
      BY <3>2, <3>3, SecureShows
  <2>3. CASE Security!Finish(s)
    <3>1. PICK p : scr' = [scr EXCEPT ![s].page = p, ![s].code = None, ![s].loading = FALSE]
      BY <2>3 DEF Security!Finish
    <3>2. PICK v : v = [w EXCEPT !.page = p, !.code = None, !.loading = FALSE]
      OBVIOUS
    <3>3. SecureScreen(v, secHeld)
      BY <1>1, <3>1, <3>2 DEF SecureScreen
    <3>4. scr' = [scr EXCEPT ![s] = v]
      BY <1>1, <3>1, <3>2
    <3> QED
      BY <3>3, <3>4, SecureShows
  <2>4. CASE Security!SignOut(s) \/ Security!ContinueToDashboard(s)
    <3>1. PICK p : scr' = [scr EXCEPT ![s].page = p]
      BY <2>4 DEF Security!SignOut, Security!ContinueToDashboard
    <3>2. PICK v : v = [w EXCEPT !.page = p]
      OBVIOUS
    <3>3. SecureScreen(v, secHeld)
      BY <1>1, <3>1, <3>2 DEF SecureScreen
    <3>4. scr' = [scr EXCEPT ![s] = v]
      BY <1>1, <3>1, <3>2
    <3> QED
      BY <3>3, <3>4, SecureShows
  <2>5. CASE Security!BrowserCloses(s)
    <3>1. PICK b : b = (w.registered \/ tabs[w.session] = "done")
      OBVIOUS
    <3>2. scr' = [scr EXCEPT ![s].session = None, ![s].loading = FALSE, ![s].registered = b]
      BY <1>1, <2>5, <3>1 DEF Security!BrowserCloses
    <3>3. PICK v : v = [w EXCEPT !.session = None, !.loading = FALSE, !.registered = b]
      OBVIOUS
    <3>4. SecureScreen(v, secHeld)
      BY <1>1, <3>2, <3>3 DEF SecureScreen
    <3>5. scr' = [scr EXCEPT ![s] = v]
      BY <1>1, <3>2, <3>3
    <3> QED
      BY <3>4, <3>5, SecureShows
  <2>6. ASSUME NEW k \in secHeld, Security!TypeCode(s, k)
        PROVE  scr' = [t \in Phones |-> scr'[t]] /\ \A t \in Phones : SecureScreen(scr'[t], secHeld)
    <3>1. PICK v : v = [w EXCEPT !.code = k]
      OBVIOUS
    <3>2. SecureScreen(v, secHeld)
      BY <1>1, <2>6, <3>1 DEF SecureScreen
    <3>3. scr' = [scr EXCEPT ![s] = v]
      BY <1>1, <2>6, <3>1 DEF Security!TypeCode
    <3> QED
      BY <3>2, <3>3, SecureShows
  <2> QED
    BY <1>6, <2>1, <2>2, <2>3, <2>4, <2>5, <2>6
<1> QED
  BY <1>2, <1>3, <1>4, <1>5, <1>6 DEF SecurityInv, HandlesInv

\* An answer clears a code at most.
LEMMA SecureAnswers ==
  ASSUME SecurityInv, NEW c \in Calls, NEW ok \in BOOLEAN, Security!ScreenAnswer(c, ok)
  PROVE  scr' = [t \in Phones |-> scr'[t]] /\ \A t \in Phones : SecureScreen(scr'[t], secHeld)
<1>1. PICK j : j = secCalls[c]
  OBVIOUS
<1>2. PICK w : w = scr[j.by]
  OBVIOUS
<1>3. j.by \in Phones => SecureScreen(w, secHeld)
  BY <1>2 DEF SecurityInv
<1>4. CASE scr' = [scr EXCEPT ![j.by].loading = FALSE,
                     ![j.by].key = IF ok /\ j.does # "confirm" THEN j.code ELSE @,
                     ![j.by].code = IF ok /\ j.does = "restart" THEN None ELSE @,
                     ![j.by].codes = IF ok /\ j.does = "confirm" THEN j.n ELSE @]
  <2>1. PICK v : v = [w EXCEPT !.loading = FALSE,
                        !.key = IF ok /\ j.does # "confirm" THEN j.code ELSE w.key,
                        !.code = IF ok /\ j.does = "restart" THEN None ELSE w.code,
                        !.codes = IF ok /\ j.does = "confirm" THEN j.n ELSE w.codes]
    OBVIOUS
  <2>2. j.by \in Phones => scr' = [scr EXCEPT ![j.by] = v]
    BY <1>2, <1>3, <1>4, <2>1 DEF SecurityInv, SecureScreen
  <2>3. j.by \in Phones => SecureScreen(v, secHeld)
    BY <1>3, <2>1 DEF SecureScreen
  <2>4. j.by \notin Phones => scr' = scr
    BY <1>4 DEF SecurityInv
  <2> QED
    BY <2>2, <2>3, <2>4, SecureShows DEF SecurityInv
<1>5. CASE scr' = [scr EXCEPT ![j.by].loading = ok, ![j.by].code = IF ok THEN None ELSE @,
                              ![j.by].session = IF ok THEN j.q ELSE None]
  <2>1. PICK v : v = [w EXCEPT !.loading = ok, !.code = IF ok THEN None ELSE w.code,
                               !.session = IF ok THEN j.q ELSE None]
    OBVIOUS
  <2>2. j.by \in Phones => scr' = [scr EXCEPT ![j.by] = v]
    BY <1>2, <1>3, <1>5, <2>1 DEF SecurityInv, SecureScreen
  <2>3. j.by \in Phones => SecureScreen(v, secHeld)
    BY <1>3, <2>1 DEF SecureScreen
  <2>4. j.by \notin Phones => scr' = scr
    BY <1>5 DEF SecurityInv
  <2> QED
    BY <2>2, <2>3, <2>4, SecureShows DEF SecurityInv
<1>6. CASE scr' = scr
  BY <1>6 DEF SecurityInv
<1> QED
  BY <1>1, <1>2, <1>4, <1>5, <1>6 DEF Security!ScreenAnswer

\* Every step keeps the invariant.
LEMMA SecuritySteady == ASSUME KeysAssumption, SecurityInv, [Security!Next]_(Security!vars) PROVE SecurityInv'
<1>1. CASE Security!ExpirePending
  BY <1>1 DEF Security!ExpirePending, Security!Elsewhere, SecurityInv, HandlesInv
<1>2. ASSUME NEW s \in Phones,
             \/ Security!Open(s) \/ Security!RestartSetup(s) \/ Security!AddKey(s) \/ Security!Confirm(s)
                \/ Security!Finish(s) \/ Security!SignOut(s)
             \/ Security!CreatePasskey(s) \/ Security!BrowserCloses(s) \/ Security!ContinueToDashboard(s)
             \/ \E k \in secHeld : Security!TypeCode(s, k)
      PROVE  SecurityInv'
  BY <1>2, SecureScreens
<1>3. ASSUME NEW q \in Requests, Security!AskOptions(q) \/ Security!CreateBrowserPasskey(q) PROVE SecurityInv'
  <2>1. UNCHANGED <<enabled, secret, passkeys, challenges, handle, secHeld, scr>>
    BY <1>3 DEF Security!AskOptions, Security!CreateBrowserPasskey, Security!server, Security!account
  <2>2. secCalls' = [d \in Calls |-> secCalls'[d]] /\ \A d \in Calls : SecureCall(secCalls'[d], handle', secHeld')
    <3>1. CASE UNCHANGED secCalls
      BY <2>1, <3>1 DEF SecurityInv
    <3>2. CASE Security!Sends(None, "options", None, q) \/ Security!Sends(None, "verify", None, q)
      BY <2>1, <3>2, SecureSends
    <3> QED
      BY <1>3, <3>1, <3>2 DEF Security!AskOptions, Security!CreateBrowserPasskey
  <2> QED
    BY <2>1, <2>2 DEF SecurityInv, HandlesInv
<1>4. ASSUME NEW q \in Requests, Security!ExpireRequest(q) PROVE SecurityInv'
  BY <1>4 DEF Security!ExpireRequest, Security!Elsewhere, Security!account, SecurityInv, HandlesInv
<1>5. ASSUME NEW c \in Calls, NEW ok \in {TRUE, FALSE}, Security!Answered(c, ok) PROVE SecurityInv'
  <2>1. UNCHANGED <<enabled, secret, passkeys, challenges, handle, secHeld>> /\ Security!ScreenAnswer(c, ok)
    BY <1>5 DEF Security!Answered, Security!server, Security!account
  <2>2. PICK j : j = secCalls[c] /\ SecureCall(j, handle, secHeld)
    BY DEF SecurityInv
  <2>3. PICK k : secCalls' = [secCalls EXCEPT ![c] = k] /\ k \in {Security!Free, [j EXCEPT !.heard = FALSE]}
    BY <1>5, <2>2 DEF Security!Answered
  <2>4. SecureCall(k, handle', secHeld')
    <3>1. CASE k = Security!Free
      BY <3>1 DEF SecureCall, CarriesHandle, Security!Free
    <3>2. CASE k = [j EXCEPT !.heard = FALSE]
      BY <2>1, <2>2, <3>2 DEF SecureCall, CarriesHandle
    <3> QED
      BY <2>3, <3>1, <3>2
  <2>5. secCalls' = [d \in Calls |-> secCalls'[d]] /\ \A d \in Calls : SecureCall(secCalls'[d], handle', secHeld')
    BY <2>1, <2>3, <2>4, SecureMoves
  <2> QED
    BY <2>1, <2>5, SecureAnswers DEF SecurityInv, HandlesInv
<1>6. ASSUME NEW c \in Calls, Security!Ended(c) PROVE SecurityInv'
  <2>1. SecureCall(Security!Free, handle, secHeld)
    BY DEF SecureCall, CarriesHandle, Security!Free
  <2>2. UNCHANGED <<enabled, secret, passkeys, challenges, handle, secHeld, scr>>
    BY <1>6 DEF Security!Ended, Security!server, Security!account
  <2>3. secCalls' = [d \in Calls |-> secCalls'[d]] /\ \A d \in Calls : SecureCall(secCalls'[d], handle', secHeld')
    BY <1>6, <2>1, <2>2, SecureMoves DEF Security!Ended
  <2> QED
    BY <2>2, <2>3 DEF SecurityInv, HandlesInv
<1>7. ASSUME NEW c \in Calls,
             Security!Dies(c) \/ Security!StartRead(c) \/ Security!ConfirmRead(c) \/ Security!RevokeOthers(c)
             \/ Security!EndBootstrap(c)
                              \/ Security!TakeRequest(c)
      PROVE  SecurityInv'
  <2>1. UNCHANGED <<enabled, secret, passkeys, challenges, handle, secHeld, scr>>
    BY <1>7 DEF Security!Dies, Security!StartRead, Security!ConfirmRead, Security!RevokeOthers,
       Security!EndBootstrap, Security!TakeRequest, Security!server, Security!account, Security!Elsewhere
  <2>2. PICK pc \in {"failed", "read", "verified", "revoked", "ok", "taken"} :
          Security!To(c, pc) /\ (pc = "taken" => secCalls[c].pc = "consumed")
    BY <1>7 DEF Security!Dies, Security!StartRead, Security!ConfirmRead, Security!RevokeOthers,
       Security!EndBootstrap, Security!TakeRequest, Security!At
  <2>3. secCalls' = [d \in Calls |-> secCalls'[d]] /\ \A d \in Calls : SecureCall(secCalls'[d], handle', secHeld')
    BY <2>1, <2>2, SecureTo
  <2> QED
    BY <2>1, <2>3 DEF SecurityInv, HandlesInv
<1>8. ASSUME NEW c \in Calls, Security!StartTotpEnrollment(c) PROVE SecurityInv'
  <2>1. UNCHANGED <<enabled, secret, passkeys, challenges, handle, secHeld, scr>>
    BY <1>8 DEF Security!StartTotpEnrollment, Security!Elsewhere
  <2>2. PICK j : j = secCalls[c] /\ SecureCall(j, handle, secHeld) /\ j.does # "confirm"
    BY <1>8 DEF SecurityInv, Security!StartTotpEnrollment, Security!At
  <2>3. PICK s : secCalls' = [secCalls EXCEPT ![c] = [j EXCEPT !.code = s, !.pc = "ok"]]
    BY <1>8, <2>2 DEF Security!StartTotpEnrollment
  <2>4. PICK k : k = [j EXCEPT !.code = s, !.pc = "ok"]
    OBVIOUS
  <2>5. SecureCall(k, handle', secHeld')
    BY <2>2, <2>4 DEF SecureCall, CarriesHandle
  <2>6. secCalls' = [d \in Calls |-> secCalls'[d]] /\ \A d \in Calls : SecureCall(secCalls'[d], handle', secHeld')
    BY <2>1, <2>3, <2>4, <2>5, SecureMoves
  <2> QED
    BY <2>1, <2>6 DEF SecurityInv, HandlesInv
<1>9. ASSUME NEW c \in Calls, Security!ConfirmTotpEnrollment(c) PROVE SecurityInv'
  <2>1. UNCHANGED <<passkeys, challenges, handle, secHeld, scr>> /\ secret' = secCalls[c].code
        /\ secCalls[c].does = "confirm"
    BY <1>9 DEF Security!ConfirmTotpEnrollment, Security!KeyVerified, Security!At, Security!Elsewhere
  <2>2. secret' \in secHeld
    BY <2>1 DEF SecurityInv, SecureCall
  <2>3. secCalls' = [d \in Calls |-> secCalls'[d]] /\ \A d \in Calls : SecureCall(secCalls'[d], handle', secHeld')
    BY <1>9, <2>1, SecureTo DEF Security!ConfirmTotpEnrollment
  <2> QED
    BY <2>1, <2>2, <2>3 DEF SecurityInv, HandlesInv
<1>10. ASSUME NEW c \in Calls, Security!RegisterStart(c) PROVE SecurityInv'
  <2>1. UNCHANGED <<enabled, secret, passkeys, challenges, handle, secHeld, scr>>
    BY <1>10 DEF Security!RegisterStart, Security!Elsewhere, Security!account
  <2>2. PICK j : j = secCalls[c] /\ SecureCall(j, handle, secHeld) /\ j.does = "register"
    BY <1>10 DEF SecurityInv, Security!RegisterStart, Security!At
  <2>3. CASE Security!To(c, "failed")
    <3>1. secCalls' = [d \in Calls |-> secCalls'[d]] /\ \A d \in Calls : SecureCall(secCalls'[d], handle', secHeld')
      BY <2>1, <2>3, SecureTo
    <3> QED
      BY <2>1, <3>1 DEF SecurityInv, HandlesInv
  <2>4. ASSUME NEW q \in Requests, secCalls' = [secCalls EXCEPT ![c].q = q, ![c].pc = "ok"] PROVE SecurityInv'
    <3>1. PICK k : k = [j EXCEPT !.q = q, !.pc = "ok"]
      OBVIOUS
    <3>2. SecureCall(k, handle', secHeld')
      BY <2>1, <2>2, <3>1 DEF SecureCall, CarriesHandle
    <3>3. secCalls' = [d \in Calls |-> secCalls'[d]] /\ \A d \in Calls : SecureCall(secCalls'[d], handle', secHeld')
      BY <2>1, <2>2, <2>4, <3>1, <3>2, SecureMoves
    <3> QED
      BY <2>1, <3>3 DEF SecurityInv, HandlesInv
  <2> QED
    BY <1>10, <2>3, <2>4 DEF Security!RegisterStart
<1>11. ASSUME NEW c \in Calls, Security!OptionsRead(c) PROVE SecurityInv'
  <2>1. UNCHANGED <<enabled, secret, passkeys, challenges, handle, secHeld, scr>>
    BY <1>11 DEF Security!OptionsRead, Security!Elsewhere, Security!account
  <2>2. PICK j : j = secCalls[c] /\ SecureCall(j, handle, secHeld) /\ j.does = "options"
    BY <1>11 DEF SecurityInv, Security!OptionsRead, Security!At
  <2>3. CASE Security!To(c, "failed")
    <3>1. secCalls' = [d \in Calls |-> secCalls'[d]] /\ \A d \in Calls : SecureCall(secCalls'[d], handle', secHeld')
      BY <2>1, <2>3, SecureTo
    <3> QED
      BY <2>1, <3>1 DEF SecurityInv, HandlesInv
  <2>4. ASSUME NEW h, NEW pc, secCalls' = [secCalls EXCEPT ![c].handle = h, ![c].pc = pc],
               \/ h = handle /\ handle # None /\ pc = "options"
               \/ h \in Handles /\ pc = "claim"
        PROVE  SecurityInv'
    <3>1. PICK k : k = [j EXCEPT !.handle = h, !.pc = pc]
      OBVIOUS
    <3>2. SecureCall(k, handle', secHeld')
      BY <2>1, <2>2, <2>4, <3>1 DEF SecureCall, CarriesHandle, KeysAssumption
    <3>3. secCalls' = [d \in Calls |-> secCalls'[d]] /\ \A d \in Calls : SecureCall(secCalls'[d], handle', secHeld')
      BY <2>1, <2>2, <2>4, <3>1, <3>2, SecureMoves
    <3> QED
      BY <2>1, <3>3 DEF SecurityInv, HandlesInv
  <2> QED
    BY <1>11, <2>3, <2>4 DEF Security!OptionsRead
<1>12. ASSUME NEW c \in Calls, Security!ClaimHandle(c) PROVE SecurityInv'
  <2>1. /\ UNCHANGED <<enabled, secret, passkeys, challenges, secHeld, scr>>
        /\ handle' = IF handle = None THEN secCalls[c].handle ELSE handle
    BY <1>12 DEF Security!ClaimHandle, Security!NoHandleYet, Security!Elsewhere
  <2>2. PICK j : j = secCalls[c] /\ SecureCall(j, handle, secHeld) /\ j.does = "options" /\ j.pc = "claim"
    BY <1>12 DEF SecurityInv, Security!ClaimHandle, Security!At
  <2>3. secCalls' = [secCalls EXCEPT ![c] = [j EXCEPT !.handle = handle', !.pc = "options"]]
    BY <1>12, <2>2 DEF Security!ClaimHandle
  <2>4. PICK k : k = [j EXCEPT !.handle = handle', !.pc = "options"]
    OBVIOUS
  <2>5. SecureCall(k, handle', secHeld') /\ handle' # None
    BY <2>1, <2>2, <2>4 DEF SecureCall, CarriesHandle
  <2>6. secCalls' = [d \in Calls |-> secCalls'[d]] /\ \A d \in Calls : SecureCall(secCalls'[d], handle', secHeld')
    BY <2>1, <2>3, <2>4, <2>5, SecureMoves
  <2>7. HandlesInv'
    BY <2>1 DEF SecurityInv, HandlesInv
  <2> QED
    BY <2>1, <2>6, <2>7 DEF SecurityInv
<1>13. ASSUME NEW c \in Calls, Security!StoreChallenge(c) PROVE SecurityInv'
  <2>1. /\ UNCHANGED <<enabled, secret, passkeys, handle, secHeld, scr>> /\ secCalls[c].handle = handle
        /\ challenges' = [challenges EXCEPT ![secCalls[c].q] = secCalls[c].handle]
    BY <1>13 DEF Security!StoreChallenge, Security!Elsewhere, Security!account, Security!At, SecurityInv,
       SecureCall, CarriesHandle
  <2>2. secCalls' = [d \in Calls |-> secCalls'[d]] /\ \A d \in Calls : SecureCall(secCalls'[d], handle', secHeld')
    BY <1>13, <2>1, SecureTo DEF Security!StoreChallenge
  <2>3. HandlesInv'
    BY <2>1 DEF SecurityInv, HandlesInv
  <2> QED
    BY <2>1, <2>2, <2>3 DEF SecurityInv
<1>14. ASSUME NEW c \in Calls, Security!ConsumeChallenge(c) PROVE SecurityInv'
  <2>1. UNCHANGED <<enabled, secret, passkeys, handle, secHeld, scr>>
    BY <1>14 DEF Security!ConsumeChallenge, Security!Elsewhere, Security!account
  <2>2. PICK j : j = secCalls[c] /\ SecureCall(j, handle, secHeld) /\ j.does = "verify"
    BY <1>14 DEF SecurityInv, Security!ConsumeChallenge, Security!At
  <2>3. CASE Security!To(c, "failed") /\ UNCHANGED challenges
    <3>1. secCalls' = [d \in Calls |-> secCalls'[d]] /\ \A d \in Calls : SecureCall(secCalls'[d], handle', secHeld')
      BY <2>1, <2>3, SecureTo
    <3> QED
      BY <2>1, <2>3, <3>1 DEF SecurityInv, HandlesInv
  <2>4. CASE /\ reqs[j.q] = "open" /\ challenges[j.q] # None
             /\ challenges' = [challenges EXCEPT ![j.q] = None]
             /\ secCalls' = [secCalls EXCEPT ![c].handle = challenges[j.q], ![c].pc = "consumed"]
    <3>1. PICK k : k = [j EXCEPT !.handle = challenges[j.q], !.pc = "consumed"]
      OBVIOUS
    <3>2. j.q \in Requests
      BY <2>2 DEF SecureCall
    <3>3. SecureCall(k, handle', secHeld')
      BY <2>1, <2>2, <2>4, <3>2, <3>1 DEF SecureCall, CarriesHandle, SecurityInv, HandlesInv
    <3>4. secCalls' = [d \in Calls |-> secCalls'[d]] /\ \A d \in Calls : SecureCall(secCalls'[d], handle', secHeld')
      BY <2>1, <2>2, <2>4, <3>1, <3>3, SecureMoves
    <3>5. HandlesInv'
      BY <2>1, <2>4 DEF SecurityInv, HandlesInv
    <3> QED
      BY <2>1, <3>4, <3>5 DEF SecurityInv
  <2> QED
    BY <1>14, <2>2, <2>3, <2>4 DEF Security!ConsumeChallenge
<1>15. ASSUME NEW c \in Calls, Security!VerifyRegistration(c) PROVE SecurityInv'
  <2>1. /\ UNCHANGED <<enabled, secret, challenges, handle, secHeld, scr>>
        /\ passkeys' = passkeys \cup {[of |-> secCalls[c].q, handle |-> handle]} /\ handle # None
    BY <1>15 DEF Security!VerifyRegistration, Security!Elsewhere, Security!At, SecurityInv, SecureCall,
       CarriesHandle
  <2>2. secCalls' = [d \in Calls |-> secCalls'[d]] /\ \A d \in Calls : SecureCall(secCalls'[d], handle', secHeld')
    BY <1>15, <2>1, SecureTo DEF Security!VerifyRegistration
  <2>3. HandlesInv'
    BY <2>1 DEF SecurityInv, HandlesInv
  <2> QED
    BY <2>1, <2>2, <2>3 DEF SecurityInv
<1>16. CASE UNCHANGED Security!vars
  BY <1>16 DEF Security!vars, Security!server, Security!account, SecurityInv, HandlesInv
<1> QED
  BY <1>1, <1>2, <1>3, <1>4, <1>5, <1>6, <1>7, <1>8, <1>9, <1>10, <1>11, <1>12, <1>13, <1>14, <1>15,
     <1>16 DEF Security!Next

\* So the account is secured with what the person holds.
LEMMA SecuredAsHeld == SecurityInv => Security!SecuredWithWhatIsHeld
  BY DEF SecurityInv, HandlesInv, Security!SecuredWithWhatIsHeld

-----------------------------------------------------------------------------
(* Workforce, following a leave, a visit or a day: a request about to      *)
(* write has seen no decision, and the times that were read are in order.  *)

Fits(act, t) ==
  /\ act \in Work!Acts /\ (t = "day" <=> act \in {"in", "out"})
  /\ act \in {"start", "complete"} => t = "visit"

WorkCall(k, t) ==
  /\ k = [pc |-> k.pc, role |-> k.role, act |-> k.act, seen |-> k.seen, at |-> k.at, waits |-> k.waits]
  /\ k.pc # "idle" => Fits(k.act, t)
  /\ k.pc = "write" => \/ k.act \in {"submit", "in", "out"}
                       \/ k.seen \notin {"REJECTED", "COMPLETED"} /\ (k.seen = "APPROVED" => k.act = "start")

Punching(c, act) == workCall[c].pc = "write" /\ workCall[c].act = act

\* Who found no record took the time before who found one.
DayInv ==
  /\ workIn \in Nat /\ workOut \in Nat /\ workClock \in Nat /\ workIn <= workClock /\ workOut <= workClock
  /\ \A c \in Calls : Punching(c, "in") =>
       workCall[c].at \in Nat /\ workCall[c].at <= workClock /\ (workOut # 0 => workCall[c].at <= workOut)
  /\ \A c \in Calls : Punching(c, "out") =>
       workCall[c].at \in Nat /\ workCall[c].at <= workClock /\ workIn <= workCall[c].at /\ workDoc # "NONE"
  /\ \A c, d \in Calls : Punching(c, "in") /\ Punching(d, "out") => workCall[c].at <= workCall[d].at
  /\ workDoc = "NONE" => workIn = 0 /\ workOut = 0
  /\ workOut # 0 => workIn <= workOut

WorkInv ==
  /\ workCall = [c \in Calls |-> workCall[c]] /\ \A c \in Calls : WorkCall(workCall[c], workTopic)
  /\ workView = [r \in Work!Roles |-> workView[r]]
  /\ workTopic = "day" => workDoc \in {"NONE", "IN", "OUT"} /\ workView["owner"] \in {"LOADING", "NONE"} /\ DayInv
  /\ workTopic # "day" => workIn = 0

LEMMA WorkStarts == Work!Init => WorkInv
<1> SUFFICES ASSUME Work!Init PROVE WorkInv
  OBVIOUS
<1>1. workCall = [c \in Calls |-> workCall[c]] /\ \A c \in Calls : workCall[c] = Work!Idle
  BY DEF Work!Init
<1>2. WorkCall(Work!Idle, workTopic) /\ Work!Idle.pc = "idle"
  BY DEF WorkCall, Work!Idle
<1>3. DayInv
  BY <1>1, <1>2 DEF Work!Init, DayInv, Punching
<1> QED
  BY <1>1, <1>2, <1>3 DEF Work!Init, WorkInv, Work!Roles

\* A request that goes on forgets what it had read.
LEMMA WorkGoesOn ==
  ASSUME NEW c \in Calls, NEW pc, WorkCall(workCall[c], workTopic), workCall[c].pc # "idle",
         workCall = [d \in Calls |-> workCall[d]], Work!Goto(c, pc), pc # "write"
  PROVE  \E k : workCall' = [workCall EXCEPT ![c] = k] /\ k.pc = pc /\ WorkCall(k, workTopic)
<1>1. PICK j : j = workCall[c]
  OBVIOUS
<1>2. PICK k : k = [j EXCEPT !.pc = pc, !.seen = "NONE", !.at = 0]
  OBVIOUS
<1>3. WorkCall(k, workTopic) /\ k.pc = pc
  BY <1>1, <1>2 DEF WorkCall
<1>4. workCall' = [workCall EXCEPT ![c] = k]
  BY <1>1, <1>2 DEF Work!Goto
<1> QED
  BY <1>3, <1>4

\* One request that is not about to write, or as it was about to.
KeepsTimes(c, k) ==
  k.pc = "write" => workCall[c].pc = "write" /\ k.act = workCall[c].act /\ k.at = workCall[c].at

LEMMA OtherCallsStay ==
  ASSUME WorkInv, NEW c \in Calls, NEW k, workCall' = [workCall EXCEPT ![c] = k], WorkCall(k, workTopic),
         KeepsTimes(c, k),
         UNCHANGED workTopic
  PROVE  /\ workCall' = [d \in Calls |-> workCall'[d]] /\ \A d \in Calls : WorkCall(workCall'[d], workTopic')
         /\ \A d \in Calls : \A act : Punching(d, act)' => Punching(d, act) /\ workCall'[d].at = workCall[d].at
<1>1. \A d \in Calls : workCall'[d] = IF d = c THEN k ELSE workCall[d]
  BY DEF WorkInv
<1> QED
  BY <1>1 DEF WorkInv, Punching, KeepsTimes

\* What the day and the document are does not change.
LEMMA ElsewhereAtWork ==
  ASSUME WorkInv, NEW c \in Calls, NEW k, workCall' = [workCall EXCEPT ![c] = k], WorkCall(k, workTopic),
         KeepsTimes(c, k),
         UNCHANGED <<workTopic, workDoc, workIn, workOut, workClock>>,
         workView' = [r \in Work!Roles |-> workView'[r]],
         workView'["owner"] \in {workView["owner"], Work!Listed("owner")}
  PROVE  WorkInv'
<1>1. /\ workCall' = [d \in Calls |-> workCall'[d]] /\ \A d \in Calls : WorkCall(workCall'[d], workTopic')
      /\ \A d \in Calls : \A act : Punching(d, act)' => Punching(d, act) /\ workCall'[d].at = workCall[d].at
  BY OtherCallsStay
<1>2. workTopic = "day" => workView'["owner"] \in {"LOADING", "NONE"}
  BY DEF WorkInv, Work!Listed
<1>3. workTopic = "day" => DayInv'
  BY <1>1 DEF WorkInv, DayInv
<1> QED
  BY <1>1, <1>2, <1>3 DEF WorkInv

\* Every step keeps the invariant.
LEMMA WorkSteady == ASSUME WorkInv, [Work!Next]_(Work!vars) PROVE WorkInv'
<1>1. CASE Work!QuickAction
  <2>1. UNCHANGED <<workTopic, workDoc, workIn, workOut, workClock, workView, workCall>>
    BY <1>1 DEF Work!QuickAction, Work!day
  <2>2. DayInv => DayInv'
    BY <2>1 DEF DayInv, Punching
  <2> QED
    BY <2>1, <2>2 DEF WorkInv
<1>2. CASE Work!Tick
  <2>1. UNCHANGED <<workTopic, workDoc, workIn, workOut, workView, workCall>> /\ workClock' = workClock + 1
    BY <1>2 DEF Work!Tick, Work!screens
  <2>2. DayInv => DayInv'
    BY <2>1 DEF DayInv, Punching
  <2> QED
    BY <2>1, <2>2 DEF WorkInv
<1>3. ASSUME NEW r \in Work!Roles, Work!Open(r) PROVE WorkInv'
  <2>1. UNCHANGED <<workTopic, workDoc, workIn, workOut, workClock, workCall>> /\ workView' =
            [workView EXCEPT ![r] = Work!Listed(r)]
    BY <1>3 DEF Work!Open, Work!day
  <2>2. DayInv => DayInv'
    BY <2>1 DEF DayInv, Punching
  <2>3. workTopic = "day" => workView'["owner"] \in {"LOADING", "NONE"}
    BY <2>1 DEF WorkInv, Work!Listed, Work!Roles
  <2>4. workView' = [q \in Work!Roles |-> workView'[q]]
    BY <2>1 DEF WorkInv
  <2> QED
    BY <2>1, <2>2, <2>3, <2>4 DEF WorkInv
<1>4. ASSUME NEW r \in Work!Roles, NEW act \in Work!Acts, Work!Press(r, act) PROVE WorkInv'
  <2>1. PICK c \in Calls :
          workCall' = [workCall EXCEPT ![c] = [Work!Idle EXCEPT !.role = r, !.act = act, !.waits = TRUE,
                                         !.pc = IF act \in Work!Located THEN "locating" ELSE "sent"]]
    BY <1>4 DEF Work!Press
  <2>2. Fits(act, workTopic)
    BY <1>4 DEF Work!Press, Work!Offered, Work!AttendanceCard, Work!MyActivity, Work!Forms,
       Work!ExpenseVerification, Work!ApprovalSection, Work!Roles,
                WorkInv, Fits
  <2>3. PICK k : k = [Work!Idle EXCEPT !.role = r, !.act = act, !.waits = TRUE,
                                       !.pc = IF act \in Work!Located THEN "locating" ELSE "sent"]
    OBVIOUS
  <2>4. WorkCall(k, workTopic) /\ KeepsTimes(c, k)
    BY <2>2, <2>3 DEF WorkCall, KeepsTimes, Work!Idle
  <2>5. UNCHANGED <<workTopic, workDoc, workIn, workOut, workClock, workView>>
    BY <1>4 DEF Work!Press, Work!day
  <2> QED
    BY <2>1, <2>3, <2>4, <2>5, ElsewhereAtWork DEF WorkInv
<1>5. CASE Work!Crash
  <2>1. UNCHANGED <<workTopic, workDoc, workIn, workOut, workClock, workView>>
    BY <1>5 DEF Work!Crash, Work!day, Work!screens
  <2>2. ASSUME NEW c \in Calls
        PROVE  WorkCall(workCall'[c], workTopic) /\ workCall'[c].pc # "write"
    <3>1. PICK j : j = workCall[c] /\ WorkCall(j, workTopic)
      BY DEF WorkInv
    <3>2. CASE j.pc \in Work!Serving \ {"ok", "failed"}
      <4>1. workCall'[c] = [j EXCEPT !.pc = "failed", !.seen = "NONE", !.at = 0]
        BY <1>5, <3>1, <3>2 DEF Work!Crash
      <4>2. j.pc # "idle"
        BY <3>2 DEF Work!Serving
      <4> QED
        BY <3>1, <4>1, <4>2 DEF WorkCall
    <3>3. CASE j.pc \notin Work!Serving \ {"ok", "failed"}
      <4>1. workCall'[c] = j
        BY <1>5, <3>1, <3>3 DEF Work!Crash
      <4> QED
        BY <3>1, <3>3, <4>1 DEF Work!Serving
    <3> QED
      BY <3>2, <3>3
  <2>3. workCall' = [c \in Calls |-> workCall'[c]]
    BY <1>5 DEF Work!Crash
  <2>4. workTopic = "day" => DayInv'
    BY <2>1, <2>2 DEF WorkInv, DayInv, Punching
  <2> QED
    BY <2>1, <2>2, <2>3, <2>4 DEF WorkInv
<1>6. ASSUME NEW c \in Calls, Work!LocationEvidence(c) \/ Work!Answered(c) \/ Work!Load(c) PROVE WorkInv'
  <2>1. UNCHANGED <<workTopic, workDoc, workIn, workOut, workClock>> /\ workCall[c].pc # "idle"
    BY <1>6 DEF Work!LocationEvidence, Work!Answered, Work!Load, Work!day, Work!At
  <2>2. workView' = [r \in Work!Roles |-> workView'[r]]
        /\ workView'["owner"] \in {workView["owner"], Work!Listed("owner")}
    <3>1. CASE UNCHANGED workView
      BY <3>1 DEF WorkInv
    <3>2. CASE workView' = [workView EXCEPT ![workCall[c].role] = Work!Listed(workCall[c].role)]
      <4>1. workView' = [r \in Work!Roles |-> workView'[r]]
        BY <3>2 DEF WorkInv
      <4>2. workCall[c].role = "owner" => workView'["owner"] = Work!Listed("owner")
        BY <3>2 DEF WorkInv, Work!Roles
      <4>3. workCall[c].role # "owner" => workView'["owner"] = workView["owner"]
        BY <3>2 DEF WorkInv, Work!Roles
      <4> QED
        BY <4>1, <4>2, <4>3
    <3> QED
      BY <1>6, <3>1, <3>2 DEF Work!LocationEvidence, Work!Answered, Work!Load
  <2>3. CASE Work!End(c)
    <3>1. WorkCall(Work!Idle, workTopic) /\ KeepsTimes(c, Work!Idle)
      BY DEF WorkCall, KeepsTimes, Work!Idle
    <3> QED
      BY <2>1, <2>2, <2>3, <3>1, ElsewhereAtWork DEF Work!End
  <2>4. ASSUME NEW pc \in {"sent", "load"}, Work!Goto(c, pc) PROVE WorkInv'
    <3>1. PICK k : workCall' = [workCall EXCEPT ![c] = k] /\ k.pc = pc /\ WorkCall(k, workTopic)
      BY <2>1, <2>4, WorkGoesOn DEF WorkInv
    <3> QED
      BY <2>1, <2>2, <2>4, <3>1, ElsewhereAtWork DEF KeepsTimes
  <2> QED
    BY <1>6, <2>3, <2>4 DEF Work!LocationEvidence, Work!Answered, Work!Load
<1>7. ASSUME NEW c \in Calls, Work!GiveUp(c) PROVE WorkInv'
  <2>1. PICK j : j = workCall[c] /\ WorkCall(j, workTopic)
    BY DEF WorkInv
  <2>2. PICK k : k = [j EXCEPT !.waits = FALSE]
    OBVIOUS
  <2>3. WorkCall(k, workTopic) /\ KeepsTimes(c, k)
    BY <2>1, <2>2 DEF WorkCall, KeepsTimes
  <2>4. workCall' = [workCall EXCEPT ![c] = k]
        /\ UNCHANGED <<workTopic, workDoc, workIn, workOut, workClock, workView>>
    BY <1>7, <2>1, <2>2 DEF Work!GiveUp, Work!day
  <2> QED
    BY <2>3, <2>4, ElsewhereAtWork DEF WorkInv
<1>8. ASSUME NEW c \in Calls, Work!Read(c) PROVE WorkInv'
  <2>1. PICK j : j = workCall[c] /\ WorkCall(j, workTopic) /\ j.pc = "sent" /\ Fits(j.act, workTopic)
    BY <1>8 DEF WorkInv, Work!Read, Work!At, WorkCall
  <2>2. PICK pc : /\ workCall' = [workCall EXCEPT ![c] =
                       [j EXCEPT !.seen = workDoc, !.at = IF workTopic = "day" THEN workClock ELSE 0, !.pc = pc]]
                  /\ pc \in {"ok", "write", "failed"} /\ (pc = "write" => workDoc \in Work!Accepted(j.act))
    <3>1. PICK q : q = IF workDoc \in Work!Done(j.act) THEN "ok" ELSE IF workDoc \in Work!Accepted(j.act)
              THEN "write" ELSE "failed"
      OBVIOUS
    <3>2. workCall' = [workCall EXCEPT ![c] =
            [workCall[c] EXCEPT !.seen = workDoc, !.at = IF workTopic = "day" THEN workClock ELSE 0, !.pc = q]]
      BY <1>8, <2>1, <3>1 DEF Work!Read
    <3>3. q \in {"ok", "write", "failed"} /\ (q = "write" => workDoc \in Work!Accepted(j.act))
      BY <3>1
    <3> QED
      BY <2>1, <3>2, <3>3
  <2>3. PICK k : k = [j EXCEPT !.seen = workDoc, !.at = IF workTopic = "day" THEN workClock ELSE 0, !.pc = pc]
    OBVIOUS
  <2>4. UNCHANGED <<workTopic, workDoc, workIn, workOut, workClock, workView>>
    BY <1>8 DEF Work!Read, Work!day, Work!screens
  <2>5. workDoc \in Work!Accepted(j.act) => \/ j.act \in {"submit", "in", "out"}
                                            \/ /\ workDoc \notin {"REJECTED", "COMPLETED"}
                                               /\ (workDoc = "APPROVED" => j.act = "start")
    BY <2>1 DEF Work!Accepted, Fits, Work!Acts, Work!Located
  <2>6. WorkCall(k, workTopic) /\ k.act = j.act /\ k.pc = pc /\ (workTopic = "day" => k.at = workClock)
    BY <2>1, <2>2, <2>3, <2>5 DEF WorkCall
  <2>7. \A d \in Calls : workCall'[d] = IF d = c THEN k ELSE workCall[d]
    BY <2>2, <2>3 DEF WorkInv
  <2>8. workCall' = [d \in Calls |-> workCall'[d]] /\ \A d \in Calls : WorkCall(workCall'[d], workTopic')
    BY <2>2, <2>4, <2>6, <2>7 DEF WorkInv
  <2>9. ASSUME workTopic = "day" PROVE DayInv'
    <3>1. DayInv
      BY <2>9 DEF WorkInv
    <3>2. \A d \in Calls \ {c} : \A act : Punching(d, act)' => Punching(d, act) /\ workCall'[d].at = workCall[d].at
      BY <2>7 DEF Punching
    <3>3. Punching(c, "in")' => workDoc = "NONE" /\ workCall'[c].at = workClock
      BY <2>2, <2>6, <2>7, <2>9 DEF Punching, Work!Accepted
    <3>4. Punching(c, "out")' => workDoc = "IN" /\ workCall'[c].at = workClock
      BY <2>2, <2>6, <2>7, <2>9 DEF Punching, Work!Accepted
    <3>5. ~(Punching(c, "in")' /\ Punching(c, "out")')
      BY DEF Punching
    <3>6. ASSUME NEW d \in Calls, Punching(d, "in")'
          PROVE  workCall'[d].at \in Nat /\ workCall'[d].at <= workClock
                 /\ (workOut # 0 => workCall'[d].at <= workOut)
      BY <3>1, <3>2, <3>3, <3>6 DEF DayInv
    <3>7. ASSUME NEW d \in Calls, Punching(d, "out")'
          PROVE  workCall'[d].at \in Nat /\ workCall'[d].at <= workClock /\ workIn <= workCall'[d].at
                 /\ workDoc # "NONE"
      BY <3>1, <3>2, <3>4, <3>7 DEF DayInv
    <3>8. ASSUME NEW d \in Calls, NEW e \in Calls, Punching(d, "in")', Punching(e, "out")'
          PROVE  workCall'[d].at <= workCall'[e].at
      BY <3>1, <3>2, <3>3, <3>4, <3>5, <3>6, <3>7, <3>8 DEF DayInv
    <3> QED
      BY <2>4, <3>1, <3>6, <3>7, <3>8 DEF DayInv
  <2> QED
    BY <2>4, <2>8, <2>9 DEF WorkInv
<1>9. ASSUME NEW c \in Calls, Work!Swap(c) \/ Work!Insert(c) \/ Work!Post(c) \/ Work!Undo(c) \/ Work!Finish(c)
      PROVE  WorkInv'
  <2>1. /\ UNCHANGED <<workTopic, workIn, workOut, workClock, workView>> /\ workCall[c].pc # "idle"
        /\ \E pc \in {"post", "ok", "failed", "finish", "undo"} : Work!Goto(c, pc)
    BY <1>9 DEF Work!Swap, Work!Insert, Work!Post, Work!Undo, Work!Finish, Work!day, Work!screens, Work!At
  <2>2. PICK pc \in {"post", "ok", "failed", "finish", "undo"} : Work!Goto(c, pc)
    BY <2>1
  <2>3. PICK k : workCall' = [workCall EXCEPT ![c] = k] /\ k.pc = pc /\ WorkCall(k, workTopic)
    BY <2>1, <2>2, WorkGoesOn DEF WorkInv
  <2>4. workTopic = "day" => workDoc' = workDoc
    BY <1>9 DEF Work!Swap, Work!Insert, Work!Post, Work!Undo, Work!Finish, WorkInv, WorkCall, Fits, Work!Acts,
       Work!Located, Work!At, Work!Act
  <2>5. CASE workDoc' = workDoc
    BY <2>1, <2>2, <2>3, <2>5, ElsewhereAtWork DEF WorkInv, KeepsTimes
  <2>6. CASE workTopic # "day"
    <3>1. workCall' = [d \in Calls |-> workCall'[d]] /\ \A d \in Calls : WorkCall(workCall'[d], workTopic')
      BY <2>1, <2>2, <2>3, OtherCallsStay DEF KeepsTimes
    <3> QED
      BY <2>1, <2>6, <3>1 DEF WorkInv
  <2> QED
    BY <2>4, <2>5, <2>6
<1>10. ASSUME NEW c \in Calls, Work!PunchIn(c) PROVE WorkInv'
  <2>1. /\ UNCHANGED <<workTopic, workOut, workClock, workView>> /\ workCall[c].pc # "idle" /\ Work!Goto(c, "ok")
           /\ Punching(c, "in")
        /\ workIn' = workCall[c].at /\ workDoc' \in {"IN", "OUT"}
    BY <1>10 DEF Work!PunchIn, Work!At, Work!Act, Punching, Work!screens
  <2>2. PICK k : workCall' = [workCall EXCEPT ![c] = k] /\ k.pc = "ok" /\ WorkCall(k, workTopic)
    BY <2>1, WorkGoesOn DEF WorkInv
  <2>3. /\ workCall' = [d \in Calls |-> workCall'[d]] /\ \A d \in Calls : WorkCall(workCall'[d], workTopic')
        /\ \A d \in Calls : \A act : Punching(d, act)' => Punching(d, act) /\ workCall'[d].at = workCall[d].at
    BY <2>1, <2>2, OtherCallsStay DEF KeepsTimes
  <2>4. workTopic = "day" /\ DayInv
    BY <2>1 DEF WorkInv, WorkCall, Fits, Punching
  <2>5. DayInv'
    BY <2>1, <2>3, <2>4 DEF DayInv
  <2> QED
    BY <2>1, <2>3, <2>4, <2>5 DEF WorkInv
<1>11. ASSUME NEW c \in Calls, Work!PunchOut(c) PROVE WorkInv'
  <2>1. /\ UNCHANGED <<workTopic, workIn, workClock, workView>> /\ workCall[c].pc # "idle" /\ Punching(c, "out")
        /\ \E pc \in {"ok", "failed"} : Work!Goto(c, pc)
        /\ \/ workOut = 0 /\ workOut' = workCall[c].at /\ workDoc' = "OUT"
           \/ UNCHANGED <<workOut, workDoc>>
    BY <1>11 DEF Work!PunchOut, Work!At, Work!Act, Punching, Work!screens
  <2>2. PICK k : workCall' = [workCall EXCEPT ![c] = k] /\ k.pc \in {"ok", "failed"} /\ WorkCall(k, workTopic)
    BY <2>1, WorkGoesOn DEF WorkInv
  <2>3. /\ workCall' = [d \in Calls |-> workCall'[d]] /\ \A d \in Calls : WorkCall(workCall'[d], workTopic')
        /\ \A d \in Calls : \A act : Punching(d, act)' => Punching(d, act) /\ workCall'[d].at = workCall[d].at
    BY <2>1, <2>2, OtherCallsStay DEF KeepsTimes
  <2>4. workTopic = "day" /\ DayInv
    BY <2>1 DEF WorkInv, WorkCall, Fits, Punching
  <2>5. DayInv'
    BY <2>1, <2>3, <2>4 DEF DayInv
  <2> QED
    BY <2>1, <2>3, <2>4, <2>5 DEF WorkInv
<1>12. CASE UNCHANGED Work!vars
  <2>1. DayInv => DayInv'
    BY <1>12 DEF Work!vars, DayInv, Punching, Work!day
  <2> QED
    BY <1>12, <2>1 DEF Work!vars, Work!day, Work!screens, WorkInv
<1> QED
  BY <1>1, <1>2, <1>3, <1>4, <1>5, <1>6, <1>7, <1>8, <1>9, <1>10, <1>11, <1>12 DEF Work!Next, Work!Step

\* So a day starts before it ends.
LEMMA InBeforeOut == WorkInv => Work!CheckInBeforeOut
  BY DEF WorkInv, DayInv, Work!CheckInBeforeOut

\* A decision is changed by no step.
LEMMA DecisionsStay == ASSUME WorkInv, [Work!Next]_(Work!vars) PROVE [Work!Decided => UNCHANGED workDoc]_(Work!vars)
<1>1. ASSUME NEW c \in Calls, Work!Swap(c) PROVE Work!Decided => UNCHANGED workDoc
  BY <1>1 DEF Work!Swap, WorkInv, WorkCall, Fits, Work!Decided, Work!At, Work!Act
<1>2. ASSUME NEW c \in Calls, Work!Insert(c) PROVE Work!Decided => UNCHANGED workDoc
  BY <1>2 DEF Work!Insert, Work!Decided
<1>3. ASSUME NEW c \in Calls, Work!PunchIn(c) \/ Work!PunchOut(c) PROVE Work!Decided => UNCHANGED workDoc
  BY <1>3 DEF Work!PunchIn, Work!PunchOut, WorkInv, WorkCall, Fits, Work!Decided, Work!At, Work!Act
<1>4. ASSUME NEW c \in Calls, Work!Undo(c) \/ Work!Finish(c) PROVE Work!Decided => UNCHANGED workDoc
  BY <1>4 DEF Work!Undo, Work!Finish, Work!Decided
<1>5. CASE Work!QuickAction \/ Work!Crash \/ Work!Tick \/ \E r \in Work!Roles : Work!Open(r)
      \/ \E act \in Work!Acts : Work!Press(r, act)
  BY <1>5 DEF Work!QuickAction, Work!Crash, Work!Tick, Work!Open, Work!Press
<1>6. ASSUME NEW c \in Calls,
             Work!LocationEvidence(c) \/ Work!Answered(c) \/ Work!GiveUp(c) \/ Work!Load(c) \/ Work!Read(c)
             \/ Work!Post(c)
      PROVE  UNCHANGED workDoc
  BY <1>6 DEF Work!LocationEvidence, Work!Answered, Work!GiveUp, Work!Load, Work!Read, Work!Post
<1> QED
  BY <1>1, <1>2, <1>3, <1>4, <1>5, <1>6 DEF Work!Next, Work!Step

-----------------------------------------------------------------------------
(* BillingDesk: what a payment read of the invoice, and what it will write *)
(* there, is covered by the payments recorded; an input under an open row  *)
(* was entered under that row.                                             *)

CallShape(k) ==
  /\ k = [by |-> k.by, does |-> k.does, row |-> k.row, amount |-> k.amount, read |-> k.read, pc |-> k.pc]
  /\ k.amount \in Nat /\ k.read \in Nat
  /\ k.pc # "free" /\ k.does = "pay" => k.row \in Invoices

\* What has been read and is not yet written.
Covered(k, sums) ==
  k.does = "pay" =>
    /\ k.pc = "read" => k.read <= sums[k.row]
    /\ k.pc = "recorded" => k.read + k.amount <= sums[k.row]

EnteredThere(input, row) == input.value \in Nat /\ (row # None => input = Billing!Empty \/ input.for = row)

BillingInv ==
  /\ paid \in [Invoices -> Nat] /\ payments \in [Invoices -> Nat]
  /\ \A i \in Invoices : paid[i] <= payments[i]
  /\ billCalls = [c \in Calls |-> billCalls[c]]
  /\ \A c \in Calls : CallShape(billCalls[c]) /\ Covered(billCalls[c], payments)
  /\ staff = [rows |-> staff.rows, modal |-> staff.modal, input |-> staff.input, busy |-> staff.busy]
  /\ EnteredThere(staff.input, staff.modal)
  /\ owner = [rows |-> owner.rows, payFor |-> owner.payFor, amount |-> owner.amount, busy |-> owner.busy]
  /\ EnteredThere(owner.amount, owner.payFor)
  /\ DOMAIN owner.rows \subseteq Invoices /\ \A i \in DOMAIN owner.rows : owner.rows[i] \in Int
  /\ owner.payFor \in Invoices \cup {None}
  /\ invoices \subseteq Invoices /\ ~mixed

LEMMA BillingStarts == ASSUME Total \in Nat, Billing!Init PROVE BillingInv
<1>1. PICK i : i \subseteq Invoices /\ invoices = i /\ owner = [rows |-> [j \in i |-> Total], payFor |-> None,
                                                               amount |-> Billing!Empty, busy |-> FALSE]
  BY DEF Billing!Init
<1>2. staff = [rows |-> invoices \cup Profiles, modal |-> None, input |-> Billing!Empty, busy |-> FALSE] /\ ~mixed
      /\ Billing!Empty.value \in Nat
  BY DEF Billing!Init, Billing!Empty
<1>3. /\ paid \in [Invoices -> Nat] /\ payments \in [Invoices -> Nat]
      /\ \A j \in Invoices : paid[j] <= payments[j]
  BY DEF Billing!Init
<1>4. /\ billCalls = [c \in Calls |-> billCalls[c]]
      /\ \A c \in Calls : CallShape(billCalls[c]) /\ Covered(billCalls[c], payments)
  BY DEF Billing!Init, CallShape, Covered, Billing!Free
<1> QED
  BY <1>1, <1>2, <1>3, <1>4 DEF BillingInv, EnteredThere

\* The two lists show balances that are integers.
LEMMA BalanceIsInt == ASSUME Total \in Nat, BillingInv, NEW i \in invoices PROVE Billing!Balance(i) \in Int
  BY DEF BillingInv, Billing!Balance

\* What is sent was entered under the row it is sent to.
LEMMA SentAsEntered ==
  ASSUME BillingInv, NEW by, NEW does, NEW row, NEW input, Billing!Send(by, does, row, input),
         does = "pay" => row \in Invoices,
         input.value \in Nat, input = Billing!Empty \/ input.for = row
  PROVE  /\ billCalls' = [c \in Calls |-> billCalls'[c]] /\ ~mixed'
         /\ \A c \in Calls : CallShape(billCalls'[c]) /\ Covered(billCalls'[c], payments')
<1>1. PICK c \in Calls : billCalls' = [billCalls EXCEPT ![c] = [by |-> by, does |-> does, row |-> row,
                                     amount |-> input.value, read |-> 0, pc |-> "sent"]]
  BY DEF Billing!Send, Billing!Free
<1>2. ~mixed' /\ UNCHANGED payments
  BY DEF Billing!Send, BillingInv, Billing!server
<1> QED
  BY <1>1, <1>2 DEF BillingInv, CallShape, Covered

\* A call goes on without its amount, its row or what it read changing.
LEMMA CallGoesOn ==
  ASSUME BillingInv, NEW c \in Calls, NEW k, billCalls' = [billCalls EXCEPT ![c] = k], CallShape(k),
         UNCHANGED payments, Covered(k, payments)
  PROVE  /\ billCalls' = [d \in Calls |-> billCalls'[d]]
         /\ \A d \in Calls : CallShape(billCalls'[d]) /\ Covered(billCalls'[d], payments')
  BY DEF BillingInv

\* Every step keeps the invariant.
LEMMA BillingSteady ==
  ASSUME Total \in Nat, None \notin Invoices, BillingInv, [Billing!Next]_(Billing!vars)
  PROVE  BillingInv'
<1>1. CASE Billing!Refetch \/ Billing!ReloadLedger
  <2>1. \A i \in invoices : Billing!Balance(i) \in Int
    BY BalanceIsInt
  <2> QED
    BY <1>1, <2>1 DEF Billing!Refetch, Billing!ReloadLedger, BillingInv, EnteredThere, Billing!server
<1>2. CASE Billing!CloseModal \/ Billing!CancelPayment
  <2>1. CASE Billing!CloseModal
    BY <1>2, <2>1 DEF Billing!CloseModal, BillingInv, EnteredThere, Billing!server
  <2>2. CASE Billing!CancelPayment
    BY <1>2, <2>2 DEF Billing!CancelPayment, BillingInv, EnteredThere, Billing!server, Billing!Empty
  <2> QED
    BY <1>2, <2>1, <2>2
<1>3. CASE Billing!SubmitModal
  <2>1. PICK does : /\ Billing!Send("staff", does, staff.modal, staff.input)
                    /\ does = "pay" => staff.modal \in Invoices
    <3>1. CASE staff.modal = Create
      BY <1>3, <3>1 DEF Billing!SubmitModal
    <3>2. CASE staff.modal # Create /\ staff.modal \in Invoices
      BY <1>3, <3>2 DEF Billing!SubmitModal
    <3>3. CASE staff.modal # Create /\ staff.modal \notin Invoices
      BY <1>3, <3>3 DEF Billing!SubmitModal
    <3> QED
      BY <3>1, <3>2, <3>3
  <2>2. staff' = [staff EXCEPT !.busy = TRUE] /\ staff.modal # None /\ UNCHANGED <<owner, Billing!server>>
    BY <1>3, <2>1 DEF Billing!SubmitModal, Billing!Send
  <2>3. /\ billCalls' = [c \in Calls |-> billCalls'[c]] /\ ~mixed'
        /\ \A c \in Calls : CallShape(billCalls'[c]) /\ Covered(billCalls'[c], payments')
    BY <2>1, <2>2, SentAsEntered DEF BillingInv, EnteredThere
  <2> QED
    BY <2>2, <2>3 DEF BillingInv, EnteredThere, Billing!server
<1>4. CASE Billing!Pay
  <2>1. /\ Billing!Send("owner", "pay", owner.payFor, owner.amount) /\ owner.payFor # None
        /\ owner' = [owner EXCEPT !.busy = TRUE] /\ UNCHANGED <<staff, Billing!server>>
    BY <1>4 DEF Billing!Pay, Billing!Send
  <2>2. /\ billCalls' = [c \in Calls |-> billCalls'[c]] /\ ~mixed'
        /\ \A c \in Calls : CallShape(billCalls'[c]) /\ Covered(billCalls'[c], payments')
    BY <2>1, SentAsEntered DEF BillingInv, EnteredThere
  <2> QED
    BY <2>1, <2>2 DEF BillingInv, EnteredThere, Billing!server
<1>5. CASE Billing!GenerateInvoice
  <2>1. Billing!Send("card", "invoice", None, Billing!Empty) /\ UNCHANGED <<staff, owner, Billing!server>>
    BY <1>5 DEF Billing!GenerateInvoice, Billing!Send
  <2>2. /\ billCalls' = [c \in Calls |-> billCalls'[c]] /\ ~mixed'
        /\ \A c \in Calls : CallShape(billCalls'[c]) /\ Covered(billCalls'[c], payments')
    BY <2>1, SentAsEntered DEF Billing!Empty
  <2> QED
    BY <2>1, <2>2 DEF BillingInv, EnteredThere, Billing!server
<1>6. ASSUME NEW row, Billing!OpenModal(row) PROVE BillingInv'
  BY <1>6 DEF Billing!OpenModal, Billing!OpenWindow, BillingInv, EnteredThere, Billing!server, Billing!Empty
<1>7. ASSUME NEW v \in 1..Total, Billing!TypeInput(v) \/ Billing!EditPayment(v) PROVE BillingInv'
  BY <1>7 DEF Billing!TypeInput, Billing!EditPayment, BillingInv, EnteredThere, Billing!server
<1>8. ASSUME NEW p \in Profiles, Billing!PressAction(p) PROVE BillingInv'
  <2>1. /\ Billing!Send("staff", "approve", p, Billing!Empty) /\ UNCHANGED <<owner, Billing!server>>
        /\ staff' = [staff EXCEPT !.busy = TRUE]
    BY <1>8 DEF Billing!PressAction, Billing!Send
  <2>2. /\ billCalls' = [c \in Calls |-> billCalls'[c]] /\ ~mixed'
        /\ \A c \in Calls : CallShape(billCalls'[c]) /\ Covered(billCalls'[c], payments')
    BY <2>1, SentAsEntered DEF Billing!Empty
  <2> QED
    BY <2>1, <2>2 DEF BillingInv, EnteredThere, Billing!server
<1>9. ASSUME NEW i \in Invoices, Billing!OpenPayment(i) PROVE BillingInv'
  <2>1. owner.rows[i] \in Nat
    BY <1>9 DEF Billing!OpenPayment, BillingInv
  <2> QED
    BY <1>9, <2>1 DEF Billing!OpenPayment, BillingInv, EnteredThere, Billing!server
<1>10. ASSUME NEW c \in Calls, Billing!Answered(c) PROVE BillingInv'
  <2>1. PICK k \in {Billing!Free, [billCalls[c] EXCEPT !.by = "nobody"]} : billCalls' = [billCalls EXCEPT ![c] = k]
    BY <1>10 DEF Billing!Answered
  <2>2. CallShape(k) /\ Covered(k, payments) /\ UNCHANGED <<Billing!server, mixed>>
    <3>1. PICK j : j = billCalls[c] /\ CallShape(j) /\ Covered(j, payments)
      BY DEF BillingInv
    <3>2. CASE k = Billing!Free
      BY <1>10, <3>2 DEF Billing!Answered, CallShape, Covered, Billing!Free
    <3>3. CASE k = [j EXCEPT !.by = "nobody"]
      BY <1>10, <3>1, <3>3 DEF Billing!Answered, CallShape, Covered
    <3> QED
      BY <2>1, <3>1, <3>2, <3>3
  <2>3. /\ billCalls' = [d \in Calls |-> billCalls'[d]]
        /\ \A d \in Calls : CallShape(billCalls'[d]) /\ Covered(billCalls'[d], payments')
    BY <2>1, <2>2, CallGoesOn DEF Billing!server
  <2>4. \A i \in invoices : Billing!Balance(i) \in Int
    BY BalanceIsInt
  <2>5. PICK ok \in {TRUE, FALSE} : Billing!StaffAnswered(c, ok) \/ Billing!OwnerAnswered(c, ok)
        \/ Billing!CardAnswered(c, ok)
    BY <1>10 DEF Billing!Answered
  <2>6. CASE Billing!StaffAnswered(c, ok)
    BY <2>2, <2>3, <2>6 DEF Billing!StaffAnswered, BillingInv, EnteredThere, Billing!server, Billing!Empty
  <2>7. CASE Billing!OwnerAnswered(c, ok)
    BY <2>2, <2>3, <2>4, <2>7 DEF Billing!OwnerAnswered, BillingInv, EnteredThere, Billing!server, Billing!Empty
  <2>8. CASE Billing!CardAnswered(c, ok)
    BY <2>2, <2>3, <2>8 DEF Billing!CardAnswered, BillingInv, EnteredThere, Billing!server
  <2> QED
    BY <2>5, <2>6, <2>7, <2>8
<1>11. ASSUME NEW c \in Calls,
              Billing!Dies(c) \/ Billing!Ended(c) \/ Billing!FindInvoice(c) \/ Billing!InsertInvoice(c)
              \/ Billing!NameInvoice(c)
                               \/ Billing!DecideKyc(c) \/ Billing!AddRow(c)
       PROVE  BillingInv'
  <2>1. UNCHANGED <<paid, payments, staff, owner, mixed>>
    BY <1>11 DEF Billing!Dies, Billing!Ended, Billing!FindInvoice, Billing!InsertInvoice, Billing!NameInvoice,
       Billing!DecideKyc, Billing!AddRow, Billing!server, Billing!screens
  <2>2. PICK k : /\ billCalls' = [billCalls EXCEPT ![c] = k] /\ CallShape(k) /\ Covered(k, payments)
                 /\ invoices' \subseteq Invoices
    <3>1. CASE Billing!Dies(c) \/ Billing!NameInvoice(c) \/ Billing!DecideKyc(c) \/ Billing!AddRow(c)
      <4>1. PICK q : billCalls' = [billCalls EXCEPT ![c].pc = q] /\ q \in {"failed", "ok"} /\ UNCHANGED invoices
        BY <3>1 DEF Billing!Dies, Billing!NameInvoice, Billing!DecideKyc, Billing!AddRow, Billing!To, Billing!server
      <4>2. CallShape([billCalls[c] EXCEPT !.pc = q]) /\ Covered([billCalls[c] EXCEPT !.pc = q], payments)
        <5>1. billCalls[c].pc # "free"
          BY <3>1 DEF Billing!Dies, Billing!NameInvoice, Billing!DecideKyc, Billing!AddRow, Billing!At
        <5> QED
          BY <4>1, <5>1 DEF BillingInv, CallShape, Covered
      <4> QED
        BY <4>1, <4>2 DEF BillingInv
    <3>2. CASE Billing!Ended(c)
      <4>1. CallShape(Billing!Free) /\ Covered(Billing!Free, payments)
        BY DEF CallShape, Covered, Billing!Free
      <4> QED
        BY <3>2, <4>1 DEF Billing!Ended, BillingInv, Billing!server
    <3>3. CASE Billing!FindInvoice(c)
      <4>1. PICK j : j = billCalls[c] /\ CallShape(j) /\ j.does = "invoice"
        BY <3>3 DEF Billing!FindInvoice, Billing!At, BillingInv
      <4>2. PICK k : billCalls' = [billCalls EXCEPT ![c] = k] /\ CallShape(k) /\ Covered(k, payments)
        <5>1. ASSUME NEW i \in invoices, billCalls' = [billCalls EXCEPT ![c].row = i, ![c].pc = "raised"]
              PROVE  \E k : billCalls' = [billCalls EXCEPT ![c] = k] /\ CallShape(k) /\ Covered(k, payments)
          <6>1. PICK k : k = [j EXCEPT !.row = i, !.pc = "raised"]
            OBVIOUS
          <6>2. CallShape(k) /\ Covered(k, payments)
            BY <4>1, <6>1 DEF CallShape, Covered
          <6>3. billCalls' = [billCalls EXCEPT ![c] = k]
            BY <4>1, <5>1, <6>1
          <6> QED
            BY <6>2, <6>3
        <5>2. ASSUME NEW q \in {"priced", "failed"}, Billing!To(c, q)
              PROVE  \E k : billCalls' = [billCalls EXCEPT ![c] = k] /\ CallShape(k) /\ Covered(k, payments)
          <6>1. PICK k : k = [j EXCEPT !.pc = q]
            OBVIOUS
          <6>2. CallShape(k) /\ Covered(k, payments)
            BY <4>1, <6>1 DEF CallShape, Covered
          <6>3. billCalls' = [billCalls EXCEPT ![c] = k]
            BY <4>1, <5>2, <6>1 DEF Billing!To
          <6> QED
            BY <6>2, <6>3
        <5>3. CASE \E i \in invoices : billCalls' = [billCalls EXCEPT ![c].row = i, ![c].pc = "raised"]
          BY <5>1, <5>3
        <5>4. CASE Billing!To(c, "priced") \/ Billing!To(c, "failed")
          BY <5>2, <5>4
        <5> QED
          BY <3>3, <5>3, <5>4 DEF Billing!FindInvoice
      <4> QED
        BY <3>3, <4>2 DEF Billing!FindInvoice, Billing!server, BillingInv
    <3>4. CASE Billing!InsertInvoice(c)
      <4>1. PICK j : j = billCalls[c] /\ CallShape(j) /\ j.does = "invoice"
        BY <3>4 DEF Billing!InsertInvoice, Billing!At, BillingInv
      <4>2. PICK i \in Invoices : billCalls' = [billCalls EXCEPT ![c] = [j EXCEPT !.row = i, !.pc = "raised"]]
                                  /\ invoices' = invoices \cup {i}
        BY <3>4, <4>1 DEF Billing!InsertInvoice
      <4>3. PICK k : k = [j EXCEPT !.row = i, !.pc = "raised"]
        OBVIOUS
      <4>4. CallShape(k) /\ Covered(k, payments)
        BY <4>1, <4>2, <4>3 DEF CallShape, Covered
      <4> QED
        BY <4>2, <4>3, <4>4 DEF BillingInv
    <3> QED
      BY <1>11, <3>1, <3>2, <3>3, <3>4
  <2>3. /\ billCalls' = [d \in Calls |-> billCalls'[d]]
        /\ \A d \in Calls : CallShape(billCalls'[d]) /\ Covered(billCalls'[d], payments')
    BY <2>1, <2>2, CallGoesOn
  <2> QED
    BY <2>1, <2>2, <2>3 DEF BillingInv, EnteredThere
<1>12. ASSUME NEW c \in Calls, Billing!ReadInvoice(c) PROVE BillingInv'
  <2>1. PICK q \in {"read", "failed"} :
          billCalls' = [billCalls EXCEPT ![c] = [billCalls[c] EXCEPT !.read = paid[billCalls[c].row], !.pc = q]]
    BY <1>12 DEF Billing!ReadInvoice
  <2>2. PICK k : k = [billCalls[c] EXCEPT !.read = paid[billCalls[c].row], !.pc = q]
    OBVIOUS
  <2>3. billCalls[c].row \in Invoices /\ UNCHANGED <<Billing!server, Billing!screens>>
    BY <1>12 DEF Billing!ReadInvoice, Billing!At, BillingInv, CallShape
  <2>4. CallShape(k) /\ Covered(k, payments)
    <3>1. PICK j : j = billCalls[c] /\ CallShape(j) /\ Covered(j, payments)
      BY DEF BillingInv
    <3>2. paid[j.row] \in Nat /\ paid[j.row] <= payments[j.row] /\ k = [j EXCEPT !.read = paid[j.row], !.pc = q]
      BY <2>2, <2>3, <3>1 DEF BillingInv
    <3> QED
      BY <1>12, <2>1, <2>3, <3>1, <3>2 DEF CallShape, Covered, Billing!ReadInvoice, Billing!At
  <2>5. /\ billCalls' = [d \in Calls |-> billCalls'[d]]
        /\ \A d \in Calls : CallShape(billCalls'[d]) /\ Covered(billCalls'[d], payments')
    BY <2>1, <2>2, <2>3, <2>4, CallGoesOn DEF Billing!server
  <2> QED
    BY <2>3, <2>5 DEF BillingInv, EnteredThere, Billing!server, Billing!screens
<1>13. ASSUME NEW c \in Calls, Billing!InsertPayment(c) PROVE BillingInv'
  <2>1. PICK k : k = billCalls[c] /\ CallShape(k) /\ Covered(k, payments) /\ k.does = "pay" /\ k.pc = "read"
    BY <1>13 DEF Billing!InsertPayment, Billing!At, BillingInv
  <2>2. PICK q : q = [k EXCEPT !.pc = "recorded"]
    OBVIOUS
  <2>3. /\ payments' = [payments EXCEPT ![k.row] = payments[k.row] + k.amount]
        /\ billCalls' = [billCalls EXCEPT ![c] = q] /\ k.row \in Invoices
        /\ UNCHANGED <<paid, invoices, Billing!screens>>
    BY <1>13, <2>1, <2>2 DEF Billing!InsertPayment, Billing!Record, Billing!To, CallShape
  <2>4. payments' \in [Invoices -> Nat] /\ \A i \in Invoices : payments[i] <= payments'[i]
    BY <2>1, <2>3 DEF BillingInv, CallShape
  <2>5. CallShape(q)
    BY <2>1, <2>2 DEF CallShape
  <2>6. ASSUME NEW d \in Calls PROVE CallShape(billCalls'[d]) /\ Covered(billCalls'[d], payments')
    <3>1. CASE d = c
      <4>1. billCalls'[d] = q
        BY <2>3, <3>1 DEF BillingInv
      <4>2. q.read + q.amount <= payments'[q.row] /\ q.pc = "recorded"
        BY <2>1, <2>2, <2>3 DEF BillingInv, CallShape, Covered
      <4> QED
        BY <2>5, <4>1, <4>2 DEF Covered
    <3>2. CASE d # c
      <4>1. PICK j : j = billCalls[d] /\ j = billCalls'[d] /\ CallShape(j) /\ Covered(j, payments)
        BY <2>3, <3>2 DEF BillingInv
      <4>2. ASSUME j.pc # "free", j.does = "pay" PROVE payments[j.row] <= payments'[j.row]
                            /\ payments[j.row] \in Nat /\ payments'[j.row] \in Nat
        BY <2>4, <4>1, <4>2 DEF CallShape, BillingInv
      <4> QED
        BY <4>1, <4>2 DEF CallShape, Covered
    <3> QED
      BY <3>1, <3>2
  <2>7. \A i \in Invoices : paid'[i] <= payments'[i]
    BY <2>3, <2>4 DEF BillingInv
  <2> QED
    BY <2>3, <2>4, <2>6, <2>7 DEF BillingInv, EnteredThere, Billing!screens
<1>14. ASSUME NEW c \in Calls, Billing!UpdateInvoice(c) PROVE BillingInv'
  <2>1. PICK k : k = billCalls[c] /\ CallShape(k) /\ Covered(k, payments) /\ k.does = "pay" /\ k.pc = "recorded"
    BY <1>14 DEF Billing!UpdateInvoice, Billing!At, BillingInv
  <2>2. PICK q : q = [k EXCEPT !.pc = "ok"]
    OBVIOUS
  <2>3. /\ paid' = [paid EXCEPT ![k.row] = k.read + k.amount]
        /\ billCalls' = [billCalls EXCEPT ![c] = q] /\ k.row \in Invoices
        /\ UNCHANGED <<payments, invoices, Billing!screens>>
    BY <1>14, <2>1, <2>2 DEF Billing!UpdateInvoice, Billing!To, CallShape
  <2>4. CallShape(q) /\ Covered(q, payments)
    BY <2>1, <2>2 DEF CallShape, Covered
  <2>5. /\ billCalls' = [d \in Calls |-> billCalls'[d]]
        /\ \A d \in Calls : CallShape(billCalls'[d]) /\ Covered(billCalls'[d], payments')
    BY <2>3, <2>4, CallGoesOn
  <2>6. paid' \in [Invoices -> Nat] /\ \A i \in Invoices : paid'[i] <= payments'[i]
    BY <2>1, <2>3 DEF BillingInv, CallShape, Covered
  <2> QED
    BY <2>3, <2>5, <2>6 DEF BillingInv, EnteredThere, Billing!screens
<1>15. CASE UNCHANGED Billing!vars
  BY <1>15 DEF Billing!vars, Billing!server, Billing!screens, BillingInv, EnteredThere
<1> QED
  BY <1>1, <1>2, <1>3, <1>4, <1>5, <1>6, <1>7, <1>8, <1>9, <1>10, <1>11, <1>12, <1>13, <1>14, <1>15 DEF Billing!Next

\* So no invoice claims more than was paid, and nothing goes to another row.
LEMMA BillingCovers == BillingInv => Billing!PaidIsCovered /\ Billing!SentWhereEntered
  BY DEF BillingInv, Billing!PaidIsCovered, Billing!SentWhereEntered

-----------------------------------------------------------------------------
(* Workforce, following a claim: one approval at a time is posting, and    *)
(* while it is, nobody else moves the claim.                               *)

ClaimActs == {"submit", "verify", "return", "reject", "approve"}
Posting == {"post", "undo", "finish"}

ClaimCall(k) ==
  /\ k = [pc |-> k.pc, role |-> k.role, act |-> k.act, seen |-> k.seen, at |-> k.at, waits |-> k.waits]
  /\ k.pc # "idle" => k.act \in ClaimActs
  /\ k.pc = "write" => k.act = "submit" \/ k.seen \in {"SUBMITTED", "RETURNED", "VERIFIED"}

OnePosts ==
  /\ \A c \in Calls : claimCall[c].pc \in Posting => claimDoc = "POSTING"
  /\ \A c, d \in Calls : claimCall[c].pc \in Posting /\ claimCall[d].pc \in Posting => c = d
  /\ \A c \in Calls : claimCall[c].pc = "finish" => claimPosted
  /\ \A c \in Calls : claimCall[c].pc = "undo" => ~claimPosted \/ claimUnsure

ClaimsInv ==
  /\ claimTopic = "claim" /\ claimPosted \in BOOLEAN /\ claimUnsure \in BOOLEAN
  /\ claimCall = [c \in Calls |-> claimCall[c]] /\ \A c \in Calls : ClaimCall(claimCall[c])
  /\ OnePosts
  /\ claimDoc = "APPROVED" => claimPosted
  /\ claimPosted /\ ~claimUnsure => claimDoc \in {"POSTING", "APPROVED"}

LEMMA ClaimsStart == ASSUME Claims!Init, claimTopic = "claim" PROVE ClaimsInv
<1>1. \A c \in Calls : claimCall[c] = Claims!Idle
  BY DEF Claims!Init
<1>2. ClaimCall(Claims!Idle) /\ Claims!Idle.pc = "idle"
  BY DEF ClaimCall, Claims!Idle
<1> QED
  BY <1>1, <1>2 DEF Claims!Init, ClaimsInv, OnePosts, Posting

\* A request that goes on forgets what it had read.
LEMMA ClaimGoesOn ==
  ASSUME NEW c \in Calls, NEW pc, ClaimCall(claimCall[c]), claimCall = [d \in Calls |-> claimCall[d]],
         Claims!Goto(c, pc)
  PROVE  \E k : /\ claimCall' = [claimCall EXCEPT ![c] = k] /\ k.pc = pc /\ k.act = claimCall[c].act
                /\ k = [pc |-> k.pc, role |-> k.role, act |-> k.act, seen |-> k.seen, at |-> k.at,
                        waits |-> k.waits]
<1>1. PICK j : j = claimCall[c]
  OBVIOUS
<1>2. PICK k : k = [j EXCEPT !.pc = pc, !.seen = "NONE", !.at = 0]
  OBVIOUS
<1>3. k = [pc |-> k.pc, role |-> k.role, act |-> k.act, seen |-> k.seen, at |-> k.at, waits |-> k.waits]
      /\ k.pc = pc /\ k.act = j.act
  BY <1>1, <1>2 DEF ClaimCall
<1>4. claimCall' = [claimCall EXCEPT ![c] = k]
  BY <1>1, <1>2 DEF Claims!Goto
<1> QED
  BY <1>1, <1>3, <1>4

\* What is not about the posting leaves it alone.
LEMMA ElsewhereOnClaim ==
  ASSUME ClaimsInv, NEW c \in Calls, NEW k, claimCall' = [claimCall EXCEPT ![c] = k], ClaimCall(k),
         claimCall[c].pc \notin Posting, k.pc \notin Posting,
         UNCHANGED <<claimTopic, claimDoc, claimPosted, claimUnsure>>
  PROVE  ClaimsInv'
<1>1. \A d \in Calls : claimCall'[d] = IF d = c THEN k ELSE claimCall[d]
  BY DEF ClaimsInv
<1>2. claimCall' = [d \in Calls |-> claimCall'[d]] /\ \A d \in Calls : ClaimCall(claimCall'[d])
  BY <1>1 DEF ClaimsInv
<1>3. OnePosts'
  BY <1>1 DEF ClaimsInv, OnePosts, Posting
<1> QED
  BY <1>2, <1>3 DEF ClaimsInv

\* A request that ends where it is not posting.
LEMMA IdleOnClaim ==
  ASSUME ClaimsInv, NEW c \in Calls, Claims!End(c), claimCall[c].pc \notin Posting,
         UNCHANGED <<claimTopic, claimDoc, claimPosted, claimUnsure>>
  PROVE  ClaimsInv'
<1>1. ClaimCall(Claims!Idle) /\ Claims!Idle.pc \notin Posting
  BY DEF ClaimCall, Claims!Idle, Posting
<1> QED
  BY <1>1, ElsewhereOnClaim DEF Claims!End

\* Every step keeps the invariant.
LEMMA ClaimsSteady == ASSUME ClaimsInv, [Claims!Next]_(Claims!vars) PROVE ClaimsInv'
<1>1. CASE Claims!QuickAction \/ Claims!Tick
  BY <1>1 DEF Claims!QuickAction, Claims!Tick, ClaimsInv, OnePosts, Claims!ledger
<1>2. ASSUME NEW r \in Claims!Roles, Claims!Open(r) PROVE ClaimsInv'
  BY <1>2 DEF Claims!Open, ClaimsInv, OnePosts, Claims!ledger
<1>3. ASSUME NEW r \in Claims!Roles, NEW act \in Claims!Acts, Claims!Press(r, act) PROVE ClaimsInv'
  <2>1. PICK c \in Calls :
          /\ claimCall[c].pc = "idle"
          /\ claimCall' = [claimCall EXCEPT ![c] = [Claims!Idle EXCEPT !.role = r, !.act = act, !.waits = TRUE,
                                            !.pc = IF act \in Claims!Located THEN "locating" ELSE "sent"]]
    BY <1>3 DEF Claims!Press, Claims!At
  <2>2. act \in ClaimActs
    BY <1>3 DEF Claims!Press, Claims!Offered, Claims!AttendanceCard, Claims!MyActivity, Claims!Forms,
       Claims!ExpenseVerification, Claims!ApprovalSection, ClaimActs, Claims!Roles,
                ClaimsInv
  <2>3. PICK k : k = [Claims!Idle EXCEPT !.role = r, !.act = act, !.waits = TRUE,
                                         !.pc = IF act \in Claims!Located THEN "locating" ELSE "sent"]
    OBVIOUS
  <2>4. ClaimCall(k) /\ k.pc \notin Posting /\ claimCall[c].pc \notin Posting
    BY <2>1, <2>2, <2>3 DEF ClaimCall, Posting, Claims!Idle
  <2>5. UNCHANGED <<claimTopic, claimDoc, claimPosted, claimUnsure>>
    BY <1>3 DEF Claims!Press, Claims!ledger
  <2> QED
    BY <2>1, <2>3, <2>4, <2>5, ElsewhereOnClaim
<1>4. CASE Claims!Crash
  <2>1. UNCHANGED <<claimTopic, claimDoc, claimPosted, claimUnsure>>
    BY <1>4 DEF Claims!Crash, Claims!ledger
  <2>2. ASSUME NEW c \in Calls
        PROVE  ClaimCall(claimCall'[c]) /\ claimCall'[c].pc \notin Posting
    <3>1. PICK j : j = claimCall[c] /\ ClaimCall(j)
      BY DEF ClaimsInv
    <3>2. CASE j.pc \in Claims!Serving \ {"ok", "failed"}
      <4>1. claimCall'[c] = [j EXCEPT !.pc = "failed", !.seen = "NONE", !.at = 0]
        BY <1>4, <3>1, <3>2 DEF Claims!Crash
      <4> QED
        BY <3>1, <3>2, <4>1 DEF ClaimCall, Posting, Claims!Serving
    <3>3. CASE j.pc \notin Claims!Serving \ {"ok", "failed"}
      <4>1. claimCall'[c] = j
        BY <1>4, <3>1, <3>3 DEF Claims!Crash
      <4> QED
        BY <3>1, <3>3, <4>1 DEF Posting, Claims!Serving
    <3> QED
      BY <3>2, <3>3
  <2>3. claimCall' = [c \in Calls |-> claimCall'[c]]
    BY <1>4 DEF Claims!Crash
  <2>4. \A c \in Calls : ClaimCall(claimCall'[c])
    BY <2>2
  <2> QED
    BY <2>1, <2>2, <2>3, <2>4 DEF ClaimsInv, OnePosts, Posting
<1>5. ASSUME NEW c \in Calls, Claims!LocationEvidence(c) \/ Claims!Answered(c) \/ Claims!Load(c) PROVE ClaimsInv'
  <2>1. UNCHANGED <<claimTopic, claimDoc, claimPosted, claimUnsure>>
        /\ claimCall[c].pc \in {"locating", "ok", "failed", "load"}
    BY <1>5 DEF Claims!LocationEvidence, Claims!Answered, Claims!Load, Claims!ledger, Claims!At
  <2>2. claimCall[c].pc \notin Posting
    BY <2>1 DEF Posting
  <2>3. CASE Claims!End(c)
    BY <2>1, <2>2, <2>3, IdleOnClaim
  <2>4. ASSUME NEW pc \in {"sent", "load"}, Claims!Goto(c, pc) PROVE ClaimsInv'
    <3>1. PICK k : /\ claimCall' = [claimCall EXCEPT ![c] = k] /\ k.pc = pc /\ k.act = claimCall[c].act
                   /\ k = [pc |-> k.pc, role |-> k.role, act |-> k.act, seen |-> k.seen, at |-> k.at,
                           waits |-> k.waits]
      BY <2>4, ClaimGoesOn DEF ClaimsInv
    <3>2. ClaimCall(k) /\ k.pc \notin Posting
      BY <2>1, <2>4, <3>1 DEF ClaimCall, Posting, ClaimsInv
    <3> QED
      BY <2>1, <2>2, <3>1, <3>2, ElsewhereOnClaim
  <2> QED
    BY <1>5, <2>3, <2>4 DEF Claims!LocationEvidence, Claims!Answered, Claims!Load
<1>6. ASSUME NEW c \in Calls, Claims!GiveUp(c) PROVE ClaimsInv'
  <2>1. PICK j : j = claimCall[c] /\ ClaimCall(j)
    BY DEF ClaimsInv
  <2>2. PICK k : k = [j EXCEPT !.waits = FALSE]
    OBVIOUS
  <2>3. ClaimCall(k) /\ k.pc = j.pc
    BY <2>1, <2>2 DEF ClaimCall
  <2>4. claimCall' = [claimCall EXCEPT ![c] = k] /\ UNCHANGED <<claimTopic, claimDoc, claimPosted, claimUnsure>>
    BY <1>6, <2>1, <2>2 DEF Claims!GiveUp, Claims!ledger
  <2>5. \A d \in Calls : claimCall'[d].pc = claimCall[d].pc /\ ClaimCall(claimCall'[d])
    BY <2>1, <2>3, <2>4 DEF ClaimsInv
  <2>6. \A d \in Calls : ClaimCall(claimCall'[d])
    BY <2>5
  <2>7. claimCall' = [d \in Calls |-> claimCall'[d]]
    BY <2>4 DEF ClaimsInv
  <2>8. OnePosts'
    BY <2>4, <2>5 DEF ClaimsInv, OnePosts
  <2> QED
    BY <2>4, <2>6, <2>7, <2>8 DEF ClaimsInv
<1>7. ASSUME NEW c \in Calls, Claims!Read(c) PROVE ClaimsInv'
  <2>1. PICK j : j = claimCall[c] /\ ClaimCall(j) /\ j.pc = "sent" /\ j.act \in ClaimActs
    BY <1>7 DEF ClaimsInv, Claims!Read, Claims!At, ClaimCall
  <2>2. PICK pc, at : /\ claimCall' = [claimCall EXCEPT ![c] = [j EXCEPT !.seen = claimDoc, !.at = at, !.pc = pc]]
                      /\ pc \in {"ok", "write", "failed"}
                      /\ (pc = "write" => j.act = "submit" \/ claimDoc \in {"SUBMITTED", "RETURNED", "VERIFIED"})
                      /\ UNCHANGED <<claimTopic, claimDoc, claimPosted, claimUnsure>>
    <3>1. claimDoc \in Claims!Accepted(j.act) => j.act = "submit"
          \/ claimDoc \in {"SUBMITTED", "RETURNED", "VERIFIED"}
      BY <2>1 DEF Claims!Accepted, ClaimActs, ClaimsInv
    <3>2. UNCHANGED <<claimTopic, claimDoc, claimPosted, claimUnsure>>
      BY <1>7 DEF Claims!Read, Claims!ledger
    <3> QED
      BY <1>7, <2>1, <3>1, <3>2 DEF Claims!Read
  <2>3. PICK k : k = [j EXCEPT !.seen = claimDoc, !.at = at, !.pc = pc]
    OBVIOUS
  <2>4. ClaimCall(k) /\ k.pc \notin Posting
    BY <2>1, <2>2, <2>3 DEF ClaimCall, Posting
  <2>5. claimCall[c].pc \notin Posting
    BY <2>1 DEF Posting
  <2> QED
    BY <2>2, <2>3, <2>4, <2>5, ElsewhereOnClaim
<1>8. ASSUME NEW c \in Calls, Claims!Swap(c) PROVE ClaimsInv'
  <2>1. /\ claimCall[c].pc = "write" /\ claimCall[c].act \in {"verify", "return", "reject", "approve"}
        /\ claimCall[c].seen \in {"SUBMITTED", "RETURNED", "VERIFIED"}
           /\ UNCHANGED <<claimTopic, claimPosted, claimUnsure>>
    BY <1>8 DEF Claims!Swap, ClaimsInv, ClaimCall, ClaimActs, Claims!At, Claims!Act, Claims!ledger
  <2>2. Claims!Target(claimCall[c].act) # "APPROVED"
    BY <2>1 DEF Claims!Target, ClaimsInv
  <2>3. claimCall[c].pc \notin Posting
    BY <2>1 DEF Posting
  <2>4. ASSUME NEW pc, Claims!Goto(c, pc), pc \in {"post", "ok", "failed"}
        PROVE  \E k : claimCall' = [claimCall EXCEPT ![c] = k] /\ k.pc = pc /\ ClaimCall(k)
    <3>1. PICK k : /\ claimCall' = [claimCall EXCEPT ![c] = k] /\ k.pc = pc /\ k.act = claimCall[c].act
                   /\ k = [pc |-> k.pc, role |-> k.role, act |-> k.act, seen |-> k.seen, at |-> k.at,
                           waits |-> k.waits]
      BY <2>4, ClaimGoesOn DEF ClaimsInv
    <3>2. ClaimCall(k)
      BY <2>1, <2>4, <3>1 DEF ClaimCall, ClaimActs
    <3> QED
      BY <3>1, <3>2
  <2>5. CASE claimDoc = claimCall[c].seen
    <3>1. claimDoc \notin {"POSTING", "APPROVED"} /\ claimDoc' = Claims!Target(claimCall[c].act)
          /\ claimDoc' # "APPROVED"
      BY <1>8, <2>1, <2>2, <2>5 DEF Claims!Swap
    <3>2. PICK pc : Claims!Goto(c, pc) /\ pc = (IF claimDoc' = "POSTING" THEN "post" ELSE "ok")
      BY <1>8, <2>5 DEF Claims!Swap
    <3>3. PICK k : claimCall' = [claimCall EXCEPT ![c] = k] /\ k.pc = pc /\ ClaimCall(k)
      BY <2>4, <3>2
    <3>4. \A d \in Calls : claimCall[d].pc \notin Posting
      BY <3>1 DEF ClaimsInv, OnePosts
    <3>5. \A d \in Calls : claimCall'[d] = IF d = c THEN k ELSE claimCall[d]
      BY <3>3 DEF ClaimsInv
    <3>6. \A d \in Calls : ClaimCall(claimCall'[d])
      BY <2>1, <3>3, <3>5 DEF ClaimsInv
    <3>7. OnePosts'
      BY <2>1, <3>2, <3>3, <3>4, <3>5 DEF OnePosts, Posting
    <3>8. ~(claimPosted /\ ~claimUnsure)
      BY <3>1 DEF ClaimsInv
    <3>9. claimCall' = [d \in Calls |-> claimCall'[d]]
      BY <3>3 DEF ClaimsInv
    <3> QED
      BY <2>1, <3>1, <3>6, <3>7, <3>8, <3>9 DEF ClaimsInv
  <2>6. CASE claimDoc # claimCall[c].seen
    <3>1. PICK pc \in {"ok", "failed"} : Claims!Goto(c, pc) /\ UNCHANGED claimDoc
      BY <1>8, <2>6 DEF Claims!Swap
    <3>2. PICK k : claimCall' = [claimCall EXCEPT ![c] = k] /\ k.pc = pc /\ ClaimCall(k)
      BY <2>4, <3>1
    <3> QED
      BY <2>1, <2>3, <3>1, <3>2, ElsewhereOnClaim DEF Posting
  <2> QED
    BY <2>5, <2>6
<1>9. ASSUME NEW c \in Calls, Claims!Insert(c) PROVE ClaimsInv'
  <2>1. /\ claimCall[c].pc = "write" /\ claimCall[c].act = "submit"
           /\ UNCHANGED <<claimTopic, claimPosted, claimUnsure>> /\ Claims!Goto(c, "ok")
        /\ claimDoc' = IF claimDoc = "NONE" THEN "SUBMITTED" ELSE claimDoc
    BY <1>9 DEF Claims!Insert, Claims!At, Claims!Act, Claims!ledger, Claims!Target, ClaimsInv
  <2>2. PICK k : /\ claimCall' = [claimCall EXCEPT ![c] = k] /\ k.pc = "ok" /\ k.act = claimCall[c].act
                 /\ k = [pc |-> k.pc, role |-> k.role, act |-> k.act, seen |-> k.seen, at |-> k.at,
                         waits |-> k.waits]
    BY <2>1, ClaimGoesOn DEF ClaimsInv
  <2>3. ClaimCall(k)
    BY <2>1, <2>2 DEF ClaimCall, ClaimActs
  <2>4. \A d \in Calls : claimCall'[d] = IF d = c THEN k ELSE claimCall[d]
    BY <2>2 DEF ClaimsInv
  <2>5. \A d \in Calls : ClaimCall(claimCall'[d])
    BY <2>1, <2>3, <2>4 DEF ClaimsInv
  <2>6. claimCall' = [d \in Calls |-> claimCall'[d]]
    BY <2>2 DEF ClaimsInv
  <2>7. OnePosts'
    BY <2>1, <2>2, <2>4 DEF ClaimsInv, OnePosts, Posting
  <2> QED
    BY <2>1, <2>5, <2>6, <2>7 DEF ClaimsInv
<1>10. ASSUME NEW c \in Calls, Claims!PunchIn(c) \/ Claims!PunchOut(c) PROVE ClaimsInv'
  BY <1>10 DEF Claims!PunchIn, Claims!PunchOut, Claims!At, Claims!Act, ClaimsInv, ClaimCall, ClaimActs
<1>11. ASSUME NEW c \in Calls, Claims!Post(c) \/ Claims!Undo(c) \/ Claims!Finish(c) PROVE ClaimsInv'
  <2>1. /\ claimCall[c].pc \in Posting /\ claimDoc = "POSTING" /\ claimCall[c].act \in ClaimActs
           /\ UNCHANGED claimTopic
        /\ \A d \in Calls \ {c} : claimCall[d].pc \notin Posting
        /\ claimPosted \in BOOLEAN /\ claimUnsure \in BOOLEAN
    BY <1>11 DEF Claims!Post, Claims!Undo, Claims!Finish, Claims!At, ClaimsInv, OnePosts, ClaimCall, Posting
  <2>2. PICK pc : Claims!Goto(c, pc) /\ pc \in {"finish", "undo", "failed", "ok"}
    BY <1>11 DEF Claims!Post, Claims!Undo, Claims!Finish
  <2>3. PICK k : /\ claimCall' = [claimCall EXCEPT ![c] = k] /\ k.pc = pc /\ k.act = claimCall[c].act
                 /\ k = [pc |-> k.pc, role |-> k.role, act |-> k.act, seen |-> k.seen, at |-> k.at,
                         waits |-> k.waits]
    BY <2>2, ClaimGoesOn DEF ClaimsInv
  <2>4. ClaimCall(k)
    BY <2>1, <2>2, <2>3 DEF ClaimCall
  <2>5. \A d \in Calls : claimCall'[d] = IF d = c THEN k ELSE claimCall[d]
    BY <2>3 DEF ClaimsInv
  <2>6. \A d \in Calls : ClaimCall(claimCall'[d])
    BY <2>1, <2>4, <2>5 DEF ClaimsInv
  <2>7. claimCall' = [d \in Calls |-> claimCall'[d]]
    BY <2>3 DEF ClaimsInv
  <2>8. CASE Claims!Post(c)
    <3>1. /\ claimDoc' = claimDoc /\ \/ claimPosted' = TRUE /\ k.pc = "finish" /\ claimUnsure' = claimUnsure
                                     \/ k.pc = "undo" /\ claimPosted' = TRUE /\ claimUnsure' = TRUE
                                     \/ k.pc = "undo" /\ claimPosted' = FALSE /\ claimUnsure' = claimUnsure
      <4>1. ASSUME NEW q, Claims!Goto(c, q) PROVE k.pc = q
        <5>1. PICK w : claimCall' = [claimCall EXCEPT ![c] = w] /\ w.pc = q
          BY <4>1, ClaimGoesOn DEF ClaimsInv
        <5> QED
          BY <2>3, <5>1 DEF ClaimsInv
      <4> QED
        BY <2>1, <2>8, <4>1 DEF Claims!Post, Claims!ledger
    <3>2. OnePosts'
      BY <2>1, <2>5, <3>1 DEF OnePosts, Posting
    <3> QED
      BY <2>1, <2>6, <2>7, <3>1, <3>2 DEF ClaimsInv
  <2>9. CASE Claims!Undo(c)
    <3>1. claimDoc' = "VERIFIED" /\ UNCHANGED <<claimPosted, claimUnsure>> /\ (~claimPosted \/ claimUnsure)
      BY <2>1, <2>9 DEF Claims!Undo, Claims!ledger, Claims!At, ClaimsInv, OnePosts
    <3>2. k.pc = "failed"
      <4>1. PICK w : claimCall' = [claimCall EXCEPT ![c] = w] /\ w.pc = "failed"
        BY <2>9, ClaimGoesOn DEF ClaimsInv, Claims!Undo
      <4> QED
        BY <2>3, <4>1 DEF ClaimsInv
    <3>3. OnePosts'
      BY <2>1, <2>5, <3>1, <3>2 DEF OnePosts, Posting
    <3> QED
      BY <2>1, <2>6, <2>7, <3>1, <3>3 DEF ClaimsInv
  <2>10. CASE Claims!Finish(c)
    <3>1. claimDoc' = "APPROVED" /\ UNCHANGED <<claimPosted, claimUnsure>> /\ claimPosted
      BY <2>1, <2>10 DEF Claims!Finish, Claims!ledger, Claims!At, ClaimsInv, OnePosts
    <3>2. k.pc = "ok"
      <4>1. PICK w : claimCall' = [claimCall EXCEPT ![c] = w] /\ w.pc = "ok"
        BY <2>1, <2>10, ClaimGoesOn DEF ClaimsInv, Claims!Finish
      <4> QED
        BY <2>3, <4>1 DEF ClaimsInv
    <3>3. OnePosts'
      BY <2>1, <2>5, <3>1, <3>2 DEF OnePosts, Posting
    <3> QED
      BY <2>1, <2>6, <2>7, <3>1, <3>3 DEF ClaimsInv
  <2> QED
    BY <1>11, <2>8, <2>9, <2>10
<1>12. CASE UNCHANGED Claims!vars
  BY <1>12 DEF Claims!vars, Claims!ledger, ClaimsInv, OnePosts
<1> QED
  BY <1>1, <1>2, <1>3, <1>4, <1>5, <1>6, <1>7, <1>8, <1>9, <1>10, <1>11, <1>12 DEF Claims!Next, Claims!Step

\* So the ledger and the claim go together.
LEMMA LedgerFollows == ClaimsInv => Claims!LedgerFollowsClaims
  BY DEF ClaimsInv, Claims!LedgerFollowsClaims

-----------------------------------------------------------------------------
(* PlantDesk: a request that writes a row has found it in the plant it was *)
(* pressed for.                                                            *)

\* A request, and the row that it may write.
FoundRequest(k) ==
  /\ k = [pc |-> k.pc, op |-> k.op, plant |-> k.plant, row |-> k.row, arg |-> k.arg, ui |-> k.ui]
  /\ k.pc = "post" => k.op = "purchase"
  /\ k.pc \in {"write", "post"} /\ k.op \in {"status", "person", "adjust", "purchase"} => k.row = k.plant

RowsInv ==
  /\ deskDesk = [c \in DeskCalls |-> deskDesk[c]] /\ \A c \in DeskCalls : FoundRequest(deskDesk[c])
  /\ deskMixer = [p \in Desk!Plants |-> deskMixer[p]] /\ deskActive = [p \in Desk!Plants |-> deskActive[p]]
  /\ deskStock = [p \in Desk!Plants |-> deskStock[p]] /\ deskReceipts = [p \in Desk!Plants |-> deskReceipts[p]]

\* Nothing is on its way at first.
LEMMA RowsStart == ASSUME Desk!Init PROVE RowsInv
<1>1. FoundRequest(Desk!Free)
  BY DEF Desk!Free, FoundRequest
<1> QED
  BY <1>1 DEF Desk!Init, RowsInv

\* One request takes a step.
LEMMA RequestMoves ==
  ASSUME RowsInv, NEW c \in DeskCalls, NEW k, FoundRequest(k), deskDesk' = [deskDesk EXCEPT ![c] = k],
         deskMixer' = [p \in Desk!Plants |-> deskMixer'[p]], deskActive' = [p \in Desk!Plants |-> deskActive'[p]],
         deskStock' = [p \in Desk!Plants |-> deskStock'[p]], deskReceipts' =
             [p \in Desk!Plants |-> deskReceipts'[p]]
  PROVE  RowsInv'
<1>1. deskDesk' = [d \in DeskCalls |-> IF d = c THEN k ELSE deskDesk[d]]
  BY DEF RowsInv
<1>2. \A d \in DeskCalls : FoundRequest(deskDesk'[d])
  BY <1>1 DEF RowsInv
<1> QED
  BY <1>1, <1>2 DEF RowsInv

\* The stores, as every action leaves them.
LEMMA RowsKeepTheirPlants ==
  ASSUME RowsInv, [Desk!Next]_(Desk!vars)
  PROVE  /\ deskMixer' = [p \in Desk!Plants |-> deskMixer'[p]]
            /\ deskActive' = [p \in Desk!Plants |-> deskActive'[p]]
         /\ deskStock' = [p \in Desk!Plants |-> deskStock'[p]]
            /\ deskReceipts' = [p \in Desk!Plants |-> deskReceipts'[p]]
<1>1. CASE UNCHANGED Desk!rows
  BY <1>1 DEF Desk!rows, Desk!stores, RowsInv
<1>2. CASE Desk!MixerTaken(FirstPlant)
  BY <1>2 DEF Desk!MixerTaken, Desk!stores, RowsInv
<1>3. ASSUME NEW c \in DeskCalls,
             \/ Desk!PutProfile(c) \/ Desk!Append(c) \/ Desk!SetVehicleStatus(c) \/ Desk!SetStaffStatus(c)
             \/ Desk!CheckIn(c) \/ Desk!CheckOut(c) \/ Desk!Adjust(c) \/ Desk!InsertReceipt(c)
      PROVE  /\ deskMixer' = [p \in Desk!Plants |-> deskMixer'[p]]
                /\ deskActive' = [p \in Desk!Plants |-> deskActive'[p]]
             /\ deskStock' = [p \in Desk!Plants |-> deskStock'[p]]
                /\ deskReceipts' = [p \in Desk!Plants |-> deskReceipts'[p]]
  BY <1>3 DEF Desk!PutProfile, Desk!Append, Desk!SetVehicleStatus, Desk!SetStaffStatus, Desk!CheckIn,
     Desk!CheckOut, Desk!Adjust, Desk!InsertReceipt,
     Desk!rows, Desk!stores, RowsInv
<1>4. ASSUME NEW c \in DeskCalls, Desk!PostReceipt(c)
      PROVE  /\ deskMixer' = [p \in Desk!Plants |-> deskMixer'[p]]
                /\ deskActive' = [p \in Desk!Plants |-> deskActive'[p]]
             /\ deskStock' = [p \in Desk!Plants |-> deskStock'[p]]
                /\ deskReceipts' = [p \in Desk!Plants |-> deskReceipts'[p]]
  BY <1>4 DEF Desk!PostReceipt, RowsInv
<1>5. CASE Desk!Next /\ ~UNCHANGED Desk!rows
  BY <1>1, <1>2, <1>3, <1>4, <1>5 DEF Desk!Next, Desk!Refresh, Desk!OpenForm, Desk!CloseForm, Desk!Submit,
     Desk!Toggle, Desk!OpenAdjustment, Desk!SubmitAdjustment,
     Desk!Colleague, Desk!SelectPlant, Desk!Land, Desk!Answered, Desk!GiveUp, Desk!Find, Desk!Read, Desk!Dropped
<1> QED
  BY <1>1, <1>5 DEF Desk!vars

\* A request that starts has found nothing yet.
LEMMA Starting ==
  ASSUME RowsInv, NEW op, NEW p, NEW row, NEW arg, NEW ui, Desk!Start(op, p, row, arg, ui)
  PROVE  \E c \in DeskCalls : \E k : /\ deskDesk[c] = Desk!Free /\ deskDesk' = [deskDesk EXCEPT ![c] = k]
                                        /\ FoundRequest(k)
                               /\ k = [pc |-> "sent", op |-> op, plant |-> p, row |-> row, arg |-> arg, ui |-> ui]
<1> DEFINE c == CHOOSE d \in {e \in DeskCalls : deskDesk[e] = Desk!Free} : TRUE
<1>1. c \in DeskCalls /\ deskDesk[c] = Desk!Free
  BY DEF Desk!Start
<1>2. PICK k : k = [pc |-> "sent", op |-> op, plant |-> p, row |-> row, arg |-> arg, ui |-> ui]
  OBVIOUS
<1>3. FoundRequest(k)
  BY <1>2 DEF FoundRequest
<1>4. deskDesk' = [deskDesk EXCEPT ![c] = k]
  BY <1>2 DEF Desk!Start
<1> QED
  BY <1>1, <1>2, <1>3, <1>4

\* A request is at another point of its handler.
LEMMA PcMoves ==
  ASSUME RowsInv, NEW c \in DeskCalls, NEW pc, Desk!Pc(c, pc),
         pc = "post" => deskDesk[c].op = "purchase",
         pc \in {"write", "post"} /\ deskDesk[c].op \in {"status", "person", "adjust", "purchase"} =>
           deskDesk[c].row = deskDesk[c].plant
  PROVE  \E k : FoundRequest(k) /\ deskDesk' = [deskDesk EXCEPT ![c] = k]
<1>1. PICK j : j = deskDesk[c] /\ FoundRequest(j)
  BY DEF RowsInv
<1>2. PICK k : k = [pc |-> pc, op |-> j.op, plant |-> j.plant, row |-> j.row, arg |-> j.arg, ui |-> j.ui]
  OBVIOUS
<1>3. [j EXCEPT !.pc = pc] = k
  BY <1>1, <1>2 DEF FoundRequest
<1>4. deskDesk' = [deskDesk EXCEPT ![c] = k]
  BY <1>1, <1>3 DEF Desk!Pc
<1>5. FoundRequest(k)
  BY <1>1, <1>2 DEF FoundRequest
<1> QED
  BY <1>4, <1>5

\* The screen lets go of a request, or loads after it.
LEMMA AnswersMove ==
  ASSUME RowsInv, NEW c \in DeskCalls, Desk!Land(c) \/ Desk!Answered(c) \/ Desk!GiveUp(c) \/ Desk!Dropped(c)
  PROVE  \E k : FoundRequest(k) /\ deskDesk' = [deskDesk EXCEPT ![c] = k]
<1>1. FoundRequest(Desk!Free)
  BY DEF Desk!Free, FoundRequest
<1>2. PICK j : j = deskDesk[c] /\ FoundRequest(j)
  BY DEF RowsInv
<1>3. CASE deskDesk' = [deskDesk EXCEPT ![c] = Desk!Free]
  BY <1>1, <1>3
<1>4. CASE deskDesk' = [deskDesk EXCEPT ![c] =
             [Desk!Free EXCEPT !.pc = "sent", !.plant = deskDesk[c].plant, !.ui = TRUE]]
  <2>1. PICK k : k = [Desk!Free EXCEPT !.pc = "sent", !.plant = deskDesk[c].plant, !.ui = TRUE]
    OBVIOUS
  <2>2. FoundRequest(k)
    BY <2>1 DEF Desk!Free, FoundRequest
  <2> QED
    BY <1>4, <2>1, <2>2
<1>5. CASE deskDesk' = [deskDesk EXCEPT ![c].ui = FALSE]
  <2>1. PICK k : k = [j EXCEPT !.ui = FALSE]
    OBVIOUS
  <2>2. FoundRequest(k)
    BY <1>2, <2>1 DEF FoundRequest
  <2>3. deskDesk' = [deskDesk EXCEPT ![c] = k]
    BY <1>2, <1>5, <2>1
  <2> QED
    BY <2>2, <2>3
<1> QED
  BY <1>3, <1>4, <1>5 DEF Desk!Land, Desk!Answered, Desk!GiveUp, Desk!Dropped

\* A row is found, or a list read.
LEMMA ReadsMove ==
  ASSUME RowsInv, NEW c \in DeskCalls, Desk!Find(c) \/ Desk!Read(c)
  PROVE  \E k : FoundRequest(k) /\ deskDesk' = [deskDesk EXCEPT ![c] = k]
<1>1. PICK j : j = deskDesk[c] /\ FoundRequest(j)
  BY DEF RowsInv
<1>2. CASE Desk!Pc(c, "failed")
  BY <1>2, PcMoves
<1>3. CASE Desk!Find(c) /\ Desk!Judged(c)
  <2>1. PICK a : a = IF j.op = "adjust" THEN [delta |-> j.arg, seen |-> deskStock[j.row]] ELSE j.arg
    OBVIOUS
  <2>2. PICK k : k = [j EXCEPT !.pc = "write", !.arg = a]
    OBVIOUS
  <2>3. [j EXCEPT !.pc = "write",
                  !.arg = IF j.op = "adjust" THEN [delta |-> @, seen |-> deskStock[j.row]] ELSE @] = k
    BY <2>1, <2>2
  <2>4. deskDesk' = [deskDesk EXCEPT ![c] =
          [j EXCEPT !.pc = "write",
                    !.arg = IF j.op = "adjust" THEN [delta |-> @, seen |-> deskStock[j.row]] ELSE @]]
    BY <1>1, <1>3 DEF Desk!Find
  <2>5. j.op \in {"status", "person", "adjust", "purchase"} => j.row = j.plant
    BY <1>1, <1>3 DEF Desk!Judged, Desk!Found
  <2>6. FoundRequest(k)
    BY <1>1, <2>2, <2>5 DEF FoundRequest
  <2> QED
    BY <2>3, <2>4, <2>6
<1>4. CASE Desk!Read(c)
  <2>1. CASE deskDesk' = [deskDesk EXCEPT ![c].pc = "ok", ![c].arg = Desk!Shown(deskDesk[c].plant)]
    <3>1. PICK s : s = Desk!Shown(deskDesk[c].plant)
      OBVIOUS
    <3>2. PICK k : k = [j EXCEPT !.pc = "ok", !.arg = s]
      OBVIOUS
    <3>3. FoundRequest(k)
      BY <1>1, <3>2 DEF FoundRequest
    <3>4. deskDesk' = [deskDesk EXCEPT ![c] = k]
      BY <1>1, <2>1, <3>1, <3>2
    <3> QED
      BY <3>3, <3>4
  <2> QED
    BY <1>2, <1>4, <2>1 DEF Desk!Read
<1> QED
  BY <1>2, <1>3, <1>4 DEF Desk!Find

\* A row is written.
LEMMA WritesMove ==
  ASSUME RowsInv, NEW c \in DeskCalls,
         \/ Desk!PutProfile(c) \/ Desk!Append(c) \/ Desk!SetVehicleStatus(c) \/ Desk!SetStaffStatus(c)
         \/ Desk!CheckIn(c) \/ Desk!CheckOut(c) \/ Desk!Adjust(c) \/ Desk!InsertReceipt(c) \/ Desk!PostReceipt(c)
  PROVE  \E k : FoundRequest(k) /\ deskDesk' = [deskDesk EXCEPT ![c] = k]
<1>1. FoundRequest(deskDesk[c])
  BY DEF RowsInv
<1>2. CASE \E pc \in {"ok", "failed"} : Desk!Pc(c, pc)
  BY <1>2, PcMoves
<1>3. CASE Desk!Writing(c, "purchase") /\ Desk!Pc(c, "post")
  BY <1>1, <1>3, PcMoves DEF Desk!Writing, FoundRequest
<1> QED
  BY <1>2, <1>3 DEF Desk!PutProfile, Desk!Append, Desk!SetVehicleStatus, Desk!SetStaffStatus, Desk!CheckIn,
     Desk!CheckOut, Desk!Adjust, Desk!InsertReceipt, Desk!PostReceipt

\* Every step keeps the invariant.
LEMMA RowsSteady == ASSUME RowsInv, [Desk!Next]_(Desk!vars) PROVE RowsInv'
<1>1. /\ deskMixer' = [p \in Desk!Plants |-> deskMixer'[p]] /\ deskActive' = [p \in Desk!Plants |-> deskActive'[p]]
      /\ deskStock' = [p \in Desk!Plants |-> deskStock'[p]]
         /\ deskReceipts' = [p \in Desk!Plants |-> deskReceipts'[p]]
  BY RowsKeepTheirPlants
<1>2. ASSUME NEW c \in DeskCalls, \E k : FoundRequest(k) /\ deskDesk' = [deskDesk EXCEPT ![c] = k] PROVE RowsInv'
  BY <1>1, <1>2, RequestMoves
<1>3. ASSUME NEW op, NEW p, NEW row, NEW arg, NEW ui, Desk!Start(op, p, row, arg, ui) PROVE RowsInv'
  BY <1>2, <1>3, Starting
<1>4. CASE UNCHANGED deskDesk
  BY <1>1, <1>4 DEF RowsInv
<1>5. CASE \/ Desk!OpenForm \/ Desk!CloseForm \/ Desk!OpenAdjustment \/ Desk!MixerTaken(FirstPlant)
      \/ UNCHANGED Desk!vars
  BY <1>4, <1>5 DEF Desk!OpenForm, Desk!CloseForm, Desk!OpenAdjustment, Desk!MixerTaken, Desk!screen, Desk!vars
<1>6. CASE Desk!Refresh \/ Desk!Submit \/ Desk!Toggle \/ Desk!SubmitAdjustment \/ Desk!Colleague(FirstPlant)
      \/ \E p \in Desk!Plants : Desk!SelectPlant(p)
  BY <1>3, <1>6 DEF Desk!Refresh, Desk!Submit, Desk!Toggle, Desk!SubmitAdjustment, Desk!Colleague,
     Desk!SelectPlant, Desk!Send
<1>7. ASSUME NEW c \in DeskCalls,
             \/ Desk!Land(c) \/ Desk!Answered(c) \/ Desk!GiveUp(c) \/ Desk!Dropped(c) \/ Desk!Find(c)
                \/ Desk!Read(c)
             \/ Desk!PutProfile(c) \/ Desk!Append(c) \/ Desk!SetVehicleStatus(c) \/ Desk!SetStaffStatus(c)
             \/ Desk!CheckIn(c) \/ Desk!CheckOut(c) \/ Desk!Adjust(c) \/ Desk!InsertReceipt(c)
                \/ Desk!PostReceipt(c)
      PROVE  RowsInv'
  BY <1>2, <1>7, AnswersMove, ReadsMove, WritesMove
<1> QED
  BY <1>5, <1>6, <1>7 DEF Desk!Next

\* A write changes the row it has found, so that of the plant of its request.
LEMMA WritesItsOwnRow ==
  ASSUME RowsInv, NEW c \in DeskCalls, NEW p \in Desk!Plants \ {deskDesk[c].plant},
         \/ Desk!PutProfile(c) \/ Desk!Append(c) \/ Desk!SetVehicleStatus(c) \/ Desk!SetStaffStatus(c)
         \/ Desk!CheckIn(c) \/ Desk!CheckOut(c) \/ Desk!Adjust(c) \/ Desk!InsertReceipt(c) \/ Desk!PostReceipt(c)
  PROVE  Desk!RowsOf(p)' = Desk!RowsOf(p)
<1>1. FoundRequest(deskDesk[c]) /\ deskDesk[c].pc \in {"write", "post"}
  BY DEF RowsInv, Desk!PutProfile, Desk!Append, Desk!SetVehicleStatus, Desk!SetStaffStatus, Desk!CheckIn,
     Desk!CheckOut, Desk!Adjust, Desk!InsertReceipt, Desk!PostReceipt, Desk!Writing
<1>2. CASE UNCHANGED <<deskMixer, deskActive, deskStock, deskReceipts>>
  BY <1>2 DEF Desk!RowsOf
<1>3. CASE Desk!SetVehicleStatus(c) \/ Desk!SetStaffStatus(c) \/ Desk!Adjust(c) \/ Desk!InsertReceipt(c)
      \/ Desk!PostReceipt(c)
  <2>1. deskDesk[c].row # p
    BY <1>1, <1>3 DEF FoundRequest, Desk!SetVehicleStatus, Desk!SetStaffStatus, Desk!Adjust, Desk!InsertReceipt,
       Desk!PostReceipt, Desk!Writing
  <2> QED
    BY <1>3, <2>1 DEF Desk!SetVehicleStatus, Desk!SetStaffStatus, Desk!Adjust, Desk!InsertReceipt,
       Desk!PostReceipt, RowsInv, Desk!RowsOf, Desk!stores
<1> QED
  BY <1>2, <1>3 DEF Desk!PutProfile, Desk!Append, Desk!CheckIn, Desk!CheckOut, Desk!rows, Desk!stores

\* So a request that is writing touches no other plant.
LEMMA WritesStay ==
  ASSUME RowsInv, [Desk!Next]_(Desk!vars)
  PROVE  [\A c \in DeskCalls : deskDesk[c].pc \in {"write", "post"} /\ deskDesk'[c].pc # deskDesk[c].pc
            => \A p \in Desk!Plants \ {deskDesk[c].plant} : Desk!RowsOf(p)' = Desk!RowsOf(p)]_(Desk!vars)
<1> SUFFICES ASSUME NEW c \in DeskCalls, deskDesk[c].pc \in {"write", "post"}, deskDesk'[c].pc # deskDesk[c].pc,
                    NEW p \in Desk!Plants \ {deskDesk[c].plant}
             PROVE  Desk!RowsOf(p)' = Desk!RowsOf(p)
  OBVIOUS
<1>1. CASE UNCHANGED Desk!rows
  BY <1>1 DEF Desk!rows, Desk!stores, Desk!RowsOf
<1>2. CASE Desk!MixerTaken(FirstPlant)
  BY <1>2 DEF Desk!MixerTaken
<1>3. ASSUME NEW d \in DeskCalls,
             \/ Desk!PutProfile(d) \/ Desk!Append(d) \/ Desk!SetVehicleStatus(d) \/ Desk!SetStaffStatus(d)
             \/ Desk!CheckIn(d) \/ Desk!CheckOut(d) \/ Desk!Adjust(d) \/ Desk!InsertReceipt(d)
                \/ Desk!PostReceipt(d)
      PROVE  Desk!RowsOf(p)' = Desk!RowsOf(p)
  <2>1. PICK k : deskDesk' = [deskDesk EXCEPT ![d] = k]
    BY <1>3, WritesMove
  <2>2. c = d
    BY <2>1 DEF RowsInv
  <2> QED
    BY <1>3, <2>2, WritesItsOwnRow
<1>4. CASE Desk!Next
  BY <1>1, <1>2, <1>3, <1>4 DEF Desk!Next, Desk!Refresh, Desk!OpenForm, Desk!CloseForm, Desk!Submit, Desk!Toggle,
     Desk!OpenAdjustment, Desk!SubmitAdjustment,
     Desk!Colleague, Desk!SelectPlant, Desk!Land, Desk!Answered, Desk!GiveUp, Desk!Find, Desk!Read, Desk!Dropped
<1> QED
  BY <1>1, <1>4 DEF Desk!vars

-----------------------------------------------------------------------------
(* OrderDesk: an order never comes back to a status it has left, and a     *)
(* request moves it only from the status it has seen.                      *)

Statuses == DOMAIN Ordering!TRANSITIONS
Rank == [PENDING |-> 0, ACCEPTED |-> 1, PRODUCTION_COMPLETE |-> 2, READY_TO_DISPATCH |-> 3,
         DISPATCHED |-> 4, REJECTED |-> 5, CANCELLED |-> 6]

DeskCall(k) ==
  /\ k = [by |-> k.by, does |-> k.does, l |-> k.l, crew |-> k.crew, note |-> k.note, seen |-> k.seen,
          heard |-> k.heard, pc |-> k.pc]
  /\ k.pc = "move" => k.seen \in Statuses /\ k.does \in Ordering!TRANSITIONS[k.seen]

MovesInv ==
  /\ ordStatus \in Statuses
  /\ \A m \in history : /\ m.from \in Statuses /\ Rank[m.from] < Rank[ordStatus]
                        /\ m.to \in {"REJECTED", "CANCELLED"} => ordStatus = m.to
  /\ \A m, n \in history : m.from = n.from => m = n

OrdersInv == ordCalls = [c \in Calls |-> ordCalls[c]] /\ (\A c \in Calls : DeskCall(ordCalls[c])) /\ MovesInv

\* A transition leads on, and none leads from where an order is refused or cancelled.
LEMMA TransitionsLeadOn ==
  ASSUME NEW s \in Statuses, NEW t \in Ordering!TRANSITIONS[s]
  PROVE  t \in Statuses /\ Rank[s] < Rank[t] /\ s \notin {"REJECTED", "CANCELLED"}
<1>1. s \in {"PENDING", "ACCEPTED", "PRODUCTION_COMPLETE", "READY_TO_DISPATCH", "DISPATCHED", "REJECTED",
             "CANCELLED"}
  BY DEF Statuses, Ordering!TRANSITIONS
<1>2. CASE s = "PENDING"
  BY <1>2 DEF Statuses, Ordering!TRANSITIONS, Rank
<1>3. CASE s = "ACCEPTED"
  BY <1>3 DEF Statuses, Ordering!TRANSITIONS, Rank
<1>4. CASE s = "PRODUCTION_COMPLETE"
  BY <1>4 DEF Statuses, Ordering!TRANSITIONS, Rank
<1>5. CASE s = "READY_TO_DISPATCH"
  BY <1>5 DEF Statuses, Ordering!TRANSITIONS, Rank
<1>6. CASE s \in {"DISPATCHED", "REJECTED", "CANCELLED"}
  BY <1>6 DEF Ordering!TRANSITIONS
<1> QED
  BY <1>1, <1>2, <1>3, <1>4, <1>5, <1>6

LEMMA RanksAreNat == ASSUME NEW s \in Statuses PROVE Rank[s] \in Nat
  BY DEF Statuses, Ordering!TRANSITIONS, Rank

LEMMA OrdersStart == Ordering!Init => OrdersInv
<1> SUFFICES ASSUME Ordering!Init PROVE OrdersInv
  OBVIOUS
<1>1. \A c \in Calls : ordCalls[c] = Ordering!Free
  BY DEF Ordering!Init
<1>2. DeskCall(Ordering!Free)
  BY DEF DeskCall, Ordering!Free
<1>3. ordStatus \in Statuses
  BY DEF Ordering!Init, Statuses, Ordering!TRANSITIONS
<1> QED
  BY <1>1, <1>2, <1>3 DEF Ordering!Init, OrdersInv, MovesInv

\* One call moves.
LEMMA DeskMoves ==
  ASSUME OrdersInv, NEW c \in Calls, NEW k, ordCalls' = [ordCalls EXCEPT ![c] = k], DeskCall(k)
  PROVE  ordCalls' = [d \in Calls |-> ordCalls'[d]] /\ \A d \in Calls : DeskCall(ordCalls'[d])
  BY DEF OrdersInv

LEMMA DeskTo ==
  ASSUME OrdersInv, NEW c \in Calls, NEW pc, Ordering!To(c, pc), pc # "move"
  PROVE  ordCalls' = [d \in Calls |-> ordCalls'[d]] /\ \A d \in Calls : DeskCall(ordCalls'[d])
<1>1. PICK j : j = ordCalls[c] /\ DeskCall(j)
  BY DEF OrdersInv
<1>2. PICK k : k = [j EXCEPT !.pc = pc]
  OBVIOUS
<1>3. DeskCall(k) /\ ordCalls' = [ordCalls EXCEPT ![c] = k]
  BY <1>1, <1>2 DEF DeskCall, Ordering!To
<1> QED
  BY <1>3, DeskMoves

LEMMA DeskSends ==
  ASSUME OrdersInv, NEW p, NEW does, NEW l, NEW cr, NEW note, Ordering!Send(p, does, l, cr, note)
  PROVE  ordCalls' = [d \in Calls |-> ordCalls'[d]] /\ \A d \in Calls : DeskCall(ordCalls'[d])
<1>1. PICK k : k = [by |-> p, does |-> does, l |-> l, crew |-> cr, note |-> note, seen |-> None, heard |-> TRUE,
                    pc |-> "sent"]
  OBVIOUS
<1>2. PICK c \in Calls : ordCalls' = [ordCalls EXCEPT ![c] = k]
  BY <1>1 DEF Ordering!Send
<1>3. DeskCall(k)
  BY <1>1 DEF DeskCall
<1> QED
  BY <1>2, <1>3, DeskMoves

\* The order follows a transition; a move that is recorded is from where it was.
LEMMA MovesOn ==
  ASSUME MovesInv, ordStatus' \in Ordering!TRANSITIONS[ordStatus],
         history' = history
         \/ \E note : history' = history \cup {[from |-> ordStatus, to |-> ordStatus', note |-> note]}
  PROVE  MovesInv'
<1>1. /\ ordStatus' \in Statuses /\ Rank[ordStatus] < Rank[ordStatus'] /\ ordStatus \notin {"REJECTED", "CANCELLED"}
      /\ ordStatus \in Statuses /\ Rank[ordStatus] \in Nat /\ Rank[ordStatus'] \in Nat
  BY TransitionsLeadOn, RanksAreNat DEF MovesInv
<1>2. \A m \in history : /\ m.from \in Statuses /\ Rank[m.from] \in Nat /\ Rank[m.from] < Rank[ordStatus]
                         /\ m.to \notin {"REJECTED", "CANCELLED"} /\ m.from # ordStatus
  BY <1>1, RanksAreNat DEF MovesInv
<1>3. \A m \in history' : m \in history \/ (m.from = ordStatus /\ m.to = ordStatus')
  OBVIOUS
<1>4. \A m \in history' : /\ m.from \in Statuses /\ Rank[m.from] < Rank[ordStatus']
                          /\ m.to \in {"REJECTED", "CANCELLED"} => ordStatus' = m.to
  BY <1>1, <1>2, <1>3
<1>5. \A m, n \in history' : m.from = n.from => m = n
  BY <1>2 DEF MovesInv
<1> QED
  BY <1>1, <1>4, <1>5 DEF MovesInv

\* Every step keeps the invariant.
LEMMA OrdersSteady == ASSUME OrdersInv, [Ordering!Next]_(Ordering!vars) PROVE OrdersInv'
<1>1. CASE \/ \E p \in Ordering!People : Ordering!Reload(p)
           \/ Ordering!OpenReject \/ Ordering!Refresh \/ Ordering!OpenAdd \/ Ordering!CloseAssign
           \/ \E r \in Reasons : Ordering!TypeReason(r)
           \/ \E v \in Crews : Ordering!ChooseCrew(v)
           \/ \E l \in Loads : Ordering!OpenAssign(l)
  <2>1. UNCHANGED <<ordStatus, history, ordCalls>>
    BY <1>1 DEF Ordering!Reload, Ordering!OpenReject, Ordering!Refresh, Ordering!OpenAdd, Ordering!CloseAssign,
       Ordering!TypeReason, Ordering!ChooseCrew, Ordering!OpenAssign, Ordering!server
  <2> QED
    BY <2>1 DEF OrdersInv, MovesInv
<1>2. ASSUME NEW p, NEW does, NEW l, NEW cr, NEW note, Ordering!Send(p, does, l, cr, note),
             UNCHANGED Ordering!server
      PROVE  OrdersInv'
  BY <1>2, DeskSends DEF OrdersInv, MovesInv, Ordering!server
<1>3. CASE Ordering!Approve \/ Ordering!Reject \/ Ordering!CancelOrder
  BY <1>2, <1>3 DEF Ordering!Approve, Ordering!Reject, Ordering!CancelOrder, Ordering!Act
<1>4. CASE Ordering!SaveAssignment \/ \E l \in Loads : Ordering!CreateLoad(l) \/ Ordering!Prepare(l)
      \/ Ordering!Dispatch(l) \/ Ordering!CancelLoad(l)
  BY <1>2, <1>4 DEF Ordering!SaveAssignment, Ordering!CreateLoad, Ordering!Prepare, Ordering!Dispatch,
     Ordering!CancelLoad, Ordering!Plan
<1>5. CASE Ordering!Produce
  <2>1. ordStatus' \in Ordering!TRANSITIONS[ordStatus] /\ UNCHANGED <<history, ordCalls>>
    BY <1>5 DEF Ordering!Produce, Ordering!TRANSITIONS
  <2> QED
    BY <2>1, MovesOn DEF OrdersInv
<1>6. ASSUME NEW c \in Calls, NEW ok \in BOOLEAN, Ordering!Answered(c, ok) PROVE OrdersInv'
  <2>1. PICK j : j = ordCalls[c] /\ DeskCall(j)
    BY DEF OrdersInv
  <2>2. PICK k : ordCalls' = [ordCalls EXCEPT ![c] = k] /\ k \in {Ordering!Free, [j EXCEPT !.heard = FALSE]}
    BY <1>6, <2>1 DEF Ordering!Answered
  <2>3. DeskCall(k)
    <3>1. CASE k = Ordering!Free
      BY <3>1 DEF DeskCall, Ordering!Free
    <3>2. CASE k = [j EXCEPT !.heard = FALSE]
      BY <2>1, <3>2 DEF DeskCall
    <3> QED
      BY <2>2, <3>1, <3>2
  <2>4. ordCalls' = [d \in Calls |-> ordCalls'[d]] /\ \A d \in Calls : DeskCall(ordCalls'[d])
    BY <2>2, <2>3, DeskMoves
  <2> QED
    BY <1>6, <2>4 DEF Ordering!Answered, OrdersInv, MovesInv, Ordering!server
<1>7. ASSUME NEW c \in Calls, Ordering!Ended(c) PROVE OrdersInv'
  <2>1. DeskCall(Ordering!Free)
    BY DEF DeskCall, Ordering!Free
  <2>2. ordCalls' = [d \in Calls |-> ordCalls'[d]] /\ \A d \in Calls : DeskCall(ordCalls'[d])
    BY <1>7, <2>1, DeskMoves DEF Ordering!Ended
  <2> QED
    BY <1>7, <2>2 DEF Ordering!Ended, OrdersInv, MovesInv, Ordering!server
<1>8. ASSUME NEW c \in Calls, Ordering!CountPrepared(c) \/ Ordering!Finish(c) \/ Ordering!WriteLoad(c)
      PROVE  OrdersInv'
  <2>1. UNCHANGED <<ordStatus, history>> /\ \E pc \in {"counted", "failed", "ok", "parent"} : Ordering!To(c, pc)
    BY <1>8 DEF Ordering!CountPrepared, Ordering!Finish, Ordering!WriteLoad, Ordering!server
  <2>2. ordCalls' = [d \in Calls |-> ordCalls'[d]] /\ \A d \in Calls : DeskCall(ordCalls'[d])
    BY <2>1, DeskTo
  <2> QED
    BY <2>1, <2>2 DEF OrdersInv, MovesInv
<1>9. ASSUME NEW c \in Calls, Ordering!ReadOrder(c) PROVE OrdersInv'
  <2>1. UNCHANGED <<ordStatus, history>>
    BY <1>9 DEF Ordering!ReadOrder, Ordering!server
  <2>2. ordCalls' = [d \in Calls |-> ordCalls'[d]] /\ \A d \in Calls : DeskCall(ordCalls'[d])
    <3>1. CASE Ordering!To(c, "moved") \/ Ordering!To(c, "failed")
      BY <3>1, DeskTo
    <3>2. CASE ordCalls[c].does \in Ordering!TRANSITIONS[ordStatus]
          /\ ordCalls' = [ordCalls EXCEPT ![c].seen = ordStatus, ![c].pc = "move"]
      <4>1. PICK j : j = ordCalls[c] /\ DeskCall(j)
        BY DEF OrdersInv
      <4>2. PICK k : k = [j EXCEPT !.seen = ordStatus, !.pc = "move"]
        OBVIOUS
      <4>3. DeskCall(k)
        BY <3>2, <4>1, <4>2 DEF DeskCall, OrdersInv, MovesInv
      <4>4. ordCalls' = [ordCalls EXCEPT ![c] = k]
        BY <3>2, <4>1, <4>2
      <4> QED
        BY <4>3, <4>4, DeskMoves
    <3> QED
      BY <1>9, <3>1, <3>2 DEF Ordering!ReadOrder
  <2> QED
    BY <2>1, <2>2 DEF OrdersInv, MovesInv
<1>10. ASSUME NEW c \in Calls, Ordering!MoveOrder(c) PROVE OrdersInv'
  <2>1. \E pc \in {"moved", "failed"} : Ordering!To(c, pc)
    BY <1>10 DEF Ordering!MoveOrder
  <2>2. ordCalls' = [d \in Calls |-> ordCalls'[d]] /\ \A d \in Calls : DeskCall(ordCalls'[d])
    BY <2>1, DeskTo
  <2>3. CASE UNCHANGED <<ordStatus, history>>
    BY <2>2, <2>3 DEF OrdersInv, MovesInv
  <2>4. CASE /\ ordStatus = ordCalls[c].seen /\ ordStatus' = ordCalls[c].does
             /\ history' = history \cup {[from |-> ordCalls[c].seen, to |-> ordCalls[c].does,
                                          note |-> ordCalls[c].note]}
    <3>1. ordStatus' \in Ordering!TRANSITIONS[ordStatus]
      BY <1>10, <2>4 DEF OrdersInv, DeskCall, Ordering!MoveOrder
    <3>2. \E note : history' = history \cup {[from |-> ordStatus, to |-> ordStatus', note |-> note]}
      BY <2>4
    <3> QED
      BY <2>2, <3>1, <3>2, MovesOn DEF OrdersInv
  <2> QED
    BY <1>10, <2>3, <2>4 DEF Ordering!MoveOrder, Ordering!StatusSeen
<1>11. ASSUME NEW c \in Calls, Ordering!ReadLoad(c) PROVE OrdersInv'
  <2>1. UNCHANGED <<ordStatus, history>>
    BY <1>11 DEF Ordering!ReadLoad
  <2>2. ordCalls' = [d \in Calls |-> ordCalls'[d]] /\ \A d \in Calls : DeskCall(ordCalls'[d])
    <3>1. CASE Ordering!To(c, "ok") \/ Ordering!To(c, "failed")
      BY <3>1, DeskTo
    <3>2. CASE ordCalls' = [ordCalls EXCEPT ![c].seen = ordStatus, ![c].pc = "write"]
      <4>1. PICK j : j = ordCalls[c] /\ DeskCall(j)
        BY DEF OrdersInv
      <4>2. PICK k : k = [j EXCEPT !.seen = ordStatus, !.pc = "write"]
        OBVIOUS
      <4>3. DeskCall(k)
        BY <4>1, <4>2 DEF DeskCall
      <4>4. ordCalls' = [ordCalls EXCEPT ![c] = k]
        BY <3>2, <4>1, <4>2
      <4> QED
        BY <4>3, <4>4, DeskMoves
    <3> QED
      BY <1>11, <3>1, <3>2 DEF Ordering!ReadLoad
  <2> QED
    BY <2>1, <2>2 DEF OrdersInv, MovesInv
<1>12. ASSUME NEW c \in Calls, Ordering!MoveParent(c) PROVE OrdersInv'
  <2>1. UNCHANGED history /\ \E pc \in {"ok", "failed"} : Ordering!To(c, pc)
    BY <1>12 DEF Ordering!MoveParent
  <2>2. ordCalls' = [d \in Calls |-> ordCalls'[d]] /\ \A d \in Calls : DeskCall(ordCalls'[d])
    BY <2>1, DeskTo
  <2>3. CASE ordStatus' = ordStatus
    BY <2>1, <2>2, <2>3 DEF OrdersInv, MovesInv
  <2>4. CASE ordStatus' \in Ordering!TRANSITIONS[ordStatus]
    BY <2>1, <2>2, <2>4, MovesOn DEF OrdersInv
  <2> QED
    BY <1>12, <2>3, <2>4 DEF Ordering!MoveParent
<1>13. CASE UNCHANGED Ordering!vars
  BY <1>13 DEF Ordering!vars, Ordering!server, OrdersInv, MovesInv
<1> QED
  BY <1>1, <1>3, <1>4, <1>5, <1>6, <1>7, <1>8, <1>9, <1>10, <1>11, <1>12, <1>13 DEF Ordering!Next

\* So an order is decided once.
LEMMA OrderDecided == OrdersInv => Ordering!DecidedOnce
  BY DEF OrdersInv, MovesInv, Ordering!DecidedOnce

-----------------------------------------------------------------------------
(* WebDemo: the fields of an open proof are of its order, and as they were *)
(* signed until one is edited; the truck shown is that of the order shown. *)

MockAssumption == MockOrders \in Seq(Demo!ToSet(MockOrders)) /\ MockOrders # <<>>

ProofFields(p) == p = [quantity |-> p.quantity, rest |-> p.rest]

ProofInv ==
  /\ pod = [o \in Demo!Ids |-> pod[o]]
  /\ \A o \in Demo!Ids : pod[o] # None => ProofFields(pod[o]) /\ pod[o].quantity[1] = o
  /\ ProofFields(demoForm)
  /\ podOrder # None => podOrder \in Demo!Ids /\ demoForm.quantity[1] = podOrder
  /\ podOrder # None /\ ~edited /\ pod[podOrder] # None => demoForm = pod[podOrder]

TrackerInv ==
  /\ orders \in Seq(Demo!Ids) /\ orders # <<>> /\ demoSelected \in Demo!ToSet(orders)
  /\ demoStatus = [o \in Demo!Ids |-> demoStatus[o]]
  /\ tracker = [on |-> tracker.on, moving |-> tracker.moving] /\ Demo!MovesOnTheRoad

DemoInv == ProofInv /\ TrackerInv

\* The orders shown are orders, and the one on top is one of them.
LEMMA OrdersShown ==
  ASSUME NEW S, NEW s \in Seq(S)
  PROVE  Demo!ToSet(s) \subseteq S /\ (s # <<>> => s[1] \in Demo!ToSet(s))
  BY DEF Demo!ToSet

\* A tracker that comes onto the page looks at its order.
LEMMA TrackerMounts ==
  ASSUME NEW o, NEW t \in {Demo!Mounted(o, demoStatus), Demo!Off}
  PROVE  t = [on |-> t.on, moving |-> t.moving] /\ (t.on => (t.moving <=> demoStatus[o] = "DISPATCHED"))
<1>1. CASE t = Demo!Mounted(o, demoStatus)
  <2>1. t.moving = (demoStatus[o] = "DISPATCHED")
    BY <1>1 DEF Demo!Mounted, Demo!Interval
  <2> QED
    BY <1>1, <2>1 DEF Demo!Mounted
<1>2. CASE t = Demo!Off
  BY <1>2 DEF Demo!Off
<1> QED
  BY <1>1, <1>2

LEMMA DemoStarts == ASSUME MockAssumption, Demo!Init PROVE DemoInv
<1>1. ProofInv
  BY DEF Demo!Init, ProofInv, ProofFields, Demo!Preset
<1>2. orders \in Seq(Demo!Ids) /\ orders # <<>> /\ demoSelected \in Demo!ToSet(orders) /\ demoSelected = orders[1]
  BY OrdersShown DEF Demo!Init, MockAssumption, Demo!Ids, Demo!ToSet
<1>3. Demo!Active(demoSelected) = MockOrders[1] /\ tracker = Demo!Mounted(MockOrders[1], demoStatus)
  BY <1>2 DEF Demo!Init, Demo!Active
<1>4. tracker = [on |-> tracker.on, moving |-> tracker.moving] /\ Demo!MovesOnTheRoad
  BY <1>3, TrackerMounts DEF Demo!MovesOnTheRoad
<1>5. demoStatus = [o \in Demo!Ids |-> demoStatus[o]]
  BY DEF Demo!Init
<1> QED
  BY <1>1, <1>2, <1>4, <1>5 DEF DemoInv, TrackerInv

\* When a status changes, the tracker looks at the order it shows again.
LEMMA StatusSet ==
  ASSUME TrackerInv, UNCHANGED <<orders, demoSelected>>, demoStatus' = [o \in Demo!Ids |-> demoStatus'[o]],
         tracker' = Demo!Track(Demo!Active(demoSelected), demoStatus')
  PROVE  TrackerInv'
<1>1. tracker' = [on |-> tracker'.on, moving |-> tracker'.moving]
      /\ (tracker'.on => (tracker'.moving <=> demoStatus'[Demo!Active(demoSelected)] = "DISPATCHED"))
  <2>1. CASE tracker.on
    <3>1. tracker' = [tracker EXCEPT !.moving = Demo!Interval(Demo!Active(demoSelected), demoStatus')]
      BY <2>1 DEF Demo!Track
    <3> QED
      BY <3>1 DEF TrackerInv, Demo!Interval
  <2>2. CASE ~tracker.on
    BY <2>2 DEF Demo!Track, TrackerInv
  <2> QED
    BY <2>1, <2>2
<1>2. Demo!Active(demoSelected)' = Demo!Active(demoSelected)
  BY DEF Demo!Active
<1> QED
  BY <1>1, <1>2 DEF TrackerInv, Demo!MovesOnTheRoad, Demo!Active

\* A step that leaves the page and the data alone.
LEMMA TrackerWaits == ASSUME TrackerInv, UNCHANGED <<orders, demoStatus, demoSelected, tracker>> PROVE TrackerInv'
  BY DEF TrackerInv, Demo!MovesOnTheRoad, Demo!Active

\* A step that leaves the proofs and their form alone.
LEMMA ProofWaits == ASSUME ProofInv, UNCHANGED <<pod, podOrder, demoForm, edited>> PROVE ProofInv'
  BY DEF ProofInv

\* Every step keeps the invariant.
LEMMA DemoSteady == ASSUME MockAssumption, DemoInv, [Demo!Next]_(Demo!vars) PROVE DemoInv'
<1>1. /\ Demo!ToSet(orders) \subseteq Demo!Ids /\ orders[1] \in Demo!ToSet(orders)
         /\ Demo!Active(demoSelected) = demoSelected
      /\ demoStatus = [o \in Demo!Ids |-> demoStatus[o]]
  BY OrdersShown DEF DemoInv, TrackerInv, Demo!Active
<1>2. ASSUME NEW r \in DemoRoles, Demo!SelectRole(r) PROVE DemoInv'
  <2>1. /\ UNCHANGED <<orders, demoStatus, pod, podOrder, demoForm, edited>> /\ demoSelected' = orders[1]
        /\ tracker' \in {Demo!Mounted(orders[1], demoStatus), Demo!Off}
    BY <1>2 DEF Demo!SelectRole, Demo!data, Demo!proof
  <2>2. Demo!Active(demoSelected)' = orders[1]
    BY <1>1, <2>1 DEF Demo!Active
  <2>3. tracker' = [on |-> tracker'.on, moving |-> tracker'.moving] /\ Demo!MovesOnTheRoad'
    BY <2>1, <2>2, TrackerMounts DEF Demo!MovesOnTheRoad
  <2> QED
    BY <1>1, <2>1, <2>3, ProofWaits DEF DemoInv, TrackerInv
<1>3. ASSUME NEW t \in {"orders", "planner"}, Demo!SelectTab(t) PROVE DemoInv'
  <2>1. /\ UNCHANGED <<orders, demoStatus, demoSelected, pod, podOrder, demoForm, edited>>
        /\ tracker' \in {Demo!Mounted(Demo!Active(demoSelected), demoStatus), Demo!Off}
    BY <1>3 DEF Demo!SelectTab, Demo!data, Demo!proof
  <2>2. Demo!Active(demoSelected)' = Demo!Active(demoSelected)
    BY <2>1 DEF Demo!Active
  <2>3. tracker' = [on |-> tracker'.on, moving |-> tracker'.moving] /\ Demo!MovesOnTheRoad'
    BY <2>1, <2>2, TrackerMounts DEF Demo!MovesOnTheRoad
  <2> QED
    BY <1>1, <2>1, <2>3, ProofWaits DEF DemoInv, TrackerInv
<1>4. ASSUME NEW o \in Demo!Ids, Demo!SelectOrder(o) PROVE DemoInv'
  <2>1. /\ UNCHANGED <<orders, demoStatus, pod, podOrder, demoForm, edited>> /\ demoSelected' = o
           /\ o \in Demo!ToSet(orders)
        /\ tracker.on /\ tracker' = [tracker EXCEPT !.moving = Demo!Interval(o, demoStatus)]
    BY <1>4 DEF Demo!SelectOrder, Demo!data, Demo!proof, Demo!Track
  <2>2. Demo!Active(demoSelected)' = o
    BY <2>1 DEF Demo!Active
  <2> QED
    BY <1>1, <2>1, <2>2, ProofWaits DEF DemoInv, TrackerInv, Demo!MovesOnTheRoad, Demo!Interval
<1>5. ASSUME NEW o, NEW s, Demo!SetStatus(o, s), UNCHANGED <<demoSelected, podOrder, demoForm, edited>>
      PROVE  DemoInv'
  <2>1. /\ UNCHANGED <<orders, demoSelected, pod>> /\ demoStatus' = [demoStatus EXCEPT ![o] = s]
        /\ tracker' = Demo!Track(Demo!Active(demoSelected), demoStatus')
    BY <1>5 DEF Demo!SetStatus
  <2>2. demoStatus' = [q \in Demo!Ids |-> demoStatus'[q]]
    BY <1>1, <2>1
  <2> QED
    BY <1>5, <2>1, <2>2, StatusSet, ProofWaits DEF DemoInv
<1>6. CASE (\E s \in DemoStages : Demo!PressStage(s)) \/ \E s \in {"DISPATCHED", "ON_SITE"} : Demo!AdvanceTrip(s)
  BY <1>5, <1>6 DEF Demo!PressStage, Demo!AdvanceTrip, Demo!proof
<1>7. ASSUME NEW o \in Demo!Ids, Demo!StartBatchingCycle(o) \/ Demo!CycleEnds(o) PROVE DemoInv'
  BY <1>5, <1>7 DEF Demo!StartBatchingCycle, Demo!CycleEnds, Demo!proof
<1>8. ASSUME NEW o \in Demo!Ids, Demo!CreateOrder(o) PROVE DemoInv'
  <2>1. /\ UNCHANGED <<demoSelected, tracker, pod, podOrder, demoForm, edited>> /\ o \notin Demo!ToSet(orders)
        /\ orders' = <<o>> \o orders /\ demoStatus' = [demoStatus EXCEPT ![o] = "CONFIRMED"]
    BY <1>8 DEF Demo!CreateOrder, Demo!page, Demo!proof
  <2>2. orders' \in Seq(Demo!Ids) /\ orders' # <<>> /\ demoSelected \in Demo!ToSet(orders')
    <3>1. orders \in Seq(Demo!Ids)
      BY DEF DemoInv, TrackerInv
    <3>2. PICK i \in 1..Len(orders) : demoSelected = orders[i]
      BY <3>1 DEF DemoInv, TrackerInv, Demo!ToSet
    <3>3. orders' \in Seq(Demo!Ids) /\ Len(orders') = Len(orders) + 1 /\ orders'[i + 1] = orders[i]
      BY <2>1, <3>1, <3>2
    <3> QED
      BY <3>1, <3>2, <3>3 DEF Demo!ToSet
  <2>3. Demo!Active(demoSelected)' = demoSelected /\ demoStatus'[demoSelected] = demoStatus[demoSelected]
    BY <1>1, <2>1, <2>2 DEF Demo!Active, DemoInv, TrackerInv
  <2>4. demoStatus' = [q \in Demo!Ids |-> demoStatus'[q]]
    BY <1>1, <2>1
  <2> QED
    BY <1>1, <2>1, <2>2, <2>3, <2>4, ProofWaits DEF DemoInv, TrackerInv, Demo!MovesOnTheRoad
<1>9. CASE Demo!ApplyCalculation
  <2>1. /\ UNCHANGED <<orders, demoStatus, demoSelected, pod, podOrder, demoForm, edited>>
        /\ tracker' = Demo!Mounted(Demo!Active(demoSelected), demoStatus)
    BY <1>9 DEF Demo!ApplyCalculation, Demo!data, Demo!proof
  <2>2. Demo!Active(demoSelected)' = Demo!Active(demoSelected)
    BY <2>1 DEF Demo!Active
  <2>3. tracker' = [on |-> tracker'.on, moving |-> tracker'.moving] /\ Demo!MovesOnTheRoad'
    BY <2>1, <2>2, TrackerMounts DEF Demo!MovesOnTheRoad
  <2> QED
    BY <1>1, <2>1, <2>3, ProofWaits DEF DemoInv, TrackerInv
<1>10. CASE Demo!OpenNewOrder \/ Demo!TypeVolume \/ Demo!CloseBooking \/ Demo!CloseChallan
       \/ \E o \in Demo!Ids : Demo!OpenChallan(o)
  BY <1>10, TrackerWaits, ProofWaits
     DEF Demo!OpenNewOrder, Demo!TypeVolume, Demo!CloseBooking, Demo!CloseChallan, Demo!OpenChallan, Demo!page,
         Demo!data, Demo!proof, DemoInv
<1>11. ASSUME NEW o \in Demo!Ids, Demo!OpenPod(o) PROVE DemoInv'
  <2>1. UNCHANGED <<orders, demoStatus, demoSelected, tracker, pod>> /\ podOrder' = o /\ demoForm' = Demo!Filled(o)
        /\ edited' = FALSE
    BY <1>11 DEF Demo!OpenPod, Demo!page, Demo!data
  <2>2. ProofFields(demoForm') /\ demoForm'.quantity[1] = o /\ (pod[o] # None => demoForm' = pod[o])
    BY <2>1 DEF Demo!Filled, ProofFields, DemoInv, ProofInv
  <2>3. ProofInv'
    BY <2>1, <2>2 DEF DemoInv, ProofInv
  <2> QED
    BY <2>1, <2>3, TrackerWaits DEF DemoInv
<1>12. ASSUME NEW f \in {"quantity", "rest"}, Demo!EditPod(f) PROVE DemoInv'
  <2>1. /\ UNCHANGED <<orders, demoStatus, demoSelected, tracker, pod, podOrder>> /\ podOrder # None
           /\ edited' = TRUE
        /\ demoForm' = [demoForm EXCEPT ![f] = <<podOrder, "typed">>]
    BY <1>12 DEF Demo!EditPod, Demo!page, Demo!data
  <2>2. ProofFields(demoForm') /\ demoForm'.quantity[1] = podOrder
    BY <2>1 DEF ProofFields, DemoInv, ProofInv
  <2>3. ProofInv'
    BY <2>1, <2>2 DEF DemoInv, ProofInv
  <2> QED
    BY <2>1, <2>3, TrackerWaits DEF DemoInv
<1>13. CASE Demo!ClosePod
  <2>1. UNCHANGED <<orders, demoStatus, demoSelected, tracker, pod, demoForm>> /\ podOrder' = None
    BY <1>13 DEF Demo!ClosePod, Demo!page, Demo!data
  <2> QED
    BY <2>1, TrackerWaits DEF DemoInv, ProofInv
<1>14. CASE Demo!SubmitPod
  <2>1. /\ UNCHANGED <<orders, demoSelected, demoForm>> /\ podOrder # None /\ podOrder' = None
        /\ pod' = [pod EXCEPT ![podOrder] = demoForm] /\ demoStatus' = [demoStatus EXCEPT ![podOrder] = "DELIVERED"]
        /\ tracker' = Demo!Track(Demo!Active(demoSelected), demoStatus')
    BY <1>14 DEF Demo!SubmitPod
  <2>2. demoStatus' = [q \in Demo!Ids |-> demoStatus'[q]]
    BY <1>1, <2>1
  <2>3. ProofInv'
    BY <2>1 DEF DemoInv, ProofInv
  <2> QED
    BY <2>1, <2>2, <2>3, StatusSet DEF DemoInv
<1>15. CASE UNCHANGED Demo!vars
  BY <1>15, TrackerWaits, ProofWaits DEF Demo!vars, Demo!page, Demo!data, Demo!proof, DemoInv
<1> QED
  BY <1>2, <1>3, <1>4, <1>6, <1>7, <1>8, <1>9, <1>10, <1>11, <1>12, <1>13, <1>14, <1>15 DEF Demo!Next

\* So a proof's volume is of its order and the truck moves while it is on the road.
LEMMA DemoShows == DemoInv => Demo!VolumeOfItsOrder /\ Demo!MovesOnTheRoad
  BY DEF DemoInv, ProofInv, TrackerInv, Demo!VolumeOfItsOrder

\* Confirming a proof that was not edited leaves every proof as it was.
LEMMA ProofStands == ASSUME DemoInv, [Demo!Next]_(Demo!vars) PROVE [Demo!Unedited => UNCHANGED pod]_(Demo!vars)
<1>1. Demo!SubmitPod /\ Demo!Unedited => UNCHANGED pod
  BY DEF Demo!SubmitPod, Demo!Unedited, DemoInv, ProofInv
<1>2. ASSUME NEW o, NEW s, Demo!SetStatus(o, s) PROVE UNCHANGED pod
  BY <1>2 DEF Demo!SetStatus
<1>3. CASE \/ \E r \in DemoRoles : Demo!SelectRole(r)
           \/ \E t \in {"orders", "planner"} : Demo!SelectTab(t)
           \/ (\E s \in DemoStages : Demo!PressStage(s)) \/ \E s \in {"DISPATCHED", "ON_SITE"} : Demo!AdvanceTrip(s)
           \/ \E o \in Demo!Ids : Demo!SelectOrder(o) \/ Demo!StartBatchingCycle(o) \/ Demo!CycleEnds(o)
  BY <1>2, <1>3 DEF Demo!SelectRole, Demo!SelectTab, Demo!PressStage, Demo!AdvanceTrip, Demo!SelectOrder,
     Demo!StartBatchingCycle, Demo!CycleEnds, Demo!data
<1>4. CASE \/ \E o \in Demo!Ids : Demo!CreateOrder(o) \/ Demo!OpenChallan(o) \/ Demo!OpenPod(o)
           \/ Demo!OpenNewOrder \/ Demo!ApplyCalculation \/ Demo!TypeVolume \/ Demo!CloseBooking
           \/ Demo!CloseChallan \/ (\E f \in {"quantity", "rest"} : Demo!EditPod(f)) \/ Demo!ClosePod
  BY <1>4 DEF Demo!CreateOrder, Demo!OpenChallan, Demo!OpenPod, Demo!OpenNewOrder, Demo!ApplyCalculation,
     Demo!TypeVolume, Demo!CloseBooking, Demo!CloseChallan,
              Demo!EditPod, Demo!ClosePod, Demo!data
<1> QED
  BY <1>1, <1>3, <1>4 DEF Demo!Next

-----------------------------------------------------------------------------
(* PayrollDesk: what stands as approved or paid was let through by the     *)
(* owner for its month, and a payslip is made of a record that is paid.    *)

Doings == {"draft", "APPROVE", "RETURN", "pay"}
Settled(m) == record[m].status \in {"APPROVED", "PAID"} => record[m].amount \in approved[m]

PayInv ==
  /\ record = [m \in Months |-> [status |-> record[m].status, amount |-> record[m].amount]]
  /\ slip = [m \in Months |-> slip[m]] /\ approved = [m \in Months |-> approved[m]]
  /\ \A m \in Months : Settled(m) /\ (slip[m] # None => slip[m] \in approved[m])
  /\ payslip.shown # None => /\ payslip.shown.month \in Months
                             /\ payslip.shown.amount \in approved[payslip.shown.month]
  /\ \A d \in Pay!Desks : acting[d] # None => acting[d].month \in Months /\ acting[d].does \in Doings
  /\ month \in [Pay!Screens -> Months] /\ acting = [d \in Pay!Desks |-> acting[d]]
  /\ closing.load \in Months \cup {None} /\ payslip.load \in Months \cup {None}
  /\ closing.action # None => closing.action.month \in Months
  /\ closing = [shown |-> closing.shown, load |-> closing.load, action |-> closing.action]
  /\ payslip = [shown |-> payslip.shown, load |-> payslip.load]

\* Nothing is drafted when the months open.
LEMMA PayStarts == ASSUME ThisMonth \in Months, Pay!Init PROVE PayInv
<1>1. month \in [Pay!Screens -> Months] /\ month["closing"] \in Months /\ month["payslip"] \in Months
  BY DEF Pay!Init, Pay!Screens, Pay!Desks
<1>2. /\ \A d \in Pay!Desks : acting[d] = None
      /\ \A m \in Months : record[m] = Pay!NoRecord /\ slip[m] = None
      /\ closing = [shown |-> None, load |-> month["closing"], action |-> None]
      /\ payslip = [shown |-> None, load |-> month["payslip"]]
  BY DEF Pay!Init
<1> QED
  BY <1>1, <1>2 DEF Pay!Init, PayInv, Settled, Pay!NoRecord

\* The screens' own steps: the records stay.
LEMMA PayScreens ==
  ASSUME PayInv, UNCHANGED <<record, slip, approved>>,
         payslip' = [shown |-> payslip'.shown, load |-> payslip'.load],
         payslip'.shown # None => /\ payslip'.shown.month \in Months
                                  /\ payslip'.shown.amount \in approved[payslip'.shown.month],
         payslip'.load \in Months \cup {None},
         acting' = [d \in Pay!Desks |-> acting'[d]],
         \A d \in Pay!Desks : acting'[d] # None => acting'[d].month \in Months /\ acting'[d].does \in Doings,
         month' \in [Pay!Screens -> Months],
         closing' = [shown |-> closing'.shown, load |-> closing'.load, action |-> closing'.action],
         closing'.load \in Months \cup {None}, closing'.action # None => closing'.action.month \in Months
  PROVE  PayInv'
  BY DEF PayInv, Settled

\* An action of a desk takes effect.
LEMMA PayApplies ==
  ASSUME PayInv, NEW d \in Pay!Desks, acting[d] # None, acting' = [acting EXCEPT ![d] = None],
         Pay!Accepted(acting[d]), Pay!Apply(acting[d]), UNCHANGED <<month, closing, payslip>>
  PROVE  PayInv'
<1> DEFINE a == acting[d] m == acting[d].month
           r == [status |-> Pay!To(a.does), amount |-> IF a.does = "draft" THEN a.amount ELSE record[m].amount]
<1>1. m \in Months /\ a.does \in Doings
  BY DEF PayInv
<1>2. record' = [record EXCEPT ![m] = r] /\ UNCHANGED slip
  BY DEF Pay!Apply
<1>3. approved' = [n \in Months |-> approved'[n]] /\ \A n \in Months : approved[n] \subseteq approved'[n]
  BY <1>1 DEF Pay!Apply, PayInv
<1>4. r.status \in {"APPROVED", "PAID"} => r.amount \in approved'[m]
  <2>1. CASE a.does = "APPROVE"
    BY <1>1, <2>1 DEF Pay!Apply, PayInv
  <2>2. CASE a.does # "APPROVE"
    <3>1. SUFFICES ASSUME Pay!To(a.does) \in {"APPROVED", "PAID"} PROVE r.amount \in approved'[m]
      OBVIOUS
    <3>2. record[m].status \in Pay!From(a.does)
      BY DEF Pay!Accepted
    <3> QED
      BY <1>1, <1>3, <2>2, <3>1, <3>2 DEF Pay!From, Pay!To, Pay!Payable, PayInv, Settled, Doings
  <2> QED
    BY <2>1, <2>2
<1> HIDE DEF r
<1>5. r = [status |-> r.status, amount |-> r.amount]
  BY DEF r
<1>6. /\ record' = [n \in Months |-> [status |-> record'[n].status, amount |-> record'[n].amount]]
      /\ \A n \in Months : Settled(n)'
  BY <1>1, <1>2, <1>3, <1>4, <1>5 DEF PayInv, Settled
<1> QED
  BY <1>1, <1>2, <1>3, <1>6 DEF PayInv

\* Every step keeps the invariant.
LEMMA PaySteady == ASSUME PayInv, [Pay!Next]_(Pay!vars) PROVE PayInv'
<1>1. month["closing"] \in Months /\ month["payslip"] \in Months /\ \A d \in Pay!Desks : month[d] \in Months
  BY DEF PayInv, Pay!Screens, Pay!Desks
<1>2. ASSUME NEW s \in Pay!Screens, NEW m \in Months, Pay!TypeMonth(s, m) PROVE PayInv'
  BY <1>2, PayScreens DEF Pay!TypeMonth, Pay!Server, PayInv
<1>3. CASE Pay!LoadPayslip \/ Pay!PayslipLoaded
  BY <1>3, <1>1, PayScreens DEF Pay!LoadPayslip, Pay!PayslipLoaded, Pay!Server, Pay!desks, Pay!bounds, PayInv
<1>4. ASSUME NEW d \in Pay!Desks, NEW m \in Months, Pay!Loaded(d, m) PROVE PayInv'
  BY <1>4, PayScreens DEF Pay!Loaded, Pay!Server, Pay!bounds, PayInv
<1>5. ASSUME NEW a \in Amounts, Pay!OpenDraft(a) PROVE PayInv'
  BY <1>5, PayScreens DEF Pay!OpenDraft, Pay!Server, Pay!bounds, PayInv
<1>6. ASSUME NEW d \in Pay!Desks, NEW does \in Doings, NEW amount, Pay!Act(d, does, amount),
             UNCHANGED <<Pay!Server, month, closing, payslip>>
      PROVE  PayInv'
  BY <1>1, <1>6, PayScreens DEF Pay!Act, Pay!Server, PayInv
<1>7. CASE Pay!SaveDraft \/ Pay!MarkPaid
  BY <1>6, <1>7 DEF Pay!SaveDraft, Pay!MarkPaid, Pay!Desks, Doings
<1>8. ASSUME NEW does \in {"APPROVE", "RETURN"}, Pay!OwnerDecision(does) PROVE PayInv'
  BY <1>6, <1>8 DEF Pay!OwnerDecision, Pay!Desks, Doings
<1>9. ASSUME NEW d \in Pay!Desks, Pay!Acted(d) PROVE PayInv'
  <2>1. CASE Pay!Accepted(acting[d]) /\ Pay!Apply(acting[d])
    BY <1>9, <2>1, PayApplies DEF Pay!Acted
  <2>2. CASE UNCHANGED Pay!Server
    BY <1>9, <2>2, PayScreens DEF Pay!Acted, Pay!Server, PayInv
  <2> QED
    BY <1>9, <2>1, <2>2 DEF Pay!Acted
<1>10. CASE Pay!LoadPeriod \/ Pay!PeriodLoaded \/ Pay!ClosePeriod \/ Pay!ReopenPeriod
  <2>1. CASE Pay!LoadPeriod
    BY <1>1, <2>1, PayScreens DEF Pay!LoadPeriod, Pay!Server, Pay!desks, PayInv
  <2>2. CASE Pay!PeriodLoaded
    <3>1. UNCHANGED <<record, slip, approved, month, acting, payslip>>
      BY <2>2 DEF Pay!PeriodLoaded, Pay!Server, Pay!desks
    <3>2. PICK s : closing' = [shown |-> s, load |-> None, action |-> closing.action]
      BY <2>2 DEF Pay!PeriodLoaded, PayInv
    <3> QED
      BY <3>1, <3>2, PayScreens DEF PayInv
  <2>3. CASE Pay!ClosePeriod \/ Pay!ReopenPeriod
    <3>1. UNCHANGED <<record, slip, approved, month, acting, payslip>>
      BY <2>3 DEF Pay!ClosePeriod, Pay!ReopenPeriod, Pay!Server, Pay!desks
    <3>2. PICK does : closing' = [closing EXCEPT !.action = [does |-> does, month |-> month["closing"]]]
      BY <2>3 DEF Pay!ClosePeriod, Pay!ReopenPeriod
    <3> QED
      BY <1>1, <3>1, <3>2, PayScreens DEF PayInv
  <2> QED
    BY <1>10, <2>1, <2>2, <2>3
<1>11. CASE Pay!PeriodActed
  <2> DEFINE m == closing.action.month
  <2>1. /\ m \in Months /\ UNCHANGED <<record, approved, month, acting, payslip>>
    BY <1>11 DEF Pay!PeriodActed, Pay!desks, PayInv
  <2>2. closing' = [closing EXCEPT !.action = None, !.load = m] \/ closing' = [closing EXCEPT !.action = None]
    BY <1>11 DEF Pay!PeriodActed
  <2>3. CASE Pay!Ready(m) /\ slip' = [slip EXCEPT ![m] = record[m].amount]
    <3>1. /\ closing'.load \in Months \cup {None} /\ closing'.action = None
          /\ closing' = [shown |-> closing'.shown, load |-> closing'.load, action |-> closing'.action]
      BY <2>1, <2>2 DEF PayInv
    <3>2. slip' = [n \in Months |-> slip'[n]] /\ \A n \in Months : slip'[n] # None => slip'[n] \in approved[n]
      BY <2>1, <2>3 DEF PayInv, Pay!Ready, Settled
    <3> QED
      BY <2>1, <3>1, <3>2 DEF PayInv, Settled
  <2>4. CASE UNCHANGED slip
    BY <2>1, <2>2, <2>4, PayScreens DEF PayInv
  <2> QED
    BY <1>11, <2>3, <2>4 DEF Pay!PeriodActed
<1>12. CASE UNCHANGED Pay!vars
  BY <1>12, PayScreens DEF Pay!vars, Pay!desks, PayInv
<1> QED
  BY <1>2, <1>3, <1>4, <1>5, <1>7, <1>8, <1>9, <1>10, <1>11, <1>12 DEF Pay!Next

\* So what is paid, and what a payslip says, the owner approved.
LEMMA PayApproved == PayInv => Pay!OnlyApprovedIsPaid
  BY DEF PayInv, Settled, Pay!OnlyApprovedIsPaid

-----------------------------------------------------------------------------
(* EmployeeMaster: every value on the form, on its way or stored was typed *)
(* for the employee it is with.                                            *)

TypedFor(file, e) == \A p \in Employee!Parts : file[p] # None => file[p].of = e

SavedInv ==
  /\ stored = [e \in Employees |-> [profile |-> stored[e].profile, salary |-> stored[e].salary,
                                    private |-> stored[e].private]]
  /\ empCalls = [c \in Calls |-> [part |-> empCalls[c].part, of |-> empCalls[c].of, value |-> empCalls[c].value,
                                  heard |-> empCalls[c].heard, pc |-> empCalls[c].pc]]
  /\ \A e \in Employees : TypedFor(stored[e], e) /\ TypedFor(empData[e], e)
  /\ TypedFor(empForm, empSelected) /\ empForm = [p \in Employee!Parts |-> empForm[p]]
     /\ empSelected \in Employees \cup {None}
  /\ \A c \in Calls : empCalls[c].pc # "free" =>
       /\ empCalls[c].of \in Employees /\ empCalls[c].part \in Employee!Parts
       /\ empCalls[c].value # None => empCalls[c].value.of = empCalls[c].of

\* Nothing is typed when the list opens.
LEMMA SavedStarts == Employee!Init => SavedInv
<1> SUFFICES ASSUME Employee!Init PROVE SavedInv
  OBVIOUS
<1>1. \A e \in Employees : stored[e] = Employee!File /\ empData[e] = Employee!File
  BY DEF Employee!Init
<1>2. TypedFor(empForm, empSelected) /\ \A e : TypedFor(Employee!File, e)
  BY DEF Employee!Init, TypedFor, Employee!File, Employee!Parts
<1> QED
  BY <1>1, <1>2 DEF Employee!Init, SavedInv, Employee!File, Employee!Free

\* An employee is shown with a file.
LEMMA SavedShows ==
  ASSUME SavedInv, NEW e \in Employees, NEW list, Employee!ApplyEmployee(e, list), TypedFor(list[e], e)
  PROVE  TypedFor(empForm, empSelected)' /\ empForm' = [p \in Employee!Parts |-> empForm'[p]]
         /\ empSelected' \in Employees \cup {None}
  BY DEF Employee!ApplyEmployee, Employee!Fields, TypedFor

\* Every step keeps the invariant.
LEMMA SavedSteady == ASSUME None \notin Employees, SavedInv, [Employee!Next]_(Employee!vars) PROVE SavedInv'
<1>1. ASSUME NEW e \in Employees, Employee!Select(e) PROVE SavedInv'
  <2>1. TypedFor(empData[e], e)
    BY DEF SavedInv
  <2>2. TypedFor(empForm, empSelected)' /\ empForm' = [p \in Employee!Parts |-> empForm'[p]]
        /\ empSelected' \in Employees \cup {None}
    BY <1>1, <2>1, SavedShows DEF Employee!Select
  <2> QED
    BY <1>1, <2>2 DEF Employee!Select, SavedInv, TypedFor
<1>2. ASSUME NEW p \in Employee!Parts, Employee!Type(p) PROVE SavedInv'
  <2>1. TypedFor(empForm, empSelected)' /\ empForm' = [q \in Employee!Parts |-> empForm'[q]]
    BY <1>2 DEF Employee!Type, SavedInv, TypedFor
  <2> QED
    BY <1>2, <2>1 DEF Employee!Type, SavedInv, TypedFor
<1>3. ASSUME NEW p \in Employee!Parts, Employee!Save(p) PROVE SavedInv'
  <2>1. PICK c \in Calls : empCalls' = [empCalls EXCEPT ![c] = [part |-> p, of |-> empSelected,
                                                                value |-> empForm[p],
                                                                heard |-> TRUE, pc |-> "sent"]]
    BY <1>3 DEF Employee!Save
  <2>2. empCalls' = [d \in Calls |-> [part |-> empCalls'[d].part, of |-> empCalls'[d].of,
                                      value |-> empCalls'[d].value,
                                      heard |-> empCalls'[d].heard, pc |-> empCalls'[d].pc]]
    BY <2>1 DEF SavedInv
  <2>3. ASSUME NEW d \in Calls, empCalls'[d].pc # "free"
        PROVE  /\ empCalls'[d].of \in Employees /\ empCalls'[d].part \in Employee!Parts
               /\ empCalls'[d].value # None => empCalls'[d].value.of = empCalls'[d].of
    BY <1>3, <2>1, <2>3 DEF Employee!Save, SavedInv, TypedFor
  <2> QED
    BY <1>3, <2>2, <2>3 DEF Employee!Save, SavedInv, TypedFor
<1>4. ASSUME NEW c \in Calls, Employee!Put(c) PROVE SavedInv'
  <2>1. PICK k : k = empCalls[c]
    OBVIOUS
  <2>2. PICK w : w = stored[k.of]
    OBVIOUS
  <2>3. PICK f : f = [w EXCEPT ![k.part] = k.value, !.private = IF k.part = "profile" THEN "empty" ELSE w.private]
    OBVIOUS
  <2>4. /\ k.of \in Employees /\ k.part \in Employee!Parts /\ (k.value # None => k.value.of = k.of)
        /\ k = [part |-> k.part, of |-> k.of, value |-> k.value, heard |-> k.heard, pc |-> k.pc]
    BY <1>4, <2>1 DEF Employee!Put, SavedInv
  <2>5. empCalls' = [empCalls EXCEPT ![c].pc = "put"] /\ UNCHANGED <<empData, empSelected, empForm>>
    BY <1>4 DEF Employee!Put
  <2>6. w = [profile |-> w.profile, salary |-> w.salary, private |-> w.private] /\ TypedFor(w, k.of)
    BY <2>2, <2>4 DEF SavedInv
  <2>7. stored' = [stored EXCEPT ![k.of] = f]
    <3>1. k.part # "private"
      BY <2>4 DEF Employee!Parts
    <3> QED
      BY <1>4, <2>1, <2>2, <2>3, <2>4, <2>6, <3>1 DEF Employee!Put
  <2>8. f = [profile |-> f.profile, salary |-> f.salary, private |-> f.private] /\ TypedFor(f, k.of)
    <3>1. CASE k.part = "profile"
      BY <2>3, <2>4, <2>6, <3>1 DEF TypedFor, Employee!Parts
    <3>2. CASE k.part = "salary"
      BY <2>3, <2>4, <2>6, <3>2 DEF TypedFor, Employee!Parts
    <3> QED
      BY <2>4, <3>1, <3>2 DEF Employee!Parts
  <2>9. PICK q : q = [k EXCEPT !.pc = "put"]
    OBVIOUS
  <2>10. q = [part |-> q.part, of |-> q.of, value |-> q.value, heard |-> q.heard, pc |-> q.pc]
         /\ q.of = k.of /\ q.part = k.part /\ q.value = k.value
    BY <2>4, <2>9
  <2>11. empCalls' = [empCalls EXCEPT ![c] = q]
    BY <2>1, <2>5, <2>9
  <2>12. stored' = [e \in Employees |-> [profile |-> stored'[e].profile, salary |-> stored'[e].salary,
                                         private |-> stored'[e].private]]
         /\ \A e \in Employees : TypedFor(stored'[e], e)
    BY <2>4, <2>7, <2>8 DEF SavedInv, TypedFor
  <2> QED
    BY <2>4, <2>5, <2>10, <2>11, <2>12 DEF SavedInv, TypedFor
<1>5. ASSUME NEW c \in Calls, Employee!Saved(c) PROVE SavedInv'
  <2>1. empCalls[c].of \in Employees /\ TypedFor(stored[empCalls[c].of], empCalls[c].of)
    BY <1>5 DEF Employee!Saved, SavedInv
  <2>2. TypedFor(empForm, empSelected)' /\ empForm' = [p \in Employee!Parts |-> empForm'[p]]
        /\ empSelected' \in Employees \cup {None}
    BY <1>5, <2>1, SavedShows DEF Employee!Saved
  <2>3. empCalls' = [empCalls EXCEPT ![c] = Employee!Free] /\ stored' = stored /\ empData' = stored
    BY <1>5 DEF Employee!Saved
  <2> QED
    BY <2>2, <2>3 DEF SavedInv, TypedFor, Employee!Free
<1>6. ASSUME NEW c \in Calls, Employee!SaveFails(c) \/ Employee!Ended(c) PROVE SavedInv'
  <2>1. UNCHANGED <<stored, empData, empSelected, empForm>>
    BY <1>6 DEF Employee!SaveFails, Employee!Ended
  <2>2. PICK k \in {Employee!Free, [empCalls[c] EXCEPT !.heard = FALSE]} : empCalls' = [empCalls EXCEPT ![c] = k]
    BY <1>6 DEF Employee!SaveFails, Employee!Ended
  <2>3. k = [part |-> k.part, of |-> k.of, value |-> k.value, heard |-> k.heard, pc |-> k.pc]
        /\ (k.pc # "free" => /\ k.of \in Employees /\ k.part \in Employee!Parts
                             /\ k.value # None => k.value.of = k.of)
    BY <2>2 DEF Employee!Free, SavedInv
  <2> QED
    BY <2>1, <2>2, <2>3 DEF SavedInv, TypedFor
<1>7. CASE UNCHANGED Employee!vars
  BY <1>7 DEF Employee!vars, SavedInv, TypedFor
<1> QED
  BY <1>1, <1>2, <1>3, <1>4, <1>5, <1>6, <1>7 DEF Employee!Next

\* So what is stored in a file was typed for its employee.
LEMMA SavedAsTyped == SavedInv => Employee!SavedWhereTyped
  BY DEF SavedInv, TypedFor, Employee!SavedWhereTyped
-----------------------------------------------------------------------------
(* The whole run: a step moves one part, so each part takes a step of its  *)
(* own specification or stutters, and the invariants of the parts hold     *)
(* together.                                                               *)

\* A step of the run is, for every part, a step of that part or a stutter.
LEMMA PartsMove ==
  ASSUME [Next]_allVars
  PROVE  /\ [Desk!Next]_(Desk!vars)
         /\ [Stock!Next]_(Stock!vars)
         /\ [Work!Next]_(Work!vars)
         /\ [Claims!Next]_(Claims!vars)
         /\ [Pay!Next]_(Pay!vars)
         /\ [Billing!Next]_(Billing!vars)
         /\ [Production!Next]_(Production!vars)
         /\ [Ordering!Next]_(Ordering!vars)
         /\ [Employee!Next]_(Employee!vars)
         /\ [Security!Next]_(Security!vars)
         /\ [Demo!Next]_(Demo!vars)
<1>1. [Desk!Next]_(Desk!vars)
  <2>1. Desk!Next \/ UNCHANGED deskVars
    BY DEF Next, Only, allVars, parts
  <2>2. UNCHANGED deskVars => UNCHANGED Desk!vars
    BY DEF deskVars, Desk!vars, Desk!screen, Desk!stores, Desk!rows
  <2> QED
    BY <2>1, <2>2
<1>2. [Stock!Next]_(Stock!vars)
  <2>1. Stock!Next \/ UNCHANGED stockVars
    BY DEF Next, Only, allVars, parts
  <2>2. UNCHANGED stockVars => UNCHANGED Stock!vars
    BY DEF stockVars, Stock!vars, Stock!screen, Stock!stores, Stock!rows
  <2> QED
    BY <2>1, <2>2
<1>3. [Work!Next]_(Work!vars)
  <2>1. Work!Next \/ UNCHANGED workVars
    BY DEF Next, Only, allVars, parts
  <2>2. UNCHANGED workVars => UNCHANGED Work!vars
    BY DEF workVars, Work!vars, Work!ledger, Work!day, Work!screens
  <2> QED
    BY <2>1, <2>2
<1>4. [Claims!Next]_(Claims!vars)
  <2>1. Claims!Next \/ UNCHANGED claimVars
    BY DEF Next, Only, allVars, parts
  <2>2. UNCHANGED claimVars => UNCHANGED Claims!vars
    BY DEF claimVars, Claims!vars, Claims!ledger, Claims!day, Claims!screens
  <2> QED
    BY <2>1, <2>2
<1>5. [Pay!Next]_(Pay!vars)
  <2>1. Pay!Next \/ UNCHANGED payrollVars
    BY DEF Next, Only, allVars, parts
  <2>2. UNCHANGED payrollVars => UNCHANGED Pay!vars
    BY DEF payrollVars, Pay!vars, Pay!desks, Pay!bounds
  <2> QED
    BY <2>1, <2>2
<1>6. [Billing!Next]_(Billing!vars)
  <2>1. Billing!Next \/ UNCHANGED billingVars
    BY DEF Next, Only, allVars, parts
  <2>2. UNCHANGED billingVars => UNCHANGED Billing!vars
    BY DEF billingVars, Billing!vars, Billing!server, Billing!screens
  <2> QED
    BY <2>1, <2>2
<1>7. [Production!Next]_(Production!vars)
  <2>1. Production!Next \/ UNCHANGED productionVars
    BY DEF Next, Only, allVars, parts
  <2>2. UNCHANGED productionVars => UNCHANGED Production!vars
    BY DEF productionVars, Production!vars, Production!operator, Production!store, Production!server
  <2> QED
    BY <2>1, <2>2
<1>8. [Ordering!Next]_(Ordering!vars)
  <2>1. Ordering!Next \/ UNCHANGED ordersVars
    BY DEF Next, Only, allVars, parts
  <2>2. UNCHANGED ordersVars => UNCHANGED Ordering!vars
    BY DEF ordersVars, Ordering!vars, Ordering!server, Ordering!planner, Ordering!card
  <2> QED
    BY <2>1, <2>2
<1>9. [Employee!Next]_(Employee!vars)
  <2>1. Employee!Next \/ UNCHANGED employeesVars
    BY DEF Next, Only, allVars, parts
  <2>2. UNCHANGED employeesVars => UNCHANGED Employee!vars
    BY DEF employeesVars, Employee!vars
  <2> QED
    BY <2>1, <2>2
<1>10. [Security!Next]_(Security!vars)
  <2>1. Security!Next \/ UNCHANGED securityVars
    BY DEF Next, Only, allVars, parts
  <2>2. UNCHANGED securityVars => UNCHANGED Security!vars
    BY DEF securityVars, Security!vars, Security!account, Security!server
  <2> QED
    BY <2>1, <2>2
<1>11. [Demo!Next]_(Demo!vars)
  <2>1. Demo!Next \/ UNCHANGED demoVars
    BY DEF Next, Only, allVars, parts
  <2>2. UNCHANGED demoVars => UNCHANGED Demo!vars
    BY DEF demoVars, Demo!vars, Demo!page, Demo!data, Demo!proof, Demo!timers
  <2> QED
    BY <2>1, <2>2
<1> QED
  BY <1>1, <1>2, <1>3, <1>4, <1>5, <1>6, <1>7, <1>8, <1>9, <1>10, <1>11

\* What the parts assume of the constants.
LEMMA PartsAssume ==
  /\ ThisMonth \in Months /\ Total \in Nat /\ None \notin Invoices /\ None \notin Employees
  /\ IsFiniteSet(Receipts) /\ BatchAssumption /\ KeysAssumption /\ MockAssumption
  BY StaffAssumption
     DEF StaffAssumption, NoneAssumption, SomeAssumption, CountAssumption, BatchAssumption, KeysAssumption,
         MockAssumption, Demo!ToSet

\* The invariants of the parts, each over the variables of its part.
StaffInv ==
  /\ RowsInv /\ AccountsInv /\ WorkInv /\ ClaimsInv /\ PayInv /\ BillingInv
  /\ BatchInv /\ OrdersInv /\ SavedInv /\ SecurityInv /\ DemoInv

\* Every part begins within its invariant.
LEMMA StaffStart == Init => StaffInv
<1> SUFFICES ASSUME Init PROVE StaffInv
  OBVIOUS
<1>1. RowsInv /\ AccountsInv
  BY RowsStart, AccountsStart DEF Init
<1>2. WorkInv /\ ClaimsInv
  BY WorkStarts, ClaimsStart DEF Init
<1>3. PayInv /\ BillingInv
  BY PartsAssume, PayStarts, BillingStarts DEF Init
<1>4. BatchInv /\ OrdersInv
  BY PartsAssume, BatchesStart, OrdersStart DEF Init
<1>5. SavedInv /\ SecurityInv /\ DemoInv
  BY PartsAssume, SavedStarts, SecurityStarts, DemoStarts DEF Init
<1> QED
  BY <1>1, <1>2, <1>3, <1>4, <1>5 DEF StaffInv

\* Every step keeps the invariants of all parts.
LEMMA StaffSteady == StaffInv /\ [Next]_allVars => StaffInv'
<1> SUFFICES ASSUME StaffInv, [Next]_allVars PROVE StaffInv'
  OBVIOUS
<1>1. RowsInv' /\ AccountsInv'
  BY PartsAssume, PartsMove, RowsSteady, AccountsSteady DEF StaffInv
<1>2. WorkInv' /\ ClaimsInv'
  BY PartsMove, WorkSteady, ClaimsSteady DEF StaffInv
<1>3. PayInv' /\ BillingInv'
  BY PartsAssume, PartsMove, PaySteady, BillingSteady DEF StaffInv
<1>4. BatchInv' /\ OrdersInv'
  BY PartsAssume, PartsMove, BatchesSteady, OrdersSteady DEF StaffInv
<1>5. SavedInv' /\ SecurityInv' /\ DemoInv'
  BY PartsAssume, PartsMove, SavedSteady, SecuritySteady, DemoSteady DEF StaffInv
<1> QED
  BY <1>1, <1>2, <1>3, <1>4, <1>5 DEF StaffInv

\* The parts of the staff's application stay within their invariants.
THEOREM StaffStay == Spec => []StaffInv
<1> QED
  BY StaffStart, StaffSteady, PTL DEF Spec

\* Every count agrees with what it was counted from, however requests overlap, fail
\* or are repeated: a plant's stock with its receipts and adjustments, the ledger with
\* the claims paid, the materials with the batches posted, what an invoice says was
\* paid with its payments, and a payslip with the record approved.
THEOREM CountsAgree == Spec => []AccountsAgree
<1>1. StaffInv => AccountsAgree
  BY PartsAssume, StockIsAccounted, LedgerFollows, MaterialsFollow, BillingCovers, PayApproved
     DEF StaffInv, AccountsAgree
<1> QED
  BY <1>1, StaffStay, PTL

\* What is sent, saved or shown belongs to the row, the person or the order it was
\* entered for, although windows change under a request on its way.
THEOREM SentForWhatItWasEntered == Spec => []EnteredForIt
<1>1. StaffInv => EnteredForIt
  BY BillingCovers, SavedAsTyped, DemoShows DEF StaffInv, EnteredForIt
<1> QED
  BY <1>1, StaffStay, PTL

\* An order is decided once, a day is checked into before it is checked out of, a
\* truck moves while it is on the road, and an account is secured with a key its owner
\* holds, whoever else takes a step at the same time.
THEOREM StepsComeInOrder == Spec => []StepsInOrder
<1>1. StaffInv => StepsInOrder
  BY OrderDecided, InBeforeOut, DemoShows, SecuredAsHeld DEF StaffInv, StepsInOrder
<1> QED
  BY <1>1, StaffStay, PTL

\* A decision, another plant's records and a signed proof stay as they are.
THEOREM WhatStandsStays == Spec => RecordsStand
<1>1. ASSUME StaffInv, [Next]_allVars PROVE [Work!Decided => UNCHANGED workDoc]_(Work!vars)
  BY <1>1, PartsMove, DecisionsStay DEF StaffInv
<1>2. ASSUME StaffInv, [Next]_allVars
      PROVE  [\A c \in DeskCalls : deskDesk[c].pc \in {"write", "post"} /\ deskDesk'[c].pc # deskDesk[c].pc
                => \A p \in Desk!Plants \ {deskDesk[c].plant} : Desk!RowsOf(p)' = Desk!RowsOf(p)]_(Desk!vars)
  BY <1>2, PartsMove, WritesStay DEF StaffInv
<1>3. ASSUME StaffInv, [Next]_allVars PROVE [Demo!Unedited => UNCHANGED pod]_(Demo!vars)
  BY <1>3, PartsMove, ProofStands DEF StaffInv
<1> QED
  BY <1>1, <1>2, <1>3, StaffStay, PTL
     DEF Spec, RecordsStand, Work!DecisionsStand, Desk!OtherPlantsUntouched, Demo!SignedProofStands
=============================================================================
