SPECIFICATION Spec
CONSTANTS
  None = None
  Calls = {c1, c2}
  Receipts = {"r1"}
  Months = {m1, m2}
  ThisMonth = m1
  Create = Create
  Invoices = {i1}
  Profiles = {p1}
  Materials = {ma, mb}
  Loads = {l1}
  Crews = {v1}
  Reasons = {r1}
  Employees = {e1, e2}
  Phones = {s1}
  Secrets = {k1, k2}
  Handles = {h1, h2}
  Requests = {q1, q2}
  Amounts = {x1}
  Total = 1
  OwnersOrder = o1
  Ordered = 1
  Opening = 1
  FirstPlant = pa
  OtherPlants = {pb}
  DeskCalls = {d1}
  StockPlants = {}
  StockCalls = {d1, d2}
  BatchedOrders = {o1}
  MockOrders <- MCMockOrders
  NewOrders = {"n1"}
  DemoRoles = {"customer", "driver", "plant_owner"}
  DemoStages = {"DELIVERED"}
  MaxDeskTouches = 3
  MaxStockTouches = 2
  MaxWorkPresses = 3
  MaxWorkClock = 2
  MaxClaimPresses = 4
  MaxClaimClock = 1
  MaxTyped = 1
  MaxPayPresses = 3
  MaxBillPresses = 2
  MaxBatchPresses = 2
  MaxOrderPresses = 2
  MaxEmployeePresses = 4
  MaxPasskeys = 1
  MaxSecurityPresses = 3
  MaxProofs = 1
INVARIANTS
  
  EnteredForIt
  StepsInOrder
PROPERTY RecordsStand
SYMMETRY Symmetry
CHECK_DEADLOCK FALSE
