SPECIFICATION Spec
CONSTANTS
  None = None
  Calls = {c1, c2}
  TypedAddresses = {a1}
  MaxEdits = 1
  Wants = {w1, w2}
  Plants = {pa}
  Officers = {o1}
  Wishes = {r1}
  MaxNumbers = 2
  Places = {g1, g2}
  Forms = {f1}
  People = {u1, u2}
  OrderTopics = {"ORDER"}
  PlainTopics = {"GENERAL"}
  Asks = {a1, a2}
  MaxCases = 2
  MaxAsks = 2
  Customers = {u1, u2}
  Staff = {s1}
  Paths = {"/plant-onboarding"}
  Sessions = {s1}
  Identifiers = {i1}
  Plans = {p1, p2}
  Codes = {k1}
  Payments = {b1, b2}
  Grants = {e1, e2}
  OrderPlaces = {place}
  AssistedPlaces = {}
  QuoteCalls = {c1}
  DecisionWants = {w1}
  ListedPlaces = {g}
  Applicants = {u1}
  OwnForms = {}
  Lengths = {2}
  Allowances = {3}
  Grades = {"M25"}
  Quantities = {0, 1300, 2000}
  Capacities = {600}
  Intervals = {30}
  Starts = {1400}
  PlanPlants = {pa, pb}
  PlanOrders = {b1}
  AgainPlants = {pa}
  AgainHandlers = {c1}
  MaxOrders = 2
  MaxPrepared = 3
  MaxQuoteTouches = 3
  MaxDecisions = 4
  MaxListingTouches = 3
  MaxOwnerTouches = 4
  MaxFormTouches = 4
  MaxKycPresses = 3
  MaxLoads = 3
  MaxSaved = 2
  MaxPlannerPresses = 3
  MaxAttempts = 2
  MaxCodes = 2
  MaxDeletionPresses = 4
  MaxTries = 1
  MaxHooks = 2
  MaxAgainHooks = 1
INVARIANTS
  OneRecordPerRequest
  KeptIsWhatWasSettled
  PanelBoundary
PROPERTIES
  RightsWithTheirGround
\* The screens and their bounded calls end.
CHECK_DEADLOCK FALSE
