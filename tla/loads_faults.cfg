SPECIFICATION Spec
CONSTANTS
  v1 = v1
  v2 = v2
  d1 = d1
  d2 = d2
  Loads = {l1}
  Vehicles = {v1, v2}
  Drivers = {d1, d2}
  Calls = {c1, c2}
  NoLoad = NoLoad
  NoVehicle = NoVehicle
  NoDriver = NoDriver
  Requests = {"gatePass", "dispatch", "start", "arrive", "unload", "pod"}
  Pairs <- MCFixedPairs
  Prepared = {l1}
  Quantity <- MCWhole
  Ordered = 100
  Produced = 100
  PodQuantities = {100}
  Faults = {"crash", "database"}
INVARIANTS
  PodMatchesLoad
  
SYMMETRY MCSymmetry
\* The order may be finished or cancelled for good.
CHECK_DEADLOCK FALSE
