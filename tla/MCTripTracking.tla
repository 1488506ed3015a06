--------------------------- MODULE MCTripTracking ---------------------------
(* Values for the constants of TripTracking that a .cfg cannot write.        *)
EXTENDS TripTracking

MCOneTrip == [t \in Trips |-> "EN_ROUTE"]
=============================================================================
