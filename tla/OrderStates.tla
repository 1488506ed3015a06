----------------------------- MODULE OrderStates -----------------------------
(* The order state machine's table (backend/order_service.py).               *)

Statuses == {"DRAFT", "PENDING", "ACCEPTED", "REJECTED", "SCHEDULED", "IN_PRODUCTION",
  "PRODUCTION_COMPLETE", "TM_ASSIGNED", "DRIVER_ASSIGNED", "READY_TO_DISPATCH",
  "DISPATCHED", "EN_ROUTE", "AT_SITE", "UNLOADING", "POD_PENDING", "DELIVERED", "CANCELLED"}

TRANSITIONS == [s \in Statuses |->
  CASE s = "DRAFT" -> {"PENDING", "CANCELLED"}
    [] s = "PENDING" -> {"ACCEPTED", "REJECTED", "CANCELLED"}
    [] s = "ACCEPTED" -> {"SCHEDULED", "IN_PRODUCTION", "TM_ASSIGNED", "CANCELLED"}
    [] s = "SCHEDULED" -> {"IN_PRODUCTION", "TM_ASSIGNED", "CANCELLED"}
    [] s = "IN_PRODUCTION" -> {"PRODUCTION_COMPLETE", "CANCELLED"}
    [] s = "PRODUCTION_COMPLETE" -> {"TM_ASSIGNED", "CANCELLED"}
    [] s = "TM_ASSIGNED" -> {"DRIVER_ASSIGNED", "CANCELLED"}
    [] s = "DRIVER_ASSIGNED" -> {"READY_TO_DISPATCH", "CANCELLED"}
    [] s = "READY_TO_DISPATCH" -> {"DISPATCHED", "CANCELLED"}
    [] s = "DISPATCHED" -> {"EN_ROUTE"}
    [] s = "EN_ROUTE" -> {"AT_SITE"}
    [] s = "AT_SITE" -> {"UNLOADING"}
    [] s = "UNLOADING" -> {"POD_PENDING"}
    [] s = "POD_PENDING" -> {"DELIVERED"}
    [] OTHER -> {}]

TERMINAL == {"DELIVERED", "REJECTED", "CANCELLED"}

can_transition(current, target) == target \in TRANSITIONS[current]
=============================================================================
