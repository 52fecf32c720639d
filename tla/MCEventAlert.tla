---------------------------- MODULE MCEventAlert ----------------------------
(***************************************************************************)
(* EventAlert with two options, a short year, two dates for the event and  *)
(* a bound on the orders the notification centre has not served.           *)
(***************************************************************************)
EXTENDS EventAlert

CONSTANTS
  MaxOrders,   \* bound: orders not yet served
  Date         \* bound: the dates the event may be moved to

ASSUME AlertBounds == MaxOrders \in Nat /\ Date \subseteq Time

OffsetSmall == <<0, 1>>

BoundedNext == Next /\ Len(orders') <= MaxOrders /\ date' \in Date

BoundedInit == Init /\ date \in Date

BoundedSpec == BoundedInit /\ [][BoundedNext]_vars
=============================================================================
