------------------------- MODULE MCNotificationList -------------------------
(***************************************************************************)
(* NotificationList with a bound on the observers of both kinds together   *)
(* and on the reloads on their way.                                        *)
(***************************************************************************)
EXTENDS NotificationList

CONSTANTS
  MaxTogether,   \* bound: observers
  MaxReloads     \* bound: reloads on their way

ASSUME QueueBounds == MaxTogether \in Nat /\ MaxReloads \in Nat \ {0}

BoundedNext ==
  /\ Next
  /\ listObservers' + badgeObservers' <= MaxTogether
  /\ reloads' <= MaxReloads

(* A read that waits for a reload before it returns is late, not lost.     *)
BoundedSpec == Init /\ [][BoundedNext]_vars /\ Fairness
=============================================================================
