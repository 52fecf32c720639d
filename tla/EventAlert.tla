----------------------------- MODULE EventAlert -----------------------------
(***************************************************************************)
(* The reminders of one event on one phone (EventAlertVC): a switch per    *)
(* option, kept in UserDefaults, and the local notification requests that  *)
(* the switches add to and remove from UNUserNotificationCenter.           *)
(*                                                                         *)
(* Time is a number of minutes.  A request is triggered by month, day,     *)
(* hour and minute, without the year: by the next minute, after the one in *)
(* which it is added, that agrees with the wanted date modulo a year.      *)
(*                                                                         *)
(* A tap changes two stores, neither at once: UserDefaults writes the      *)
(* switches to the disk later, the notification centre takes a request, or *)
(* its removal, on a queue of its own.  The process may die before either. *)
(***************************************************************************)
EXTENDS Integers, Sequences

CONSTANTS
  Offset,    \* minutes before the event, per row of alertOptions
  Year,      \* minutes in a year
  Horizon,   \* bound: the last minute of the model
  NoRequest  \* no request is pending under an id

Row == 1..Len(Offset)

Time == 0..Horizon

ASSUME AlertConstants ==
  /\ Offset \in Seq(Nat) /\ Year \in Nat \ {0} /\ Horizon \in Nat
  /\ NoRequest \notin Int

VARIABLES
  now,          \* the clock
  date,         \* event/<id>/date in the database
  alertStatus,  \* the switches as the process has them, per row
  stored,       \* UserDefaults on the disk
  orders,       \* what the notification centre was asked for, to come
  pending,      \* per alert id, that is per row, the request
  shown,        \* the date in the Event object EventContentVC was opened with
  screen,       \* EventAlertVC: not open, open, or open with a hidden table
  fired,        \* history: the reminders shown in the last minute
  cut           \* history: rows whose last tap a death of the process cut

vars == <<now, date, alertStatus, stored, orders, pending, shown, screen,
          fired, cut>>

(* wanted is the minute setAlertDate returned, asked the one in which the  *)
(* centre took the request, at the minute of the trigger.                  *)
Request == [wanted : Int, asked : Time, at : Int]

(* To add the request of a row, or, without a minute, to remove it.        *)
Order == [row : Row, wanted : Int \union {NoRequest}]

(* The minutes a trigger may be waiting for.                               *)
Ahead == (now + 1)..(now + Year)

TypeOK ==
  /\ now \in Time /\ date \in Time
  /\ alertStatus \in [Row -> BOOLEAN] /\ stored \in [Row -> BOOLEAN]
  /\ orders \in Seq(Order)
  /\ pending \in [Row -> Request \union {NoRequest}]
  /\ \A r \in Row : pending[r] # NoRequest => pending[r].at \in Ahead
  /\ shown \in Time
  /\ screen \in {"none", "options", "expired"}
  /\ fired \subseteq Request /\ cut \subseteq Row

Init ==
  /\ now = 0 /\ date \in Time
  /\ alertStatus = [r \in Row |-> FALSE] /\ stored = alertStatus
  /\ orders = <<>>
  /\ pending = [r \in Row |-> NoRequest]
  /\ shown = date
  /\ screen = "none"
  /\ fired = {} /\ cut = {}

-----------------------------------------------------------------------------
(* EventContentVC is opened again with a fresh Event object.               *)
OpenContent ==
  /\ screen = "none"
  /\ shown' = date
  /\ UNCHANGED <<now, date, alertStatus, stored, orders, pending, screen,
                 fired, cut>>

(* viewDidLoad reads the switches back, from the process's own copy of     *)
(* UserDefaults, and hides the table of an event whose date has passed.    *)
Open ==
  /\ screen = "none"
  /\ screen' = IF shown < now THEN "expired" ELSE "options"
  /\ UNCHANGED <<now, date, alertStatus, stored, orders, pending, shown,
                 fired, cut>>

Close ==
  /\ screen # "none"
  /\ screen' = "none"
  /\ UNCHANGED <<now, date, alertStatus, stored, orders, pending, shown,
                 fired, cut>>

SetAlertDate(r) == shown - Offset[r]

(* Mutant: switching a reminder off leaves its request pending.            *)
DidSelectRowKeeps(r) ==
  /\ screen = "options"
  /\ alertStatus' = [alertStatus EXCEPT ![r] = ~@]
  /\ orders' = IF alertStatus'[r]
                 THEN Append(orders, [row |-> r, wanted |-> SetAlertDate(r)])
                 ELSE orders
  /\ cut' = cut \ {r}
  /\ UNCHANGED <<now, date, stored, pending, shown, screen, fired>>

(* A tap toggles the switch, sets all of them in UserDefaults, and adds or *)
(* removes the request.                                                    *)
DidSelectRow(r) ==
  /\ screen = "options"
  /\ alertStatus' = [alertStatus EXCEPT ![r] = ~@]
  /\ orders' = Append(orders,
       [row |-> r,
        wanted |-> IF alertStatus'[r] THEN SetAlertDate(r) ELSE NoRequest])
  /\ cut' = cut \ {r}
  /\ UNCHANGED <<now, date, stored, pending, shown, screen, fired>>

Synchronize ==
  /\ stored # alertStatus
  /\ stored' = alertStatus
  /\ UNCHANGED <<now, date, alertStatus, orders, pending, shown, screen,
                 fired, cut>>

-----------------------------------------------------------------------------
(* The notification centre, which serves the orders of a process in turn.  *)

(* The next minute after now that agrees with d modulo a year.             *)
NextMatch(d) == now + 1 + ((d - now - 1) % Year)

(* Mutant: the minute of the request itself counts as a match.             *)
SetLocalNotificationNow(d) ==
  [wanted |-> d, asked |-> now, at |-> now + ((d - now - 1) % Year)]

SetLocalNotification(d) ==
  [wanted |-> d, asked |-> now, at |-> NextMatch(d)]

(* Adding replaces a request with the same id.                             *)
Serve ==
  /\ orders # <<>>
  /\ LET order == Head(orders) IN
       pending' = [pending EXCEPT ![order.row] =
                    IF order.wanted = NoRequest
                      THEN NoRequest ELSE SetLocalNotification(order.wanted)]
  /\ orders' = Tail(orders)
  /\ UNCHANGED <<now, date, alertStatus, stored, shown, screen, fired, cut>>

(* The user does not allow notifications; the error is not looked at.      *)
Refuse ==
  /\ orders # <<>> /\ Head(orders).wanted # NoRequest
  /\ orders' = Tail(orders)
  /\ UNCHANGED <<now, date, alertStatus, stored, pending, shown, screen,
                 fired, cut>>

OrderedRows == {orders[i].row : i \in 1..Len(orders)}

(* The process dies: what was not stored or not served is lost.  The       *)
(* requests that pend belong to the system.                                *)
Die ==
  /\ alertStatus' = stored
  /\ orders' = <<>>
  /\ screen' = "none" /\ shown' = date
  /\ cut' = cut \union OrderedRows
                 \union {r \in Row : alertStatus[r] # stored[r]}
  /\ UNCHANGED <<now, date, stored, pending, fired>>

-----------------------------------------------------------------------------
(* The organiser moves the event; the reminders are not touched.  The date *)
(* may have passed: the picker offers none before the form was opened, but *)
(* the form is written later, and with its old date if that is not edited. *)
EditDate(d) ==
  /\ date' = d
  /\ UNCHANGED <<now, alertStatus, stored, orders, pending, shown, screen,
                 fired, cut>>

Due(r) == pending[r] # NoRequest /\ pending[r].at = now'

(* A minute passes; requests do not repeat.                                *)
Tick ==
  /\ now < Horizon
  /\ now' = now + 1
  /\ fired' = {pending[r] : r \in {q \in Row : Due(q)}}
  /\ pending' = [r \in Row |-> IF Due(r) THEN NoRequest ELSE pending[r]]
  /\ UNCHANGED <<date, alertStatus, stored, orders, shown, screen, cut>>

Next ==
  \/ OpenContent \/ Open \/ Close \/ Tick
  \/ Synchronize \/ Serve \/ Refuse \/ Die
  \/ \E r \in Row : DidSelectRow(r)
  \/ \E d \in Time : EditDate(d)

Spec == Init /\ [][Next]_vars

-----------------------------------------------------------------------------
(* Properties.                                                             *)

(* Once the centre has served a row's last order, a request is pending     *)
(* only if the row shows a checkmark, however often it was tapped, and     *)
(* whatever was refused, fired, moved or reopened in between: a reminder   *)
(* the user has switched off never comes.  A death of the process between  *)
(* the two stores undoes this, for the rows it cut and until their next    *)
(* tap.                                                                    *)
PendingIsChecked ==
  \A r \in Row \ (OrderedRows \union cut) :
    pending[r] # NoRequest => alertStatus[r]

(* A reminder that the centre took in time, less than a year ahead, comes  *)
(* exactly at the minute setAlertDate computed, although the trigger has   *)
(* no year.                                                                *)
OnTime ==
  \A f \in fired :
    f.asked < f.wanted /\ f.wanted <= f.asked + Year => f.at = f.wanted
=============================================================================
