------------------------- MODULE EventAlert_proofs -------------------------
(***************************************************************************)
(* What EventAlert guarantees for every list of offsets, every length of a *)
(* year and every horizon.                                                 *)
(***************************************************************************)
EXTENDS EventAlert, TLAPS

(* A remainder lies below its divisor, and a small number is its own.      *)
LEMMA Remainder ==
  ASSUME NEW k \in Int, NEW n \in Nat \ {0}
  PROVE  /\ k % n \in 0..(n - 1)
         /\ k \in 0..(n - 1) => k % n = k
OBVIOUS

(* A trigger waits at most a year; for a minute less than a year ahead it  *)
(* waits for that minute.                                                  *)
LEMMA NextMatchWithinYear ==
  ASSUME NEW d \in Int, now \in Time
  PROVE  /\ NextMatch(d) \in Ahead
         /\ now < d /\ d <= now + Year => NextMatch(d) = d
<1> DEFINE k == d - now - 1
<1>1. Year \in Nat \ {0} /\ now \in Int /\ k \in Int
  BY AlertConstants DEF Time
<1>2. /\ k % Year \in 0..(Year - 1)
      /\ k \in 0..(Year - 1) => k % Year = k
  BY <1>1, Remainder
<1> QED
  BY <1>1, <1>2 DEF NextMatch, Ahead

-----------------------------------------------------------------------------
(* A reminder asked for in time waits for the minute that was wanted.      *)
Prompt(f) ==
  f.asked < f.wanted /\ f.wanted <= f.asked + Year => f.at = f.wanted

(* No later order is about the same row.                                   *)
IsLast(i) ==
  \A j \in 1..Len(orders) : j > i => orders[j].row # orders[i].row

(* The last order of a row agrees with its switch, unless it was cut.      *)
LastOrders ==
  \A i \in 1..Len(orders) :
    IsLast(i) /\ orders[i].row \notin cut /\ orders[i].wanted # NoRequest
      => alertStatus[orders[i].row]

(* OnTime speaks of the reminders that were shown; what they will be is    *)
(* settled when the centre takes them.                                     *)
AlertIInv ==
  /\ TypeOK
  /\ PendingIsChecked /\ LastOrders
  /\ \A r \in Row : pending[r] # NoRequest => Prompt(pending[r])
  /\ \A f \in fired : Prompt(f)

LEMMA RequestIsPrompt ==
  ASSUME TypeOK, NEW d \in Int
  PROVE  /\ SetLocalNotification(d) \in Request
         /\ SetLocalNotification(d).at \in Ahead
         /\ Prompt(SetLocalNotification(d))
<1>1. now \in Time
  BY DEF TypeOK
<1>2. /\ NextMatch(d) \in Ahead
      /\ now < d /\ d <= now + Year => NextMatch(d) = d
  BY <1>1, NextMatchWithinYear
<1>3. NextMatch(d) \in Int
  BY <1>2 DEF Ahead
<1> QED
  BY <1>1, <1>2, <1>3 DEF SetLocalNotification, Request, Prompt

LEMMA InitAlert == Init => AlertIInv
<1> SUFFICES ASSUME Init
             PROVE  AlertIInv
  OBVIOUS
<1>1. orders = <<>> /\ orders \in Seq(Order)
  BY DEF Init
<1>2. TypeOK
  BY <1>1, AlertConstants DEF Init, TypeOK, Time
<1>3. LastOrders
  BY <1>1 DEF LastOrders
<1> QED
  BY <1>2, <1>3 DEF Init, AlertIInv, PendingIsChecked

(* The minute that passes: what is due leaves pending and is shown.        *)
LEMMA TickAlert ==
  ASSUME AlertIInv, Tick
  PROVE  AlertIInv'
<1>1. now \in Nat /\ now' = now + 1 /\ now' \in Time
  BY AlertConstants DEF AlertIInv, TypeOK, Tick, Time
<1>2. ASSUME NEW r \in Row, pending'[r] # NoRequest
      PROVE  pending'[r] = pending[r] /\ ~Due(r) /\ pending[r] # NoRequest
  BY <1>2 DEF Tick, AlertIInv, TypeOK
<1>3. ASSUME NEW f \in fired'
      PROVE  f \in Request /\ Prompt(f)
  <2>1. PICK r \in Row : Due(r) /\ f = pending[r]
    BY <1>3 DEF Tick
  <2> QED
    BY <2>1 DEF Due, AlertIInv, TypeOK
<1>4. ASSUME NEW r \in Row, pending'[r] # NoRequest
      PROVE  pending'[r].at \in Ahead'
  <2>1. pending[r].at \in Ahead /\ pending[r].at # now'
    BY <1>2, <1>4 DEF Due, AlertIInv, TypeOK
  <2> QED
    BY <1>1, <1>2, <1>4, <2>1, AlertConstants DEF Ahead
<1>5. TypeOK'
  BY <1>1, <1>3, <1>4 DEF AlertIInv, TypeOK, Tick
<1>6. PendingIsChecked' /\ LastOrders'
  BY <1>2 DEF AlertIInv, PendingIsChecked, LastOrders, IsLast, OrderedRows, Tick
<1> QED
  BY <1>2, <1>3, <1>5, <1>6 DEF AlertIInv, Prompt

(* A tap makes its order the last one of the row.                          *)
LEMMA TapAlert ==
  ASSUME AlertIInv, NEW r \in Row, DidSelectRow(r)
  PROVE  AlertIInv'
<1> DEFINE order == [row |-> r,
              wanted |-> IF alertStatus'[r] THEN SetAlertDate(r) ELSE NoRequest]
<1>1. /\ orders \in Seq(Order) /\ alertStatus \in [Row -> BOOLEAN]
      /\ cut \subseteq Row
  BY DEF AlertIInv, TypeOK
<1>2. shown \in Int /\ Offset[r] \in Nat
  BY AlertConstants DEF AlertIInv, TypeOK, Row, Time
<1>3. order \in Order
  BY <1>2 DEF SetAlertDate, Order
<1>4. orders' = Append(orders, order) /\ orders' \in Seq(Order)
  BY <1>1, <1>3 DEF DidSelectRow
<1>5. /\ Len(orders') = Len(orders) + 1 /\ Len(orders) \in Nat
      /\ orders'[Len(orders) + 1] = order
      /\ \A i \in 1..Len(orders) : orders'[i] = orders[i]
  BY <1>1, <1>3, <1>4
<1>6. /\ alertStatus' = [alertStatus EXCEPT ![r] = ~@]
      /\ cut' = cut \ {r} /\ pending' = pending
  BY DEF DidSelectRow
<1>7. TypeOK'
  BY <1>1, <1>4, <1>6 DEF DidSelectRow, AlertIInv, TypeOK, Ahead
<1>8. OrderedRows' = OrderedRows \union {r}
  BY <1>5 DEF OrderedRows
<1>9. PendingIsChecked'
  BY <1>1, <1>6, <1>8 DEF AlertIInv, PendingIsChecked
<1>10. LastOrders'
  <2> SUFFICES ASSUME NEW i \in 1..Len(orders'), IsLast(i)',
                      orders'[i].row \notin cut', orders'[i].wanted # NoRequest
               PROVE  alertStatus'[orders'[i].row]
    BY DEF LastOrders
  <2>1. CASE i = Len(orders) + 1
    BY <1>1, <1>5, <1>6, <2>1
  <2>2. CASE i \in 1..Len(orders)
    <3>1. orders'[Len(orders) + 1].row # orders'[i].row
      BY <1>5, <2>2 DEF IsLast
    <3>2. orders[i].row # r /\ orders[i] = orders'[i] /\ orders[i] \in Order
      BY <1>1, <1>5, <2>2, <3>1
    <3>3. IsLast(i)
      <4> SUFFICES ASSUME NEW j \in 1..Len(orders), j > i
                   PROVE  orders[j].row # orders[i].row
        BY DEF IsLast
      <4>1. j \in 1..Len(orders') /\ orders'[j] = orders[j]
        BY <1>5
      <4> QED
        BY <3>2, <4>1 DEF IsLast
    <3>4. alertStatus[orders[i].row]
      BY <1>6, <2>2, <3>2, <3>3 DEF AlertIInv, LastOrders
    <3>5. orders[i].row \in Row
      BY <3>2 DEF Order
    <3> QED
      BY <1>1, <1>6, <3>2, <3>4, <3>5
  <2> QED
    BY <1>5, <2>1, <2>2
<1> QED
  BY <1>6, <1>7, <1>9, <1>10 DEF DidSelectRow, AlertIInv, Prompt

(* What becomes of the orders when the first is served or refused.         *)
LEMMA OrdersMove ==
  ASSUME NEW S, NEW s \in Seq(S), s # <<>>
  PROVE  /\ Head(s) = s[1] /\ s[1] \in S
         /\ Tail(s) \in Seq(S) /\ Len(s) \in Nat \ {0}
         /\ Len(Tail(s)) = Len(s) - 1
         /\ \A i \in 1..Len(Tail(s)) : Tail(s)[i] = s[i + 1]
OBVIOUS

LEMMA OrdersStep ==
  ASSUME AlertIInv, orders # <<>>, orders' = Tail(orders),
         UNCHANGED <<alertStatus, cut>>
  PROVE  /\ LastOrders'
         /\ OrderedRows \subseteq OrderedRows' \union {orders[1].row}
         /\ orders[1].row \notin OrderedRows' \union cut
              => (orders[1].wanted # NoRequest => alertStatus[orders[1].row])
<1>1. /\ orders \in Seq(Order) /\ Len(orders) \in Nat \ {0}
      /\ Len(orders') = Len(orders) - 1
      /\ \A i \in 1..Len(orders') : orders'[i] = orders[i + 1]
  BY OrdersMove DEF AlertIInv, TypeOK
<1>2. \A i \in 2..Len(orders) :
        i - 1 \in 1..Len(orders') /\ orders'[i - 1] = orders[i]
  BY <1>1
<1>3. LastOrders'
  <2> SUFFICES ASSUME NEW i \in 1..Len(orders'), IsLast(i)',
                      orders'[i].row \notin cut, orders'[i].wanted # NoRequest
               PROVE  alertStatus[orders'[i].row]
    BY DEF LastOrders
  <2>1. i + 1 \in 1..Len(orders) /\ orders'[i] = orders[i + 1]
    BY <1>1
  <2>2. IsLast(i + 1)
    <3> SUFFICES ASSUME NEW j \in 1..Len(orders), j > i + 1
                 PROVE  orders[j].row # orders[i + 1].row
      BY DEF IsLast
    <3>1. j - 1 \in 1..Len(orders') /\ orders'[j - 1] = orders[j] /\ j - 1 > i
      BY <1>1, <1>2
    <3> QED
      BY <2>1, <3>1 DEF IsLast
  <2> QED
    BY <2>1, <2>2 DEF AlertIInv, LastOrders
<1>4. ASSUME NEW q \in OrderedRows, q # orders[1].row
      PROVE  q \in OrderedRows'
  <2>1. PICK i \in 1..Len(orders) : q = orders[i].row
    BY DEF OrderedRows
  <2>2. i \in 2..Len(orders)
    BY <1>1, <1>4, <2>1
  <2> QED
    BY <1>2, <2>1, <2>2 DEF OrderedRows
<1>5. ASSUME orders[1].row \notin OrderedRows' \union cut,
             orders[1].wanted # NoRequest
      PROVE  alertStatus[orders[1].row]
  <2>1. IsLast(1)
    <3> SUFFICES ASSUME NEW j \in 1..Len(orders), j > 1
                 PROVE  orders[j].row # orders[1].row
      BY DEF IsLast
    <3>1. j \in 2..Len(orders)
      BY <1>1
    <3> QED
      BY <1>2, <1>5, <3>1 DEF OrderedRows
  <2>2. 1 \in 1..Len(orders)
    BY <1>1
  <2> QED
    BY <1>5, <2>1, <2>2 DEF AlertIInv, LastOrders
<1> QED
  BY <1>3, <1>4, <1>5

LEMMA ServeAlert ==
  ASSUME AlertIInv, Serve
  PROVE  AlertIInv'
<1> DEFINE order == orders[1]
<1>1. /\ orders # <<>> /\ orders' = Tail(orders)
      /\ Head(orders) = order /\ order \in Order /\ orders' \in Seq(Order)
  BY OrdersMove DEF Serve, AlertIInv, TypeOK
<1>2. order.row \in Row /\ order.wanted \in Int \union {NoRequest}
  BY <1>1 DEF Order
<1>3. pending' = [pending EXCEPT ![order.row] =
        IF order.wanted = NoRequest
          THEN NoRequest ELSE SetLocalNotification(order.wanted)]
  BY <1>1 DEF Serve
<1> HIDE DEF order
<1>4. order.wanted # NoRequest =>
        /\ SetLocalNotification(order.wanted) \in Request
        /\ SetLocalNotification(order.wanted).at \in Ahead
        /\ Prompt(SetLocalNotification(order.wanted))
  BY <1>2, RequestIsPrompt DEF AlertIInv
<1>5. pending \in [Row -> Request \union {NoRequest}]
  BY DEF AlertIInv, TypeOK
<1>6. ASSUME NEW q \in Row, pending'[q] # NoRequest
      PROVE  /\ pending'[q] \in Request /\ pending'[q].at \in Ahead
             /\ Prompt(pending'[q])
  <2>1. CASE q = order.row
    BY <1>2, <1>3, <1>4, <1>5, <1>6, <2>1
  <2>2. CASE q # order.row
    BY <1>2, <1>3, <1>5, <1>6, <2>2 DEF AlertIInv, TypeOK
  <2> QED
    BY <2>1, <2>2
<1>7. pending' \in [Row -> Request \union {NoRequest}]
  BY <1>2, <1>3, <1>4, <1>5
<1>8. TypeOK'
  BY <1>1, <1>6, <1>7 DEF Serve, AlertIInv, TypeOK, Ahead
<1>9. /\ LastOrders'
      /\ OrderedRows \subseteq OrderedRows' \union {order.row}
      /\ order.row \notin OrderedRows' \union cut
           => (order.wanted # NoRequest => alertStatus[order.row])
  BY <1>1, OrdersStep DEF Serve, order
<1>10. PendingIsChecked'
  <2> SUFFICES ASSUME NEW q \in Row, q \notin OrderedRows', q \notin cut,
                      pending'[q] # NoRequest
               PROVE  alertStatus[q]
    BY DEF PendingIsChecked, Serve
  <2>1. CASE q = order.row
    BY <1>2, <1>3, <1>5, <1>9, <2>1
  <2>2. CASE q # order.row
    BY <1>2, <1>3, <1>5, <1>9, <2>2 DEF AlertIInv, PendingIsChecked
  <2> QED
    BY <2>1, <2>2
<1> QED
  BY <1>6, <1>8, <1>9, <1>10 DEF Serve, AlertIInv, Prompt

(* A refused order leaves a request that an earlier order asked for, when  *)
(* the switch was on as well.                                              *)
LEMMA RefuseAlert ==
  ASSUME AlertIInv, Refuse
  PROVE  AlertIInv'
<1>1. /\ orders # <<>> /\ orders' = Tail(orders)
      /\ orders[1].wanted # NoRequest /\ orders' \in Seq(Order)
      /\ UNCHANGED <<alertStatus, cut, pending>>
  BY OrdersMove DEF Refuse, AlertIInv, TypeOK
<1>2. /\ LastOrders'
      /\ OrderedRows \subseteq OrderedRows' \union {orders[1].row}
      /\ orders[1].row \notin OrderedRows' \union cut
           => (orders[1].wanted # NoRequest => alertStatus[orders[1].row])
  BY <1>1, OrdersStep
<1>3. PendingIsChecked'
  <2> SUFFICES ASSUME NEW q \in Row, q \notin OrderedRows', q \notin cut,
                      pending[q] # NoRequest
               PROVE  alertStatus[q]
    BY <1>1 DEF PendingIsChecked
  <2>1. CASE q = orders[1].row
    BY <1>1, <1>2, <2>1
  <2>2. CASE q # orders[1].row
    BY <1>2, <2>2 DEF AlertIInv, PendingIsChecked
  <2> QED
    BY <2>1, <2>2
<1>4. TypeOK'
  BY <1>1 DEF Refuse, AlertIInv, TypeOK, Ahead
<1> QED
  BY <1>2, <1>3, <1>4 DEF Refuse, AlertIInv, Prompt

(* A death leaves no order; a switch it turns back is in cut.              *)
LEMMA DieAlert ==
  ASSUME AlertIInv, Die
  PROVE  AlertIInv'
<1>1. orders \in Seq(Order)
  BY DEF AlertIInv, TypeOK
<1>2. \A i \in 1..Len(orders) : orders[i] \in Order
  BY <1>1
<1>3. OrderedRows \subseteq Row
  BY <1>2 DEF OrderedRows, Order
<1>4. orders' = <<>> /\ orders' \in Seq(Order)
  BY DEF Die
<1>5. TypeOK'
  BY <1>3, <1>4 DEF Die, AlertIInv, TypeOK, Ahead
<1>6. LastOrders'
  BY <1>4 DEF LastOrders
<1>7. PendingIsChecked'
  BY DEF Die, AlertIInv, PendingIsChecked, TypeOK
<1> QED
  BY <1>5, <1>6, <1>7 DEF Die, AlertIInv, Prompt

LEMMA NextAlert == AlertIInv /\ [Next]_vars => AlertIInv'
<1> SUFFICES ASSUME AlertIInv, [Next]_vars
             PROVE  AlertIInv'
  OBVIOUS
<1> USE DEF AlertIInv, TypeOK, PendingIsChecked, LastOrders, IsLast,
            OrderedRows, Prompt, Ahead
<1>1. CASE OpenContent
  BY <1>1 DEF OpenContent
<1>2. CASE Open
  BY <1>2 DEF Open
<1>3. CASE Close
  BY <1>3 DEF Close
<1>4. CASE Synchronize
  BY <1>4 DEF Synchronize
<1>5. ASSUME NEW d \in Time, EditDate(d)
      PROVE  AlertIInv'
  BY <1>5 DEF EditDate
<1>6. CASE UNCHANGED vars
  BY <1>6 DEF vars
<1> QED
  BY <1>1, <1>2, <1>3, <1>4, <1>5, <1>6, TickAlert, TapAlert, ServeAlert,
     RefuseAlert, DieAlert
     DEF Next

(* Whatever is tapped, served, fired, moved, cut or reopened, the requests *)
(* pending are those under a checkmark, and one taken in time is on time.  *)
THEOREM AlertsAlways == Spec => []AlertIInv
BY InitAlert, NextAlert, PTL DEF Spec

(* Whatever the order in which UserDefaults and the notification centre    *)
(* follow the taps of didSelectRowAt, a request whose row has no order to  *)
(* come and was not cut by a death pends under a checkmark.                *)
THEOREM RemindersChecked == Spec => [](TypeOK /\ PendingIsChecked)
<1>1. AlertIInv => TypeOK /\ PendingIsChecked
  BY DEF AlertIInv
<1> QED
  BY <1>1, AlertsAlways, PTL

(* A reminder taken less than a year ahead comes when it is wanted,        *)
(* though its trigger has no year (setLocalNotification).                  *)
THEOREM RemindersOnTime == Spec => []OnTime
<1>1. AlertIInv => OnTime
  BY DEF AlertIInv, OnTime, Prompt
<1> QED
  BY <1>1, AlertsAlways, PTL
=============================================================================
