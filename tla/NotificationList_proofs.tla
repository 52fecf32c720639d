---------------------- MODULE NotificationList_proofs ----------------------
(***************************************************************************)
(* What the notification tab and the badge keep, for any events, any       *)
(* number of notifications and any number of observers.                    *)
(***************************************************************************)
EXTENDS NotificationList, FiniteSetTheorems, TLAPS

(* Notifications are marked read, and never taken away: no list is shorter *)
(* than the ones before it, and the table than none of them.               *)
IsList(i) == i \in 1..Len(calls) /\ calls[i].kind = "list"

ListsGrow ==
  /\ Len(notificationData) <= Len(notes)
  /\ \A i \in 1..Len(calls) : Len(calls[i].snapshot) <= Len(notes)
  /\ \A i \in 1..Len(calls) :
       IsList(i) => Len(notificationData) <= Len(calls[i].snapshot)
  /\ \A i \in 1..Len(calls), j \in 1..Len(calls) :
       IsList(i) /\ IsList(j) /\ i <= j
         => Len(calls[i].snapshot) <= Len(calls[j].snapshot)

(* What LatestRowsLast says, index by index.                               *)
Rounds == joinedEventData \o reads

RowsLast ==
  ~skipped =>
    /\ Len(notificationData) <= Len(Rounds)
    /\ \A i \in 1..Len(notificationData) :
         Rounds[Len(Rounds) - Len(notificationData) + i]
           = notificationData[i].eventID

IsBadge(i) == i \in 1..Len(calls) /\ calls[i].kind = "badge"

(* The last call on its way to an observer of the badge carries the        *)
(* notifications of the database; when none is on its way they are counted *)
(* already.                                                                *)
LastBadgeIsCurrent ==
  /\ \A i \in 1..Len(calls) : IsBadge(i) => badgeObservers > 0
  /\ \A i \in 1..Len(calls) :
       IsBadge(i) /\ (\A j \in (i + 1)..Len(calls) : ~IsBadge(j))
         => calls[i].snapshot = notes
  /\ badgeObservers > 0 /\ (\A i \in 1..Len(calls) : ~IsBadge(i))
       => badge = Unread(notes)

(* An empty list leaves the badge alone, which is right as long as it has  *)
(* never been set.                                                         *)
EmptyIsZero == notes = <<>> => badge = 0

ListInv ==
  /\ TypeOK /\ ListsGrow /\ RowsLast /\ LastBadgeIsCurrent /\ EmptyIsZero

-----------------------------------------------------------------------------
(* Sequences and counts.                                                   *)

LEMMA UnreadBound ==
  ASSUME NEW list \in Seq(Note)
  PROVE  Unread(list) \in 0..Len(list)
<1> DEFINE S == {i \in 1..Len(list) : ~list[i].isRead}
<1>0. Len(list) \in Nat
  OBVIOUS
<1>1. IsFiniteSet(1..Len(list)) /\ Cardinality(1..Len(list)) = Len(list)
  BY <1>0, FS_Interval
<1>2. IsFiniteSet(S) /\ Cardinality(S) <= Len(list)
  BY <1>1, FS_Subset
<1>3. Cardinality(S) \in Nat
  BY <1>2, FS_CardinalityType
<1> QED
  BY <1>2, <1>3 DEF Unread

LEMMA UnreadNone == Unread(<<>>) = 0
<1>1. {i \in 1..Len(<<>>) : ~<<>>[i].isRead} = {}
  OBVIOUS
<1> QED
  BY <1>1, FS_EmptySet DEF Unread

LEMMA Reversed ==
  ASSUME NEW S, NEW s \in Seq(S)
  PROVE  /\ Reverse(s) \in Seq(S) /\ Len(Reverse(s)) = Len(s)
         /\ \A i \in 1..Len(s) : Reverse(s)[i] = s[Len(s) - i + 1]
BY DEF Reverse

LEMMA IDsOfNotes ==
  ASSUME NEW s \in Seq(Note)
  PROVE  /\ EventIDs(s) \in Seq(Event) /\ Len(EventIDs(s)) = Len(s)
         /\ \A i \in 1..Len(s) : EventIDs(s)[i] = s[i].eventID
<1>1. Len(s) \in Nat /\ \A i \in 1..Len(s) : s[i].eventID \in Event
  <2>1. Len(s) \in Nat /\ \A i \in 1..Len(s) : s[i] \in Note
    OBVIOUS
  <2> QED
    BY <2>1 DEF Note
<1>2. EventIDs(s) = [i \in 1..Len(s) |-> s[i].eventID]
  BY DEF EventIDs
<1> QED
  BY <1>1, <1>2

(* A suffix, index by index.                                               *)
LEMMA SuffixByIndex ==
  ASSUME NEW S, NEW s \in Seq(S), NEW t \in Seq(S), Len(s) <= Len(t),
         \A i \in 1..Len(s) : t[Len(t) - Len(s) + i] = s[i]
  PROVE  IsSuffix(s, t)
<1> DEFINE r == Reverse(s)
           q == Reverse(t)
<1>1. r \in Seq(S) /\ Len(r) = Len(s) /\ q \in Seq(S) /\ Len(q) = Len(t)
  BY Reversed
<1>2. ASSUME NEW i \in 1..Len(s)
      PROVE  r[i] = q[i]
  <2>1. r[i] = s[Len(s) - i + 1] /\ q[i] = t[Len(t) - i + 1]
    <3>1. i \in 1..Len(t)
      OBVIOUS
    <3> QED
      BY <3>1, Reversed
  <2>2. Len(s) - i + 1 \in 1..Len(s)
    OBVIOUS
  <2>3. Len(t) - Len(s) + (Len(s) - i + 1) = Len(t) - i + 1
    OBVIOUS
  <2> QED
    BY <2>1, <2>2, <2>3
<1> HIDE DEF r, q
<1>3. SubSeq(r, 1, Len(r)) = SubSeq(q, 1, Len(r))
  BY <1>1, <1>2
<1> QED
  BY <1>1, <1>3 DEF IsSuffix, IsPrefix, r, q

(* The call of every observer: the badge's first, then the list's.         *)
LEMMA AllCalled ==
  ASSUME TypeOK, NEW s \in Seq(Note)
  PROVE  /\ CallAll(s) \in Seq(Call)
         /\ Len(CallAll(s)) = Len(calls) + badgeObservers + listObservers
         /\ \A i \in 1..Len(calls) : CallAll(s)[i] = calls[i]
         /\ \A i \in 1..badgeObservers :
              CallAll(s)[Len(calls) + i] = CallOf("badge", s)
         /\ \A i \in 1..listObservers :
              CallAll(s)[Len(calls) + badgeObservers + i] = CallOf("list", s)
<1> DEFINE b == [i \in 1..badgeObservers |-> CallOf("badge", s)]
           l == [i \in 1..listObservers |-> CallOf("list", s)]
<1>1. CallOf("badge", s) \in Call /\ CallOf("list", s) \in Call
  BY DEF CallOf, Call
<1>2. /\ badgeObservers \in Nat /\ listObservers \in Nat
      /\ calls \in Seq(Call)
  BY ListBounds DEF TypeOK
<1>3. b \in Seq(Call) /\ Len(b) = badgeObservers
  BY <1>1, <1>2
<1>4. l \in Seq(Call) /\ Len(l) = listObservers
  BY <1>1, <1>2
<1>5. /\ \A i \in 1..badgeObservers : b[i] = CallOf("badge", s)
      /\ \A i \in 1..listObservers : l[i] = CallOf("list", s)
  OBVIOUS
<1> DEFINE d == calls \o b
           e == d \o l
<1>6. CallAll(s) = e
  BY DEF CallAll
<1> HIDE DEF b, l
<1>7. /\ d \in Seq(Call) /\ Len(d) = Len(calls) + badgeObservers
      /\ \A i \in 1..Len(calls) : d[i] = calls[i]
      /\ \A i \in 1..badgeObservers : d[Len(calls) + i] = CallOf("badge", s)
  <2>1. d \in Seq(Call) /\ Len(d) = Len(calls) + badgeObservers
    BY <1>2, <1>3
  <2>2. ASSUME NEW i \in 1..Len(calls) PROVE d[i] = calls[i]
    BY <1>2, <1>3
  <2>3. ASSUME NEW i \in 1..badgeObservers PROVE d[Len(calls) + i] = b[i]
    BY <1>2, <1>3
  <2> HIDE DEF d
  <2> QED
    BY <1>5, <2>1, <2>2, <2>3
<1> HIDE DEF d
<1>8. /\ e \in Seq(Call)
      /\ Len(e) = Len(calls) + badgeObservers + listObservers
      /\ \A i \in 1..Len(d) : e[i] = d[i]
      /\ \A i \in 1..listObservers :
           e[Len(calls) + badgeObservers + i] = CallOf("list", s)
  <2>0. d \in Seq(Call) /\ l \in Seq(Call) /\ Len(d) \in Nat
    BY <1>4, <1>7
  <2>1. e \in Seq(Call) /\ Len(e) = Len(d) + Len(l)
    BY <2>0
  <2>2. ASSUME NEW i \in 1..Len(d) PROVE e[i] = d[i]
    BY <2>0
  <2>3. ASSUME NEW i \in 1..Len(l) PROVE e[Len(d) + i] = l[i]
    BY <2>0
  <2> HIDE DEF e
  <2>4. ASSUME NEW i \in 1..listObservers
        PROVE  e[Len(calls) + badgeObservers + i] = CallOf("list", s)
    <3>1. Len(calls) + badgeObservers + i = Len(d) + i
      BY <1>7
    <3>2. e[Len(d) + i] = l[i]
      BY <1>4, <2>3
    <3> QED
      BY <1>5, <3>1, <3>2
  <2> QED
    BY <1>4, <1>7, <2>1, <2>2, <2>4
<1> HIDE DEF e
<1>9. 1..Len(calls) \subseteq 1..Len(d)
  BY <1>2, <1>7
<1>10. \A i \in 1..badgeObservers : Len(calls) + i \in 1..Len(d)
  BY <1>2, <1>7
<1> QED
  BY <1>6, <1>7, <1>8, <1>9, <1>10, Zenon

-----------------------------------------------------------------------------
LEMMA ListStarts == Init => ListInv
<1> SUFFICES ASSUME Init PROVE ListInv
  OBVIOUS
<1>1. TypeOK
  <2>1. \A S : <<>> \in Seq(S)
    OBVIOUS
  <2>2. /\ notes \in Seq(Note) /\ calls \in Seq(Call) /\ reads \in Seq(Event)
        /\ notificationData \in Seq(Note) /\ joinedEventData \in Seq(Event)
        /\ rows \in Seq(Note) /\ Len(rows) <= Len(notificationData)
        /\ opened \in Tap
    BY <2>1 DEF Init, Tap
  <2>3. /\ 0 \in 0..MaxObservers /\ 0 \in 0..MaxNotes /\ Len(notes) = 0
        /\ 0 <= MaxNotes
    BY ListBounds DEF Init
  <2> QED
    BY <2>2, <2>3 DEF Init, TypeOK
<1>2. ListsGrow /\ RowsLast
  BY DEF Init, ListsGrow, IsList, RowsLast, Rounds
<1>3. LastBadgeIsCurrent /\ EmptyIsZero
  BY DEF Init, LastBadgeIsCurrent, IsBadge, EmptyIsZero
<1> QED
  BY <1>1, <1>2, <1>3 DEF ListInv

(* A change of the notifications that calls every observer.                *)
LEMMA AllCalledKeeps ==
  ASSUME ListInv, notes' \in Seq(Note), notes' # <<>>,
         Len(notes') \in Len(notes)..MaxNotes, calls' = CallAll(notes'),
         opened' \in Tap,
         UNCHANGED <<written, listObservers, badgeObservers, reads,
                     notificationData, joinedEventData, rows, reloads, badge,
                     skipped>>
  PROVE  ListInv'
<1> USE DEF ListInv
<1>1. /\ calls \in Seq(Call) /\ badgeObservers \in Nat
      /\ listObservers \in Nat /\ Len(calls) \in Nat
      /\ Len(notes) \in Nat /\ Len(notes') \in Nat
  BY ListBounds DEF TypeOK
<1>2. /\ calls' \in Seq(Call)
      /\ Len(calls') = Len(calls) + badgeObservers + listObservers
      /\ \A i \in 1..Len(calls) : calls'[i] = calls[i]
      /\ \A i \in 1..badgeObservers :
           calls'[Len(calls) + i] = CallOf("badge", notes')
      /\ \A i \in 1..listObservers :
           calls'[Len(calls) + badgeObservers + i] = CallOf("list", notes')
  BY AllCalled
<1>3. ASSUME NEW i \in 1..Len(calls')
      PROVE  \/ i \in 1..Len(calls) /\ calls'[i] = calls[i]
             \/ /\ badgeObservers > 0 /\ calls'[i] = CallOf("badge", notes')
             \/ calls'[i] = CallOf("list", notes')
  <2>1. CASE i <= Len(calls)
    BY <1>1, <1>2, <2>1
  <2>2. CASE i > Len(calls) /\ i <= Len(calls) + badgeObservers
    <3>1. i - Len(calls) \in 1..badgeObservers
            /\ Len(calls) + (i - Len(calls)) = i
      BY <1>1, <2>2
    <3>2. calls'[Len(calls) + (i - Len(calls))] = CallOf("badge", notes')
      BY <1>2, <3>1
    <3>3. badgeObservers > 0
      BY <1>1, <3>1
    <3> QED
      BY <3>1, <3>2, <3>3
  <2>3. CASE i > Len(calls) + badgeObservers
    <3> DEFINE k == i - (Len(calls) + badgeObservers)
    <3>1. k \in 1..listObservers /\ Len(calls) + badgeObservers + k = i
      BY <1>1, <1>2, <2>3
    <3>2. calls'[Len(calls) + badgeObservers + k] = CallOf("list", notes')
      BY <1>2, <3>1
    <3> QED
      BY <3>1, <3>2
  <2> QED
    BY <1>1, <1>2, <2>1, <2>2, <2>3
<1>4. TypeOK'
  BY <1>2 DEF TypeOK
<1>5. ListsGrow'
  <2>1. ASSUME NEW i \in 1..Len(calls')
        PROVE  Len(calls'[i].snapshot) <= Len(notes')
    BY <1>1, <1>3 DEF CallOf, ListsGrow
  <2>2. Len(notificationData') <= Len(notes')
    BY <1>1 DEF ListsGrow, TypeOK
  <2>3. ASSUME NEW i \in 1..Len(calls'), IsList(i)'
        PROVE  Len(notificationData') <= Len(calls'[i].snapshot)
    BY <1>3, <2>2, <2>3 DEF CallOf, ListsGrow, IsList
  <2>4. ASSUME NEW i \in 1..Len(calls'), NEW j \in 1..Len(calls'),
               IsList(i)', IsList(j)', i <= j
        PROVE  Len(calls'[i].snapshot) <= Len(calls'[j].snapshot)
    <3>1. CASE j \in 1..Len(calls)
      <4>1. i \in 1..Len(calls) /\ calls'[i] = calls[i] /\ calls'[j] = calls[j]
        BY <1>1, <1>2, <2>4, <3>1
      <4> QED
        BY <2>4, <3>1, <4>1 DEF ListsGrow, IsList
    <3>2. CASE j \notin 1..Len(calls)
      <4>1. calls'[j].snapshot = notes'
        BY <1>3, <3>2 DEF CallOf
      <4> QED
        BY <2>1, <4>1
    <3> QED
      BY <3>1, <3>2
  <2> QED
    BY <2>1, <2>2, <2>3, <2>4 DEF ListsGrow
<1>6. RowsLast'
  BY DEF RowsLast, Rounds
<1>7. LastBadgeIsCurrent'
  <2>1. ASSUME badgeObservers > 0
        PROVE  /\ Len(calls) + 1 \in 1..Len(calls')
               /\ calls'[Len(calls) + 1].kind = "badge"
    <3>1. 1 \in 1..badgeObservers
      BY <1>1, <2>1
    <3> QED
      BY <1>1, <1>2, <3>1 DEF CallOf
  <2>2. ASSUME NEW i \in 1..Len(calls'), IsBadge(i)'
        PROVE  /\ badgeObservers > 0
               /\ i \in 1..Len(calls) \/ calls'[i].snapshot = notes'
    BY <1>3, <2>2 DEF CallOf, IsBadge, LastBadgeIsCurrent
  <2>3. ASSUME NEW i \in 1..Len(calls'), IsBadge(i)',
               \A j \in (i + 1)..Len(calls') : ~IsBadge(j)'
        PROVE  calls'[i].snapshot = notes'
    <3>1. CASE i \in 1..Len(calls)
      <4>1. Len(calls) + 1 \in (i + 1)..Len(calls')
        BY <1>1, <2>1, <2>2, <2>3, <3>1
      <4> QED
        BY <2>1, <2>2, <2>3, <4>1 DEF IsBadge
    <3> QED
      BY <2>2, <2>3, <3>1
  <2>4. ASSUME badgeObservers' > 0, \A i \in 1..Len(calls') : ~IsBadge(i)'
        PROVE  FALSE
    BY <2>1, <2>4 DEF IsBadge
  <2> QED
    BY <2>2, <2>3, <2>4 DEF LastBadgeIsCurrent
<1>8. EmptyIsZero'
  BY DEF EmptyIsZero
<1> QED
  BY <1>4, <1>5, <1>6, <1>7, <1>8

LEMMA Inserted ==
  ASSUME NEW S, NEW s \in Seq(S), NEW i \in 1..(Len(s) + 1), NEW e \in S
  PROVE  InsertAt(s, i, e) \in Seq(S) /\ Len(InsertAt(s, i, e)) = Len(s) + 1
<1> DEFINE t == SubSeq(s, 1, i - 1)
           v == SubSeq(s, i, Len(s))
<1>1. /\ t \in Seq(S) /\ Len(t) = i - 1
      /\ v \in Seq(S) /\ Len(v) = Len(s) - i + 1
  OBVIOUS
<1>2. /\ t \o <<e>> \o v \in Seq(S)
      /\ Len(t \o <<e>> \o v) = Len(t) + 1 + Len(v)
  <2> HIDE DEF t, v
  <2> QED
    BY <1>1
<1>3. Len(t) + 1 + Len(v) = Len(s) + 1
  <2> HIDE DEF t, v
  <2> QED
    BY <1>1
<1>4. InsertAt(s, i, e) = t \o <<e>> \o v
  BY DEF InsertAt
<1> HIDE DEF t, v
<1> QED
  BY <1>2, <1>3, <1>4

LEMMA NoteArrivesKeeps ==
  ASSUME ListInv, NEW e \in Event, NoteArrives(e)
  PROVE  ListInv'
<1>1. /\ notes \in Seq(Note) /\ Len(notes) < MaxNotes /\ Len(notes) \in Nat
      /\ Len(notes) + 1 \in NoteID
  BY ListBounds DEF ListInv, TypeOK, NoteArrives, NoteID
<1>2. NewNote(e) \in Note
  BY <1>1 DEF NewNote, Note
<1>3. PICK i \in 1..(Len(notes) + 1) : notes' = InsertAt(notes, i, NewNote(e))
  BY DEF NoteArrives
<1>4. notes' \in Seq(Note) /\ Len(notes') = Len(notes) + 1
  BY <1>1, <1>2, <1>3, Inserted
<1>5. notes' # <<>> /\ Len(notes') \in Len(notes)..MaxNotes
  BY <1>1, <1>4, ListBounds
<1>6. opened' \in Tap
  BY DEF NoteArrives, ListInv, TypeOK
<1> QED
  BY <1>4, <1>5, <1>6, AllCalledKeeps DEF NoteArrives

LEMMA SelectRowKeeps ==
  ASSUME ListInv, NEW i \in 1..Len(rows), SelectRow(i)
  PROVE  ListInv'
<1>1. /\ notes \in Seq(Note) /\ Len(notes) <= MaxNotes /\ rows \in Seq(Note)
      /\ notificationData \in Seq(Note) /\ joinedEventData \in Seq(Event)
      /\ Len(notificationData) <= Len(notes)
      /\ Len(rows) <= Len(notificationData) /\ Len(notes) \in Nat
  BY DEF ListInv, TypeOK, ListsGrow
<1>2. i \in 1..Len(notes)
  BY <1>1
<1>3. PICK id : notes' = Marked(id)
  BY DEF SelectRow
<1>4. ASSUME NEW j \in 1..Len(notes)
      PROVE  [notes[j] EXCEPT !.isRead = TRUE] \in Note /\ notes[j] \in Note
  <2>1. notes[j] \in Note
    BY <1>1
  <2> QED
    BY <2>1 DEF Note
<1>5. notes' \in Seq(Note) /\ Len(notes') = Len(notes)
  <2>1. notes' \in [1..Len(notes) -> Note]
    BY <1>3, <1>4 DEF Marked
  <2> QED
    BY <1>1, <2>1
<1>6. notes' # <<>> /\ Len(notes') \in Len(notes)..MaxNotes
  BY <1>1, <1>2, <1>5, ListBounds
<1>7. opened' \in Tap
  <2>1. rows[i] \in Note /\ joinedEventData[i] \in Event
    BY <1>1 DEF SelectRow
  <2> QED
    BY <2>1 DEF SelectRow, Tap, Note
<1>8. CASE notes' = notes
  <2>1. UNCHANGED <<notes, calls, written, listObservers, badgeObservers,
                    reads, notificationData, joinedEventData, rows, reloads,
                    badge, skipped>>
    BY <1>8 DEF SelectRow
  <2> QED
    BY <1>7, <2>1
    DEF ListInv, TypeOK, ListsGrow, IsList, RowsLast, Rounds,
        LastBadgeIsCurrent, IsBadge, EmptyIsZero
<1>9. CASE notes' # notes
  BY <1>5, <1>6, <1>7, <1>9, AllCalledKeeps DEF SelectRow
<1> QED
  BY <1>8, <1>9

(* A new observer is called once with what is there.                       *)
LEMMA QueryKeeps ==
  ASSUME ListInv, NEW kind \in {"list", "badge"},
         calls' = Append(calls, CallOf(kind, notes)),
         listObservers' \in 0..MaxObservers,
         badgeObservers' \in 0..MaxObservers,
         IF kind = "badge" THEN badgeObservers' > 0
                           ELSE badgeObservers' = badgeObservers,
         rows' \in {rows, notificationData},
         UNCHANGED <<notes, written, reads, notificationData,
                     joinedEventData, reloads, badge, skipped, opened>>
  PROVE  ListInv'
<1> DEFINE c == CallOf(kind, notes)
<1>1. /\ c \in Call /\ c.kind = kind /\ c.snapshot = notes
      /\ calls \in Seq(Call) /\ Len(calls) \in Nat /\ Len(notes) \in Nat
  BY DEF ListInv, TypeOK, CallOf, Call
<1>2. calls' = Append(calls, c)
  OBVIOUS
<1> HIDE DEF c
<1>3. /\ calls' \in Seq(Call) /\ Len(calls') = Len(calls) + 1
      /\ calls'[Len(calls) + 1] = c
      /\ \A i \in 1..Len(calls) : calls'[i] = calls[i]
  BY <1>1, <1>2
<1>4. TypeOK'
  BY <1>3 DEF ListInv, TypeOK
<1>5. ListsGrow' /\ RowsLast' /\ EmptyIsZero'
  <2>1. ASSUME NEW i \in 1..Len(calls')
        PROVE  Len(calls'[i].snapshot) <= Len(notes')
    <3>1. i \in 1..Len(calls) \/ i = Len(calls) + 1
      BY <1>1, <1>3
    <3> QED
      BY <1>1, <1>3, <3>1 DEF ListInv, ListsGrow
  <2>2. ASSUME NEW i \in 1..Len(calls'), IsList(i)'
        PROVE  Len(notificationData') <= Len(calls'[i].snapshot)
    <3>1. i \in 1..Len(calls) \/ i = Len(calls) + 1
      BY <1>1, <1>3
    <3> QED
      BY <1>1, <1>3, <2>2, <3>1 DEF ListInv, ListsGrow, IsList
  <2>3. ASSUME NEW i \in 1..Len(calls'), NEW j \in 1..Len(calls'),
               IsList(i)', IsList(j)', i <= j
        PROVE  Len(calls'[i].snapshot) <= Len(calls'[j].snapshot)
    <3>1. CASE j \in 1..Len(calls)
      <4>1. i \in 1..Len(calls) /\ calls'[i] = calls[i] /\ calls'[j] = calls[j]
        BY <1>1, <1>3, <2>3, <3>1
      <4> QED
        BY <2>3, <3>1, <4>1 DEF ListInv, ListsGrow, IsList
    <3>2. CASE j \notin 1..Len(calls)
      <4>1. j = Len(calls) + 1
        BY <1>1, <1>3, <3>2
      <4> QED
        BY <1>1, <1>3, <2>1, <4>1
    <3> QED
      BY <3>1, <3>2
  <2> QED
    BY <2>1, <2>2, <2>3 DEF ListInv, ListsGrow, RowsLast, Rounds, EmptyIsZero
<1>6. LastBadgeIsCurrent'
  <2>1. ASSUME NEW i \in 1..Len(calls')
        PROVE  \/ i \in 1..Len(calls) /\ (IsBadge(i)' <=> IsBadge(i))
               \/ i = Len(calls) + 1 /\ (IsBadge(i)' <=> kind = "badge")
    <3>1. i \in 1..Len(calls) \/ i = Len(calls) + 1
      BY <1>1, <1>3
    <3> QED
      BY <1>1, <1>3, <3>1 DEF IsBadge
  <2>2. Len(calls) + 1 \in 1..Len(calls')
    BY <1>1, <1>3
  <2>3. ASSUME NEW i \in 1..Len(calls'), IsBadge(i)'
        PROVE  badgeObservers' > 0
    BY <2>1, <2>3 DEF ListInv, LastBadgeIsCurrent
  <2>4. ASSUME NEW i \in 1..Len(calls'), IsBadge(i)',
               \A j \in (i + 1)..Len(calls') : ~IsBadge(j)'
        PROVE  calls'[i].snapshot = notes'
    <3>1. CASE i = Len(calls) + 1
      BY <1>1, <1>3, <3>1
    <3>2. CASE i \in 1..Len(calls)
      <4>1. IsBadge(i)
        BY <1>1, <2>1, <2>4, <3>2
      <4>2. ASSUME NEW j \in (i + 1)..Len(calls)
            PROVE  ~IsBadge(j)
        <5>1. j \in (i + 1)..Len(calls') /\ j \in 1..Len(calls)
                /\ j # Len(calls) + 1 /\ j \in 1..Len(calls')
          BY <1>1, <1>3, <3>2
        <5> QED
          BY <2>1, <2>4, <5>1
      <4> QED
        BY <1>3, <3>2, <4>1, <4>2 DEF ListInv, LastBadgeIsCurrent
    <3> QED
      BY <2>1, <3>1, <3>2
  <2>5. ASSUME badgeObservers' > 0, \A i \in 1..Len(calls') : ~IsBadge(i)'
        PROVE  badge' = Unread(notes')
    <3>1. kind = "list"
      BY <1>1, <2>1, <2>2, <2>5
    <3>2. ASSUME NEW i \in 1..Len(calls)
          PROVE  ~IsBadge(i)
      <4>1. i \in 1..Len(calls') /\ i # Len(calls) + 1
        BY <1>1, <1>3
      <4> QED
        BY <2>1, <2>5, <4>1
    <3> QED
      BY <2>5, <3>1, <3>2 DEF ListInv, LastBadgeIsCurrent
  <2> QED
    BY <2>3, <2>4, <2>5 DEF LastBadgeIsCurrent
<1> QED
  BY <1>4, <1>5, <1>6 DEF ListInv

(* The rest of the calls, after the first.                                 *)
LEMMA CallTaken ==
  ASSUME ListInv, calls # <<>>, calls' = Tail(calls)
  PROVE  /\ calls' \in Seq(Call) /\ Head(calls) = calls[1]
         /\ Head(calls) \in Call /\ Len(calls') = Len(calls) - 1
         /\ \A i \in 1..Len(calls') :
              i + 1 \in 1..Len(calls) /\ calls'[i] = calls[i + 1]
         /\ Len(calls) \in Nat \ {0} /\ Len(calls') \in Nat
         /\ Len(Head(calls).snapshot) <= Len(notes)
<1>1. calls \in Seq(Call)
  BY DEF ListInv, TypeOK
<1>2. /\ calls' \in Seq(Call) /\ Head(calls) = calls[1]
      /\ Head(calls) \in Call /\ Len(calls') = Len(calls) - 1
      /\ Len(calls) \in Nat \ {0} /\ Len(calls') \in Nat
  BY <1>1
<1>3. ASSUME NEW i \in 1..Len(calls')
      PROVE  i + 1 \in 1..Len(calls) /\ calls'[i] = calls[i + 1]
  BY <1>1
<1>4. 1 \in 1..Len(calls)
  BY <1>2
<1> QED
  BY <1>2, <1>3, <1>4 DEF ListInv, ListsGrow

(* Taking a call of either kind: what is to be shown of the badge.         *)
LEMMA TakenKeepsBadge ==
  ASSUME ListInv, calls # <<>>, calls' = Tail(calls),
         UNCHANGED <<notes, badgeObservers>>,
         Head(calls).kind = "list" => badge' = badge,
         Head(calls).kind = "badge" =>
           badge' = IF Head(calls).snapshot = <<>>
                      THEN badge ELSE Unread(Head(calls).snapshot)
  PROVE  LastBadgeIsCurrent' /\ EmptyIsZero'
<1>1. /\ Head(calls) = calls[1] /\ Head(calls) \in Call
      /\ Len(calls') = Len(calls) - 1
      /\ \A i \in 1..Len(calls') :
           i + 1 \in 1..Len(calls) /\ calls'[i] = calls[i + 1]
      /\ Len(calls) \in Nat \ {0} /\ Len(calls') \in Nat
      /\ Len(Head(calls).snapshot) <= Len(notes)
      /\ Head(calls).kind \in {"list", "badge"}
      /\ Head(calls).snapshot \in Seq(Note)
  <2>1. Head(calls) \in Call
    BY CallTaken
  <2> QED
    BY <2>1, CallTaken DEF Call
<1>2. ASSUME NEW i \in 1..Len(calls')
      PROVE  IsBadge(i)' <=> IsBadge(i + 1)
  BY <1>1 DEF IsBadge
<1>3. ASSUME NEW i \in 1..Len(calls'), \A j \in (i + 1)..Len(calls') : ~IsBadge(j)',
             NEW j \in (i + 2)..Len(calls)
      PROVE  ~IsBadge(j)
  <2>1. j - 1 \in (i + 1)..Len(calls') /\ j - 1 \in 1..Len(calls')
          /\ (j - 1) + 1 = j
    BY <1>1
  <2> QED
    BY <1>2, <1>3, <2>1
<1>4. EmptyIsZero'
  <2>1. ASSUME notes = <<>>
        PROVE  Head(calls).snapshot = <<>>
    BY <1>1, <2>1
  <2> QED
    BY <1>1, <2>1 DEF ListInv, EmptyIsZero
<1>5. ASSUME NEW i \in 1..Len(calls'), IsBadge(i)'
      PROVE  badgeObservers' > 0
  BY <1>1, <1>2, <1>5 DEF ListInv, LastBadgeIsCurrent
<1>6. ASSUME NEW i \in 1..Len(calls'), IsBadge(i)',
             \A j \in (i + 1)..Len(calls') : ~IsBadge(j)'
      PROVE  calls'[i].snapshot = notes'
  <2>1. /\ i + 1 \in 1..Len(calls) /\ IsBadge(i + 1)
        /\ calls'[i] = calls[i + 1] /\ (i + 1) + 1 = i + 2
    BY <1>1, <1>2, <1>6
  <2>2. \A j \in (i + 2)..Len(calls) : ~IsBadge(j)
    BY <1>3, <1>6
  <2> QED
    BY <2>1, <2>2 DEF ListInv, LastBadgeIsCurrent
<1>7. ASSUME badgeObservers' > 0, \A i \in 1..Len(calls') : ~IsBadge(i)'
      PROVE  badge' = Unread(notes')
  <2>1. ASSUME NEW j \in 2..Len(calls)
        PROVE  ~IsBadge(j)
    <3>1. j - 1 \in 1..Len(calls') /\ (j - 1) + 1 = j
      BY <1>1
    <3> QED
      BY <1>2, <1>7, <3>1
  <2>2. 1 \in 1..Len(calls) /\ (\A j \in 1..Len(calls) : j = 1 \/ j \in 2..Len(calls))
          /\ 1 + 1 = 2
    BY <1>1
  <2>3. CASE Head(calls).kind = "list"
    BY <1>1, <1>7, <2>1, <2>2, <2>3 DEF ListInv, LastBadgeIsCurrent, IsBadge
  <2>4. CASE Head(calls).kind = "badge"
    <3>1. IsBadge(1) /\ (\A j \in (1 + 1)..Len(calls) : ~IsBadge(j))
      BY <1>1, <2>1, <2>2, <2>4 DEF IsBadge
    <3>2. Head(calls).snapshot = notes
      BY <1>1, <2>2, <3>1 DEF ListInv, LastBadgeIsCurrent
    <3>3. CASE notes = <<>>
      BY <1>4, <3>3, UnreadNone DEF EmptyIsZero
    <3>4. CASE notes # <<>>
      BY <2>4, <3>2, <3>4
    <3> QED
      BY <3>3, <3>4
  <2> QED
    BY <1>1, <2>3, <2>4
<1> QED
  BY <1>4, <1>5, <1>6, <1>7 DEF LastBadgeIsCurrent

LEMMA TakenKeepsGrow ==
  ASSUME ListInv, calls # <<>>, calls' = Tail(calls), UNCHANGED notes,
         \/ UNCHANGED notificationData
         \/ /\ Head(calls).kind = "list"
            /\ Len(notificationData') = Len(Head(calls).snapshot)
  PROVE  ListsGrow' /\ Len(notificationData) <= Len(notificationData')
<1>1. /\ Head(calls) = calls[1] /\ 1 \in 1..Len(calls)
      /\ \A i \in 1..Len(calls') :
           i + 1 \in 1..Len(calls) /\ calls'[i] = calls[i + 1]
      /\ Len(Head(calls).snapshot) <= Len(notes)
      /\ Len(calls) \in Nat \ {0} /\ Len(calls') \in Nat
  BY CallTaken
<1>2. /\ Len(notificationData) \in Nat
      /\ Len(notificationData) <= Len(notificationData')
      /\ Len(notificationData') <= Len(notes)
  BY <1>1 DEF ListInv, TypeOK, ListsGrow, IsList
<1>3. ASSUME NEW i \in 1..Len(calls'), IsList(i)'
      PROVE  Len(notificationData') <= Len(calls'[i].snapshot)
  <2>1. i + 1 \in 1..Len(calls) /\ 1 <= i + 1 /\ IsList(i + 1)
          /\ calls'[i] = calls[i + 1]
    BY <1>1, <1>3 DEF IsList
  <2> QED
    BY <1>1, <2>1 DEF ListInv, ListsGrow, IsList
<1>4. ASSUME NEW i \in 1..Len(calls'), NEW j \in 1..Len(calls'),
             IsList(i)', IsList(j)', i <= j
      PROVE  Len(calls'[i].snapshot) <= Len(calls'[j].snapshot)
  <2>1. /\ i + 1 \in 1..Len(calls) /\ IsList(i + 1) /\ calls'[i] = calls[i + 1]
        /\ j + 1 \in 1..Len(calls) /\ IsList(j + 1) /\ calls'[j] = calls[j + 1]
        /\ i + 1 <= j + 1
    BY <1>1, <1>4 DEF IsList
  <2> QED
    BY <2>1 DEF ListInv, ListsGrow
<1> QED
  BY <1>1, <1>2, <1>3, <1>4 DEF ListInv, ListsGrow

LEMMA BadgeCalledKeeps ==
  ASSUME ListInv, BadgeCalled
  PROVE  ListInv'
<1>1. calls # <<>> /\ calls' = Tail(calls) /\ Head(calls).kind = "badge"
  BY DEF BadgeCalled
<1>2. /\ calls' \in Seq(Call) /\ Head(calls).snapshot \in Seq(Note)
      /\ Len(Head(calls).snapshot) <= Len(notes)
  BY <1>1, CallTaken DEF Call
<1>3. Unread(Head(calls).snapshot) \in 0..Len(Head(calls).snapshot)
  BY <1>2, UnreadBound
<1>4. /\ Len(notes) <= MaxNotes /\ Len(notes) \in Nat
      /\ Len(Head(calls).snapshot) \in Nat
  BY <1>2 DEF ListInv, TypeOK
<1>5. badge' \in 0..MaxNotes
  <2>1. Unread(Head(calls).snapshot) \in 0..MaxNotes
    BY <1>2, <1>3, <1>4, ListBounds
  <2> QED
    BY <2>1 DEF BadgeCalled, ListInv, TypeOK
<1>6. TypeOK'
  BY <1>2, <1>5 DEF BadgeCalled, ListInv, TypeOK
<1>7. ListsGrow'
  BY <1>1, TakenKeepsGrow DEF BadgeCalled
<1>8. RowsLast'
  BY DEF BadgeCalled, ListInv, RowsLast, Rounds
<1>9. LastBadgeIsCurrent' /\ EmptyIsZero'
  BY <1>1, TakenKeepsBadge DEF BadgeCalled
<1> QED
  BY <1>6, <1>7, <1>8, <1>9 DEF ListInv

LEMMA ListCalledKeeps ==
  ASSUME ListInv, ListCalled
  PROVE  ListInv'
<1> DEFINE s == Head(calls).snapshot
           ids == EventIDs(notificationData')
<1>1. calls # <<>> /\ calls' = Tail(calls) /\ Head(calls).kind = "list"
  BY DEF ListCalled
<1>2. calls' \in Seq(Call) /\ s \in Seq(Note) /\ Len(s) <= Len(notes)
  BY <1>1, CallTaken DEF Call
<1>3. notificationData' = Reverse(s)
  BY DEF ListCalled
<1> HIDE DEF s
<1>4. notificationData' \in Seq(Note) /\ Len(notificationData') = Len(s)
  BY <1>2, <1>3, Reversed
<1>5. /\ ids \in Seq(Event) /\ Len(ids) = Len(notificationData')
      /\ \A i \in 1..Len(ids) : ids[i] = notificationData'[i].eventID
  BY <1>4, IDsOfNotes
<1>6. reads' = reads \o ids /\ reads \in Seq(Event) /\ joinedEventData' = <<>>
  BY DEF ListCalled, ListInv, TypeOK
<1> HIDE DEF ids
<1>7. reads' \in Seq(Event)
  BY <1>5, <1>6
<1>8. TypeOK'
  <2>1. joinedEventData' \in Seq(Event)
    BY <1>6
  <2>2. /\ notes' \in Seq(Note) /\ Len(notes') <= MaxNotes
        /\ written' \subseteq Event /\ badge' \in 0..MaxNotes
        /\ listObservers' \in 0..MaxObservers
        /\ badgeObservers' \in 0..MaxObservers
        /\ skipped' \in BOOLEAN /\ opened' \in Tap
        /\ reloads' \in Nat /\ rows' = rows
    BY DEF ListCalled, ListInv, TypeOK
  <2>4. /\ rows \in Seq(Note) /\ notificationData \in Seq(Note)
        /\ Len(rows) <= Len(notificationData)
    BY DEF ListInv, TypeOK
  <2>3. Len(rows') <= Len(notificationData')
    <3>1. Len(notificationData) <= Len(notificationData')
      BY <1>1, <1>4, TakenKeepsGrow DEF ListCalled, s
    <3>2. /\ Len(rows) \in Nat /\ Len(notificationData) \in Nat
          /\ Len(notificationData') \in Nat
      BY <1>4, <2>4
    <3> QED
      BY <2>2, <2>4, <3>1, <3>2
  <2> QED
    BY <1>2, <1>4, <1>7, <2>1, <2>2, <2>3, <2>4 DEF TypeOK
<1>9. ListsGrow'
  BY <1>1, <1>4, TakenKeepsGrow DEF ListCalled, s
<1>10. RowsLast'
  <2>1. Rounds' = reads \o ids
    BY <1>5, <1>6 DEF Rounds
  <2>0. ids \in Seq(Event) /\ reads \in Seq(Event)
    BY <1>5, <1>6
  <2>2. Len(reads \o ids) = Len(reads) + Len(ids)
    BY <2>0
  <2>3. ASSUME NEW i \in 1..Len(ids)
        PROVE  (reads \o ids)[Len(reads) + i] = ids[i]
    BY <2>0
  <2>4. Len(ids) \in Nat /\ Len(reads) \in Nat
    BY <1>5, <1>6
  <2>5. Len(Rounds') - Len(notificationData') = Len(reads)
    BY <1>5, <2>1, <2>2, <2>4
  <2>6. Len(notificationData') <= Len(Rounds')
    BY <1>5, <2>1, <2>2, <2>4
  <2> QED
    BY <1>5, <2>1, <2>3, <2>5, <2>6 DEF RowsLast
<1>11. LastBadgeIsCurrent' /\ EmptyIsZero'
  BY <1>1, TakenKeepsBadge DEF ListCalled
<1> QED
  BY <1>8, <1>9, <1>10, <1>11 DEF ListInv

LEMMA ReadReturnsKeeps ==
  ASSUME ListInv, ReadReturns
  PROVE  ListInv'
<1> DEFINE n == Len(notificationData)
           m == Len(joinedEventData)
           r == Len(reads)
<1>1. /\ reads \in Seq(Event) /\ joinedEventData \in Seq(Event)
      /\ reads # <<>> /\ reads' = Tail(reads)
      /\ n \in Nat /\ m \in Nat /\ r \in Nat \ {0}
  BY DEF ReadReturns, ListInv, TypeOK
<1>2. reads' \in Seq(Event) /\ Head(reads) \in Event /\ Len(reads') = r - 1
  BY <1>1
<1>3. UNCHANGED <<notes, written, listObservers, badgeObservers, calls,
                  notificationData, rows, badge, opened>>
        /\ reloads' \in {reloads, reloads + 1}
  BY DEF ReadReturns
<1>4. joinedEventData' \in Seq(Event) /\ skipped' \in BOOLEAN
  <2>1. Append(joinedEventData, Head(reads)) \in Seq(Event)
    BY <1>1, <1>2
  <2>2. joinedEventData' \in {joinedEventData, Append(joinedEventData, Head(reads))}
    BY DEF ReadReturns
  <2>3. skipped' \in BOOLEAN
    <3>1. skipped \in BOOLEAN /\ OfLatestList \in BOOLEAN
      BY DEF ListInv, TypeOK, OfLatestList
    <3>2. skipped' = skipped \/ skipped' = (skipped \/ OfLatestList)
      BY Zenon DEF ReadReturns
    <3> QED
      BY <3>1, <3>2, Zenon
  <2> QED
    BY <1>1, <2>1, <2>2, <2>3
<1>5. TypeOK'
  BY <1>2, <1>3, <1>4 DEF ListInv, TypeOK
<1>6. ListsGrow' /\ LastBadgeIsCurrent' /\ EmptyIsZero'
  BY <1>3 DEF ListInv, ListsGrow, IsList, LastBadgeIsCurrent, IsBadge,
              EmptyIsZero
<1>7. RowsLast'
  <2> SUFFICES ASSUME ~skipped' PROVE RowsLast'
    BY DEF RowsLast
  <2>1. CASE /\ joinedEventData' = Append(joinedEventData, Head(reads))
             /\ skipped' = skipped
    <3>1. Append(joinedEventData, Head(reads)) \o Tail(reads)
            = joinedEventData \o reads
      BY <1>1
    <3>2. Rounds' = Rounds
      BY <1>1, <2>1, <3>1 DEF Rounds
    <3> QED
      BY <1>3, <2>1, <3>2 DEF ListInv, RowsLast
  <2>2. CASE /\ joinedEventData' = joinedEventData
             /\ skipped' = (skipped \/ OfLatestList)
    <3>0. ~skipped /\ ~OfLatestList
      BY <2>2, Zenon
    <3>1. ~skipped /\ r > n
      BY <1>1, <3>0 DEF OfLatestList
    <3>2. Rounds' = joinedEventData \o Tail(reads)
      BY <1>1, <2>2 DEF Rounds
    <3>3. Len(Rounds) = m + r /\ Len(Rounds') = m + r - 1
      BY <1>1, <3>2 DEF Rounds
    <3>4. ASSUME NEW k \in 1..(r - 1)
          PROVE  Rounds'[m + k] = Rounds[m + k + 1]
      <4>1. (joinedEventData \o Tail(reads))[m + k] = Tail(reads)[k]
        BY <1>1
      <4>2. Tail(reads)[k] = reads[k + 1]
        BY <1>1
      <4>3. (joinedEventData \o reads)[m + (k + 1)] = reads[k + 1]
        BY <1>1
      <4>4. m + (k + 1) = m + k + 1
        BY <1>1
      <4>5. Rounds'[m + k] = Rounds[m + (k + 1)]
        BY <3>2, <4>1, <4>2, <4>3, Zenon DEF Rounds
      <4> QED
        BY <4>4, <4>5, Zenon
    <3>5. ASSUME NEW i \in 1..n
          PROVE  Rounds'[Len(Rounds') - n + i] = notificationData[i].eventID
      <4>1. r - 1 - n + i \in 1..(r - 1)
        BY <1>1, <3>1
      <4>2. /\ Len(Rounds') - n + i = m + (r - 1 - n + i)
            /\ Len(Rounds) - n + i = m + (r - 1 - n + i) + 1
        BY <1>1, <3>3
      <4>3. Rounds[Len(Rounds) - n + i] = notificationData[i].eventID
        BY <3>1 DEF ListInv, RowsLast
      <4> QED
        BY <3>4, <4>1, <4>2, <4>3
    <3>6. n <= Len(Rounds')
      BY <1>1, <3>1, <3>3
    <3> QED
      BY <1>3, <3>5, <3>6 DEF RowsLast
  <2> QED
    BY <2>1, <2>2 DEF ReadReturns
<1> QED
  BY <1>5, <1>6, <1>7 DEF ListInv

LEMMA SelectRowTrapsKeeps ==
  ASSUME ListInv, NEW i \in 1..Len(rows), SelectRowTraps(i)
  PROVE  ListInv'
<1>1. \A S : <<>> \in Seq(S)
  OBVIOUS
<1>2. /\ calls' \in Seq(Call) /\ reads' \in Seq(Event)
      /\ notificationData' \in Seq(Note) /\ joinedEventData' \in Seq(Event)
      /\ rows' \in Seq(Note) /\ Len(rows') <= Len(notificationData')
  BY <1>1 DEF SelectRowTraps
<1>3. 0 \in 0..MaxObservers /\ 0 \in 0..MaxNotes
  BY ListBounds
<1>4. TypeOK'
  BY <1>2, <1>3 DEF SelectRowTraps, ListInv, TypeOK
<1>5. ListsGrow' /\ RowsLast'
  BY <1>4 DEF SelectRowTraps, TypeOK, ListsGrow, IsList, RowsLast, Rounds
<1>6. LastBadgeIsCurrent' /\ EmptyIsZero'
  BY DEF SelectRowTraps, LastBadgeIsCurrent, IsBadge, EmptyIsZero
<1> QED
  BY <1>4, <1>5, <1>6 DEF ListInv

(* Rows drawn anew.                                                        *)
LEMMA RowsDrawn ==
  ASSUME ListInv, ReloadData \/ \E i \in 1..Len(rows) : CellForRow(i)
  PROVE  ListInv'
<1>1. /\ rows \in Seq(Note) /\ notificationData \in Seq(Note)
      /\ Len(rows) <= Len(notificationData)
      /\ Len(rows) \in Nat /\ Len(notificationData) \in Nat
  BY DEF ListInv, TypeOK
<1>2. /\ rows' \in Seq(Note) /\ Len(rows') <= Len(notificationData')
      /\ reloads' \in Nat
      /\ UNCHANGED <<notes, written, listObservers, badgeObservers, calls,
                     reads, notificationData, joinedEventData, badge, skipped,
                     opened>>
  <2>1. CASE ReloadData
    BY <1>1, <2>1 DEF ReloadData, ListInv, TypeOK
  <2>2. ASSUME NEW i \in 1..Len(rows), CellForRow(i)
        PROVE  /\ rows' \in Seq(Note) /\ Len(rows') = Len(rows)
               /\ reloads' \in Nat
               /\ UNCHANGED <<notes, written, listObservers, badgeObservers,
                              calls, reads, notificationData, joinedEventData,
                              badge, skipped, opened>>
    <3>1. i \in 1..Len(notificationData)
      BY <1>1
    <3>2. notificationData[i] \in Note
      BY <1>1, <3>1
    <3> QED
      BY <1>1, <2>2, <3>2 DEF CellForRow, ListInv, TypeOK
  <2> QED
    BY <1>1, <2>1, <2>2
<1>3. TypeOK'
  BY <1>2 DEF ListInv, TypeOK
<1> QED
  BY <1>2, <1>3 DEF ListInv, ListsGrow, IsList, RowsLast, Rounds,
                    LastBadgeIsCurrent, IsBadge, EmptyIsZero

LEMMA ListStep == ListInv /\ [Next]_vars => ListInv'
<1> SUFFICES ASSUME ListInv, [Next]_vars PROVE ListInv'
  OBVIOUS
<1>1. CASE UNCHANGED vars
  BY <1>1 DEF vars, ListInv, TypeOK, ListsGrow, IsList, RowsLast, Rounds,
     LastBadgeIsCurrent, IsBadge, EmptyIsZero
<1>2. ASSUME NEW e \in Event, EventWritten(e) PROVE ListInv'
  BY <1>2 DEF EventWritten, ListInv, TypeOK, ListsGrow, IsList, RowsLast,
     Rounds, LastBadgeIsCurrent, IsBadge, EmptyIsZero
<1>3. CASE QueryNotification
  <2>1. listObservers' \in 0..MaxObservers /\ badgeObservers' \in 0..MaxObservers
    BY <1>3, ListBounds DEF QueryNotification, ListInv, TypeOK
  <2> QED
    BY <1>3, <2>1, QueryKeeps DEF QueryNotification
<1>4. CASE QueryNotificationCount
  <2>1. /\ listObservers' \in 0..MaxObservers
        /\ badgeObservers' \in 0..MaxObservers /\ badgeObservers' > 0
    BY <1>4, ListBounds DEF QueryNotificationCount, ListInv, TypeOK
  <2> QED
    BY <1>4, <2>1, QueryKeeps DEF QueryNotificationCount
<1> QED
  BY <1>1, <1>2, <1>3, <1>4, NoteArrivesKeeps, ListCalledKeeps,
     BadgeCalledKeeps, ReadReturnsKeeps, SelectRowKeeps, SelectRowTrapsKeeps,
     RowsDrawn
  DEF Next

(* The invariant holds in every reachable state.                           *)
THEOREM ListInductive == Spec => []ListInv
<1> QED
  BY ListStarts, ListStep, PTL DEF Spec

(* Whatever observers and rounds of reads overlap, the events of the       *)
(* latest list come last and in its order (NotificationVC, the two arrays  *)
(* of queryNotification).                                                  *)
THEOREM RowsInOrder == Spec => [](TypeOK /\ LatestRowsLast)
<1>1. ListInv => TypeOK /\ LatestRowsLast
  <2> SUFFICES ASSUME ListInv, ~skipped
               PROVE  IsSuffix(EventIDs(notificationData), Rounds)
    BY DEF ListInv, LatestRowsLast, Rounds
  <2>1. /\ notificationData \in Seq(Note)
        /\ joinedEventData \in Seq(Event) /\ reads \in Seq(Event)
    BY DEF ListInv, TypeOK
  <2>2. Rounds \in Seq(Event)
    BY <2>1 DEF Rounds
  <2> DEFINE ids == EventIDs(notificationData)
  <2>3. /\ ids \in Seq(Event) /\ Len(ids) = Len(notificationData)
        /\ \A i \in 1..Len(ids) : ids[i] = notificationData[i].eventID
    BY <2>1, IDsOfNotes
  <2> HIDE DEF ids
  <2>4. /\ Len(ids) <= Len(Rounds)
        /\ \A i \in 1..Len(ids) : Rounds[Len(Rounds) - Len(ids) + i] = ids[i]
    BY <2>3 DEF ListInv, RowsLast
  <2>5. IsSuffix(ids, Rounds)
    BY <2>2, <2>3, <2>4, SuffixByIndex
  <2> QED
    BY <2>5 DEF ids
<1> QED
  BY <1>1, ListInductive, PTL

(* The badge counts the unread notifications once every call was made,     *)
(* although an empty list does not set it (AppDelegate,                    *)
(* queryNotificationCount).                                                *)
THEOREM BadgeRight == Spec => []BadgeCounts
<1>1. ListInv => BadgeCounts
  BY DEF ListInv, LastBadgeIsCurrent, IsBadge, BadgeCounts
<1> QED
  BY <1>1, ListInductive, PTL
=============================================================================
