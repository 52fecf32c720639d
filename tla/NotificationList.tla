-------------------------- MODULE NotificationList --------------------------
(***************************************************************************)
(* The notification tab (NotificationVC) and the badge of its tab bar item *)
(* (AppDelegate.queryNotificationCount) for one signed-in user.            *)
(*                                                                         *)
(* A query registers an observer that nothing ever removes.  Every change  *)
(* of the user's notifications calls every observer with the new list; the *)
(* list callback empties the two arrays, fills notificationData and issues *)
(* one read per notification for its event; a read that finds a node       *)
(* appends it to joinedEventData and posts a reload of the table, which is *)
(* the only one there is.  So the rows may be older than the array they    *)
(* index: row i opens joinedEventData[i] and marks notificationData[i].    *)
(***************************************************************************)
EXTENDS Naturals, Sequences, FiniteSets, SequencesExt

CONSTANTS
  Event,         \* the events notifications are about
  MaxNotes,      \* bound: notifications of the user
  MaxObservers   \* bound: queries made, of either kind

ASSUME ListBounds == MaxNotes \in Nat /\ MaxObservers \in Nat

VARIABLES
  notes,             \* notification/*, those of the user, by their time
  written,           \* the events whose node exists
  listObservers,     \* observers registered by queryNotification
  badgeObservers,    \* observers registered by queryNotificationCount
  calls,             \* observer calls to come, in order
  reads,             \* event reads to come, in order
  notificationData,  \* newest first
  joinedEventData,
  rows,              \* the notifications the table shows
  reloads,           \* reloadData blocks to come
  badge,             \* the number on the tab bar item, 0 for none
  skipped,           \* history: a read of the latest list found no event
  opened             \* history: the row tapped last

vars == <<notes, written, listObservers, badgeObservers, calls, reads,
          notificationData, joinedEventData, rows, reloads, badge, skipped,
          opened>>

NoteID == 1..MaxNotes

Note == [notificationID : NoteID, eventID : Event, isRead : BOOLEAN]

Call == [kind : {"list", "badge"}, snapshot : Seq(Note)]

(* A tap on a row: the event its text is about and the event it opens.     *)
Tap == {<<>>} \union (Event \X Event)

TypeOK ==
  /\ notes \in Seq(Note) /\ Len(notes) <= MaxNotes
  /\ written \subseteq Event
  /\ listObservers \in 0..MaxObservers /\ badgeObservers \in 0..MaxObservers
  /\ calls \in Seq(Call)
  /\ reads \in Seq(Event)
  /\ notificationData \in Seq(Note)
  /\ joinedEventData \in Seq(Event)
  /\ rows \in Seq(Note) /\ Len(rows) <= Len(notificationData)
  /\ reloads \in Nat
  /\ badge \in 0..MaxNotes
  /\ skipped \in BOOLEAN
  /\ opened \in Tap

Init ==
  /\ notes = <<>> /\ written = {}
  /\ listObservers = 0 /\ badgeObservers = 0
  /\ calls = <<>> /\ reads = <<>>
  /\ notificationData = <<>> /\ joinedEventData = <<>>
  /\ rows = <<>> /\ reloads = 0
  /\ badge = 0 /\ skipped = FALSE /\ opened = <<>>

-----------------------------------------------------------------------------
(* The database: a change of the notifications calls every observer.       *)

CallOf(kind, snapshot) == [kind |-> kind, snapshot |-> snapshot]

CallAll(snapshot) ==
  calls \o [i \in 1..badgeObservers |-> CallOf("badge", snapshot)]
        \o [i \in 1..listObservers |-> CallOf("list", snapshot)]

NewNote(e) ==
  [notificationID |-> Len(notes) + 1, eventID |-> e, isRead |-> FALSE]

(* Its time is that of the sender's clock, so that it may come anywhere.   *)
NoteArrives(e) ==
  /\ Len(notes) < MaxNotes
  /\ \E i \in 1..(Len(notes) + 1) : notes' = InsertAt(notes, i, NewNote(e))
  /\ calls' = CallAll(notes')
  /\ UNCHANGED <<written, listObservers, badgeObservers, reads,
                 notificationData, joinedEventData, rows, reloads, badge,
                 skipped, opened>>

EventWritten(e) ==
  /\ e \notin written
  /\ written' = written \union {e}
  /\ UNCHANGED <<notes, listObservers, badgeObservers, calls, reads,
                 notificationData, joinedEventData, rows, reloads, badge,
                 skipped, opened>>

-----------------------------------------------------------------------------
(* getData: observe calls back at once and then at every change.           *)

(* viewDidLoad, didUserLogin and the pull-to-refresh make the same query;  *)
(* it reloads the table at once while no notification is loaded.           *)
QueryNotification ==
  /\ listObservers < MaxObservers
  /\ listObservers' = listObservers + 1
  /\ rows' = IF notificationData = <<>> THEN notificationData ELSE rows
  /\ calls' = Append(calls, CallOf("list", notes))
  /\ UNCHANGED <<notes, written, badgeObservers, reads, notificationData,
                 joinedEventData, reloads, badge, skipped, opened>>

(* applicationDidBecomeActive, and MainVC at login.                        *)
QueryNotificationCount ==
  /\ badgeObservers < MaxObservers
  /\ badgeObservers' = badgeObservers + 1
  /\ calls' = Append(calls, CallOf("badge", notes))
  /\ UNCHANGED <<notes, written, listObservers, reads, notificationData,
                 joinedEventData, rows, reloads, badge, skipped, opened>>

EventIDs(list) == [i \in 1..Len(list) |-> list[i].eventID]

(* Mutant: the reads are issued before the list is sorted.                 *)
ListCalledUnsorted ==
  /\ calls # <<>> /\ Head(calls).kind = "list"
  /\ notificationData' = Reverse(Head(calls).snapshot)
  /\ joinedEventData' = <<>>
  /\ reads' = reads \o EventIDs(Head(calls).snapshot)
  /\ skipped' = FALSE
  /\ calls' = Tail(calls)
  /\ UNCHANGED <<notes, written, listObservers, badgeObservers, rows, reloads,
                 badge, opened>>

(* The callback of queryNotification.  The list comes oldest first and is  *)
(* sorted by descending time.                                              *)
ListCalled ==
  /\ calls # <<>> /\ Head(calls).kind = "list"
  /\ notificationData' = Reverse(Head(calls).snapshot)
  /\ joinedEventData' = <<>>
  /\ reads' = reads \o EventIDs(notificationData')
  /\ skipped' = FALSE
  /\ calls' = Tail(calls)
  /\ UNCHANGED <<notes, written, listObservers, badgeObservers, rows, reloads,
                 badge, opened>>

(* Whether the first read to come was issued by the latest list.           *)
OfLatestList == Len(reads) <= Len(notificationData)

(* Mutant: the table is not reloaded.                                      *)
ReadReturnsSilently ==
  /\ reads # <<>>
  /\ LET e == Head(reads)
     IN  \/ /\ e \in written
            /\ joinedEventData' = Append(joinedEventData, e)
            /\ UNCHANGED skipped
         \/ /\ e \notin written
            /\ skipped' = (skipped \/ OfLatestList)
            /\ UNCHANGED joinedEventData
  /\ reads' = Tail(reads)
  /\ UNCHANGED <<notes, written, listObservers, badgeObservers, calls,
                 notificationData, rows, reloads, badge, opened>>

ReadReturns ==
  /\ reads # <<>>
  /\ LET e == Head(reads)
     IN  \/ /\ e \in written
            /\ joinedEventData' = Append(joinedEventData, e)
            /\ reloads' = reloads + 1
            /\ UNCHANGED skipped
         \/ /\ e \notin written
            /\ skipped' = (skipped \/ OfLatestList)
            /\ UNCHANGED <<joinedEventData, reloads>>
  /\ reads' = Tail(reads)
  /\ UNCHANGED <<notes, written, listObservers, badgeObservers, calls,
                 notificationData, rows, badge, opened>>

ReloadData ==
  /\ reloads > 0
  /\ rows' = notificationData
  /\ reloads' = reloads - 1
  /\ UNCHANGED <<notes, written, listObservers, badgeObservers, calls, reads,
                 notificationData, joinedEventData, badge, skipped, opened>>

(* A row scrolled into view is drawn from notificationData by its index.   *)
CellForRow(i) ==
  /\ rows' = [rows EXCEPT ![i] = notificationData[i]]
  /\ UNCHANGED <<notes, written, listObservers, badgeObservers, calls, reads,
                 notificationData, joinedEventData, reloads, badge, skipped,
                 opened>>

Unread(list) == Cardinality({i \in 1..Len(list) : ~list[i].isRead})

(* Mutant: the badge counts every notification once more for each call.    *)
BadgeCalledAdds ==
  /\ calls # <<>> /\ Head(calls).kind = "badge"
  /\ badge' = badge + Len(Head(calls).snapshot)
  /\ calls' = Tail(calls)
  /\ UNCHANGED <<notes, written, listObservers, badgeObservers, reads,
                 notificationData, joinedEventData, rows, reloads, skipped,
                 opened>>

(* Mutant: a list without unread notifications leaves the badge alone.     *)
BadgeCalledKeepsLast ==
  /\ calls # <<>> /\ Head(calls).kind = "badge"
  /\ badge' = IF Unread(Head(calls).snapshot) = 0
                THEN badge ELSE Unread(Head(calls).snapshot)
  /\ calls' = Tail(calls)
  /\ UNCHANGED <<notes, written, listObservers, badgeObservers, reads,
                 notificationData, joinedEventData, rows, reloads, skipped,
                 opened>>

(* The callback of queryNotificationCount sets the badge inside the loop   *)
(* over the notifications, so an empty list leaves it alone.               *)
BadgeCalled ==
  /\ calls # <<>> /\ Head(calls).kind = "badge"
  /\ badge' = IF Head(calls).snapshot = <<>>
                THEN badge ELSE Unread(Head(calls).snapshot)
  /\ calls' = Tail(calls)
  /\ UNCHANGED <<notes, written, listObservers, badgeObservers, reads,
                 notificationData, joinedEventData, rows, reloads, skipped,
                 opened>>

Marked(id) ==
  [j \in 1..Len(notes) |->
     IF notes[j].notificationID = id THEN [notes[j] EXCEPT !.isRead = TRUE]
                                     ELSE notes[j]]

(* A tap on row i: prepare opens joinedEventData[i], didSelectRowAt marks  *)
(* notificationData[i] read.                                               *)
SelectRow(i) ==
  /\ i <= Len(joinedEventData)
  /\ opened' = <<rows[i].eventID, joinedEventData[i]>>
  /\ notes' = Marked(notificationData[i].notificationID)
  /\ calls' = IF notes' = notes THEN calls ELSE CallAll(notes')
  /\ UNCHANGED <<written, listObservers, badgeObservers, reads,
                 notificationData, joinedEventData, rows, reloads, badge,
                 skipped>>

(* The index is out of range: the process dies and starts afresh.          *)
SelectRowTraps(i) ==
  /\ i > Len(joinedEventData)
  /\ calls' = <<>> /\ reads' = <<>> /\ reloads' = 0
  /\ listObservers' = 0 /\ badgeObservers' = 0
  /\ notificationData' = <<>> /\ joinedEventData' = <<>> /\ rows' = <<>>
  /\ badge' = 0 /\ skipped' = FALSE
  /\ UNCHANGED <<notes, written, opened>>

-----------------------------------------------------------------------------
Calls == ListCalled \/ BadgeCalled

Next ==
  \/ \E e \in Event : NoteArrives(e) \/ EventWritten(e)
  \/ QueryNotification \/ QueryNotificationCount
  \/ ListCalled \/ BadgeCalled \/ ReadReturns \/ ReloadData
  \/ \E i \in 1..Len(rows) :
       CellForRow(i) \/ SelectRow(i) \/ SelectRowTraps(i)

Spec == Init /\ [][Next]_vars

(* The SDK makes the calls it owes and the main queue runs its blocks.     *)
Fairness == WF_vars(Calls) /\ WF_vars(ReadReturns) /\ WF_vars(ReloadData)

FairSpec == Spec /\ Fairness

-----------------------------------------------------------------------------
(* Properties.                                                             *)

(* The reads of the latest list end up, in its order, at the end of        *)
(* joinedEventData, however many observers call and however the rounds of  *)
(* reads overlap, unless one of them found no event: what earlier rounds   *)
(* still had to deliver comes in front of them.  So once nothing is owed   *)
(* every row has an event and the index of prepare is in range.            *)
LatestRowsLast ==
  ~skipped =>
    IsSuffix(EventIDs(notificationData), joinedEventData \o reads)

(* When every call has been made, the badge counts the unread ones, though *)
(* several observers set it and it is only set inside the loop.            *)
BadgeCounts == calls = <<>> /\ badgeObservers > 0 => badge = Unread(notes)

Has(list, id) == \E i \in 1..Len(list) : list[i].notificationID = id

(* A list with this notification is on its way, and its event has a node.  *)
OnItsWay(id) ==
  \E c \in 1..Len(calls) :
    /\ calls[c].kind = "list"
    /\ \E i \in 1..Len(calls[c].snapshot) :
         /\ calls[c].snapshot[i].notificationID = id
         /\ calls[c].snapshot[i].eventID \in written

(* A notification whose event can be read gets into the table eventually,  *)
(* unless the process dies, although only the reads of events reload the   *)
(* table and later lists replace the one that brought it.                  *)
EveryNoteListed ==
  \A id \in NoteID : OnItsWay(id) ~> (Has(rows, id) \/ listObservers = 0)

(* The text of a row names an event (AddEventVC: "... invites you to       *)
(* join <title>"); tapping the row opens that event.                       *)
RowOpensItsEvent ==
  opened # <<>> => opened[1] = opened[2]
=============================================================================
