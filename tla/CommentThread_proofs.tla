----------------------- MODULE CommentThread_proofs ------------------------
(***************************************************************************)
(* What the comment screen keeps, for any users, any number of comments    *)
(* and any number of calls and reloads on their way, and the ages that its *)
(* rows give, for comments of any age.                                     *)
(***************************************************************************)
EXTENDS CommentThread, FiniteSetTheorems, TLAPS

(* The last call on its way carries the comments of the database; when     *)
(* none is on its way the phone has them.                                  *)
LastCallIsCurrent ==
  open => IF calls = <<>> THEN commentData = comments
                          ELSE Last(calls) = comments

(* Rows and array differ only while a reload is owed.                      *)
RowsShowData == reloads = 0 => rows = commentData

(* A delete button survives no reload, so that it is on an own comment.    *)
OwnSwipe == reloads = 0 /\ swiped > 0 => rows[swiped].userID = Me

ClosedIsEmpty == ~open => /\ calls = <<>> /\ reloads = 0
                          /\ commentData = <<>> /\ rows = <<>> /\ swiped = 0

(* Sent or queued.                                                         *)
Written == told \union ToSet(outbox)

(* What OthersTold says of the notifications sent holds of the queued ones *)
(* as well, and the organiser's stands in the queue before any member's.   *)
TellsOthers ==
  /\ \A c \in CommentID, u \in User : <<c, u>> \in Written => u # Me
  /\ \A c \in CommentID, u \in User :
       <<c, u>> \in told /\ organiserID # Me => <<c, organiserID>> \in told
  /\ \A i \in 1..Len(outbox) :
       organiserID # Me =>
         \/ <<outbox[i][1], organiserID>> \in told
         \/ \E j \in 1..i : outbox[j] = <<outbox[i][1], organiserID>>
  /\ \A c \in CommentID \ cut, u \in User :
       <<c, u>> \in Written => \A v \in Others : <<c, v>> \in Written

ThreadInv ==
  /\ TypeOK
  /\ LastCallIsCurrent /\ RowsShowData /\ OwnSwipe /\ ClosedIsEmpty
  /\ SendsTyped /\ TellsOthers

-----------------------------------------------------------------------------
(* Sequences.                                                              *)

LEMMA Appended ==
  ASSUME NEW S, NEW s \in Seq(S), NEW e \in S
  PROVE  /\ Append(s, e) \in Seq(S) /\ Append(s, e) # <<>>
         /\ Last(Append(s, e)) = e
BY DEF Last

LEMMA Removed ==
  ASSUME NEW S, NEW s \in Seq(S), NEW i \in 1..Len(s)
  PROVE  RemoveAt(s, i) \in Seq(S) /\ RemoveAt(s, i) # s
<1> DEFINE t == SubSeq(s, 1, i - 1)
           v == SubSeq(s, i + 1, Len(s))
<1>1. t \in Seq(S) /\ Len(t) = i - 1
  OBVIOUS
<1>2. v \in Seq(S) /\ Len(v) = Len(s) - i
  OBVIOUS
<1>3. t \o v \in Seq(S) /\ Len(t \o v) = Len(s) - 1
  <2> HIDE DEF t, v
  <2> QED
    BY <1>1, <1>2
<1>4. RemoveAt(s, i) = t \o v
  BY DEF RemoveAt
<1>5. Len(s) \in Nat /\ Len(s) # Len(s) - 1
  OBVIOUS
<1> HIDE DEF t, v
<1> QED
  BY <1>3, <1>4, <1>5

LEMMA Inserted ==
  ASSUME NEW S, NEW s \in Seq(S), NEW i \in 1..(Len(s) + 1), NEW e \in S
  PROVE  InsertAt(s, i, e) \in Seq(S)
BY DEF InsertAt

LEMMA WithoutOne ==
  ASSUME NEW S, NEW s \in Seq(S), NEW e
  PROVE  /\ Without(s, e) \in Seq(S)
         /\ (\E i \in 1..Len(s) : s[i] = e) => Without(s, e) # s
<1>1. e \in ToSet(s) <=> \E i \in 1..Len(s) : s[i] = e
  BY DEF ToSet
<1>2. CASE e \in ToSet(s)
  <2>1. PICK i \in 1..Len(s) : i = CHOOSE j \in 1..Len(s) : s[j] = e
    BY <1>1, <1>2
  <2> QED
    BY <1>2, <2>1, Removed DEF Without
<1>3. CASE e \notin ToSet(s)
  BY <1>1, <1>3 DEF Without
<1> QED
  BY <1>2, <1>3

LEMMA TailLast ==
  ASSUME NEW S, NEW s \in Seq(S), s # <<>>
  PROVE  /\ Head(s) \in S /\ Tail(s) \in Seq(S)
         /\ Tail(s) # <<>> => Last(Tail(s)) = Last(s)
         /\ Tail(s) = <<>> => Head(s) = Last(s)
<1>1. Head(s) \in S /\ Tail(s) \in Seq(S) /\ Len(Tail(s)) = Len(s) - 1
        /\ Len(s) \in Nat \ {0}
  OBVIOUS
<1>2. ASSUME Tail(s) # <<>>
      PROVE  Last(Tail(s)) = Last(s)
  BY <1>1, <1>2 DEF Last
<1>3. ASSUME Tail(s) = <<>>
      PROVE  Head(s) = Last(s)
  <2>1. Len(s) = 1
    BY <1>1, <1>3
  <2> QED
    BY <2>1 DEF Last
<1> QED
  BY <1>1, <1>2, <1>3

-----------------------------------------------------------------------------
LEMMA Blank ==
  /\ BlankBox \in TextView /\ ~BlankBox.isEnabled
  /\ \A S : <<>> \in Seq(S)
BY DEF BlankBox, TextView, Text

LEMMA ThreadStarts == Init => ThreadInv
<1> SUFFICES ASSUME Init PROVE ThreadInv
  OBVIOUS
<1>1. TypeOK
  <2>1. /\ comments \in Seq(Comment) /\ calls \in Seq(Seq(Comment))
        /\ commentData \in Seq(Comment) /\ rows \in Seq(Comment)
        /\ textView \in TextView /\ outbox \in Seq(CommentID \X User)
    BY Blank DEF Init
  <2>2. written \in 0..MaxComments /\ swiped \in 0..Len(rows)
    BY ThreadConstants DEF Init
  <2> QED
    BY <2>1, <2>2 DEF Init, TypeOK
<1>2. LastCallIsCurrent /\ RowsShowData /\ OwnSwipe /\ ClosedIsEmpty
  BY DEF Init, LastCallIsCurrent, RowsShowData, OwnSwipe, ClosedIsEmpty
<1>3. SendsTyped /\ TellsOthers
  BY DEF Init, SendsTyped, TellsOthers, Written, BlankBox, ToSet
<1> QED
  BY <1>1, <1>2, <1>3 DEF ThreadInv

(* A change of the comments in the database calls the observer: the rest   *)
(* of the table is as it was.                                              *)
LEMMA ChangeKeeps ==
  ASSUME ThreadInv, comments' \in Seq(Comment), written' \in 0..MaxComments,
         calls' = Call(comments'), asks' \subseteq CommentID,
         textView' \in TextView, SendsTyped',
         UNCHANGED <<people, open, reloads, commentData, rows, swiped, tells>>
  PROVE  ThreadInv'
<1> USE DEF ThreadInv, people, tells
<1>1. calls \in Seq(Seq(Comment))
  BY DEF TypeOK
<1>2. calls' \in Seq(Seq(Comment)) /\ (open => Last(calls') = comments')
        /\ (open => calls' # <<>>) /\ (~open => calls' = calls)
  BY <1>1, Appended DEF Call
<1>3. TypeOK'
  BY <1>2 DEF TypeOK
<1>4. LastCallIsCurrent' /\ RowsShowData' /\ OwnSwipe' /\ ClosedIsEmpty'
  BY <1>2 DEF LastCallIsCurrent, RowsShowData, OwnSwipe, ClosedIsEmpty
<1>5. TellsOthers'
  BY DEF TellsOthers, Written, Others
<1> QED
  BY <1>3, <1>4, <1>5

LEMMA WriteType ==
  ASSUME ThreadInv, NEW u \in User, Write(u)
  PROVE  /\ comments' \in Seq(Comment)
         /\ written' \in CommentID /\ CommentID \subseteq 0..MaxComments
<1>1. comments \in Seq(Comment) /\ written \in 0..MaxComments
        /\ written < MaxComments
  BY DEF ThreadInv, TypeOK, Write
<1>2. NewComment(u) \in Comment /\ written' \in CommentID
        /\ CommentID \subseteq 0..MaxComments
  BY <1>1, ThreadConstants DEF NewComment, Comment, CommentID, Write
<1> QED
  BY <1>1, <1>2, Inserted DEF Write

LEMMA OthersKeep ==
  ASSUME ThreadInv,
         \/ \E u \in User \ {Me} : OtherWrites(u)
         \/ \E i \in 1..Len(comments) : OtherDeletes(i)
  PROVE  ThreadInv'
<1>1. CASE \E u \in User \ {Me} : OtherWrites(u)
  <2>1. PICK u \in User : OtherWrites(u)
    BY <1>1
  <2>2. UNCHANGED <<textView, asks>> /\ calls' = Call(comments') /\ Write(u)
          /\ UNCHANGED <<people, open, reloads, commentData, rows, swiped, tells>>
    BY <2>1 DEF OtherWrites
  <2> QED
    BY <2>2, WriteType, ChangeKeeps DEF ThreadInv, TypeOK, SendsTyped
<1>2. CASE \E i \in 1..Len(comments) : OtherDeletes(i)
  <2>1. PICK i \in 1..Len(comments) : OtherDeletes(i)
    BY <1>2
  <2>2. comments' \in Seq(Comment)
    BY <2>1, Removed DEF OtherDeletes, ThreadInv, TypeOK
  <2> QED
    BY <2>1, <2>2, ChangeKeeps DEF OtherDeletes, ThreadInv, TypeOK, SendsTyped
<1> QED
  BY <1>1, <1>2

LEMMA SendKeeps ==
  ASSUME ThreadInv, InputPressed
  PROVE  ThreadInv'
<1>1. /\ Write(Me) /\ calls' = Call(comments')
      /\ asks' = asks \union {written'} /\ textView' = BlankBox
      /\ UNCHANGED <<people, open, reloads, commentData, rows, swiped, tells>>
  BY DEF InputPressed
<1>2. comments' \in Seq(Comment) /\ written' \in 0..MaxComments
        /\ asks' \subseteq CommentID
  BY <1>1, WriteType, ThreadConstants DEF ThreadInv, TypeOK
<1>3. textView' \in TextView /\ SendsTyped'
  BY <1>1, Blank DEF SendsTyped
<1> QED
  BY <1>1, <1>2, <1>3, ChangeKeeps

(* The screen is left, or goes with the process.                           *)
LEMMA GoneKeeps ==
  ASSUME ThreadInv, ScreenGone, UNCHANGED <<people, written>>,
         comments' \in Seq(Comment), asks' \subseteq CommentID,
         outbox' \in Seq(CommentID \X User), cut' \subseteq CommentID,
         UNCHANGED told, TellsOthers'
  PROVE  ThreadInv'
<1> USE DEF ThreadInv, people
<1>1. TypeOK'
  <2>1. /\ calls' \in Seq(Seq(Comment)) /\ textView' \in TextView
        /\ commentData' \in Seq(Comment) /\ rows' \in Seq(Comment)
    BY Blank DEF ScreenGone
  <2>2. swiped' \in 0..Len(rows')
    BY DEF ScreenGone
  <2> QED
    BY <2>1, <2>2 DEF TypeOK, ScreenGone
<1>2. LastCallIsCurrent' /\ RowsShowData' /\ OwnSwipe' /\ ClosedIsEmpty'
  BY DEF ScreenGone, LastCallIsCurrent, RowsShowData, OwnSwipe, ClosedIsEmpty
<1>3. SendsTyped'
  BY Blank DEF ScreenGone, SendsTyped
<1> QED
  BY <1>1, <1>2, <1>3

(* A death cuts short the notifications of the comments in the queue: of   *)
(* every other comment all are sent or none.                               *)
LEMMA DeathKeeps ==
  ASSUME ThreadInv, Die, comments' \in Seq(Comment)
  PROVE  ThreadInv'
<1> USE DEF ThreadInv, people
<1>1. /\ outbox \in Seq(CommentID \X User) /\ cut \subseteq CommentID
      /\ told \subseteq CommentID \X User
  BY DEF TypeOK
<1>2. /\ ScreenGone /\ UNCHANGED <<people, written, told>>
      /\ asks' = {} /\ outbox' = <<>>
      /\ cut' = cut \union {letter[1] : letter \in ToSet(outbox)}
  BY DEF Die
<1>3. ToSet(outbox) \subseteq CommentID \X User
  BY <1>1 DEF ToSet
<1>4. outbox' \in Seq(CommentID \X User) /\ cut' \subseteq CommentID
  BY <1>1, <1>2, <1>3, Blank
<1>5. Written' = told
  BY <1>2 DEF Written, ToSet
<1>6. TellsOthers'
  <2>1. /\ \A c \in CommentID, u \in User : <<c, u>> \in Written' => u # Me
        /\ \A c \in CommentID, u \in User :
             <<c, u>> \in told /\ organiserID # Me => <<c, organiserID>> \in told
        /\ \A i \in 1..Len(outbox') : FALSE
    BY <1>2, <1>5 DEF TellsOthers, Written
  <2>2. ASSUME NEW c \in CommentID \ cut', NEW u \in User, <<c, u>> \in told,
               NEW v \in Others
        PROVE  <<c, v>> \in told
    <3>1. c \notin cut /\ <<c, v>> \notin ToSet(outbox)
      BY <1>2, <2>2
    <3> QED
      BY <2>2, <3>1 DEF TellsOthers, Written
  <2> QED
    BY <1>2, <1>5, <2>1, <2>2 DEF TellsOthers, Others
<1> QED
  BY <1>2, <1>4, <1>6, GoneKeeps

LEMMA ScreensKeep ==
  ASSUME ThreadInv,
         \/ Back \/ Killed \/ CommitDeleteTraps
         \/ \E i \in 1..Len(rows) : CellForRowTraps(i) \/ SwipeTraps(i)
  PROVE  ThreadInv'
<1>1. comments \in Seq(Comment)
  BY DEF ThreadInv, TypeOK
<1>2. CASE Back
  <2>1. TellsOthers'
    BY <1>2 DEF Back, ThreadInv, TellsOthers, Written, Others, people, tells
  <2> QED
    BY <1>1, <1>2, <2>1, GoneKeeps DEF Back, ThreadInv, TypeOK, tells
<1>3. CASE Killed \/ \E i \in 1..Len(rows) : CellForRowTraps(i) \/ SwipeTraps(i)
  BY <1>1, <1>3, DeathKeeps DEF Killed, CellForRowTraps, SwipeTraps, Trap
<1>4. CASE CommitDeleteTraps
  BY <1>1, <1>4, WithoutOne, DeathKeeps DEF CommitDeleteTraps, Trap
<1> QED
  BY <1>2, <1>3, <1>4

LEMMA LoadKeeps ==
  ASSUME ThreadInv, ViewDidLoad
  PROVE  ThreadInv'
<1> USE DEF ThreadInv, people, tells, ViewDidLoad
<1>1. comments \in Seq(Comment)
  BY DEF TypeOK
<1>2. <<comments>> \in Seq(Seq(Comment)) /\ Last(<<comments>>) = comments
  BY <1>1 DEF Last
<1>3. TypeOK'
  BY <1>2 DEF TypeOK
<1>4. LastCallIsCurrent' /\ RowsShowData' /\ OwnSwipe' /\ ClosedIsEmpty'
  BY <1>2 DEF LastCallIsCurrent, RowsShowData, OwnSwipe, ClosedIsEmpty
<1>5. SendsTyped' /\ TellsOthers'
  BY DEF SendsTyped, TellsOthers, Written, Others
<1> QED
  BY <1>3, <1>4, <1>5

-----------------------------------------------------------------------------
(* The observer's callback, the reload and the rows.                       *)
LEMMA CalledKeeps ==
  ASSUME ThreadInv, Called
  PROVE  ThreadInv'
<1> USE DEF ThreadInv, people, tells, Called
<1>1. calls \in Seq(Seq(Comment)) /\ calls # <<>>
  BY DEF TypeOK
<1>2. /\ Head(calls) \in Seq(Comment) /\ Tail(calls) \in Seq(Seq(Comment))
      /\ Tail(calls) # <<>> => Last(Tail(calls)) = Last(calls)
      /\ Tail(calls) = <<>> => Head(calls) = Last(calls)
  BY <1>1, TailLast
<1>3. TypeOK'
  BY <1>2 DEF TypeOK
<1>4. open
  BY <1>1 DEF ClosedIsEmpty, TypeOK
<1>5. LastCallIsCurrent'
  BY <1>1, <1>2, <1>4 DEF LastCallIsCurrent
<1>6. RowsShowData' /\ OwnSwipe' /\ ClosedIsEmpty'
  BY <1>4 DEF RowsShowData, OwnSwipe, ClosedIsEmpty, TypeOK
<1>7. SendsTyped' /\ TellsOthers'
  BY DEF SendsTyped, TellsOthers, Written, Others
<1> QED
  BY <1>3, <1>5, <1>6, <1>7

LEMMA RowsKeep ==
  ASSUME ThreadInv,
         ReloadData \/ \E i \in 1..Len(rows) : CellForRow(i) \/ Swipe(i)
  PROVE  ThreadInv'
<1> USE DEF ThreadInv, people, tells
<1>1. CASE ReloadData
  <2>1. TypeOK'
    BY <1>1 DEF ReloadData, TypeOK
  <2>2. LastCallIsCurrent' /\ RowsShowData' /\ OwnSwipe' /\ ClosedIsEmpty'
    BY <1>1 DEF ReloadData, LastCallIsCurrent, RowsShowData, OwnSwipe,
                ClosedIsEmpty
  <2>3. SendsTyped' /\ TellsOthers'
    BY <1>1 DEF ReloadData, SendsTyped, TellsOthers, Written, Others
  <2> QED
    BY <2>1, <2>2, <2>3
<1>2. ASSUME NEW i \in 1..Len(rows), CellForRow(i)
      PROVE  ThreadInv'
  <2>1. /\ rows \in Seq(Comment) /\ commentData \in Seq(Comment)
        /\ i \in 1..Len(commentData)
    BY <1>2 DEF CellForRow, TypeOK
  <2>2. commentData[i] \in Comment
    BY <2>1
  <2>3. rows' \in Seq(Comment) /\ Len(rows') = Len(rows)
    BY <1>2, <2>1, <2>2 DEF CellForRow
  <2>4. rows = commentData => rows' = rows
    BY <1>2, <2>1 DEF CellForRow
  <2>5. TypeOK'
    BY <1>2, <2>3 DEF CellForRow, TypeOK
  <2>6. open
    BY <2>1 DEF ClosedIsEmpty, TypeOK
  <2>7. LastCallIsCurrent' /\ RowsShowData' /\ OwnSwipe' /\ ClosedIsEmpty'
    BY <1>2, <2>4, <2>6 DEF CellForRow, LastCallIsCurrent, RowsShowData,
                           OwnSwipe, ClosedIsEmpty
  <2>8. SendsTyped' /\ TellsOthers'
    BY <1>2 DEF CellForRow, SendsTyped, TellsOthers, Written, Others
  <2> QED
    BY <2>5, <2>7, <2>8
<1>3. ASSUME NEW i \in 1..Len(rows), Swipe(i)
      PROVE  ThreadInv'
  <2>1. TypeOK'
    BY <1>3 DEF Swipe, TypeOK
  <2>2. open
    BY DEF ClosedIsEmpty, TypeOK
  <2>3. LastCallIsCurrent' /\ RowsShowData' /\ OwnSwipe' /\ ClosedIsEmpty'
    BY <1>3, <2>2 DEF Swipe, CanEdit, LastCallIsCurrent, RowsShowData,
                     OwnSwipe, ClosedIsEmpty
  <2>4. SendsTyped' /\ TellsOthers'
    BY <1>3 DEF Swipe, SendsTyped, TellsOthers, Written, Others
  <2> QED
    BY <2>1, <2>3, <2>4
<1> QED
  BY <1>1, <1>2, <1>3

(* A row is deleted.  If its comment is still in the database a call for   *)
(* the list without it follows; if it is not, one for that is on its way.  *)
LEMMA DeleteKeeps ==
  ASSUME ThreadInv, CommitDelete
  PROVE  ThreadInv'
<1> USE DEF ThreadInv, people, tells
<1>1. /\ comments \in Seq(Comment) /\ calls \in Seq(Seq(Comment))
      /\ commentData \in Seq(Comment) /\ rows \in Seq(Comment)
      /\ swiped \in 1..Len(commentData) /\ swiped \in 1..Len(rows)
  BY DEF CommitDelete, TypeOK
<1>2. comments' \in Seq(Comment)
  BY <1>1, WithoutOne DEF CommitDelete
<1>3. commentData' \in Seq(Comment) /\ rows' \in Seq(Comment) /\ swiped' = 0
  BY <1>1, Removed DEF CommitDelete
<1>4. /\ calls' \in Seq(Seq(Comment))
      /\ open /\ comments' # comments => calls' # <<>> /\ Last(calls') = comments'
      /\ comments' = comments => calls' = calls
      /\ ~open => calls' = calls
  BY <1>1, <1>2, Appended DEF CommitDelete, CallAfterRemoval, Call
<1>5. TypeOK'
  BY <1>2, <1>3, <1>4 DEF CommitDelete, TypeOK
<1>6. open
  BY <1>1 DEF ClosedIsEmpty, TypeOK
<1>7. calls = <<>> => comments' # comments
  <2>1. comments = commentData =>
          Without(comments, commentData[swiped]) # comments
    BY <1>1, WithoutOne
  <2> QED
    BY <1>6, <2>1 DEF CommitDelete, LastCallIsCurrent
<1>8. LastCallIsCurrent'
  BY <1>4, <1>6, <1>7 DEF CommitDelete, LastCallIsCurrent
<1>9. RowsShowData' /\ OwnSwipe' /\ ClosedIsEmpty'
  BY <1>6 DEF CommitDelete, RowsShowData, OwnSwipe, ClosedIsEmpty
<1>10. SendsTyped' /\ TellsOthers'
  BY DEF CommitDelete, SendsTyped, TellsOthers, Written, Others
<1> QED
  BY <1>5, <1>8, <1>9, <1>10

-----------------------------------------------------------------------------
(* The text box, and telling the others.                                   *)
LEMMA BoxKeeps ==
  ASSUME ThreadInv,
         BeginEditing \/ EndEditing \/ \E text \in Text : Edit(text)
  PROVE  ThreadInv'
<1> USE DEF ThreadInv, people, table, tells
<1>1. UNCHANGED <<people, comments, written, table, asks, tells>>
  BY DEF BeginEditing, EndEditing, Edit
<1>2. textView \in TextView
        /\ (textView.isEnabled => textView.text # "empty" /\ ~textView.isGray)
  BY DEF TypeOK, SendsTyped
<1>3. textView' \in TextView
        /\ (textView'.isEnabled => textView'.text # "empty" /\ ~textView'.isGray)
  <2>1. CASE BeginEditing
    <3>1. CASE textView.text \in {"hint", "empty"}
      BY <2>1, <3>1 DEF BeginEditing, TextView, Text
    <3>2. CASE textView.text \notin {"hint", "empty"}
      <4>1. textView' = [textView EXCEPT !.isEditing = TRUE]
        BY <2>1, <3>2 DEF BeginEditing
      <4> QED
        BY <1>2, <4>1 DEF TextView
    <3> QED
      BY <3>1, <3>2
  <2>2. CASE EndEditing
    <3>1. CASE textView.text = "empty"
      BY <2>2, <3>1, Blank DEF EndEditing, AfterEditing
    <3>2. CASE textView.text # "empty"
      <4>1. textView' = [textView EXCEPT !.isEditing = FALSE]
        BY <2>2, <3>2 DEF EndEditing, AfterEditing
      <4> QED
        BY <1>2, <4>1 DEF TextView
    <3> QED
      BY <3>1, <3>2
  <2>3. ASSUME NEW text \in Text, Edit(text)
        PROVE  textView' \in TextView
                 /\ (textView'.isEnabled =>
                       textView'.text # "empty" /\ ~textView'.isGray)
    <3>1. PICK b \in BOOLEAN :
            /\ b => text # "empty" /\ ~textView.isGray
            /\ textView' = [textView EXCEPT !.text = text, !.isEnabled = b]
      BY <2>3, Zenon DEF Edit
    <3> QED
      BY <1>2, <3>1 DEF TextView
  <2> QED
    BY <2>1, <2>2, <2>3
<1>4. TypeOK' /\ SendsTyped'
  BY <1>1, <1>3 DEF TypeOK, SendsTyped
<1>5. LastCallIsCurrent' /\ RowsShowData' /\ OwnSwipe' /\ ClosedIsEmpty'
  BY <1>1 DEF LastCallIsCurrent, RowsShowData, OwnSwipe, ClosedIsEmpty
<1>6. TellsOthers'
  BY <1>1 DEF TellsOthers, Written, Others
<1> QED
  BY <1>4, <1>5, <1>6

LEMMA RecipientsAreOthers ==
  ASSUME organiserID \in User, memberData \subseteq User \ {organiserID}
  PROVE  Recipients = Others /\ Others \subseteq User /\ Me \notin Others
           /\ (organiserID # Me => organiserID \in Others)
BY DEF Recipients, Others

(* A series of letters names every recipient, the organiser first.         *)
LEMMA LettersTellAll ==
  ASSUME NEW c \in CommentID, NEW letters \in Letters(c),
         Recipients \subseteq User
  PROVE  /\ letters \in Seq(CommentID \X User)
         /\ ToSet(letters) = {c} \X Recipients
         /\ organiserID \in Recipients => letters[1] = <<c, organiserID>>
<1>1. Cardinality(Recipients) \in Nat
  BY FS_Subset, FS_CardinalityType, ThreadConstants
<1>2. letters \in [1..Cardinality(Recipients) -> CommentID \X User]
  BY DEF Letters
<1>3. letters \in Seq(CommentID \X User)
  BY <1>1, <1>2
<1> QED
  BY <1>3 DEF Letters

LEMMA Joined ==
  ASSUME NEW S, NEW s \in Seq(S), NEW t \in Seq(S)
  PROVE  /\ s \o t \in Seq(S) /\ ToSet(s \o t) = ToSet(s) \union ToSet(t)
         /\ Len(s \o t) = Len(s) + Len(t)
         /\ \A i \in 1..Len(s) : (s \o t)[i] = s[i]
         /\ \A i \in 1..Len(t) : (s \o t)[Len(s) + i] = t[i]
         /\ \A i \in Len(s) + 1 .. Len(s) + Len(t) : (s \o t)[i] = t[i - Len(s)]
<1>1. /\ s \o t \in Seq(S) /\ Len(s \o t) = Len(s) + Len(t)
      /\ Len(s) \in Nat /\ Len(t) \in Nat
      /\ \A i \in 1..Len(s) : (s \o t)[i] = s[i]
      /\ \A i \in 1..Len(t) : (s \o t)[Len(s) + i] = t[i]
      /\ \A i \in Len(s) + 1 .. Len(s) + Len(t) : (s \o t)[i] = t[i - Len(s)]
  OBVIOUS
<1>2. /\ ToSet(s) = {s[i] : i \in 1..Len(s)} /\ ToSet(t) = {t[i] : i \in 1..Len(t)}
      /\ ToSet(s \o t) = {(s \o t)[i] : i \in 1..Len(s) + Len(t)}
  BY <1>1 DEF ToSet
<1>3. \A i \in 1..Len(s) + Len(t) : i \in 1..Len(s) \/ i - Len(s) \in 1..Len(t)
  BY <1>1
<1>4. ToSet(s \o t) \subseteq ToSet(s) \union ToSet(t)
  <2> SUFFICES ASSUME NEW i \in 1..Len(s) + Len(t)
               PROVE  (s \o t)[i] \in ToSet(s) \union ToSet(t)
    BY <1>2
  <2>1. CASE i \in 1..Len(s)
    BY <1>1, <1>2, <2>1
  <2>2. CASE i \notin 1..Len(s)
    <3>1. i - Len(s) \in 1..Len(t) /\ i \in Len(s) + 1 .. Len(s) + Len(t)
      BY <1>1, <2>2
    <3>2. (s \o t)[i] = t[i - Len(s)]
      BY <1>1, <3>1
    <3> QED
      BY <1>2, <3>1, <3>2
  <2> QED
    BY <2>1, <2>2
<1>5. ToSet(s) \subseteq ToSet(s \o t)
  BY <1>1, <1>2
<1>6. ToSet(t) \subseteq ToSet(s \o t)
  <2> SUFFICES ASSUME NEW i \in 1..Len(t) PROVE t[i] \in ToSet(s \o t)
    BY <1>2
  <2>1. Len(s) + i \in 1..Len(s) + Len(t) /\ (s \o t)[Len(s) + i] = t[i]
    BY <1>1
  <2> QED
    BY <1>2, <2>1
<1> QED
  BY <1>1, <1>4, <1>5, <1>6

LEMMA HeadAndTail ==
  ASSUME NEW S, NEW s \in Seq(S), s # <<>>
  PROVE  ToSet(s) = {Head(s)} \union ToSet(Tail(s))
<1>1. /\ Len(s) \in Nat \ {0} /\ Tail(s) \in Seq(S) /\ Head(s) = s[1]
      /\ Len(Tail(s)) = Len(s) - 1
      /\ \A i \in 1..Len(Tail(s)) : Tail(s)[i] = s[i + 1]
  OBVIOUS
<1>2. /\ ToSet(s) = {s[i] : i \in 1..Len(s)}
      /\ ToSet(Tail(s)) = {Tail(s)[i] : i \in 1..Len(Tail(s))}
  <2>1. DOMAIN s = 1..Len(s) /\ DOMAIN Tail(s) = 1..Len(Tail(s))
    BY <1>1
  <2> QED
    BY <2>1, Zenon DEF ToSet
<1>3. ASSUME NEW i \in 1..Len(s)
      PROVE  s[i] = Head(s) \/ s[i] \in ToSet(Tail(s))
  <2>1. CASE i = 1
    BY <1>1, <2>1
  <2>2. CASE i # 1
    <3>1. i - 1 \in 1..Len(Tail(s)) /\ (i - 1) + 1 = i
      BY <1>1, <2>2
    <3>2. Tail(s)[i - 1] = s[i]
      BY <1>1, <3>1
    <3> QED
      BY <1>2, <3>1, <3>2
  <2> QED
    BY <2>1, <2>2
<1>4. ASSUME NEW i \in 1..Len(Tail(s))
      PROVE  Tail(s)[i] \in ToSet(s)
  <2>1. i + 1 \in 1..Len(s)
    BY <1>1
  <2> QED
    BY <1>1, <1>2, <2>1
<1>5. Head(s) \in ToSet(s)
  BY <1>1, <1>2
<1> QED
  BY <1>2, <1>3, <1>4, <1>5

LEMMA AuthorKeeps ==
  ASSUME ThreadInv, NEW c \in asks, AuthorRead(c)
  PROVE  ThreadInv'
<1> USE DEF ThreadInv, people, table
<1>1. /\ c \in CommentID /\ outbox \in Seq(CommentID \X User)
      /\ organiserID \in User /\ memberData \subseteq User \ {organiserID}
  BY DEF TypeOK
<1>2. Recipients = Others /\ Others \subseteq User /\ Me \notin Others
        /\ (organiserID # Me => organiserID \in Others)
  BY <1>1, RecipientsAreOthers
<1>3. PICK letters \in Letters(c) : outbox' = outbox \o letters
  BY DEF AuthorRead
<1>4. /\ letters \in Seq(CommentID \X User) /\ ToSet(letters) = {c} \X Others
      /\ organiserID # Me => letters[1] = <<c, organiserID>>
  BY <1>1, <1>2, LettersTellAll
<1>5. /\ outbox' \in Seq(CommentID \X User)
      /\ Written' = Written \union ({c} \X Others)
  BY <1>1, <1>3, <1>4, Joined DEF Written, AuthorRead
<1>6. UNCHANGED <<people, comments, written, table, textView, told, cut>>
        /\ asks' \subseteq asks
  BY DEF AuthorRead
<1>7. TypeOK'
  BY <1>5, <1>6 DEF TypeOK
<1>8. LastCallIsCurrent' /\ RowsShowData' /\ OwnSwipe' /\ ClosedIsEmpty'
  BY <1>6 DEF LastCallIsCurrent, RowsShowData, OwnSwipe, ClosedIsEmpty
<1>9. TellsOthers'
  <2>1. \A d \in CommentID, u \in User : <<d, u>> \in Written' => u # Me
    BY <1>2, <1>5 DEF TellsOthers
  <2>2. ASSUME NEW d \in CommentID \ cut, NEW u \in User, <<d, u>> \in Written',
               NEW v \in Others
        PROVE  <<d, v>> \in Written'
    BY <1>5, <2>2 DEF TellsOthers
  <2>3. ASSUME NEW i \in 1..Len(outbox'), organiserID # Me
        PROVE  \/ <<outbox'[i][1], organiserID>> \in told
               \/ \E j \in 1..i : outbox'[j] = <<outbox'[i][1], organiserID>>
    <3> DEFINE n == Len(outbox)
               m == Len(letters)
    <3>1. /\ Len(outbox') = n + m /\ n \in Nat /\ m \in Nat
          /\ \A j \in 1..n : outbox'[j] = outbox[j]
          /\ \A j \in 1..m : outbox'[n + j] = letters[j]
          /\ \A j \in n + 1 .. n + m : outbox'[j] = letters[j - n]
      BY <1>1, <1>3, <1>4, Joined
    <3> HIDE DEF n, m
    <3>2. CASE i \in 1..n
      <4>1. \/ <<outbox[i][1], organiserID>> \in told
            \/ \E j \in 1..i : outbox[j] = <<outbox[i][1], organiserID>>
        BY <2>3, <3>2 DEF TellsOthers, n
      <4>2. \A j \in 1..i : j \in 1..n
        BY <3>1, <3>2
      <4> QED
        BY <3>1, <3>2, <4>1, <4>2
    <3>3. CASE i \notin 1..n
      <4>1. i \in n + 1 .. n + m /\ i - n \in 1..m /\ n + 1 \in 1..i /\ 1 \in 1..m
        BY <2>3, <3>1, <3>3
      <4>2. outbox'[i] \in {c} \X Others
        <5>1. letters[i - n] \in ToSet(letters)
          BY <1>4, <4>1 DEF ToSet, m
        <5> QED
          BY <1>4, <3>1, <4>1, <5>1
      <4>3. outbox'[n + 1] = <<c, organiserID>> /\ outbox'[i][1] = c
        BY <1>4, <2>3, <3>1, <4>1, <4>2
      <4> QED
        BY <4>1, <4>3
    <3> QED
      BY <3>2, <3>3
  <2> QED
    BY <1>6, <2>1, <2>2, <2>3 DEF TellsOthers, Others
<1> QED
  BY <1>6, <1>7, <1>8, <1>9 DEF SendsTyped

LEMMA MissingKeeps ==
  ASSUME ThreadInv, NEW c \in asks, AuthorMissing(c)
  PROVE  ThreadInv'
<1> USE DEF ThreadInv, people, table, tells
<1>1. UNCHANGED <<people, comments, written, table, textView, tells>>
        /\ asks' \subseteq asks
  BY DEF AuthorMissing
<1>2. TypeOK'
  BY <1>1 DEF TypeOK
<1>3. LastCallIsCurrent' /\ RowsShowData' /\ OwnSwipe' /\ ClosedIsEmpty'
  BY <1>1 DEF LastCallIsCurrent, RowsShowData, OwnSwipe, ClosedIsEmpty
<1>4. SendsTyped' /\ TellsOthers'
  BY <1>1 DEF SendsTyped, TellsOthers, Written, Others
<1> QED
  BY <1>2, <1>3, <1>4

(* The head of the queue is sent: a member's is not, before the organiser  *)
(* has been told.                                                          *)
LEMMA SentKeeps ==
  ASSUME ThreadInv, Send
  PROVE  ThreadInv'
<1> USE DEF ThreadInv, people, table
<1>1. /\ outbox \in Seq(CommentID \X User) /\ outbox # <<>>
      /\ told' = told \union {Head(outbox)} /\ outbox' = Tail(outbox)
      /\ UNCHANGED <<people, comments, written, table, textView, asks, cut>>
  BY DEF TypeOK, Send
<1>2. /\ Head(outbox) \in CommentID \X User /\ Head(outbox) = outbox[1]
      /\ outbox' \in Seq(CommentID \X User)
      /\ Len(outbox) \in Nat \ {0} /\ Len(outbox') = Len(outbox) - 1
      /\ \A i \in 1..Len(outbox') : outbox'[i] = outbox[i + 1]
  BY <1>1
<1>3. ToSet(outbox) = {Head(outbox)} \union ToSet(outbox')
  BY <1>1, HeadAndTail
<1>4. Written' = Written
  BY <1>1, <1>3 DEF Written
<1>5. TypeOK'
  BY <1>1, <1>2 DEF TypeOK
<1>6. LastCallIsCurrent' /\ RowsShowData' /\ OwnSwipe' /\ ClosedIsEmpty'
  BY <1>1 DEF LastCallIsCurrent, RowsShowData, OwnSwipe, ClosedIsEmpty
<1>7. TellsOthers'
  <2>1. ASSUME organiserID # Me
        PROVE  <<Head(outbox)[1], organiserID>> \in told'
    <3>1. \/ <<outbox[1][1], organiserID>> \in told
          \/ \E j \in 1..1 : outbox[j] = <<outbox[1][1], organiserID>>
      BY <1>2, <2>1 DEF TellsOthers
    <3> QED
      BY <1>1, <1>2, <3>1
  <2>2. ASSUME NEW c \in CommentID, NEW u \in User, <<c, u>> \in told',
               organiserID # Me
        PROVE  <<c, organiserID>> \in told'
    BY <1>1, <2>1, <2>2 DEF TellsOthers
  <2>3. ASSUME NEW i \in 1..Len(outbox'), organiserID # Me
        PROVE  \/ <<outbox'[i][1], organiserID>> \in told'
               \/ \E j \in 1..i : outbox'[j] = <<outbox'[i][1], organiserID>>
    <3>1. i + 1 \in 1..Len(outbox) /\ outbox'[i] = outbox[i + 1]
      BY <1>2
    <3>2. CASE <<outbox[i + 1][1], organiserID>> \in told
      BY <1>1, <3>1, <3>2
    <3>3. CASE outbox[1] = <<outbox[i + 1][1], organiserID>>
      BY <1>1, <1>2, <3>1, <3>3
    <3>4. ASSUME NEW j \in 2..(i + 1),
                 outbox[j] = <<outbox[i + 1][1], organiserID>>
          PROVE  \E k \in 1..i : outbox'[k] = <<outbox'[i][1], organiserID>>
      <4>1. j - 1 \in 1..i /\ j - 1 \in 1..Len(outbox') /\ (j - 1) + 1 = j
        BY <1>2
      <4>2. outbox'[j - 1] = outbox[j]
        BY <1>2, <4>1
      <4> QED
        BY <3>1, <3>4, <4>1, <4>2
    <3>5. \/ <<outbox[i + 1][1], organiserID>> \in told
          \/ \E j \in 1..(i + 1) : outbox[j] = <<outbox[i + 1][1], organiserID>>
      BY <2>3, <3>1 DEF TellsOthers
    <3>6. \A j \in 1..(i + 1) : j = 1 \/ j \in 2..(i + 1)
      OBVIOUS
    <3> QED
      BY <3>2, <3>3, <3>4, <3>5, <3>6
  <2> QED
    BY <1>1, <1>4, <2>2, <2>3 DEF TellsOthers, Others
<1> QED
  BY <1>1, <1>5, <1>6, <1>7 DEF SendsTyped

-----------------------------------------------------------------------------
LEMMA ThreadStep == ThreadInv /\ [Next]_vars => ThreadInv'
<1> SUFFICES ASSUME ThreadInv, [Next]_vars PROVE ThreadInv'
  OBVIOUS
<1>1. CASE UNCHANGED vars
  BY <1>1 DEF vars, people, table, ThreadInv, TypeOK, LastCallIsCurrent,
     RowsShowData, OwnSwipe, ClosedIsEmpty, SendsTyped, TellsOthers, Written,
     Others, tells
<1>2. CASE \/ \E u \in User \ {Me} : OtherWrites(u)
           \/ \E i \in 1..Len(comments) : OtherDeletes(i)
  BY <1>2, OthersKeep
<1>3. CASE \/ Back \/ Killed \/ CommitDeleteTraps
           \/ \E i \in 1..Len(rows) : CellForRowTraps(i) \/ SwipeTraps(i)
  BY <1>3, ScreensKeep
<1>4. CASE ViewDidLoad \/ Called
  BY <1>4, LoadKeeps, CalledKeeps
<1>5. CASE ReloadData \/ \E i \in 1..Len(rows) : CellForRow(i) \/ Swipe(i)
  BY <1>5, RowsKeep
<1>6. CASE CommitDelete \/ InputPressed
  BY <1>6, DeleteKeeps, SendKeeps
<1>7. CASE BeginEditing \/ EndEditing \/ \E text \in Text : Edit(text)
  BY <1>7, BoxKeeps
<1>8. CASE \E c \in asks : AuthorRead(c) \/ AuthorMissing(c)
  BY <1>8, AuthorKeeps, MissingKeeps
<1>9. CASE Send
  BY <1>9, SentKeeps
<1> QED
  BY <1>1, <1>2, <1>3, <1>4, <1>5, <1>6, <1>7, <1>8, <1>9 DEF Next

(* Everything ThreadInv says holds throughout.                             *)
THEOREM ThreadInductive == Spec => []ThreadInv
<1> QED
  BY ThreadStarts, ThreadStep, PTL DEF Spec

(* The table shows the comments of the database when nothing is on its     *)
(* way, whatever was deleted by row in between.                            *)
THEOREM ThreadShown == Spec => [](TypeOK /\ SettledShowsThread)
<1>1. ThreadInv => TypeOK /\ SettledShowsThread
  BY DEF ThreadInv, SettledShowsThread, LastCallIsCurrent, RowsShowData
<1> QED
  BY <1>1, ThreadInductive, PTL

(* Only typed text is sent.  The notifications of a comment go to the      *)
(* organiser first and, unless the phone dies among them, to all others.   *)
THEOREM CommentsSent == Spec => [](SendsTyped /\ OthersTold)
<1>1. ThreadInv => SendsTyped /\ OthersTold
  BY DEF ThreadInv, TellsOthers, Written, OthersTold
<1> QED
  BY <1>1, ThreadInductive, PTL

(* A delete button that is out removes the comment its row shows.          *)
LEMMA DeletesShown ==
  ASSUME ThreadInv, [Next]_vars,
         reloads = 0, swiped > 0, rows' # rows, reloads' = reloads, open'
  PROVE  /\ rows[swiped].userID = Me
         /\ comments' = Without(comments, rows[swiped])
<1>1. rows[swiped].userID = Me /\ rows = commentData
  BY DEF ThreadInv, OwnSwipe, RowsShowData
<1>2. ASSUME NEW i \in 1..Len(rows), CellForRow(i)
      PROVE  FALSE
  <2>1. rows \in Seq(Comment)
    BY DEF ThreadInv, TypeOK
  <2>2. rows' = [rows EXCEPT ![i] = rows[i]]
    BY <1>1, <1>2 DEF CellForRow
  <2> QED
    BY <2>1, <2>2
<1>3. ~Back /\ ~Killed /\ ~CommitDeleteTraps
        /\ \A i \in 1..Len(rows) : ~CellForRowTraps(i) /\ ~SwipeTraps(i)
  BY DEF Back, Killed, CommitDeleteTraps, CellForRowTraps, SwipeTraps, Trap,
         Die, ScreenGone
<1>4. ~ReloadData
  BY DEF ReloadData
<1>5. /\ \A u \in User : ~OtherWrites(u)
      /\ \A i \in 1..Len(comments) : ~OtherDeletes(i)
      /\ \A i \in 1..Len(rows) : ~Swipe(i)
      /\ ~ViewDidLoad /\ ~Called /\ ~InputPressed
  BY DEF OtherWrites, OtherDeletes, Swipe, ViewDidLoad, Called, InputPressed
<1>6. /\ ~BeginEditing /\ ~EndEditing /\ \A text \in Text : ~Edit(text)
      /\ \A c \in asks : ~AuthorRead(c) /\ ~AuthorMissing(c)
      /\ ~Send /\ ~UNCHANGED vars
  BY DEF BeginEditing, EndEditing, Edit, AuthorRead, AuthorMissing, Send, table,
         vars
<1>7. CommitDelete
  BY <1>2, <1>3, <1>4, <1>5, <1>6, Zenon DEF Next
<1> QED
  BY <1>1, <1>7 DEF CommitDelete

(* While no reload is owed, the delete button of a row removes the comment *)
(* the row shows, and it is one of this user (CommentVC, commit delete).   *)
THEOREM OwnRowDeleted == Spec => DeletesOwnRow
<1>1. ThreadInv /\ [Next]_vars =>
        [reloads = 0 /\ swiped > 0 /\ rows' # rows /\ reloads' = reloads /\ open'
           => /\ rows[swiped].userID = Me
              /\ comments' = Without(comments, rows[swiped])]_vars
  BY DeletesShown
<1> QED
  BY <1>1, ThreadInductive, PTL DEF Spec, DeletesOwnRow

-----------------------------------------------------------------------------
(* The minutes that a row counts, on either side of 0.                     *)
LEMMA MinutesRead ==
  ASSUME NEW zone \in Int, NEW age \in Int
  PROVE  /\ TaipeiAge(zone, age) \in Int
         /\ Minutes(zone, age) = Quotient(TaipeiAge(zone, age), 60)
<1>1. ReadAge(zone, age) = TaipeiAge(zone, age) /\ TaipeiAge(zone, age) \in Int
  BY DEF ReadAge, Parsed, Stamp, TaipeiAge, Taipei
<1> QED
  BY <1>1 DEF Minutes

LEMMA QuotientBounds ==
  ASSUME NEW a \in Int
  PROVE  /\ a >= 0 => /\ Quotient(a, 60) \in Nat
                      /\ Quotient(a, 60) * 60 <= a
                      /\ a < Quotient(a, 60) * 60 + 60
         /\ a < 0 => /\ Quotient(a, 60) \in Int /\ Quotient(a, 60) <= 0
                     /\ a <= Quotient(a, 60) * 60
                     /\ Quotient(a, 60) * 60 < a + 60
<1>1. CASE a >= 0
  BY <1>1 DEF Quotient
<1>2. CASE a < 0
  <2>1. PICK b \in Nat : b = -a
    BY <1>2
  <2>2. b \div 60 \in Nat /\ (b \div 60) * 60 <= b /\ b < (b \div 60) * 60 + 60
    BY <2>1
  <2>3. Quotient(a, 60) = -(b \div 60)
    BY <1>2, <2>1 DEF Quotient
  <2> QED
    BY <1>2, <2>1, <2>2, <2>3
<1> QED
  BY <1>1, <1>2

(* What a whole number of units leaves of a time.                          *)
LEMMA WholeUnits ==
  ASSUME NEW t \in Nat, NEW d \in {1, 60, 1440, 10080}
  PROVE  /\ t \div d \in Nat
         /\ (t \div d) * d <= t
         /\ t < (t \div d) * d + d
         /\ t >= d => t \div d >= 1
<1>1. CASE d = 1
  BY <1>1
<1>2. CASE d = 60
  BY <1>2
<1>3. CASE d = 1440
  BY <1>3
<1>4. CASE d = 10080
  BY <1>4
<1> QED
  BY <1>1, <1>2, <1>3, <1>4

(* The label of getTimeDifferentWith after a number of minutes.            *)
LEMMA ShownBounds ==
  ASSUME NEW t \in Nat
  PROVE  /\ Unit(t) \in {1, 60, 1440, 10080} /\ (Unit(t) > 1 => t >= Unit(t))
         /\ Shown(t) \in Nat /\ Shown(t) <= t /\ t < Shown(t) + Unit(t)
         /\ (t >= Unit(t) => Number(t) >= 1)
<1> DEFINE d == Unit(t)
<1>1. d \in {1, 60, 1440, 10080} /\ (d > 1 => t >= d)
  BY DEF Unit, Hour, Day, Week
<1>2. Number(t) = t \div d
  BY <1>1 DEF Number, Quotient
<1> HIDE DEF d
<1>3. Number(t) \in Nat /\ Number(t) * d <= t /\ t < Number(t) * d + d
        /\ (t >= d => Number(t) >= 1)
  BY <1>1, <1>2, WholeUnits
<1>4. Number(t) * d \in Nat
  BY <1>1, <1>3
<1> QED
  BY <1>1, <1>3, <1>4 DEF Shown, d

LEMMA NotYetPositive ==
  ASSUME NEW t \in Int, t <= 0
  PROVE  Unit(t) = 1 /\ Number(t) = t /\ Shown(t) = t
<1>1. Unit(t) = 1
  BY DEF Unit, Hour
<1>2. Number(t) = t
  BY <1>1 DEF Number, Quotient
<1> QED
  BY <1>1, <1>2 DEF Shown

(* A label does not shrink with the minutes.                               *)
LEMMA ShownGrows ==
  ASSUME NEW t \in Nat, NEW v \in Nat, t <= v
  PROVE  Shown(t) <= Shown(v)
<1>1. CASE Unit(t) = Unit(v)
  <2>1. CASE Unit(t) = 1
    BY <1>1, <2>1 DEF Shown, Number, Quotient
  <2>2. CASE Unit(t) = 60
    BY <1>1, <2>2 DEF Shown, Number, Quotient
  <2>3. CASE Unit(t) = 1440
    BY <1>1, <2>3 DEF Shown, Number, Quotient
  <2>4. CASE Unit(t) = 10080
    BY <1>1, <2>4 DEF Shown, Number, Quotient
  <2> QED
    BY <2>1, <2>2, <2>3, <2>4, ShownBounds
<1>2. CASE Unit(t) # Unit(v)
  <2>1. t <= Unit(v) /\ Unit(v) > 1
    BY <1>2 DEF Unit, Hour, Day, Week
  <2>2. Number(v) >= 1 /\ Number(v) \in Int /\ Unit(v) \in {60, 1440, 10080}
    BY <2>1, ShownBounds DEF Number, Quotient
  <2>3. Shown(v) >= Unit(v)
    BY <2>2 DEF Shown
  <2> QED
    BY <2>1, <2>2, <2>3, ShownBounds
<1> QED
  BY <1>1, <1>2

(* For a comment stamped in any zone, and at any age, the label of         *)
(* getTimeDifferentWith rounds the age down that Taipei reads off it.      *)
LEMMA EveryAgeRounds ==
  ASSUME NEW zone \in Int, NEW age \in Int
  PROVE  RoundsDown(Minutes(zone, age), TaipeiAge(zone, age))
<1> DEFINE a == TaipeiAge(zone, age)
           t == Minutes(zone, age)
<1>1. a \in Int /\ t = Quotient(a, 60)
  BY MinutesRead
<1> HIDE DEF a, t
<1>2. CASE a >= 0
  <2>1. t \in Nat /\ t * 60 <= a /\ a < t * 60 + 60
    BY <1>1, <1>2, QuotientBounds
  <2>2. /\ Unit(t) \in {1, 60, 1440, 10080} /\ Shown(t) \in Nat
        /\ Shown(t) <= t /\ t < Shown(t) + Unit(t)
        /\ (Unit(t) > 1 => Number(t) >= 1)
    BY <2>1, ShownBounds
  <2>3. Shown(t) * 60 <= a
    BY <1>1, <2>1, <2>2
  <2>4. a < (Shown(t) + Unit(t)) * 60
    BY <1>1, <2>1, <2>2
  <2>5. RoundsDown(t, a)
    BY <1>2, <2>2, <2>3, <2>4 DEF RoundsDown
  <2> QED
    BY <2>5 DEF a, t
<1>3. CASE a < 0
  <2>1. t \in Int /\ t <= 0 /\ a <= t * 60 /\ t * 60 < a + 60
    BY <1>1, <1>3, QuotientBounds
  <2>2. RoundsDown(t, a)
    BY <1>1, <1>3, <2>1, NotYetPositive DEF RoundsDown
  <2> QED
    BY <2>2 DEF a, t
<1> QED
  BY <1>1, <1>2, <1>3

(* Nor does any comment get younger, whenever it is looked at again.       *)
LEMMA EveryAgeGrows ==
  ASSUME NEW zone \in Int, NEW age \in Int, NEW later \in Nat
  PROVE  Shown(Minutes(zone, age)) <= Shown(Minutes(zone, age + later))
<1> DEFINE a == TaipeiAge(zone, age)
           b == TaipeiAge(zone, age + later)
           t == Minutes(zone, age)
           v == Minutes(zone, age + later)
<1>1. /\ a \in Int /\ b \in Int /\ a <= b
      /\ t = Quotient(a, 60) /\ v = Quotient(b, 60)
  BY MinutesRead DEF TaipeiAge, Taipei
<1> HIDE DEF a, b, t, v
<1>2. CASE b < 0
  <2>1. a < 0
    BY <1>1, <1>2
  <2>2. t \in Int /\ v \in Int /\ t <= 0 /\ v <= 0
    BY <1>1, <1>2, <2>1, QuotientBounds
  <2>3. a <= t * 60 /\ t * 60 < a + 60 /\ b <= v * 60 /\ v * 60 < b + 60
    BY <1>1, <1>2, <2>1, QuotientBounds
  <2>4. t <= v
    BY <1>1, <2>2, <2>3
  <2> QED
    BY <2>2, <2>4, NotYetPositive DEF t, v
<1>3. CASE a < 0 /\ b >= 0
  <2>1. t \in Int /\ t <= 0 /\ v \in Nat
    BY <1>1, <1>3, QuotientBounds
  <2>2. Shown(t) <= 0 /\ Shown(v) >= 0 /\ Shown(t) \in Int /\ Shown(v) \in Int
    BY <2>1, NotYetPositive, ShownBounds
  <2> QED
    BY <2>2 DEF t, v
<1>4. CASE a >= 0
  <2>1. b >= 0
    BY <1>1, <1>4
  <2>2. /\ t \in Nat /\ t * 60 <= a
        /\ v \in Nat /\ b < v * 60 + 60
    BY <1>1, <1>4, <2>1, QuotientBounds
  <2>3. t <= v
    BY <1>1, <2>2
  <2> QED
    BY <2>2, <2>3, ShownGrows DEF t, v
<1> QED
  BY <1>1, <1>2, <1>3, <1>4

(* Phones may be in any zones, and a comment of any age: the rows give the *)
(* age that Taipei reads off its stamp, rounded down, and never a smaller  *)
(* one when a row is drawn again, across the changes of unit as well.      *)
THEOREM AgesTrue == LabelRounds /\ NeverYounger
<1>1. AgeRounds
  BY EveryAgeRounds, AgeConstants DEF AgeRounds, Age
<1>2. AgeGrows
  BY EveryAgeGrows, AgeConstants DEF AgeGrows, Age
<1> QED
  BY <1>1, <1>2 DEF LabelRounds, NeverYounger
=============================================================================
