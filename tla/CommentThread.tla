--------------------------- MODULE CommentThread ---------------------------
(***************************************************************************)
(* The comment screen of an event (CommentVC) on the phone of one user,    *)
(* while other users comment on the same event.                            *)
(*                                                                         *)
(* The screen observes comment/<eventID>.  A call of the observer replaces *)
(* commentData at once and reloads the table in a later turn of the main   *)
(* queue, so the rows on screen may be older than the array they index.    *)
(* Everything here runs on the main queue; what another turn can get       *)
(* between is a step of its own.                                           *)
(***************************************************************************)
EXTENDS Naturals, Sequences, FiniteSets, SequencesExt, CommentAge

CONSTANTS
  User,         \* the users who may comment
  Me,           \* the user of this phone
  MaxComments   \* bound: comments ever written

ASSUME ThreadConstants ==
  IsFiniteSet(User) /\ Me \in User /\ MaxComments \in Nat

VARIABLES
  organiserID,  \* of the event on screen
  memberData,   \* what EventContentVC had loaded when it opened the screen
  comments,     \* comment/<eventID> in the order of the query
  written,      \* how many ids childByAutoId has handed out
  open,         \* the screen is there and observes the comments
  calls,        \* calls of the observer to come: the list each one carries
  reloads,      \* reloadData blocks to come
  commentData,
  rows,         \* the rows the table shows
  swiped,       \* the row whose delete button is out, 0 for none
  textView,     \* the text box and its button
  asks,         \* comments of Me whose author is still being read
  outbox,       \* notifications the phone has queued and not yet sent
  told,         \* notification/*: who was told of which comment of Me
  cut           \* history: comments whose notifications a death cut short

table == <<open, calls, reloads, commentData, rows, swiped>>
people == <<organiserID, memberData>>
tells == <<outbox, told, cut>>
vars == <<people, comments, written, table, textView, asks, tells>>

CommentID == 1..MaxComments

Comment == [commentID : CommentID, userID : User]

Text == {"hint", "empty", "typed"}

TextView == [text : Text, isGray : BOOLEAN, isEnabled : BOOLEAN,
             isEditing : BOOLEAN]

TypeOK ==
  /\ organiserID \in User /\ memberData \subseteq User \ {organiserID}
  /\ comments \in Seq(Comment) /\ written \in 0..MaxComments
  /\ open \in BOOLEAN /\ calls \in Seq(Seq(Comment)) /\ reloads \in Nat
  /\ commentData \in Seq(Comment) /\ rows \in Seq(Comment)
  /\ swiped \in 0..Len(rows)
  /\ textView \in TextView
  /\ asks \subseteq CommentID
  /\ outbox \in Seq(CommentID \X User)
  /\ told \subseteq CommentID \X User
  /\ cut \subseteq CommentID

(* "hint" is the grey text of an unused box.                               *)
BlankBox == [text |-> "hint", isGray |-> TRUE, isEnabled |-> FALSE,
             isEditing |-> FALSE]

Init ==
  /\ organiserID \in User /\ memberData \in SUBSET (User \ {organiserID})
  /\ comments = <<>> /\ written = 0
  /\ open = FALSE /\ calls = <<>> /\ reloads = 0
  /\ commentData = <<>> /\ rows = <<>> /\ swiped = 0
  /\ textView = BlankBox
  /\ asks = {} /\ outbox = <<>> /\ told = {} /\ cut = {}

-----------------------------------------------------------------------------
(* The database: a change of the comments calls the observer.              *)

Call(list) == IF open THEN Append(calls, list) ELSE calls

NewComment(u) == [commentID |-> written + 1, userID |-> u]

(* A comment goes where its time puts it: each phone stamps its comments   *)
(* with its own clock, so that may be anywhere.                            *)
Write(u) ==
  /\ written < MaxComments
  /\ \E i \in 1..(Len(comments) + 1) :
       comments' = InsertAt(comments, i, NewComment(u))
  /\ written' = written + 1

OtherWrites(u) ==
  /\ Write(u)
  /\ calls' = Call(comments')
  /\ UNCHANGED <<people, open, reloads, commentData, rows, swiped, textView,
                 asks, tells>>

OtherDeletes(i) ==
  /\ comments[i].userID # Me
  /\ comments' = RemoveAt(comments, i)
  /\ calls' = Call(comments')
  /\ UNCHANGED <<people, written, open, reloads, commentData, rows, swiped,
                 textView, asks, tells>>

-----------------------------------------------------------------------------
(* The screen comes and goes.                                              *)

ViewDidLoad ==
  /\ ~open
  /\ open' = TRUE
  /\ calls' = <<comments>>
  /\ UNCHANGED <<people, comments, written, reloads, commentData, rows,
                 swiped, textView, asks, tells>>

ScreenGone ==
  /\ open' = FALSE /\ calls' = <<>> /\ reloads' = 0
  /\ commentData' = <<>> /\ rows' = <<>> /\ swiped' = 0
  /\ textView' = BlankBox

Back ==
  /\ open
  /\ ScreenGone
  /\ UNCHANGED <<people, comments, written, asks, tells>>

(* With the process go the reads it waited for and the writes it had       *)
(* queued: persistence is off.                                             *)
Die ==
  /\ ScreenGone
  /\ asks' = {} /\ outbox' = <<>>
  /\ cut' = cut \union {letter[1] : letter \in ToSet(outbox)}
  /\ UNCHANGED <<people, written, told>>

(* An index out of range or an inconsistent table.                         *)
Trap == Die

Killed ==
  /\ Die
  /\ UNCHANGED comments

-----------------------------------------------------------------------------
(* queryCommentData: the observer's callback and the block it posts.       *)

(* Mutant: the table is not reloaded.                                      *)
CalledSilently ==
  /\ calls # <<>>
  /\ commentData' = Head(calls)
  /\ calls' = Tail(calls)
  /\ UNCHANGED <<people, comments, written, open, reloads, rows, swiped,
                 textView, asks, tells>>

Called ==
  /\ calls # <<>>
  /\ commentData' = Head(calls)
  /\ reloads' = reloads + 1
  /\ calls' = Tail(calls)
  /\ UNCHANGED <<people, comments, written, open, rows, swiped, textView,
                 asks, tells>>

(* reloadData draws every row anew and puts a delete button back.          *)
ReloadData ==
  /\ reloads > 0
  /\ rows' = commentData /\ swiped' = 0
  /\ reloads' = reloads - 1
  /\ UNCHANGED <<people, comments, written, open, calls, commentData,
                 textView, asks, tells>>

(* A row scrolled into view is drawn from commentData by its index.        *)
CellForRow(i) ==
  /\ i <= Len(commentData)
  /\ rows' = [rows EXCEPT ![i] = commentData[i]]
  /\ UNCHANGED <<people, comments, written, open, calls, reloads,
                 commentData, swiped, textView, asks, tells>>

CellForRowTraps(i) ==
  /\ i > Len(commentData)
  /\ Trap
  /\ UNCHANGED comments

-----------------------------------------------------------------------------
(* Deleting a comment by its row.                                          *)

CanEdit(i) == commentData[i].userID = Me

Swipe(i) ==
  /\ i <= Len(commentData)
  /\ CanEdit(i)
  /\ swiped' = i
  /\ UNCHANGED <<people, comments, written, open, calls, reloads,
                 commentData, rows, textView, asks, tells>>

SwipeTraps(i) ==
  /\ i > Len(commentData)
  /\ Trap
  /\ UNCHANGED comments

(* removeValue at the id of a comment: it is in the list once or not at    *)
(* all.                                                                    *)
Without(list, c) ==
  IF c \in ToSet(list)
    THEN RemoveAt(list, CHOOSE i \in 1..Len(list) : list[i] = c)
    ELSE list

CallAfterRemoval ==
  IF comments' = comments THEN calls ELSE Call(comments')

(* Mutant: the row goes, the comment stays in the database.                *)
CommitDeleteRowOnly ==
  /\ swiped \in 1..Len(commentData)
  /\ Len(commentData) = Len(rows)
  /\ commentData' = RemoveAt(commentData, swiped)
  /\ rows' = RemoveAt(rows, swiped)
  /\ swiped' = 0
  /\ UNCHANGED <<people, comments, written, open, calls, reloads, textView,
                 asks, tells>>

(* Mutant: the comment is looked up after the array has lost it.           *)
CommitDeleteLate ==
  /\ swiped \in 1..Len(commentData)
  /\ Len(commentData) = Len(rows)
  /\ commentData' = RemoveAt(commentData, swiped)
  /\ swiped <= Len(commentData')
  /\ comments' = Without(comments, commentData'[swiped])
  /\ rows' = RemoveAt(rows, swiped)
  /\ swiped' = 0
  /\ calls' = CallAfterRemoval
  /\ UNCHANGED <<people, written, open, reloads, textView, asks, tells>>

CommitDelete ==
  /\ swiped \in 1..Len(commentData)
  /\ Len(commentData) = Len(rows)
  /\ comments' = Without(comments, commentData[swiped])
  /\ commentData' = RemoveAt(commentData, swiped)
  /\ rows' = RemoveAt(rows, swiped)
  /\ swiped' = 0
  /\ calls' = CallAfterRemoval
  /\ UNCHANGED <<people, written, open, reloads, textView, asks, tells>>

(* The index is out of range; or deleteRows finds a number of rows it does *)
(* not expect, and removeValue was issued before that, so that the removal *)
(* may or may not have been sent.                                          *)
CommitDeleteTraps ==
  /\ swiped > 0
  /\ \/ swiped > Len(commentData) /\ UNCHANGED comments
     \/ /\ swiped <= Len(commentData)
        /\ Len(commentData) # Len(rows)
        /\ comments' \in {comments, Without(comments, commentData[swiped])}
  /\ Trap

-----------------------------------------------------------------------------
(* The text box.                                                           *)

BeginEditing ==
  /\ open /\ ~textView.isEditing
  /\ textView' =
       IF textView.text \in {"hint", "empty"}
         THEN [text |-> "empty", isGray |-> FALSE, isEnabled |-> FALSE,
               isEditing |-> TRUE]
         ELSE [textView EXCEPT !.isEditing = TRUE]
  /\ UNCHANGED <<people, comments, written, table, asks, tells>>

(* The user may type anything, the text of the hint too.                   *)
Edit(text) ==
  /\ textView.isEditing
  /\ textView' = [textView EXCEPT
       !.text = text, !.isEnabled = (text # "empty" /\ ~textView.isGray)]
  /\ UNCHANGED <<people, comments, written, table, asks, tells>>

AfterEditing == IF textView.text = "empty"
                  THEN BlankBox ELSE [textView EXCEPT !.isEditing = FALSE]

EndEditing ==
  /\ textView.isEditing
  /\ textView' = AfterEditing
  /\ UNCHANGED <<people, comments, written, table, asks, tells>>

-----------------------------------------------------------------------------
(* inputPressed: the comment is written and the box reset at once; the     *)
(* others are told when the name of the author has been read.              *)

(* Mutant: the button stays enabled.                                       *)
InputPressedTwice ==
  /\ textView.isEnabled
  /\ Write(Me)
  /\ calls' = Call(comments')
  /\ asks' = asks \union {written'}
  /\ textView' = [BlankBox EXCEPT !.isEnabled = TRUE]
  /\ UNCHANGED <<people, open, reloads, commentData, rows, swiped, tells>>

(* Mutant: the id of the comment before is used.                           *)
InputPressedOldID ==
  /\ textView.isEnabled
  /\ Write(Me)
  /\ calls' = Call(comments')
  /\ asks' = asks \union {written}
  /\ textView' = BlankBox
  /\ UNCHANGED <<people, open, reloads, commentData, rows, swiped, tells>>

InputPressed ==
  /\ textView.isEnabled
  /\ Write(Me)
  /\ calls' = Call(comments')
  /\ asks' = asks \union {written'}
  /\ textView' = BlankBox
  /\ UNCHANGED <<people, open, reloads, commentData, rows, swiped, tells>>

(* Mutant: the author is not taken out of the members.                     *)
RecipientsWithAuthor ==
  IF Me = organiserID THEN memberData ELSE {organiserID} \union memberData

Recipients ==
  IF Me = organiserID THEN memberData
                      ELSE {organiserID} \union (memberData \ {Me})

(* Mutant: the organiser comes last.                                       *)
LettersOrganiserLast(c) ==
  {letters \in [1..Cardinality(Recipients) -> {c} \X Recipients] :
     /\ ToSet(letters) = {c} \X Recipients
     /\ organiserID \in Recipients => Last(letters) = <<c, organiserID>>}

(* One for each recipient, the organiser first.                            *)
Letters(c) ==
  {letters \in [1..Cardinality(Recipients) -> {c} \X Recipients] :
     /\ ToSet(letters) = {c} \X Recipients
     /\ organiserID \in Recipients => letters[1] = <<c, organiserID>>}

(* A setValue is queued for each recipient.                                *)
AuthorRead(c) ==
  /\ asks' = asks \ {c}
  /\ \E letters \in Letters(c) : outbox' = outbox \o letters
  /\ UNCHANGED <<people, comments, written, table, textView, told, cut>>

(* The phone sends what it has queued, in that order.                      *)
Send ==
  /\ outbox # <<>>
  /\ told' = told \union {Head(outbox)}
  /\ outbox' = Tail(outbox)
  /\ UNCHANGED <<people, comments, written, table, textView, asks, cut>>

(* user/<uid> has no record of the author: nobody is told.                 *)
AuthorMissing(c) ==
  /\ asks' = asks \ {c}
  /\ UNCHANGED <<people, comments, written, table, textView, tells>>

-----------------------------------------------------------------------------
Next ==
  \/ \E u \in User \ {Me} : OtherWrites(u)
  \/ \E i \in 1..Len(comments) : OtherDeletes(i)
  \/ ViewDidLoad \/ Back \/ Called \/ ReloadData
  \/ \E i \in 1..Len(rows) :
       CellForRow(i) \/ CellForRowTraps(i) \/ Swipe(i) \/ SwipeTraps(i)
  \/ CommitDelete \/ CommitDeleteTraps
  \/ BeginEditing \/ EndEditing \/ (\E text \in Text : Edit(text))
  \/ InputPressed
  \/ \E c \in asks : AuthorRead(c) \/ AuthorMissing(c)
  \/ Send \/ Killed

Spec == Init /\ [][Next]_vars

-----------------------------------------------------------------------------
(* Properties.                                                             *)

(* Once every call and every reload has been made, the table shows exactly *)
(* the comments of the database, though rows are also removed locally and  *)
(* lists that were on their way before that bring them back.               *)
SettledShowsThread == open /\ calls = <<>> /\ reloads = 0 => rows = comments

(* While no reload is owed, the delete button is on a row that shows a     *)
(* comment of this user, and a tap on it removes that comment and no other *)
(* (canEditRowAt checked the row when it was swiped, commit uses its index *)
(* later).                                                                 *)
DeletesOwnRow ==
  [][reloads = 0 /\ swiped > 0 /\ rows' # rows /\ reloads' = reloads /\ open'
       => /\ rows[swiped].userID = Me
          /\ comments' = Without(comments, rows[swiped])]_vars

(* The button is never enabled on the grey hint or on an empty box, in     *)
(* whatever order the box is entered, emptied, left and sent.              *)
SendsTyped == textView.isEnabled => textView.text # "empty" /\ ~textView.isGray

(* Nobody is told of an own comment; the organiser is told before any      *)
(* member, also when the phone dies between two notifications; and unless  *)
(* it did, whoever is told, everybody else on the phone's list has been    *)
(* told too or is about to be, whether the author organises the event, is  *)
(* a member or is only invited.                                            *)
Others == (memberData \union {organiserID}) \ {Me}

OthersTold ==
  \A c \in CommentID, u \in User :
    <<c, u>> \in told =>
      /\ u # Me
      /\ organiserID # Me => <<c, organiserID>> \in told
      /\ c \notin cut =>
           \A v \in Others : <<c, v>> \in told \union ToSet(outbox)

(* Of whatever age, a comment on screen is given the age that Taipei reads *)
(* off its stamp, rounded down to the unit shown.                          *)
LabelRounds == rows # <<>> => AgeRounds

(* Nor does a comment on screen get younger when its row is drawn again.   *)
NeverYounger == rows # <<>> => AgeGrows
=============================================================================
