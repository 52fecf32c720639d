----------------------------- MODULE EventForm -----------------------------
(***************************************************************************)
(* The form in which an event is made or changed (AddEventVC), with the    *)
(* screen on which its location is picked (LocationVC, LocationSearchVC)   *)
(* and the one it is edited from (EventContentVC), on one phone whose      *)
(* users sign in and out.                                                  *)
(*                                                                         *)
(* "Done" starts the upload of the picture and leaves the form.  The event *)
(* is written by the closure that runs when the upload has ended, which    *)
(* reads the fields of the form, the user loaded when it was opened and    *)
(* the user signed in only then; several forms may be uploading at once.   *)
(* A sign-in that LoginVC was left with lands whenever it is answered, so  *)
(* that one user may replace another without a sign-out.                   *)
(* Who is on the roster is the matter of Membership and EventRoster.       *)
(***************************************************************************)
EXTENDS Naturals, Sequences, FiniteSets, SequencesExt

CONSTANTS
  User,        \* the users of this phone
  NoUser,      \* nobody
  Place,       \* a place, the text that finds it, and its address
  Nameless,    \* the places a geocoder has no words for
  Unset,       \* the text of a form without a location
  NoAddress,   \* the empty text
  NoPlace,     \* no result on screen, no pin dropped
  NoEvent,     \* no node at event/<eventID>
  MaxForms,    \* bound: forms opened
  MaxGeocodes  \* bound: geocoder requests under way

ASSUME FormConstants ==
  /\ NoUser \notin User /\ Nameless \subseteq Place
  /\ Unset \notin Place /\ NoAddress \notin Place /\ Unset # NoAddress
  /\ NoPlace \notin Place
  /\ MaxForms \in Nat /\ MaxGeocodes \in Nat

VARIABLES
  currentUser,  \* Auth.auth().currentUser
  event,        \* event/<eventID>
  listed,       \* events with an entry of this phone in invitingEventList
  notified,     \* notifications sent by the forms
  content,      \* the event a list has read, and EventContentVC showing it
  stage,        \* what became of each form
  form,         \* its fields
  picker,       \* LocationVC with its search, on top of the form
  geocodes      \* requests of getCoordinate under way

database == <<event, listed, notified>>
vars == <<currentUser, database, content, stage, form, picker, geocodes>>

Form == 1..MaxForms

(* 0 is an event that was there before; a form makes the event of its name *)
EventID == 0..MaxForms

Address(p) == IF p \in Nameless THEN NoAddress ELSE p

Location == {Unset, NoAddress} \union Place

(* "hint" is the grey text of a description that was never entered.        *)
Text == {"empty", "typed"}
Description == {"hint"} \union Text

Event == [organiserID : User, title : Text, description : Description,
          location : Location]

ASSUME EventIsNode == NoEvent \notin Event

Fields == [eventID : EventID, opener : User, user : User \union {NoUser},
           reading : BOOLEAN, title : Text,
           description : Description, location : Location, pins : Seq(Place),
           image : BOOLEAN, rosterChanged : BOOLEAN, adrift : BOOLEAN]

(* A form is opened and then left, or done and uploading, until it ends in *)
(* one of the ways in which uploadEventData and its closure end.  It is    *)
(* adrift once another user has signed in than the one who opened it, or   *)
(* if the user had changed under the screen it was opened from.            *)
Stage == {"unused", "open", "left", "uploading", "written", "noImage",
          "failed", "signedOut", "crashed"}

(* "offered" once editPressed has found the user to be the organiser.      *)
Content == [eventID : EventID, event : Event \union {NoEvent},
            isOpen : BOOLEAN, offered : BOOLEAN, adrift : BOOLEAN]

NoContent == [eventID |-> 0, event |-> NoEvent, isOpen |-> FALSE,
              offered |-> FALSE, adrift |-> FALSE]

(* Who a notification of a form says invites, who then organises.          *)
Note == [form : Form, name : User, organiserID : User, adrift : BOOLEAN]

(* LocationVC while it is on screen, or Closed.                            *)
Picker == [isOpen : BOOLEAN, searches : SUBSET Place,
           matchingItems : Place \union {NoPlace},
           selectedPin : Place \union {NoPlace}]

Opened == [isOpen |-> TRUE, searches |-> {}, matchingItems |-> NoPlace,
           selectedPin |-> NoPlace]
Closed == [Opened EXCEPT !.isOpen = FALSE]

TypeOK ==
  /\ currentUser \in User \union {NoUser}
  /\ event \in [EventID -> Event \union {NoEvent}]
  /\ listed \subseteq EventID
  /\ notified \subseteq Note
  /\ content \in Content
  /\ stage \in [Form -> Stage]
  /\ form \in [Form -> Fields]
  /\ picker \in Picker
  /\ geocodes \in Seq([form : Form, place : Place])

BlankForm(id, u) ==
  [eventID |-> id, opener |-> u, user |-> NoUser, reading |-> FALSE,
   title |-> "empty", description |-> "hint", location |-> Unset,
   pins |-> <<>>, image |-> FALSE, rosterChanged |-> FALSE,
   adrift |-> FALSE]

(* A form without work under way keeps only who opened it.                 *)
Ended(f) == BlankForm(form[f].eventID, form[f].opener)

Init ==
  /\ currentUser \in User
  /\ \E u \in User, p \in Place :
       event = [e \in EventID |->
         IF e > 0 THEN NoEvent
         ELSE [organiserID |-> u, title |-> "typed",
               description |-> "typed", location |-> Address(p)]]
  /\ listed = {} /\ notified = {}
  /\ content = NoContent
  /\ stage = [f \in Form |-> "unused"]
  /\ \E u \in User : form = [f \in Form |-> BlankForm(f, u)]
  /\ picker = Closed
  /\ geocodes = <<>>

OnScreen(f) == stage[f] = "open"

(* Work goes on for a form on screen and for one that uploads.             *)
Uploading(f) == stage[f] = "uploading"
Alive(f) == OnScreen(f) \/ Uploading(f)

-----------------------------------------------------------------------------
(* Signing in and out.                                                     *)

NoForm == \A f \in Form : ~OnScreen(f)

(* RootVC: a tap on a tab has taken the screens of the other tabs away.    *)
PoppedToRoot == NoForm /\ ~content.isOpen

(* signOut, and didUserLogout of the lists.                                *)
SignOut ==
  /\ currentUser # NoUser
  /\ PoppedToRoot
  /\ currentUser' = NoUser
  /\ content' = NoContent
  /\ UNCHANGED <<database, stage, form, picker, geocodes>>

(* Whenever it is answered, whoever is signed in by then and whatever is   *)
(* on screen: "login" is posted later, and takes the screens away (Leave). *)
SignIn(u) ==
  /\ currentUser' = u
  /\ content' = [content EXCEPT
       !.adrift = @ \/ (content.event # NoEvent /\ u # currentUser)]
  /\ form' = [f \in Form |-> [form[f] EXCEPT
       !.adrift = @ \/ (Alive(f) /\ u # form[f].opener)]]
  /\ UNCHANGED <<database, stage, picker, geocodes>>

-----------------------------------------------------------------------------
(* The event a form is opened from.                                        *)

SetContent(value) ==
  /\ content' = value
  /\ UNCHANGED <<currentUser, database, stage, form, picker, geocodes>>

(* An observer of the lists, which may be one of a former user.            *)
ReadEvent(e) ==
  /\ event[e] # NoEvent /\ ~content.isOpen
  /\ SetContent([NoContent EXCEPT !.eventID = e, !.event = event[e]])

ShowEvent ==
  /\ NoForm /\ ~content.isOpen
  /\ content.event # NoEvent
  /\ SetContent([content EXCEPT !.isOpen = TRUE])

(* Mutant: the edit button is there for everybody.                         *)
MayEditAny == currentUser # NoUser

MayEdit == currentUser # NoUser /\ content.event.organiserID = currentUser

EditPressed ==
  /\ NoForm /\ content.isOpen
  /\ MayEdit
  /\ SetContent([content EXCEPT !.offered = TRUE])

Covered == [content EXCEPT !.offered = FALSE]
Popped == [Covered EXCEPT !.isOpen = FALSE]

(* The sheet with the button is cancelled, or the screen is left.          *)
LeaveContent ==
  /\ NoForm /\ content.isOpen
  /\ SetContent(Covered) \/ SetContent(Popped)

-----------------------------------------------------------------------------
(* viewDidLoad.                                                            *)

(* Mutant: a form begins with the user of the one before.                  *)
OpenCached(f, fields) ==
  /\ currentUser # NoUser
  /\ NoForm
  /\ stage[f] = "unused" /\ \A g \in Form : g < f => stage[g] # "unused"
  /\ stage' = [stage EXCEPT ![f] = "open"]
  /\ form' = [form EXCEPT ![f] = [fields EXCEPT
       !.user = IF f = 1 THEN NoUser ELSE form[f - 1].opener]]
  /\ content' = Covered
  /\ UNCHANGED <<currentUser, database, picker, geocodes>>

Open(f, fields) ==
  /\ currentUser # NoUser
  /\ NoForm
  /\ stage[f] = "unused" /\ \A g \in Form : g < f => stage[g] # "unused"
  /\ stage' = [stage EXCEPT ![f] = "open"]
  /\ form' = [form EXCEPT ![f] = fields]
  /\ content' = Covered
  /\ UNCHANGED <<currentUser, database, picker, geocodes>>

OpenNew(f) ==
  /\ ~content.isOpen
  /\ Open(f, [BlankForm(f, currentUser) EXCEPT !.reading = TRUE])

(* The event is the one EventContentVC shows, however old.  The picture is *)
(* there if it has been downloaded, the annotation if the address was      *)
(* found.                                                                  *)
OpenEdit(f) ==
  /\ content.offered
  /\ \E p \in Place, hasImage \in BOOLEAN :
       /\ content.event.location = Address(p)
       /\ Open(f, [BlankForm(content.eventID, currentUser) EXCEPT
            !.reading = TRUE, !.title = content.event.title,
            !.description = content.event.description,
            !.location = content.event.location, !.pins = <<p>>,
            !.image = hasImage, !.adrift = content.adrift])

(* Everything of the process is gone.                                      *)
Crash ==
  /\ stage' = [f \in Form |-> IF Alive(f) THEN "crashed" ELSE stage[f]]
  /\ form' = [f \in Form |-> Ended(f)]
  /\ content' = NoContent
  /\ picker' = Closed
  /\ geocodes' = <<>>
  /\ UNCHANGED <<currentUser, event>>

(* The annotation is nil: the address has not been found, or not yet.      *)
OpenEditTraps ==
  /\ content.offered
  /\ Crash
  /\ UNCHANGED <<listed, notified>>

-----------------------------------------------------------------------------
(* The fields.                                                             *)

SetField(f, fields) ==
  /\ OnScreen(f) /\ ~picker.isOpen
  /\ form' = [form EXCEPT ![f] = fields]
  /\ UNCHANGED <<currentUser, database, content, stage, picker, geocodes>>

EditTitle(f, text) == SetField(f, [form[f] EXCEPT !.title = text])

ImagePicked(f) == SetField(f, [form[f] EXCEPT !.image = TRUE])

ChangeRoster(f) == SetField(f, [form[f] EXCEPT !.rosterChanged = TRUE])

(* The hint goes when the description is entered (its words typed by the   *)
(* user, too, which is one way of emptying it), and never comes back.      *)
BeginEditing(f) ==
  /\ form[f].description = "hint"
  /\ SetField(f, [form[f] EXCEPT !.description = "empty"])

EditDescription(f, text) ==
  /\ form[f].description # "hint"
  /\ SetField(f, [form[f] EXCEPT !.description = text])

(* queryOrganiserData: the record of the user who opened the form.         *)
UserRead(f) ==
  /\ form[f].reading
  /\ form' = [form EXCEPT ![f].user = form[f].opener, ![f].reading = FALSE]
  /\ UNCHANGED <<currentUser, database, content, stage, picker, geocodes>>

UserMissing(f) ==
  /\ form[f].reading
  /\ form' = [form EXCEPT ![f].reading = FALSE]
  /\ UNCHANGED <<currentUser, database, content, stage, picker, geocodes>>

-----------------------------------------------------------------------------
(* Picking the location.  A place stands for the text typed to find it.    *)

(* prepare takes the pins off the map of the form.                         *)
PickLocation(f) ==
  /\ OnScreen(f) /\ ~picker.isOpen
  /\ picker' = Opened
  /\ form' = [form EXCEPT ![f].pins = <<>>]
  /\ UNCHANGED <<currentUser, database, content, stage, geocodes>>

SetPicker(value) ==
  /\ picker.isOpen
  /\ picker' = value
  /\ UNCHANGED <<currentUser, database, content, stage, form, geocodes>>

(* Every change of the text starts a search of its own; the answers come   *)
(* in any order, or not.                                                   *)
UpdateSearchResults(p) ==
  SetPicker([picker EXCEPT !.searches = @ \union {p}])

SearchAnswers(p) ==
  /\ p \in picker.searches
  /\ SetPicker([picker EXCEPT !.searches = @ \ {p}, !.matchingItems = p])

SearchFails(p) ==
  /\ p \in picker.searches
  /\ SetPicker([picker EXCEPT !.searches = @ \ {p}])

SelectRow ==
  /\ picker.matchingItems # NoPlace
  /\ SetPicker([picker EXCEPT !.selectedPin = picker.matchingItems])

BackToForm == SetPicker(Closed)

(* confirmPressed, which is enabled once there is a pin, and getCoordinate *)
ConfirmPressed(f) ==
  /\ OnScreen(f) /\ picker.selectedPin # NoPlace
  /\ Len(geocodes) < MaxGeocodes
  /\ geocodes' = Append(geocodes, [form |-> f, place |-> picker.selectedPin])
  /\ picker' = Closed
  /\ UNCHANGED <<currentUser, database, content, stage, form>>

(* Mutant: only the first answer is written into the form.                 *)
LocatedOnce(f, p) == [form[f] EXCEPT
  !.location = IF @ = Unset THEN Address(p) ELSE @,
  !.pins = IF OnScreen(f) THEN Append(@, p) ELSE @]

(* Nobody looks at the map of a form that has left the screen.             *)
Located(f, p) == [form[f] EXCEPT
  !.location = Address(p),
  !.pins = IF OnScreen(f) THEN Append(@, p) ELSE @]

(* The answers, too, come in any order, the last one of a form after it    *)
(* has ended.                                                              *)
GeocodeAnswers(i) ==
  LET f == geocodes[i].form  p == geocodes[i].place IN
  /\ form' = IF Alive(f) THEN [form EXCEPT ![f] = Located(f, p)] ELSE form
  /\ geocodes' = RemoveAt(geocodes, i)
  /\ UNCHANGED <<currentUser, database, content, stage, picker>>

GeocodeFails(i) ==
  /\ geocodes' = RemoveAt(geocodes, i)
  /\ UNCHANGED <<currentUser, database, content, stage, form, picker>>

-----------------------------------------------------------------------------
(* Leaving the form.                                                       *)

End(f, how) ==
  /\ stage' = [stage EXCEPT ![f] = how]
  /\ form' = [form EXCEPT ![f] = Ended(f)]

(* Cancelled, or taken from the screen with LocationVC and EventContentVC  *)
(* when a tab is tapped or "login" is posted.                              *)
Leave(f) ==
  /\ OnScreen(f)
  /\ End(f, "left")
  /\ picker' = Closed
  /\ content' \in {content, Popped}
  /\ UNCHANGED <<currentUser, database, geocodes>>

(* Mutant: the colour of the description is not looked at.                 *)
IsFilledText(f) ==
  /\ form[f].title # "empty"
  /\ form[f].location # Unset
  /\ form[f].description # "empty"

(* An empty address passes for a location.                                 *)
IsFilled(f) ==
  /\ form[f].title # "empty"
  /\ form[f].location # Unset
  /\ form[f].description = "typed"

(* done.  Without a picture uploadEventData returns without a word.        *)
Done(f) ==
  /\ OnScreen(f) /\ ~picker.isOpen
  /\ IsFilled(f)
  /\ \/ /\ form[f].image
        /\ stage' = [stage EXCEPT ![f] = "uploading"]
        /\ form' = [form EXCEPT ![f].pins = <<>>]
     \/ /\ ~form[f].image
        /\ End(f, "noImage")
  /\ content' = Popped
  /\ UNCHANGED <<currentUser, database, picker, geocodes>>

-----------------------------------------------------------------------------
(* The upload and the closure that runs after it.                          *)

(* No data, no upload or no URL: the closure never runs.                   *)
UploadFails(f) ==
  /\ Uploading(f)
  /\ End(f, "failed")
  /\ UNCHANGED <<currentUser, database, content, picker, geocodes>>

(* Mutant: the id just drawn is used, also in an edit.                     *)
EntriesOfNewEvent(f) == IF form[f].rosterChanged THEN {MaxForms + 1} ELSE {}

EntriesOf(f) == IF form[f].rosterChanged THEN {form[f].eventID} ELSE {}

(* Mutant: the user is looked at after the invitations are written.        *)
NobodySignedInLate(f) ==
  /\ Uploading(f) /\ currentUser = NoUser
  /\ listed' = listed \union EntriesOf(f)
  /\ End(f, "signedOut")
  /\ UNCHANGED <<currentUser, event, notified, content, picker, geocodes>>

NobodySignedIn(f) ==
  /\ Uploading(f) /\ currentUser = NoUser
  /\ End(f, "signedOut")
  /\ UNCHANGED <<currentUser, database, content, picker, geocodes>>

NotesOf(f) ==
  IF form[f].rosterChanged
    THEN {[form |-> f, name |-> form[f].user, organiserID |-> currentUser,
           adrift |-> form[f].adrift]}
    ELSE {}

EventOf(f) == [organiserID |-> currentUser, title |-> form[f].title,
               description |-> form[f].description,
               location |-> form[f].location]

Uploaded(f) ==
  /\ Uploading(f) /\ currentUser # NoUser
  /\ form[f].rosterChanged => form[f].user # NoUser
  /\ listed' = listed \union EntriesOf(f)
  /\ notified' = notified \union NotesOf(f)
  /\ event' = [event EXCEPT ![form[f].eventID] = EventOf(f)]
  /\ End(f, "written")
  /\ UNCHANGED <<currentUser, content, picker, geocodes>>

(* The user has not been read: a member that was taken out traps at once,  *)
(* an invited one after the entry was written, which may have been sent.   *)
UploadedTraps(f) ==
  /\ Uploading(f) /\ currentUser # NoUser
  /\ form[f].rosterChanged /\ form[f].user = NoUser
  /\ listed' \in {listed, listed \union EntriesOf(f)}
  /\ Crash
  /\ UNCHANGED notified

(* The process dies before the last writes of the closure have been sent.  *)
UploadedCut(f) ==
  /\ Uploading(f) /\ currentUser # NoUser
  /\ form[f].rosterChanged => form[f].user # NoUser
  /\ listed' = listed \union EntriesOf(f)
  /\ notified' \in {notified, notified \union NotesOf(f)}
  /\ Crash

-----------------------------------------------------------------------------
Next ==
  \/ SignOut \/ \E u \in User : SignIn(u)
  \/ \E e \in EventID : ReadEvent(e)
  \/ ShowEvent \/ EditPressed \/ LeaveContent \/ OpenEditTraps
  \/ \E f \in Form :
       \/ OpenNew(f) \/ OpenEdit(f)
       \/ \E text \in Text : EditTitle(f, text) \/ EditDescription(f, text)
       \/ BeginEditing(f) \/ ImagePicked(f) \/ ChangeRoster(f)
       \/ UserRead(f) \/ UserMissing(f)
       \/ PickLocation(f) \/ ConfirmPressed(f)
       \/ Leave(f) \/ Done(f)
       \/ UploadFails(f) \/ NobodySignedIn(f)
       \/ Uploaded(f) \/ UploadedTraps(f) \/ UploadedCut(f)
  \/ \E p \in Place :
       UpdateSearchResults(p) \/ SearchAnswers(p) \/ SearchFails(p)
  \/ SelectRow \/ BackToForm
  \/ \E i \in 1..Len(geocodes) : GeocodeAnswers(i) \/ GeocodeFails(i)

Spec == Init /\ [][Next]_vars

-----------------------------------------------------------------------------
(* Properties.                                                             *)

(* Every event of the database went through the check of done: it has a    *)
(* title, a place was chosen for it and its description is not the grey    *)
(* hint, although the fields are read again when the upload has ended.     *)
UploadedComplete ==
  \A e \in EventID : event[e] # NoEvent =>
    /\ event[e].title # "empty" /\ event[e].location # Unset
    /\ event[e].description = "typed"

(* The pin on the map of the form is at the place its text names, in       *)
(* whatever order the geocoder answers (a second pin may be left beside    *)
(* it), and also after LocationVC was left without a choice.               *)
PinShowsLocation ==
  \A f \in Form : OnScreen(f) /\ form[f].pins # <<>> =>
    Address(Last(form[f].pins)) = form[f].location

(* An entry among somebody's invitations names an event that exists,       *)
(* unless the process died in the closure that wrote the entry.            *)
EntryHasEvent ==
  \A e \in Form : e \in listed /\ event[e] = NoEvent => stage[e] = "crashed"

(* Whoever is told of an invitation is told the name of the event's        *)
(* organiser, unless another user signed in while the form was there.      *)
NamesOrganiser == \A n \in notified : n.adrift \/ n.name = n.organiserID

(* An event changes hands only by a form under which, or under the screen  *)
(* it was opened from, another user has signed in.                         *)
EventKeepsOrganiser ==
  [][\A e \in EventID :
       event[e] # NoEvent /\ event'[e].organiserID # event[e].organiserID
         => \E f \in Form : form[f].adrift /\ stage'[f] = "written"]_vars
=============================================================================
