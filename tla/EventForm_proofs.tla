------------------------- MODULE EventForm_proofs --------------------------
(***************************************************************************)
(* What EventForm keeps, for any users, places, forms and requests.        *)
(***************************************************************************)
EXTENDS EventForm, TLAPS

(* What done has checked stays so until the closure reads it.              *)
DoneIsFilled ==
  \A f \in Form : Uploading(f) =>
    form[f].title = "typed" /\ form[f].description = "typed"
      /\ form[f].location # Unset

(* A form that is not adrift belongs to the user who is signed in, and so  *)
(* does the event it edits.                                                *)
OwnForm ==
  \A f \in Form : Alive(f) /\ ~form[f].adrift =>
    /\ currentUser \in {NoUser, form[f].opener}
    /\ event[form[f].eventID] # NoEvent =>
         event[form[f].eventID].organiserID = form[f].opener

(* The event on screen is there, and organised by whom its copy says if    *)
(* that is the user who was signed in since it was read; only to the       *)
(* organiser is the form offered.                                          *)
OwnContent ==
  /\ content.event # NoEvent => event[content.eventID] # NoEvent
  /\ content.isOpen \/ content.offered => content.event # NoEvent
  /\ content.event # NoEvent /\ ~content.adrift =>
       /\ content.event.organiserID = currentUser =>
            event[content.eventID].organiserID = currentUser
       /\ content.offered => content.event.organiserID = currentUser

OwnRecord == \A f \in Form : form[f].user \in {NoUser, form[f].opener}

(* A form writes the event it makes, or one that is there.                 *)
OwnEvent ==
  /\ \A f \in Form : Alive(f) =>
       form[f].eventID = f \/ event[form[f].eventID] # NoEvent
  /\ \A e \in Form : event[e] # NoEvent => stage[e] = "written"

FormInv ==
  /\ TypeOK
  /\ DoneIsFilled /\ UploadedComplete
  /\ PinShowsLocation
  /\ OwnForm /\ OwnContent /\ OwnRecord /\ OwnEvent
  /\ EntryHasEvent /\ NamesOrganiser

-----------------------------------------------------------------------------
LEMMA AddressIsSet ==
  ASSUME NEW p \in Place
  PROVE  Address(p) \in Location /\ Address(p) # Unset
BY FormConstants DEF Address, Location

LEMMA BlankFormType ==
  ASSUME NEW e \in EventID, NEW u \in User
  PROVE  BlankForm(e, u) \in Fields
BY DEF BlankForm, Fields, Text, Description, Location

LEMMA NoContentType == NoContent \in Content
BY FormConstants DEF NoContent, Content, EventID

LEMMA EndedType ==
  ASSUME TypeOK, NEW f \in Form
  PROVE  /\ Ended(f) \in Fields
         /\ Ended(f).opener = form[f].opener /\ Ended(f).user = NoUser
<1>1. form[f].eventID \in EventID /\ form[f].opener \in User
  BY DEF TypeOK, Fields
<1> QED
  BY <1>1, BlankFormType DEF Ended, BlankForm, Fields

LEMMA LastAppended ==
  ASSUME NEW S, NEW s \in Seq(S), NEW p \in S
  PROVE  /\ Append(s, p) \in Seq(S) /\ Append(s, p) # <<>>
         /\ Last(Append(s, p)) = p
BY DEF Last

LEMMA ElementType ==
  ASSUME NEW S, NEW s \in Seq(S), NEW i \in 1..Len(s)
  PROVE  s[i] \in S
OBVIOUS

LEMMA RemoveAtType ==
  ASSUME NEW S, NEW s \in Seq(S), NEW i \in 1..Len(s)
  PROVE  RemoveAt(s, i) \in Seq(S)
BY DEF RemoveAt

-----------------------------------------------------------------------------
(* The initial states.                                                     *)
LEMMA FormStarts == Init => FormInv
<1> SUFFICES ASSUME Init PROVE FormInv
  OBVIOUS
<1>1. PICK u \in User, p \in Place :
        event = [e \in EventID |->
          IF e > 0 THEN NoEvent
          ELSE [organiserID |-> u, title |-> "typed",
                description |-> "typed", location |-> Address(p)]]
  BY DEF Init
<1>2. PICK v \in User :
        form = [f \in Form |-> BlankForm(f, v)]
  BY DEF Init
<1>3. \A f \in Form : form[f] \in Fields /\ form[f].user = NoUser
  <2> SUFFICES ASSUME NEW f \in Form
               PROVE  form[f] \in Fields /\ form[f].user = NoUser
    OBVIOUS
  <2>1. f \in EventID
    BY FormConstants DEF Form, EventID
  <2> QED
    BY <1>2, <2>1, BlankFormType DEF BlankForm, Fields
<1>4. TypeOK
  <2>1. event \in [EventID -> Event \union {NoEvent}]
    BY <1>1, AddressIsSet DEF Event, Text, Description
  <2>2. form \in [Form -> Fields]
    BY <1>2, <1>3
  <2>3. stage \in [Form -> Stage]
    BY DEF Init, Stage
  <2>4. picker \in Picker /\ content \in Content
    BY NoContentType DEF Init, Picker, Closed, Opened
  <2> QED
    BY <2>1, <2>2, <2>3, <2>4 DEF Init, TypeOK
<1>5. UploadedComplete
  BY <1>1, AddressIsSet DEF UploadedComplete
<1>6. DoneIsFilled /\ PinShowsLocation /\ OwnForm /\ OwnContent
  BY DEF Init, DoneIsFilled, PinShowsLocation, OwnForm, OwnContent, NoContent,
         Alive, Uploading, OnScreen
<1>7. OwnEvent
  BY <1>1, FormConstants
     DEF Init, OwnEvent, Alive, Uploading, OnScreen, Form, EventID
<1>8. OwnRecord /\ EntryHasEvent /\ NamesOrganiser
  BY <1>3 DEF Init, OwnRecord, EntryHasEvent, NamesOrganiser
<1> QED
  BY <1>4, <1>5, <1>6, <1>7, <1>8 DEF FormInv

-----------------------------------------------------------------------------
(* A step that changes one form and no other, the stages and the database  *)
(* apart: its fields stay fields of the same user, event and picture of    *)
(* what done has checked.                                                  *)
LEMMA FieldsStep ==
  ASSUME FormInv, NEW f \in Form, NEW fields \in Fields,
         form' = [form EXCEPT ![f] = fields],
         UNCHANGED <<currentUser, database, content, stage>>,
         picker' \in Picker,
         geocodes' \in Seq([form : Form, place : Place]),
         fields.eventID = form[f].eventID, fields.opener = form[f].opener,
         fields.adrift = form[f].adrift,
         fields.user \in {NoUser, fields.opener},
         Uploading(f) => /\ fields.title = "typed"
                         /\ fields.description = "typed"
                         /\ fields.location # Unset,
         OnScreen(f) /\ fields.pins # <<>> =>
           Address(Last(fields.pins)) = fields.location
  PROVE  FormInv'
<1> USE DEF FormInv
<1>1. TypeOK'
  BY DEF TypeOK, database
<1>2. \A g \in Form : form'[g] = IF g = f THEN fields ELSE form[g]
  BY DEF TypeOK
<1>3. DoneIsFilled'
  BY <1>2 DEF DoneIsFilled, Uploading
<1>4. UploadedComplete'
  BY DEF UploadedComplete, database
<1>5. PinShowsLocation'
  BY <1>2 DEF PinShowsLocation, OnScreen, Address
<1>6. OwnForm' /\ OwnRecord'
  BY <1>2 DEF OwnForm, OwnRecord, Alive, OnScreen, Uploading, database
<1>7. OwnEvent' /\ OwnContent'
  BY <1>2 DEF OwnEvent, OwnContent, Alive, OnScreen, Uploading, database
<1>8. EntryHasEvent' /\ NamesOrganiser'
  BY DEF EntryHasEvent, NamesOrganiser, database
<1> QED
  BY <1>1, <1>3, <1>4, <1>5, <1>6, <1>7, <1>8

(* The text fields, the picture and the roster.                            *)
LEMMA EditsKeep ==
  ASSUME FormInv, NEW f \in Form,
         \/ \E text \in Text : EditTitle(f, text) \/ EditDescription(f, text)
         \/ BeginEditing(f) \/ ImagePicked(f) \/ ChangeRoster(f)
  PROVE  FormInv'
<1>1. form[f] \in Fields /\ form[f].user \in {NoUser, form[f].opener}
        /\ picker \in Picker /\ geocodes \in Seq([form : Form, place : Place])
  BY DEF FormInv, TypeOK, OwnRecord
<1>2. PICK fields \in Fields :
        /\ SetField(f, fields)
        /\ fields.eventID = form[f].eventID /\ fields.opener = form[f].opener
        /\ fields.user = form[f].user /\ fields.location = form[f].location
        /\ fields.pins = form[f].pins /\ fields.adrift = form[f].adrift
  <2>1. ASSUME NEW text \in Text
        PROVE  /\ [form[f] EXCEPT !.title = text] \in Fields
               /\ [form[f] EXCEPT !.description = text] \in Fields
    BY <1>1 DEF Fields, Description
  <2>2. [form[f] EXCEPT !.description = "empty"] \in Fields
          /\ [form[f] EXCEPT !.image = TRUE] \in Fields
          /\ [form[f] EXCEPT !.rosterChanged = TRUE] \in Fields
    BY <1>1 DEF Fields, Description, Text
  <2>3. ASSUME NEW text \in Text, EditTitle(f, text) \/ EditDescription(f, text)
        PROVE  \E fields \in Fields :
                 /\ SetField(f, fields)
                 /\ fields.eventID = form[f].eventID /\ fields.opener = form[f].opener
                 /\ fields.user = form[f].user /\ fields.location = form[f].location
                 /\ fields.pins = form[f].pins /\ fields.adrift = form[f].adrift
    BY <1>1, <2>1, <2>3 DEF EditTitle, EditDescription, Fields
  <2>4. CASE BeginEditing(f) \/ ImagePicked(f) \/ ChangeRoster(f)
    BY <1>1, <2>2, <2>4 DEF BeginEditing, ImagePicked, ChangeRoster, Fields
  <2> QED
    BY <2>3, <2>4
<1>3. OnScreen(f) /\ ~Uploading(f)
  BY <1>2 DEF SetField, OnScreen, Uploading
<1>4. fields.pins # <<>> => Address(Last(fields.pins)) = fields.location
  BY <1>2, <1>3 DEF FormInv, PinShowsLocation
<1> QED
  BY <1>1, <1>2, <1>3, <1>4, FieldsStep DEF SetField

(* The answer of queryOrganiserData.                                       *)
LEMMA ReadsKeep ==
  ASSUME FormInv, NEW f \in Form, UserRead(f) \/ UserMissing(f)
  PROVE  FormInv'
<1>1. form[f] \in Fields /\ form[f].user \in {NoUser, form[f].opener}
        /\ picker \in Picker /\ geocodes \in Seq([form : Form, place : Place])
  BY DEF FormInv, TypeOK, OwnRecord
<1>2. PICK fields \in Fields :
        /\ form' = [form EXCEPT ![f] = fields]
        /\ fields.eventID = form[f].eventID /\ fields.opener = form[f].opener
        /\ fields.user \in {NoUser, fields.opener}
        /\ fields.title = form[f].title
        /\ fields.description = form[f].description
        /\ fields.location = form[f].location /\ fields.pins = form[f].pins
        /\ fields.adrift = form[f].adrift
  <2>1. CASE UserRead(f)
    <3>1. /\ form' = [form EXCEPT
               ![f] = [form[f] EXCEPT !.user = form[f].opener, !.reading = FALSE]]
          /\ [form[f] EXCEPT !.user = form[f].opener, !.reading = FALSE] \in Fields
      BY <1>1, <2>1 DEF UserRead, Fields, FormInv, TypeOK
    <3> QED
      BY <1>1, <3>1 DEF Fields
  <2>2. CASE UserMissing(f)
    <3>1. /\ form' = [form EXCEPT ![f] = [form[f] EXCEPT !.reading = FALSE]]
          /\ [form[f] EXCEPT !.reading = FALSE] \in Fields
      BY <1>1, <2>2 DEF UserMissing, Fields, FormInv, TypeOK
    <3> QED
      BY <1>1, <3>1 DEF Fields
  <2> QED
    BY <2>1, <2>2
<1>3. UNCHANGED <<currentUser, database, content, stage, picker, geocodes>>
  BY DEF UserRead, UserMissing
<1>4. /\ Uploading(f) => /\ fields.title = "typed"
                         /\ fields.description = "typed"
                         /\ fields.location # Unset
      /\ OnScreen(f) /\ fields.pins # <<>> =>
           Address(Last(fields.pins)) = fields.location
  BY <1>2 DEF FormInv, DoneIsFilled, PinShowsLocation
<1> QED
  BY <1>1, <1>2, <1>3, <1>4, FieldsStep

(* LocationVC, its search and its map; the form below it is not touched.   *)
LEMMA PickerKeeps ==
  ASSUME FormInv, picker' \in Picker,
         geocodes' \in Seq([form : Form, place : Place]),
         UNCHANGED <<currentUser, database, content, stage, form>>
  PROVE  FormInv'
BY DEF FormInv, TypeOK, DoneIsFilled, UploadedComplete, PinShowsLocation,
       OwnForm, OwnContent, OwnRecord, OwnEvent, EntryHasEvent,
       NamesOrganiser, Alive, Uploading, OnScreen, Address, database

LEMMA SearchKeeps ==
  ASSUME FormInv,
         \/ \E p \in Place :
              \/ UpdateSearchResults(p) \/ SearchAnswers(p) \/ SearchFails(p)
         \/ SelectRow \/ BackToForm
  PROVE  FormInv'
<1>1. picker \in Picker /\ geocodes \in Seq([form : Form, place : Place])
  BY DEF FormInv, TypeOK
<1>2. PICK value \in Picker : SetPicker(value)
  BY <1>1 DEF UpdateSearchResults, SearchAnswers, SearchFails, SelectRow,
              BackToForm, Picker, Closed, Opened
<1> QED
  BY <1>1, <1>2, PickerKeeps DEF SetPicker

LEMMA ConfirmKeeps ==
  ASSUME FormInv, NEW f \in Form, ConfirmPressed(f)
  PROVE  FormInv'
<1>1. picker \in Picker /\ geocodes \in Seq([form : Form, place : Place])
  BY DEF FormInv, TypeOK
<1>2. picker.selectedPin \in Place
  BY <1>1 DEF ConfirmPressed, Picker
<1>3. geocodes' \in Seq([form : Form, place : Place])
  BY <1>1, <1>2 DEF ConfirmPressed
<1>4. picker' \in Picker
  BY DEF ConfirmPressed, Picker, Closed, Opened
<1> QED
  BY <1>3, <1>4, PickerKeeps DEF ConfirmPressed

LEMMA PickLocationKeeps ==
  ASSUME FormInv, NEW f \in Form, PickLocation(f)
  PROVE  FormInv'
<1> DEFINE fields == [form[f] EXCEPT !.pins = <<>>]
<1>1. form[f] \in Fields /\ form[f].user \in {NoUser, form[f].opener}
        /\ geocodes \in Seq([form : Form, place : Place])
  BY DEF FormInv, TypeOK, OwnRecord
<1>2. fields \in Fields /\ form' = [form EXCEPT ![f] = fields]
  <2>1. <<>> \in Seq(Place)
    OBVIOUS
  <2>2. fields \in Fields
    BY <1>1, <2>1 DEF Fields
  <2> QED
    BY <2>2 DEF PickLocation
<1>3. /\ fields.eventID = form[f].eventID /\ fields.opener = form[f].opener
      /\ fields.user = form[f].user /\ fields.pins = <<>>
      /\ fields.adrift = form[f].adrift
  BY <1>1 DEF Fields
<1>4. ~Uploading(f) /\ picker' \in Picker
  BY DEF PickLocation, OnScreen, Uploading, Picker, Opened
<1> HIDE DEF fields
<1> QED
  BY <1>1, <1>2, <1>3, <1>4, FieldsStep DEF PickLocation

(* An answer of the geocoder puts text and pin at the same place.          *)
LEMMA GeocodeKeeps ==
  ASSUME FormInv, NEW i \in 1..Len(geocodes),
         GeocodeAnswers(i) \/ GeocodeFails(i)
  PROVE  FormInv'
<1>1. /\ geocodes \in Seq([form : Form, place : Place]) /\ picker \in Picker
      /\ form \in [Form -> Fields]
  BY DEF FormInv, TypeOK
<1>2. geocodes' \in Seq([form : Form, place : Place]) /\ picker' = picker
  BY <1>1, RemoveAtType DEF GeocodeAnswers, GeocodeFails
<1>3. geocodes[i].form \in Form /\ geocodes[i].place \in Place
  <2>1. geocodes[i] \in [form : Form, place : Place]
    BY <1>1, ElementType
  <2> QED
    BY <2>1
<1>4. UNCHANGED <<currentUser, database, content, stage>>
  BY DEF GeocodeAnswers, GeocodeFails
<1>5. CASE form' = form
  BY <1>1, <1>2, <1>4, <1>5, PickerKeeps
<1>6. CASE form' # form
  <2> DEFINE f == geocodes[i].form
             p == geocodes[i].place
             fields == Located(f, p)
  <2>1. form' = [form EXCEPT ![f] = fields] /\ f \in Form /\ p \in Place
    BY <1>3, <1>6 DEF GeocodeAnswers, GeocodeFails
  <2> HIDE DEF f, p
  <2>2. form[f] \in Fields /\ form[f].user \in {NoUser, form[f].opener}
    BY <1>1, <2>1 DEF FormInv, OwnRecord
  <2>3. form[f].pins \in Seq(Place)
    BY <2>2 DEF Fields
  <2>4. PICK pins \in Seq(Place) :
          /\ OnScreen(f) => pins = Append(form[f].pins, p)
          /\ fields = [form[f] EXCEPT !.location = Address(p), !.pins = pins]
    <3> DEFINE pins == IF OnScreen(f) THEN Append(form[f].pins, p)
                                      ELSE form[f].pins
    <3>1. pins \in Seq(Place)
      BY <2>1, <2>3
    <3>2. fields = [form[f] EXCEPT !.location = Address(p), !.pins = pins]
      BY DEF Located
    <3> QED
      BY <3>1, <3>2
  <2>5. /\ fields \in Fields
        /\ fields.eventID = form[f].eventID /\ fields.opener = form[f].opener
        /\ fields.user = form[f].user /\ fields.title = form[f].title
        /\ fields.description = form[f].description
        /\ fields.location = Address(p) /\ fields.pins = pins
        /\ fields.adrift = form[f].adrift
    BY <2>1, <2>2, <2>4, AddressIsSet DEF Fields
  <2> HIDE DEF fields
  <2>6. OnScreen(f) => Address(Last(fields.pins)) = fields.location
    <3>1. Last(Append(form[f].pins, p)) = p
      BY <2>1, <2>3, LastAppended
    <3> QED
      BY <2>4, <2>5, <3>1
  <2>7. Uploading(f) => /\ fields.title = "typed"
                        /\ fields.description = "typed"
                        /\ fields.location # Unset
    BY <2>1, <2>5, AddressIsSet DEF FormInv, DoneIsFilled
  <2> QED
    BY <1>1, <1>2, <1>4, <2>1, <2>2, <2>5, <2>6, <2>7, FieldsStep
<1> QED
  BY <1>5, <1>6

(* The sheet with the button goes, and perhaps the screen.                *)
LEMMA CoveredKeeps ==
  ASSUME FormInv, content' \in {content, Covered, Popped},
         UNCHANGED <<currentUser, event>>
  PROVE  content' \in Content /\ OwnContent'
<1>1. content \in Content
  BY DEF FormInv, TypeOK
<1>2. /\ content' \in Content
      /\ content'.eventID = content.eventID /\ content'.event = content.event
      /\ content'.adrift = content.adrift
      /\ content'.offered => content.offered
      /\ content'.isOpen => content.isOpen
  BY <1>1 DEF Content, Covered, Popped
<1> QED
  BY <1>2 DEF FormInv, OwnContent

(* The lists and EventContentVC.                                           *)
LEMMA ContentKeeps ==
  ASSUME FormInv,
         \/ \E e \in EventID : ReadEvent(e)
         \/ ShowEvent \/ EditPressed \/ LeaveContent
  PROVE  FormInv'
<1>1. UNCHANGED <<currentUser, database, stage, form, picker, geocodes>>
  BY DEF ReadEvent, ShowEvent, EditPressed, LeaveContent, SetContent
<1>2. content \in Content /\ event \in [EventID -> Event \union {NoEvent}]
  BY DEF FormInv, TypeOK
<1>3. content' \in Content /\ OwnContent'
  <2>1. CASE \E e \in EventID : ReadEvent(e)
    <3>1. PICK e \in EventID : ReadEvent(e)
      BY <2>1
    <3>2. /\ content' \in Content /\ content'.eventID = e
          /\ content'.event = event[e] /\ event[e] # NoEvent
          /\ ~content'.offered /\ ~content'.isOpen
      BY <1>2, <3>1 DEF ReadEvent, SetContent, NoContent, Content
    <3> QED
      BY <1>1, <3>2 DEF OwnContent, database
  <2>2. CASE ShowEvent
    <3>1. /\ content' \in Content /\ content'.eventID = content.eventID
          /\ content'.event = content.event
          /\ content'.adrift = content.adrift
          /\ content'.offered = content.offered
      BY <1>2, <2>2 DEF ShowEvent, SetContent, Content
    <3> QED
      BY <1>1, <2>2, <3>1 DEF OwnContent, FormInv, ShowEvent, database
  <2>3. CASE EditPressed
    <3>1. /\ content' \in Content /\ content'.eventID = content.eventID
          /\ content'.event = content.event
          /\ content'.adrift = content.adrift
          /\ content.event.organiserID = currentUser
      BY <1>2, <2>3 DEF EditPressed, MayEdit, SetContent, Content
    <3> QED
      BY <1>1, <2>3, <3>1 DEF OwnContent, FormInv, EditPressed, database
  <2>4. CASE LeaveContent
    <3>1. content' \in {Covered, Popped}
      BY <2>4 DEF LeaveContent, SetContent
    <3> QED
      BY <1>1, <3>1, CoveredKeeps DEF database
  <2> QED
    BY <2>1, <2>2, <2>3, <2>4
          DEF ReadEvent, ShowEvent, EditPressed, LeaveContent
<1> QED
  BY <1>1, <1>3
     DEF FormInv, TypeOK, DoneIsFilled, UploadedComplete, PinShowsLocation,
         OwnForm, OwnRecord, OwnEvent, EntryHasEvent, NamesOrganiser, Alive,
         Uploading, OnScreen, Address, database

(* A form comes on screen, as a new event or as an edit of one.            *)
LEMMA OpenKeeps ==
  ASSUME FormInv, NEW f \in Form, NEW fields \in Fields, Open(f, fields),
         fields.opener = currentUser, fields.user = NoUser,
         \/ fields.eventID = f
         \/ /\ event[fields.eventID] # NoEvent
            /\ \/ fields.adrift
               \/ event[fields.eventID].organiserID = currentUser,
         fields.pins # <<>> => Address(Last(fields.pins)) = fields.location
  PROVE  FormInv'
<1> USE DEF FormInv
<1>1. /\ stage[f] = "unused" /\ NoForm
      /\ stage' = [stage EXCEPT ![f] = "open"]
      /\ form' = [form EXCEPT ![f] = fields]
      /\ content' = Covered
      /\ UNCHANGED <<currentUser, event, listed, notified, picker, geocodes>>
  BY DEF Open, database
<1>2. TypeOK'
  BY <1>1 DEF TypeOK, Stage, Covered, Content
<1>3. \A g \in Form :
        /\ form'[g] = IF g = f THEN fields ELSE form[g]
        /\ stage'[g] = IF g = f THEN "open" ELSE stage[g]
  BY <1>1 DEF TypeOK
<1>4. DoneIsFilled' /\ UploadedComplete'
  BY <1>1, <1>3 DEF DoneIsFilled, UploadedComplete, Uploading
<1>5. PinShowsLocation'
  BY <1>1, <1>3 DEF PinShowsLocation, OnScreen, NoForm, Address
<1>6. event[f] = NoEvent
  BY <1>1 DEF OwnEvent
<1>7. OwnForm' /\ OwnRecord'
  BY <1>1, <1>3, <1>6 DEF OwnForm, OwnRecord, Alive, OnScreen, Uploading
<1>8. OwnEvent'
  BY <1>1, <1>3, <1>6 DEF OwnEvent, Alive, OnScreen, Uploading
<1>9. OwnContent'
  BY <1>1, CoveredKeeps
<1>10. EntryHasEvent' /\ NamesOrganiser'
  BY <1>1, <1>3 DEF EntryHasEvent, NamesOrganiser
<1> QED
  BY <1>2, <1>4, <1>5, <1>7, <1>8, <1>9, <1>10

LEMMA OpenNewKeeps ==
  ASSUME FormInv, NEW f \in Form, OpenNew(f)
  PROVE  FormInv'
<1> DEFINE fields == [BlankForm(f, currentUser) EXCEPT !.reading = TRUE]
<1>1. currentUser \in User /\ f \in EventID
  BY FormConstants DEF OpenNew, Open, FormInv, TypeOK, Form, EventID
<1>2. BlankForm(f, currentUser) \in Fields
  BY <1>1, BlankFormType
<1>3. /\ fields \in Fields /\ fields.opener = currentUser
      /\ fields.user = NoUser /\ fields.eventID = f /\ fields.pins = <<>>
  BY <1>2 DEF Fields, BlankForm
<1>4. Open(f, fields)
  BY DEF OpenNew
<1> HIDE DEF fields
<1> QED
  BY <1>3, <1>4, OpenKeeps

(* editPressed compared the copy's organiser with the user, who is still   *)
(* signed in unless the screen is adrift, and so will be the form.         *)
LEMMA OpenEditKeeps ==
  ASSUME FormInv, NEW f \in Form, OpenEdit(f)
  PROVE  FormInv'
<1> DEFINE e == content.eventID
<1>1. PICK p \in Place, hasImage \in BOOLEAN :
        /\ content.event.location = Address(p)
        /\ Open(f, [BlankForm(e, currentUser) EXCEPT
             !.reading = TRUE, !.title = content.event.title,
             !.description = content.event.description,
             !.location = content.event.location, !.pins = <<p>>,
             !.image = hasImage, !.adrift = content.adrift])
  BY DEF OpenEdit
<1> DEFINE fields == [BlankForm(e, currentUser) EXCEPT
             !.reading = TRUE, !.title = content.event.title,
             !.description = content.event.description,
             !.location = content.event.location, !.pins = <<p>>,
             !.image = hasImage, !.adrift = content.adrift]
<1>2. /\ currentUser \in User /\ e \in EventID /\ content.event \in Event
      /\ content.adrift \in BOOLEAN
  BY <1>1 DEF OpenEdit, Open, FormInv, TypeOK, Content, OwnContent
<1>3. <<p>> \in Seq(Place) /\ Last(<<p>>) = p
  BY DEF Last
<1>4. BlankForm(e, currentUser) \in Fields
  BY <1>2, BlankFormType
<1>5. /\ fields \in Fields /\ fields.opener = currentUser
      /\ fields.user = NoUser /\ fields.eventID = e /\ fields.pins = <<p>>
      /\ fields.location = content.event.location
      /\ fields.adrift = content.adrift
  BY <1>2, <1>3, <1>4 DEF Fields, BlankForm, Event
<1>6. Open(f, fields)
  BY <1>1
<1>7. /\ event[e] # NoEvent
      /\ content.adrift \/ event[e].organiserID = currentUser
  BY DEF OpenEdit, FormInv, OwnContent
<1> HIDE DEF fields, e
<1> QED
  BY <1>1, <1>3, <1>5, <1>6, <1>7, OpenKeeps

(* A form ends: it holds nothing any more, and the rest is as it was or is *)
(* taken care of by the caller.                                            *)
LEMMA EndStep ==
  ASSUME FormInv, NEW f \in Form, NEW how \in Stage,
         how \in {"left", "noImage", "failed", "signedOut", "written"},
         Alive(f), End(f, how)
  PROVE  /\ stage' \in [Form -> Stage] /\ form' \in [Form -> Fields]
         /\ \A g \in Form :
              /\ stage'[g] = IF g = f THEN how ELSE stage[g]
              /\ g # f => form'[g] = form[g]
         /\ ~Alive(f)' /\ ~OnScreen(f)' /\ ~Uploading(f)'
         /\ form'[f].user = NoUser
<1>1. /\ stage \in [Form -> Stage] /\ form \in [Form -> Fields]
      /\ Ended(f) \in Fields /\ Ended(f).user = NoUser
  BY EndedType DEF FormInv, TypeOK
<1> QED
  BY <1>1 DEF End, Alive, OnScreen, Uploading

LEMMA EndKeeps ==
  ASSUME FormInv, NEW f \in Form,
         \/ Leave(f) \/ UploadFails(f) \/ NobodySignedIn(f)
         \/ Done(f) /\ ~form[f].image
  PROVE  FormInv'
<1>1. PICK how \in {"left", "noImage", "failed", "signedOut"} :
        /\ End(f, how) /\ Alive(f) /\ picker' \in {picker, Closed}
        /\ content' \in {content, Popped}
        /\ UNCHANGED <<currentUser, event, listed, notified, geocodes>>
  BY DEF Leave, UploadFails, NobodySignedIn, Done, Alive, database
<1>2. how \in Stage
  BY DEF Stage
<1>3. /\ stage' \in [Form -> Stage] /\ form' \in [Form -> Fields]
      /\ \A g \in Form :
           /\ stage'[g] = IF g = f THEN how ELSE stage[g]
           /\ g # f => form'[g] = form[g]
      /\ ~Alive(f)' /\ ~OnScreen(f)' /\ ~Uploading(f)'
      /\ form'[f].user = NoUser
  BY <1>1, <1>2, EndStep
<1> USE DEF FormInv
<1>4. TypeOK' /\ OwnContent'
  BY <1>1, <1>3, CoveredKeeps DEF TypeOK, Picker, Closed, Opened
<1>5. DoneIsFilled' /\ UploadedComplete'
  BY <1>1, <1>3 DEF DoneIsFilled, UploadedComplete, Uploading
<1>6. PinShowsLocation'
  BY <1>3 DEF PinShowsLocation, OnScreen, Address
<1>7. OwnForm' /\ OwnRecord'
  BY <1>1, <1>3 DEF OwnForm, OwnRecord, Alive, OnScreen, Uploading
<1>8. OwnEvent'
  <2>1. stage[f] \notin {"written", "crashed"}
    BY <1>1 DEF Alive, OnScreen, Uploading
  <2> QED
    BY <1>1, <1>3, <2>1 DEF OwnEvent, Alive, OnScreen, Uploading
<1>9. EntryHasEvent' /\ NamesOrganiser'
  <2>1. stage[f] # "crashed"
    BY <1>1 DEF Alive, OnScreen, Uploading
  <2> QED
    BY <1>1, <1>3, <2>1 DEF EntryHasEvent, NamesOrganiser
<1> QED
  BY <1>4, <1>5, <1>6, <1>7, <1>8, <1>9

(* done: what it has checked is what DoneIsFilled asks for.                *)
LEMMA DoneKeeps ==
  ASSUME FormInv, NEW f \in Form, Done(f)
  PROVE  FormInv'
<1> USE DEF FormInv
<1> DEFINE fields == [form[f] EXCEPT !.pins = <<>>]
<1>1. CASE ~form[f].image
  BY <1>1, EndKeeps
<1>2. CASE form[f].image
  <2>1. form[f] \in Fields /\ <<>> \in Seq(Place)
    BY DEF TypeOK
  <2>2. /\ fields \in Fields /\ fields.eventID = form[f].eventID
        /\ fields.opener = form[f].opener /\ fields.user = form[f].user
        /\ fields.title = form[f].title
        /\ fields.description = form[f].description
        /\ fields.location = form[f].location
        /\ fields.adrift = form[f].adrift
    BY <2>1 DEF Fields
  <2>3. /\ form' = [form EXCEPT ![f] = fields]
        /\ stage' = [stage EXCEPT ![f] = "uploading"]
        /\ UNCHANGED <<currentUser, event, listed, notified, picker, geocodes>>
        /\ stage[f] = "open" /\ content' = Popped
    BY <1>2 DEF Done, OnScreen, database
  <2>4. fields.title = "typed" /\ fields.description = "typed"
          /\ fields.location # Unset
    BY <2>1, <2>2 DEF Done, IsFilled, Fields, Text
  <2> HIDE DEF fields
  <2>5. \A g \in Form :
          /\ form'[g] = IF g = f THEN fields ELSE form[g]
          /\ stage'[g] = IF g = f THEN "uploading" ELSE stage[g]
    BY <2>3 DEF TypeOK
  <2>6. TypeOK' /\ OwnContent'
    BY <2>2, <2>3, CoveredKeeps DEF TypeOK, Stage
  <2>7. DoneIsFilled' /\ UploadedComplete'
    BY <2>3, <2>4, <2>5 DEF DoneIsFilled, UploadedComplete, Uploading
  <2>8. PinShowsLocation'
    BY <2>5 DEF PinShowsLocation, OnScreen, Address
  <2>9. OwnForm' /\ OwnRecord'
    BY <2>2, <2>3, <2>5 DEF OwnForm, OwnRecord, Alive, OnScreen, Uploading
  <2>10. OwnEvent'
    BY <2>2, <2>3, <2>5 DEF OwnEvent, Alive, OnScreen, Uploading
  <2>11. EntryHasEvent' /\ NamesOrganiser'
    BY <2>3, <2>5 DEF EntryHasEvent, NamesOrganiser
  <2> QED
    BY <2>6, <2>7, <2>8, <2>9, <2>10, <2>11
<1> QED
  BY <1>1, <1>2

(* The process dies.  Entries may have been written for the event of a     *)
(* form that is alive, and notifications by a form that has the user read. *)
LEMMA CrashKeeps ==
  ASSUME FormInv, Crash, listed' \subseteq EventID, notified' \subseteq Note,
         \A e \in listed' : e \in listed \/ event[e] # NoEvent
                              \/ (e \in Form /\ Alive(e)),
         \A n \in notified' : n \in notified \/ n.adrift
                                \/ n.name = n.organiserID
  PROVE  FormInv'
<1> USE DEF FormInv
<1>1. \A f \in Form : /\ Ended(f) \in Fields /\ Ended(f).user = NoUser
                      /\ Ended(f).opener = form[f].opener
  BY EndedType
<1>2. \A f \in Form :
        /\ stage'[f] = IF Alive(f) THEN "crashed" ELSE stage[f]
        /\ form'[f] = Ended(f)
        /\ ~Alive(f)' /\ ~OnScreen(f)' /\ ~Uploading(f)'
  BY DEF Crash, Alive, OnScreen, Uploading
<1>3. TypeOK'
  <2>1. stage' \in [Form -> Stage]
    BY DEF Crash, TypeOK, Stage
  <2>2. form' \in [Form -> Fields]
    BY <1>1 DEF Crash
  <2>3. picker' \in Picker
    BY DEF Crash, Picker, Closed, Opened
  <2>4. content' \in Content
    BY NoContentType DEF Crash
  <2> QED
    BY <2>1, <2>2, <2>3, <2>4 DEF TypeOK, Crash
<1>4. DoneIsFilled' /\ UploadedComplete' /\ PinShowsLocation'
  BY <1>2 DEF Crash, DoneIsFilled, UploadedComplete, PinShowsLocation
<1>5. OwnForm' /\ OwnContent'
  BY <1>2 DEF OwnForm, OwnContent, Crash, NoContent
<1>6. OwnRecord'
  BY <1>1, <1>2 DEF OwnRecord
<1>7. OwnEvent'
  BY <1>2 DEF Crash, OwnEvent, Alive, OnScreen, Uploading
<1>8. EntryHasEvent' /\ NamesOrganiser'
  BY <1>2 DEF Crash, EntryHasEvent, NamesOrganiser, Alive, OnScreen, Uploading
<1> QED
  BY <1>3, <1>4, <1>5, <1>6, <1>7, <1>8

(* What the closure of an upload writes.                                   *)
LEMMA ClosureWrites ==
  ASSUME FormInv, NEW f \in Form, Uploading(f), currentUser # NoUser
  PROVE  /\ form[f] \in Fields /\ currentUser \in User
         /\ EventOf(f) \in Event /\ EventOf(f).organiserID = currentUser
         /\ EventOf(f).title = "typed" /\ EventOf(f).description = "typed"
         /\ EventOf(f).location # Unset
         /\ EntriesOf(f) \subseteq {form[f].eventID}
         /\ (form[f].rosterChanged => form[f].user # NoUser) =>
              /\ NotesOf(f) \subseteq Note
              /\ \A n \in NotesOf(f) : n.adrift \/ n.name = n.organiserID
<1>1. form[f] \in Fields /\ currentUser \in User
  BY DEF FormInv, TypeOK
<1>2. /\ EventOf(f) \in Event /\ EventOf(f).organiserID = currentUser
      /\ EventOf(f).title = "typed" /\ EventOf(f).description = "typed"
      /\ EventOf(f).location # Unset
  BY <1>1 DEF EventOf, Event, Fields, FormInv, DoneIsFilled
<1>3. EntriesOf(f) \subseteq {form[f].eventID}
  BY DEF EntriesOf
<1>4. ASSUME form[f].rosterChanged => form[f].user # NoUser
      PROVE  /\ NotesOf(f) \subseteq Note
             /\ \A n \in NotesOf(f) : n.adrift \/ n.name = n.organiserID
  <2>1. CASE ~form[f].rosterChanged
    BY <2>1 DEF NotesOf
  <2>2. CASE form[f].rosterChanged
    <3>1. form[f].user = form[f].opener /\ form[f].user \in User
      BY <1>1, <1>4, <2>2 DEF FormInv, OwnRecord, Fields
    <3>2. form[f].adrift \/ form[f].opener = currentUser
      BY DEF Alive, FormInv, OwnForm
    <3>3. NotesOf(f) = {[form |-> f, name |-> form[f].user,
            organiserID |-> currentUser, adrift |-> form[f].adrift]}
      BY <2>2 DEF NotesOf
    <3>4. form[f].adrift \in BOOLEAN
      BY <1>1 DEF Fields
    <3> QED
      BY <1>1, <3>1, <3>2, <3>3, <3>4 DEF Note
  <2> QED
    BY <2>1, <2>2
<1> QED
  BY <1>1, <1>2, <1>3, <1>4

LEMMA DeathsKeep ==
  ASSUME FormInv,
         \/ OpenEditTraps
         \/ \E f \in Form : UploadedTraps(f) \/ UploadedCut(f)
  PROVE  FormInv'
<1>1. listed \subseteq EventID /\ notified \subseteq Note
  BY DEF FormInv, TypeOK
<1>2. CASE OpenEditTraps
  BY <1>1, <1>2, CrashKeeps DEF OpenEditTraps
<1>3. ASSUME NEW f \in Form, UploadedTraps(f) \/ UploadedCut(f)
      PROVE  FormInv'
  <2>1. Uploading(f) /\ currentUser # NoUser /\ Crash /\ Alive(f)
    BY <1>3 DEF UploadedTraps, UploadedCut, Alive
  <2>2. form[f] \in Fields /\ EntriesOf(f) \subseteq {form[f].eventID}
    BY <2>1, ClosureWrites
  <2>3. listed' \subseteq listed \union {form[f].eventID}
    BY <1>3, <2>2 DEF UploadedTraps, UploadedCut
  <2>4. form[f].eventID = f \/ event[form[f].eventID] # NoEvent
    BY <2>1 DEF FormInv, OwnEvent
  <2>5. listed' \subseteq EventID
    BY <1>1, <2>2, <2>3 DEF Fields
  <2>6. \A e \in listed' : e \in listed \/ event[e] # NoEvent
                             \/ (e \in Form /\ Alive(e))
    BY <2>1, <2>3, <2>4
  <2>7. /\ notified' \subseteq Note
        /\ \A n \in notified' : n \in notified \/ n.adrift
                                  \/ n.name = n.organiserID
    <3>1. CASE UploadedTraps(f)
      BY <1>1, <3>1 DEF UploadedTraps
    <3>2. CASE UploadedCut(f)
      <4>1. form[f].rosterChanged => form[f].user # NoUser
        BY <3>2 DEF UploadedCut
      <4>2. notified' \subseteq notified \union NotesOf(f)
        BY <3>2 DEF UploadedCut
      <4> QED
        BY <1>1, <2>1, <4>1, <4>2, ClosureWrites
    <3> QED
      BY <1>3, <3>1, <3>2
  <2> QED
    BY <2>1, <2>5, <2>6, <2>7, CrashKeeps
<1> QED
  BY <1>2, <1>3

(* The closure runs to its end.                                            *)
LEMMA UploadedKeeps ==
  ASSUME FormInv, NEW f \in Form, Uploaded(f)
  PROVE  FormInv'
<1> DEFINE id == form[f].eventID
<1>1. /\ Uploading(f) /\ Alive(f) /\ currentUser # NoUser
      /\ form[f].rosterChanged => form[f].user # NoUser
      /\ event' = [event EXCEPT ![id] = EventOf(f)]
      /\ listed' = listed \union EntriesOf(f)
      /\ notified' = notified \union NotesOf(f)
      /\ End(f, "written")
      /\ UNCHANGED <<currentUser, content, picker, geocodes>>
  BY DEF Uploaded, Alive
<1>2. /\ currentUser \in User /\ id \in EventID
      /\ EventOf(f) \in Event /\ EventOf(f).organiserID = currentUser
      /\ EventOf(f).title = "typed" /\ EventOf(f).description = "typed"
      /\ EventOf(f).location # Unset
      /\ EntriesOf(f) \subseteq {id} /\ NotesOf(f) \subseteq Note
      /\ \A n \in NotesOf(f) : n.adrift \/ n.name = n.organiserID
  BY <1>1, ClosureWrites DEF Fields
<1>3. EventOf(f) # NoEvent
  BY <1>2, EventIsNode
<1>4. \A e \in EventID : event'[e] = IF e = id THEN EventOf(f) ELSE event[e]
  BY <1>1 DEF FormInv, TypeOK
<1>5. /\ stage' \in [Form -> Stage] /\ form' \in [Form -> Fields]
      /\ \A g \in Form :
           /\ stage'[g] = IF g = f THEN "written" ELSE stage[g]
           /\ g # f => form'[g] = form[g]
      /\ ~Alive(f)' /\ ~OnScreen(f)' /\ ~Uploading(f)'
      /\ form'[f].user = NoUser
  BY <1>1, EndStep DEF Stage
<1>6. id = f \/ event[id] # NoEvent
  BY <1>1 DEF FormInv, OwnEvent
<1>7. \A g \in Form : g \in EventID /\ form[g].eventID \in EventID
  BY FormConstants DEF Form, EventID, FormInv, TypeOK, Fields
<1> HIDE DEF id
<1> USE DEF FormInv
<1>8. TypeOK'
  BY <1>1, <1>2, <1>5 DEF TypeOK
<1>9. DoneIsFilled'
  BY <1>5 DEF DoneIsFilled, Uploading
<1>10. UploadedComplete'
  BY <1>2, <1>4 DEF UploadedComplete
<1>11. PinShowsLocation'
  BY <1>5 DEF PinShowsLocation, OnScreen, Address
<1>12. OwnForm' /\ OwnContent' /\ OwnRecord'
  <2>1. OwnForm'
    BY <1>1, <1>2, <1>4, <1>5, <1>7
       DEF OwnForm, Alive, OnScreen, Uploading
  <2>2. content.eventID \in EventID
    BY DEF TypeOK, Content
  <2>3. OwnContent'
    BY <1>1, <1>2, <1>3, <1>4, <2>2 DEF OwnContent
  <2>4. OwnRecord'
    BY <1>1, <1>5 DEF OwnRecord
  <2> QED
    BY <2>1, <2>3, <2>4
<1>13. OwnEvent'
  BY <1>3, <1>4, <1>5, <1>6, <1>7 DEF OwnEvent, Alive, OnScreen, Uploading
<1>14. EntryHasEvent'
  BY <1>1, <1>2, <1>3, <1>4, <1>5, <1>7
     DEF EntryHasEvent, Uploading
<1>15. NamesOrganiser'
  BY <1>1, <1>2 DEF NamesOrganiser
<1> QED
  BY <1>8, <1>9, <1>10, <1>11, <1>12, <1>13, <1>14, <1>15

(* Whoever signs in, forms that are there and of somebody else, and the    *)
(* event shown to somebody else, are adrift.                               *)
LEMMA SignInKeeps ==
  ASSUME FormInv, NEW u \in User, SignIn(u)
  PROVE  FormInv'
<1> USE DEF FormInv
<1>1. /\ currentUser' = u
      /\ UNCHANGED <<event, listed, notified, stage, picker, geocodes>>
      /\ content \in Content /\ form \in [Form -> Fields]
  BY DEF SignIn, TypeOK, database
<1>2. \A f \in Form :
        /\ form'[f] = [form[f] EXCEPT !.adrift =
             form[f].adrift \/ (Alive(f) /\ u # form[f].opener)]
        /\ (Alive(f)' <=> Alive(f)) /\ (Uploading(f)' <=> Uploading(f))
        /\ (OnScreen(f)' <=> OnScreen(f))
  BY <1>1 DEF SignIn, Alive, Uploading, OnScreen
<1>3. ASSUME NEW f \in Form
      PROVE  /\ form'[f] \in Fields /\ form'[f].eventID = form[f].eventID
             /\ form'[f].opener = form[f].opener
             /\ form'[f].user = form[f].user /\ form'[f].title = form[f].title
             /\ form'[f].description = form[f].description
             /\ form'[f].location = form[f].location
             /\ form'[f].pins = form[f].pins
             /\ Alive(f) /\ ~form'[f].adrift =>
                  ~form[f].adrift /\ u = form[f].opener
  <2>1. form[f] \in Fields
    BY <1>1
  <2>2. (form[f].adrift \/ (Alive(f) /\ u # form[f].opener)) \in BOOLEAN
    BY <2>1 DEF Fields
  <2> QED
    BY <1>2, <2>1, <2>2 DEF Fields
<1>4. /\ content' \in Content
      /\ content'.eventID = content.eventID /\ content'.event = content.event
      /\ content'.offered = content.offered
      /\ content'.isOpen = content.isOpen
      /\ content.event # NoEvent /\ ~content'.adrift =>
           ~content.adrift /\ u = currentUser
  <2>1. (content.adrift \/ (content.event # NoEvent /\ u # currentUser))
          \in BOOLEAN
    BY <1>1 DEF Content
  <2> QED
    BY <1>1, <2>1 DEF SignIn, Content
<1>5. TypeOK'
  <2>1. form' = [f \in Form |-> form'[f]]
    BY DEF SignIn
  <2>2. form' \in [Form -> Fields]
    BY <1>3, <2>1
  <2> QED
    BY <1>1, <1>4, <2>2 DEF TypeOK
<1>6. DoneIsFilled' /\ UploadedComplete' /\ PinShowsLocation'
  <2>1. DoneIsFilled'
    BY <1>2, <1>3 DEF DoneIsFilled
  <2>2. UploadedComplete'
    BY <1>1 DEF UploadedComplete
  <2>3. PinShowsLocation'
    BY <1>2, <1>3 DEF PinShowsLocation, Address
  <2> QED
    BY <2>1, <2>2, <2>3
<1>7. OwnForm'
  BY <1>1, <1>2, <1>3 DEF OwnForm
<1>8. OwnContent'
  BY <1>1, <1>4 DEF OwnContent
<1>9. OwnRecord' /\ OwnEvent'
  BY <1>1, <1>2, <1>3 DEF OwnRecord, OwnEvent
<1>10. EntryHasEvent' /\ NamesOrganiser'
  BY <1>1 DEF EntryHasEvent, NamesOrganiser
<1> QED
  BY <1>5, <1>6, <1>7, <1>8, <1>9, <1>10

LEMMA SignOutKeeps ==
  ASSUME FormInv, SignOut
  PROVE  FormInv'
<1> USE DEF FormInv
<1>1. /\ UNCHANGED <<event, listed, notified, stage, form, picker, geocodes>>
      /\ currentUser' = NoUser /\ content' = NoContent
  BY DEF SignOut, database
<1>2. TypeOK' /\ OwnContent'
  BY <1>1, NoContentType DEF TypeOK, OwnContent, NoContent
<1>3. DoneIsFilled' /\ UploadedComplete' /\ PinShowsLocation'
  BY <1>1 DEF DoneIsFilled, UploadedComplete, PinShowsLocation, Uploading,
              OnScreen, Address
<1>4. OwnForm' /\ OwnRecord' /\ OwnEvent'
  BY <1>1 DEF OwnForm, OwnRecord, OwnEvent, Alive, OnScreen, Uploading
<1>5. EntryHasEvent' /\ NamesOrganiser'
  BY <1>1 DEF EntryHasEvent, NamesOrganiser
<1> QED
  BY <1>2, <1>3, <1>4, <1>5

-----------------------------------------------------------------------------
LEMMA FormStep == FormInv /\ [Next]_vars => FormInv'
<1> SUFFICES ASSUME FormInv, [Next]_vars PROVE FormInv'
  OBVIOUS
<1>1. CASE UNCHANGED vars
  <2>1. picker' \in Picker
          /\ geocodes' \in Seq([form : Form, place : Place])
    BY <1>1 DEF vars, FormInv, TypeOK
  <2> QED
    BY <1>1, <2>1, PickerKeeps DEF vars
<1>2. CASE SignOut \/ \E u \in User : SignIn(u)
  BY <1>2, SignInKeeps, SignOutKeeps
<1>3. CASE \/ \E e \in EventID : ReadEvent(e)
           \/ ShowEvent \/ EditPressed \/ LeaveContent \/ OpenEditTraps
  BY <1>3, ContentKeeps, DeathsKeep
<1>4. ASSUME NEW f \in Form,
             \/ OpenNew(f) \/ OpenEdit(f)
             \/ \E text \in Text : EditTitle(f, text) \/ EditDescription(f, text)
             \/ BeginEditing(f) \/ ImagePicked(f) \/ ChangeRoster(f)
             \/ UserRead(f) \/ UserMissing(f)
             \/ PickLocation(f) \/ ConfirmPressed(f)
             \/ Leave(f) \/ Done(f)
             \/ UploadFails(f) \/ NobodySignedIn(f)
             \/ Uploaded(f) \/ UploadedTraps(f) \/ UploadedCut(f)
      PROVE  FormInv'
  <2>1. CASE OpenNew(f) \/ OpenEdit(f)
    BY <2>1, OpenNewKeeps, OpenEditKeeps
  <2>2. CASE \/ \E text \in Text :
                  EditTitle(f, text) \/ EditDescription(f, text)
             \/ BeginEditing(f) \/ ImagePicked(f) \/ ChangeRoster(f)
    BY <2>2, EditsKeep
  <2>3. CASE UserRead(f) \/ UserMissing(f)
    BY <2>3, ReadsKeep
  <2>4. CASE PickLocation(f) \/ ConfirmPressed(f)
    BY <2>4, PickLocationKeeps, ConfirmKeeps
  <2>5. CASE Leave(f) \/ UploadFails(f) \/ NobodySignedIn(f)
    BY <2>5, EndKeeps
  <2>6. CASE Done(f)
    BY <2>6, DoneKeeps
  <2>7. CASE Uploaded(f)
    BY <2>7, UploadedKeeps
  <2>8. CASE UploadedTraps(f) \/ UploadedCut(f)
    BY <2>8, DeathsKeep
  <2> QED
    BY <1>4, <2>1, <2>2, <2>3, <2>4, <2>5, <2>6, <2>7, <2>8
<1>5. CASE \/ \E p \in Place :
                \/ UpdateSearchResults(p) \/ SearchAnswers(p) \/ SearchFails(p)
           \/ SelectRow \/ BackToForm
  BY <1>5, SearchKeeps
<1>6. CASE \E i \in 1..Len(geocodes) : GeocodeAnswers(i) \/ GeocodeFails(i)
  BY <1>6, GeocodeKeeps
<1> QED
  BY <1>1, <1>2, <1>3, <1>4, <1>5, <1>6 DEF Next

(* Everything FormInv says holds throughout.                               *)
THEOREM FormInductive == Spec => []FormInv
<1> QED
  BY FormStarts, FormStep, PTL DEF Spec

(* The fields the closure reads are those done has checked, so that every  *)
(* event written is complete.                                              *)
THEOREM EventsComplete == Spec => [](TypeOK /\ UploadedComplete)
<1>1. FormInv => TypeOK /\ UploadedComplete
  BY DEF FormInv
<1> QED
  BY <1>1, FormInductive, PTL

(* The pin of a form is where its text says, for any order of answers.     *)
THEOREM PinAtLocation == Spec => []PinShowsLocation
<1>1. FormInv => PinShowsLocation
  BY DEF FormInv
<1> QED
  BY <1>1, FormInductive, PTL

(* Entries without an event are left only by a process that died, and an   *)
(* invitation names another user than the organiser only if the user of    *)
(* the form was replaced, by a sign-in that came late or after a sign-out. *)
THEOREM ClosureSound == Spec => [](EntryHasEvent /\ NamesOrganiser)
<1>1. FormInv => EntryHasEvent /\ NamesOrganiser
  BY DEF FormInv
<1> QED
  BY <1>1, FormInductive, PTL

(* Only a form whose user was replaced gives an event away.                *)
LEMMA OnlyAdriftTakes ==
  ASSUME FormInv, [Next]_vars, NEW e \in EventID, event[e] # NoEvent,
         event'[e].organiserID # event[e].organiserID
  PROVE  \E f \in Form : form[f].adrift /\ stage'[f] = "written"
<1>1. event' # event
  OBVIOUS
<1>2. PICK f \in Form : Uploaded(f)
  BY <1>1 DEF Next, vars, database, SignOut, SignIn, ReadEvent, ShowEvent,
     EditPressed, LeaveContent, SetContent, OpenEditTraps, Crash, OpenNew,
     OpenEdit, Open, EditTitle, EditDescription, BeginEditing,
     ImagePicked, ChangeRoster, SetField, UserRead, UserMissing, PickLocation,
     ConfirmPressed, Leave, Done, UploadFails, NobodySignedIn, UploadedTraps,
     UploadedCut, UpdateSearchResults, SearchAnswers, SearchFails, SelectRow,
     BackToForm, SetPicker, GeocodeAnswers, GeocodeFails
<1>3. /\ Uploading(f) /\ Alive(f) /\ End(f, "written")
      /\ event' = [event EXCEPT ![form[f].eventID] = EventOf(f)]
  BY <1>2 DEF Uploaded, Alive
<1>4. form[f].eventID = e /\ EventOf(f).organiserID = currentUser
  BY <1>3 DEF FormInv, TypeOK, EventOf
<1>5. form[f].adrift
  BY <1>2, <1>3, <1>4 DEF Uploaded, FormInv, OwnForm, TypeOK
<1>6. stage'[f] = "written"
  BY <1>3, EndStep DEF Stage
<1> QED
  BY <1>5, <1>6

(* The closure signs an event with another user than before only when the  *)
(* user was replaced since the form, or the screen it was opened from, was *)
(* there (AddEventVC, EventContentVC, LoginVC).                            *)
THEOREM KeepsOrganiser == Spec => EventKeepsOrganiser
<1>1. FormInv /\ [Next]_vars =>
        [\A e \in EventID :
           event[e] # NoEvent /\ event'[e].organiserID # event[e].organiserID
             => \E f \in Form : form[f].adrift /\ stage'[f] = "written"]_vars
  BY OnlyAdriftTakes
<1> QED
  BY <1>1, FormInductive, PTL DEF Spec, EventKeepsOrganiser
=============================================================================
