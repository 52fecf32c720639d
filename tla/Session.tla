------------------------------ MODULE Session ------------------------------
(***************************************************************************)
(* The session of one phone: signing in by mail, Facebook or Google (the   *)
(* last two alike), registering, signing out, and what the event list      *)
(* (MainVC) and the profile tab (ProfileVC, EditProfileInfoVC) show of     *)
(* whom.                                                                   *)
(*                                                                         *)
(* A query registers an observer for the user signed in at that time; no   *)
(* handler ever removes one.  A change calls the observers in the order in *)
(* which they were registered, each in a turn of the main queue.  All      *)
(* observers of the events are called together, of a user/<uid> only those *)
(* of that user, so that the order counts among the former alone.          *)
(***************************************************************************)
EXTENDS Naturals, Sequences, FiniteSets

CONSTANTS
  User,          \* the people who use the phone
  NoUser,        \* nobody
  Revoke,        \* the database ends the observers of a user who signs out
  MaxVersion,    \* bound: changes of the events
  MaxObservers,  \* bound: observers of the events, and of each user
  MaxSignIns     \* bound: sign-ins under way at once

ASSUME SessionConstants ==
  /\ NoUser \notin User /\ Revoke \in BOOLEAN
  /\ MaxVersion \in Nat /\ MaxObservers \in Nat /\ MaxSignIns \in Nat

VARIABLES
  accounts,       \* the users Firebase Auth knows
  records,        \* user/<uid>: whose email it holds, NoUser if absent
  version,        \* of event/*
  currentUser,    \* Auth.auth().currentUser
  screen,         \* the tabs, LoginVC, or RegisterVC after its success
  signIns,        \* sign-ins under way
  eventObservers, \* of event/*: for whom, in the order of registration
  userObservers,  \* how many there are of user/<uid>
  calls,          \* observer calls to come, in order
  eventData,      \* hostEventData and joinedEventData: whose, and how old
  profileLoaded,  \* ProfileVC exists
  editEnabled,    \* its edit button
  user,           \* ProfileVC.user
  editing,        \* EditProfileInfoVC.user while that screen is open
  uploads         \* profile images being uploaded

observers == <<eventObservers, userObservers>>
remote == <<accounts, records, version>>
profile == <<profileLoaded, editEnabled, user, editing>>
vars == <<remote, currentUser, screen, signIns, observers, calls, eventData,
          profile, uploads>>

NoRecord == [userID |-> NoUser, email |-> NoUser]
NoEvents == [user |-> NoUser, version |-> 0]

Record == [userID : User, email : User]
Call ==
  [kind : {"event"}, user : User, value : 0..MaxVersion]
    \union [kind : {"user"}, user : User, value : User \union {NoUser}]
SignIn == [user : User, social : BOOLEAN, step : {"auth", "read"}]

TypeOK ==
  /\ accounts \subseteq User
  /\ records \in [User -> User \union {NoUser}]
  /\ version \in 0..MaxVersion
  /\ currentUser \in accounts \union {NoUser}
  /\ screen \in {"tabs", "login", "registered"}
  /\ signIns \subseteq SignIn
  /\ eventObservers \in Seq(User)
  /\ userObservers \in [User -> 0..MaxObservers]
  /\ calls \in Seq(Call)
  /\ eventData \in [user : User, version : 0..MaxVersion] \union {NoEvents}
  /\ profileLoaded \in BOOLEAN /\ editEnabled \in BOOLEAN
  /\ user \in Record \union {NoRecord} /\ editing \in Record \union {NoRecord}
  /\ uploads \subseteq Record

-----------------------------------------------------------------------------
(* Observers: getData calls back at once and at every change.              *)

EventCall(u, value) == [kind |-> "event", user |-> u, value |-> value]
UserCall(u, value) == [kind |-> "user", user |-> u, value |-> value]

EventCalls(value) ==
  [i \in 1..Len(eventObservers) |-> EventCall(eventObservers[i], value)]

UserCalls(u, value) == [i \in 1..userObservers[u] |-> UserCall(u, value)]

ObserveEvents(u) == eventObservers' = Append(eventObservers, u)

ObserveUser(u) == userObservers' = [userObservers EXCEPT ![u] = @ + 1]

InBounds ==
  /\ Len(eventObservers') <= MaxObservers
  /\ \A u \in User : userObservers'[u] <= MaxObservers

-----------------------------------------------------------------------------
(* The tabs as a launch, or the segue out of LoginVC, makes them: MainVC   *)
(* queries for whoever is signed in, ProfileVC waits for its first tap.    *)
Tabs(u) ==
  /\ eventObservers' = IF u = NoUser THEN <<>> ELSE <<u>>
  /\ userObservers' = [v \in User |-> 0]
  /\ calls' = IF u = NoUser THEN <<>> ELSE <<EventCall(u, version)>>
  /\ eventData' = NoEvents
  /\ profileLoaded' = FALSE /\ editEnabled' = FALSE
  /\ user' = NoRecord /\ editing' = NoRecord
  /\ screen' = "tabs"

(* Firebase Auth keeps the session of the last launch.                     *)
Init ==
  /\ accounts \in SUBSET User
  /\ records = [u \in User |-> IF u \in accounts THEN u ELSE NoUser]
  /\ version = 0
  /\ currentUser \in accounts \union {NoUser}
  /\ screen = "tabs" /\ signIns = {}
  /\ eventObservers = IF currentUser = NoUser THEN <<>> ELSE <<currentUser>>
  /\ userObservers = [u \in User |-> 0]
  /\ calls = EventCalls(version)
  /\ eventData = NoEvents
  /\ profileLoaded = FALSE /\ editEnabled = FALSE
  /\ user = NoRecord /\ editing = NoRecord
  /\ uploads = {}

(* A forced unwrap traps: the process starts again.                        *)
Relaunch ==
  /\ Tabs(currentUser)
  /\ signIns' = {} /\ uploads' = {}
  /\ UNCHANGED <<remote, currentUser>>

-----------------------------------------------------------------------------
(* The "login" notification: MainVC and, once it exists, ProfileVC query   *)
(* for the user signed in by then.  `before` are calls already due.        *)

ProfileDidLogin(u) ==
  /\ IF profileLoaded THEN ObserveUser(u) ELSE UNCHANGED userObservers
  /\ editEnabled' = (editEnabled \/ profileLoaded)

ProfileCalls(u) ==
  IF profileLoaded THEN <<UserCall(u, records'[u])>> ELSE <<>>

(* Mutant: a list that is already loaded is not queried again.             *)
PostLoginOnce(u, before) ==
  IF u = NoUser \/ eventData # NoEvents
    THEN calls' = calls \o before /\ UNCHANGED <<observers, editEnabled>>
    ELSE /\ ObserveEvents(u) /\ ProfileDidLogin(u)
         /\ calls' = calls \o before \o <<EventCall(u, version)>>
                     \o ProfileCalls(u)
         /\ InBounds

PostLogin(u, before) ==
  IF u = NoUser
    THEN calls' = calls \o before /\ UNCHANGED <<observers, editEnabled>>
    ELSE /\ ObserveEvents(u) /\ ProfileDidLogin(u)
         /\ calls' = calls \o before \o <<EventCall(u, version)>>
                     \o ProfileCalls(u)
         /\ InBounds

DismissLogin == screen' = IF screen = "login" THEN "tabs" ELSE screen

ShowLogin ==
  /\ screen = "tabs" /\ currentUser = NoUser
  /\ screen' = "login"
  /\ UNCHANGED <<remote, currentUser, signIns, observers, calls, eventData,
                 profile, uploads>>

LaterPressed ==
  /\ screen = "login"
  /\ screen' = "tabs"
  /\ UNCHANGED <<remote, currentUser, signIns, observers, calls, eventData,
                 profile, uploads>>

(* A password signs in an account that exists.                             *)
SignInPressed(u, social) ==
  /\ screen = "login"
  /\ social \/ u \in accounts
  /\ Cardinality(signIns) < MaxSignIns
  /\ signIns' = signIns \union {[user |-> u, social |-> social, step |-> "auth"]}
  /\ UNCHANGED <<remote, currentUser, screen, observers, calls, eventData,
                 profile, uploads>>

(* An error ends a sign-in before anybody is signed in; the read after it  *)
(* has no error path and may never come back.                              *)
SignInFails(s) ==
  /\ s.step = "auth"
  /\ signIns' = signIns \ {s}
  /\ UNCHANGED <<remote, currentUser, screen, observers, calls, eventData,
                 profile, uploads>>

SignedIn(s) ==
  /\ ~s.social
  /\ currentUser' = s.user
  /\ UNCHANGED <<remote, eventData, profileLoaded, user, editing, uploads>>
  /\ PostLogin(s.user, <<>>)
  /\ DismissLogin
  /\ signIns' = signIns \ {s}

(* Facebook and Google read user/<uid> before they post "login".           *)
SocialSignedIn(s) ==
  /\ s.social /\ s.step = "auth"
  /\ currentUser' = s.user
  /\ accounts' = accounts \union {s.user}
  /\ signIns' = (signIns \ {s}) \union {[s EXCEPT !.step = "read"]}
  /\ UNCHANGED <<records, version, screen, observers, calls, eventData,
                 profile, uploads>>

(* What the record of u holds after the read of a sign-in.                 *)
FirstRecord(u) == IF records[u] = NoUser THEN u ELSE records[u]

SocialRead(s) ==
  /\ s.step = "read"
  /\ records' = [records EXCEPT ![s.user] = FirstRecord(s.user)]
  /\ PostLogin(currentUser,
               IF records' = records THEN <<>> ELSE UserCalls(s.user, s.user))
  /\ DismissLogin
  /\ signIns' = signIns \ {s}
  /\ UNCHANGED <<accounts, version, currentUser, eventData, profileLoaded,
                 user, editing, uploads>>

(* logoutPressed, and what "logout" does to MainVC and ProfileVC.          *)
Logout ==
  /\ screen = "tabs" /\ profileLoaded /\ editing = NoRecord
  /\ currentUser # NoUser
  /\ currentUser' = NoUser
  /\ IF Revoke THEN eventObservers' = <<>> /\ userObservers' = [u \in User |-> 0]
               ELSE UNCHANGED observers
  /\ eventData' = NoEvents
  /\ editEnabled' = FALSE
  /\ screen' = "login"
  /\ UNCHANGED <<remote, signIns, calls, profileLoaded, user, editing,
                 uploads>>

-----------------------------------------------------------------------------
(* RegisterVC: createUser also signs the new user in, and nobody posts     *)
(* "login".  The success is announced before the upload has ended.         *)
RegisterPressed(u) ==
  /\ screen = "login" /\ u \notin accounts
  /\ accounts' = accounts \union {u}
  /\ currentUser' = u
  /\ uploads' = uploads \union {[userID |-> u, email |-> u]}
  /\ screen' = "registered"
  /\ UNCHANGED <<records, version, signIns, observers, calls, eventData,
                 profile>>

(* LoginVC appears again, finds a user and presents new tabs.              *)
RegisterLeft ==
  /\ screen = "registered" /\ currentUser # NoUser
  /\ Tabs(currentUser)
  /\ UNCHANGED <<remote, currentUser, signIns, uploads>>

-----------------------------------------------------------------------------
(* MainVC.                                                                 *)

RefreshData ==
  /\ screen = "tabs" /\ currentUser # NoUser
  /\ ObserveEvents(currentUser)
  /\ calls' = Append(calls, EventCall(currentUser, version))
  /\ UNCHANGED <<remote, currentUser, screen, signIns, userObservers,
                 eventData, profile, uploads>>
  /\ InBounds

EventsChange ==
  /\ version < MaxVersion
  /\ version' = version + 1
  /\ calls' = calls \o EventCalls(version')
  /\ UNCHANGED <<accounts, records, currentUser, screen, signIns, observers,
                 eventData, profile, uploads>>

Due(kind) == calls # <<>> /\ Head(calls).kind = kind

EventCalled ==
  /\ Due("event")
  /\ eventData' = [user |-> Head(calls).user, version |-> Head(calls).value]
  /\ calls' = Tail(calls)
  /\ UNCHANGED <<remote, currentUser, screen, signIns, observers, profile,
                 uploads>>

-----------------------------------------------------------------------------
(* ProfileVC and EditProfileInfoVC.                                        *)

ProfileDidLoad ==
  /\ screen = "tabs" /\ ~profileLoaded
  /\ profileLoaded' = TRUE
  /\ editEnabled' = (currentUser # NoUser)
  /\ IF currentUser = NoUser
       THEN UNCHANGED <<userObservers, calls>>
       ELSE /\ ObserveUser(currentUser)
            /\ calls' = Append(calls, UserCall(currentUser, records[currentUser]))
  /\ UNCHANGED <<remote, currentUser, screen, signIns, eventObservers,
                 eventData, user, editing, uploads>>
  /\ InBounds

(* Mutant: the callback does not look whether there is a record.           *)
UserCalledUnguarded ==
  /\ Due("user")
  /\ user' = [userID |-> Head(calls).user, email |-> Head(calls).value]
  /\ calls' = Tail(calls)
  /\ UNCHANGED <<remote, currentUser, screen, signIns, observers, eventData,
                 profileLoaded, editEnabled, editing, uploads>>

(* An absent record leaves everything as it is.  The labels and the image  *)
(* the callback sets next, from the same record, are not state here.       *)
UserCalled ==
  /\ Due("user")
  /\ LET c == Head(calls)
     IN  \/ /\ c.value # NoUser
            /\ user' = [userID |-> c.user, email |-> c.value]
         \/ c.value = NoUser /\ UNCHANGED user
  /\ calls' = Tail(calls)
  /\ UNCHANGED <<remote, currentUser, screen, signIns, observers, eventData,
                 profileLoaded, editEnabled, editing, uploads>>

EditPressed ==
  /\ screen = "tabs" /\ editEnabled /\ editing = NoRecord
  /\ user # NoRecord
  /\ editing' = user
  /\ UNCHANGED <<remote, currentUser, screen, signIns, observers, calls,
                 eventData, profileLoaded, editEnabled, user, uploads>>

(* viewDidLoad of EditProfileInfoVC unwraps a user that was not read yet.  *)
EditTraps ==
  /\ screen = "tabs" /\ editEnabled /\ editing = NoRecord
  /\ user = NoRecord
  /\ Relaunch

(* donePressed, or back when `save` is false.                              *)
EditLeft(save) ==
  /\ screen = "tabs" /\ editing # NoRecord
  /\ editing' = NoRecord
  /\ uploads' = IF save /\ currentUser # NoUser
                  THEN uploads \union {[userID |-> currentUser,
                                        email |-> editing.email]}
                  ELSE uploads
  /\ UNCHANGED <<remote, currentUser, screen, signIns, observers, calls,
                 eventData, profileLoaded, editEnabled, user>>

UploadDone(p) ==
  /\ records' = [records EXCEPT ![p.userID] = p.email]
  /\ calls' = calls \o UserCalls(p.userID, p.email)
  /\ uploads' = uploads \ {p}
  /\ UNCHANGED <<accounts, version, currentUser, screen, signIns, observers,
                 eventData, profile>>

UploadFails(p) ==
  /\ uploads' = uploads \ {p}
  /\ UNCHANGED <<remote, currentUser, screen, signIns, observers, calls,
                 eventData, profile>>

-----------------------------------------------------------------------------
Next ==
  \/ ShowLogin \/ LaterPressed \/ Logout
  \/ \E u \in User :
       RegisterPressed(u) \/ (\E social \in BOOLEAN : SignInPressed(u, social))
  \/ \E s \in signIns :
       SignInFails(s) \/ SignedIn(s) \/ SocialSignedIn(s) \/ SocialRead(s)
  \/ RegisterLeft \/ RefreshData \/ EventsChange \/ EventCalled
  \/ ProfileDidLoad \/ UserCalled
  \/ EditPressed \/ EditTraps \/ (\E b \in BOOLEAN : EditLeft(b))
  \/ \E p \in uploads : UploadDone(p) \/ UploadFails(p)

Spec == Init /\ [][Next]_vars

-----------------------------------------------------------------------------
(* Properties.                                                             *)

(* "login" has been posted for whoever is signed in.                       *)
Announced ==
  /\ screen # "registered"
  /\ \A s \in signIns : s.step = "read" => s.user # currentUser

EventCallsDue ==
  \E i \in 1..Len(calls) : calls[i].kind = "event"

(* Once no call is due, the event list is the one of the user signed in,   *)
(* and up to date: the observers of earlier users are still registered and *)
(* fill the same arrays, but those of the latest login are called last.    *)
EventListIsMine ==
  currentUser # NoUser /\ Announced /\ ~EventCallsDue
    => eventData = [user |-> currentUser, version |-> version]

(* EditProfileInfoVC uploads "the user's data": no record holds the email  *)
(* of somebody else.                                                       *)
EmailIsOwn == \A u \in User : records[u] \in {u, NoUser}
=============================================================================
