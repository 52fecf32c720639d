# Get together: TLA+ models, checks and proofs

Get together is an iOS app (Swift, about 4 250 lines under
`Get together/Get together/`) with which users create events, invite each
other, answer, leave, comment and set reminders.  There is no server code: the
phones share a Firebase Realtime Database and every rule of the app is what
the view controllers read from it and write to it.  Nothing is transactional.
A handler issues a few independent `setValue` / `updateChildValues` /
`removeValue` calls, mostly computed from a snapshot read when a screen was
opened.  That is where the difficulty lies, and what these models are about.

## Inventory

| Component | State it keeps | Operations | Interacts with |
|---|---|---|---|
| `AddEventVC` (event form) | `members`, `originalMemers`, `deletedMembers`, fields, picture, `event` | add / delete a member, `done`, the upload closure, `cancelPressed`, geocoding | storage upload, `event`, `invitingEventList`, `invitingMemberList`, `notification` |
| `EventContentVC` (an event) | a copy of the event, `memberData`, the prompt, the notification it was opened from | `queryEventList`, `queryUserData`, agree, reject, drop out, edit | the same nodes; opens the form, comments, reminders, pending invitees |
| `MainVC` (event list) | `hostEventData`, `joinedEventData` | observer on `event`, open, add | login / logout notifications |
| `NotificationVC` | `notificationData`, `joinedEventData` (parallel arrays) | observer on `notification`, one read per notification, row tap | opens events, marks notifications read |
| `AppDelegate` | the badge | observer on `notification`, Google sign-in | tab bar |
| `EventAlertVC` (reminders) | `alertStatus` in UserDefaults, pending local notification requests | switch an option | notification centre, clock |
| `CommentVC` | `commentData`, the text box | post, notify the others, delete | `comment`, `notification` |
| `MemberSearchVC`, `InvitingMemberVC` | lists | read, choose | the form, `invitingMemberList` |
| `LoginVC`, `RegisterVC`, `EditProfileInfoVC`, `ResetPasswordVC`, `ProfileVC`, `RootVC` | the session, the profile | sign in by mail, Facebook, Google; register; edit | `user`, login / logout notifications |
| `LocationVC`, `LocationSearchVC` | search results, a pin | search, choose | the form |
| `FirebaseManager` | observers, picture cache | `getData` (an observer nobody removes), `getDataBySingleEvent`, `getImage`, `uploadImage` | everything |

Hard behaviours: writes computed from stale copies of `memberIDs`; a picture
upload of any length between the form and its writes; a queue of writes that
dies with the process (`isPersistenceEnabled` is commented out); invitations
that are visible before their event; observers that are never removed, so
callbacks overlap; forced casts and unwraps of what others wrote; triggers
without a year.  `PROJECT.json` lists each hazard at its line.

What makes the components correct: nobody is a member without consent; the
`""` that keeps the `memberIDs` node alive is never lost; organisers stay
organisers; whoever is recorded as joined (`invitingEventList`) is in
`memberIDs`, and whoever is pending (`invitingMemberList`) has not answered; a
crash leaves nothing half done that cannot be read; a row opens what it shows;
reminders come when they were asked for and not once they were switched off.

## Modules

**EventRoster** is the form as operators on a record: which taps
`didUpdateMember` accepts, what `deleteData` remembers, and the three sets the
upload closure computes (`EditedMembers`, `RemovedMembers`,
`FinalMemberIDs`).  Arrays are sets, since every reader of them takes
`Set(...)` or filters by value.

**Membership** (extends EventRoster) is the protocol.  The database is
`event`, `invitingEventList`, `invitingMemberList` and `notification`; each
user has one phone with an `EventContentVC` (`view`), an `AddEventVC`
(`form`), `uploads` under way and an `outbox` of writes issued and not yet
applied.  A handler is one action that enqueues its writes in the order of the
code; `Deliver` applies one.  `Crash`, and every trap the code can run into
(`RejectTraps`, `QueryEventListTraps`), loses the phone's screens, uploads and
queue.  `creator` records who was given an event id, `agreed` (history) who
ever tapped agree, and `invitees` of an event node (history) whom its form
invited.  Decisions:

- An event is opened only when the phone's own queue is empty.  The SDK shows
  a phone its own writes before the server has them; opening after their
  delivery gives the same copy.  A copy that lags behind other phones is one
  that was opened early: a screen may stay open for ever.
- `memberIDs = {}` is a node without `memberIDs`, which is what Firebase makes
  of an empty array.  An entry is the set of keys it has and two Booleans, so
  `updateChildValues` on a missing node creates a partial one.
- `isRemoved` is written and never read; `memberList` and `eventList` are only
  ever removed: none of them is state.
- Uploads are a set of forms: two identical edits under way at once are one.
- An upload that fails, a missing picture and `user` not yet loaded all end in
  `UploadFails` or `Crash`.

**Consent** is what Membership promises, as a specification of its own: an
event is created, published and changed, users are invited and agree, and a
list only ever holds users who agreed (`Orderly`).  It knows no phones, copies
or queues.  Membership implements it (`FollowsRules`): `organiser` is
`creator`, `invited` is who has a complete invitation (`Invited`), `members`
is `memberIDs` without the `""` (`Members`), and an unpublished event is one
whose node does not exist.  A stale write of the whole array is a `Change`: it
may drop whom it likes and add only users who agreed at some time.

**EventForm** is the form itself, on one phone whose users sign in and out:
the texts, the picture, the record of the user, the location with its picker
and geocoder, the check of `done`, the upload and the closure after it, and the
screen an edit starts from.  EventRoster has the members; here `rosterChanged`
says that the closure writes invitations and notifications.  Decisions:

- Form `f` makes the event `f`; event 0 was there before.  A form that ended
  keeps only who opened it and which event it was about.
- `done` leaves the screen and the closure keeps the form, so several forms
  upload at once.
- `SignIn` has no guard: a sign-in that `LoginVC` was left with lands whenever
  it is answered (`LoginVC.swift:60`, `107`, `150`), also under an open form, an
  upload or an edit sheet, and may replace a user who never signed out.  It
  changes `currentUser` and nothing else; the "login" it posts later pops the
  screens (`MainVC.swift:68`), which is `Leave` or `LeaveContent`.
- `content` is one event that a list has read, at whatever time, and
  EventContentVC while it shows it.  `editPressed` compares the organiser of
  that copy with the user (`MayEdit`); the tap on the sheet opens the form
  later (`OpenEdit`), with the copy's texts.
- `adrift` is a history: of a form, that another user has signed in than the
  one who opened it, of the screen, that the user has changed since its event
  was read; a form opened from such a screen is adrift from the start.  The
  properties need it, the code does not have it.
- Signing out takes the profile tab, and `RootVC` pops the tabs of the form
  when they are left (`PoppedToRoot`); an upload goes on all the same.
  `tabBar(_:didSelect:)` still sees the index of the tab that is left.
- A text is empty or typed, the description may also show its grey hint; a
  place stands for the text that finds it, and `Nameless` places get an empty
  address, which passes for a location.
- The closure is one action, for it does not wait; `UploadedTraps` and
  `UploadedCut` are the deaths of the process in it.  The date, the progress
  view and the picture itself are left out.

**NotificationList** is the notification tab and the badge for one user.
`getData` registers an observer that stays; `calls` are the observer calls to
come, `reads` the event reads to come, both in order (one connection), and the
two interleave freely.  A call changes `notificationData` without touching the
table: `rows` is what the table drew, and the only reloads are those a read
posts when it has found its event (`reloads`, a later turn of the main queue)
and that of a query which finds no notification loaded.  A tap takes the row's
index into both arrays, so a stale row opens and marks what stands there now;
out of range it traps and restarts the process (`SelectRowTraps`).  A
notification may enter the list anywhere, since its time is of the sender's
clock.  Account switches of this tab are left out.

**EventAlert** is the reminder screen of one event on one phone.  Minutes are
numbers, a year is `Year` minutes, and a trigger waits for the next minute
that agrees with the wanted one modulo `Year`.  `shown` is the date in the
event object the screens were opened with, `date` the one in the database,
which may be moved to any minute, also one that has passed: the picker's minimum
is set when the form loads and the date written later, or as it was.  A tap
changes two stores, and neither at once.  `alertStatus` is UserDefaults as the
process has it, `stored` the disk, which `Synchronize` brings up to it; `orders`
are the requests and removals the notification centre has still to take
(`Serve`, in the order of the process's calls, or `Refuse`).  `Die` loses what
was not stored or served; `cut` (history) names the rows it cut.

**CommentThread** is the comment screen on one phone while others comment.
`comments` is the database, `commentData` the array, `rows` what the table
drew: the observer replaces the array at once and the table follows in a later
turn of the main queue, so a row may show something else than its index names.
Deleting by a stale index, or with a number of rows the table does not expect,
kills the process (`SwipeTraps`, `CellForRowTraps`, `CommitDeleteTraps`).
Decisions:

- A new comment may enter the list anywhere: the order is by time, and each
  phone stamps its comments with its own clock.
- Opening the screen makes a new screen instance with its own observer; the
  observer of one that is gone changes nothing a user can see.
- A comment is written at once, the others are told when its author was read
  (`AuthorRead`, `AuthorMissing`), by one queued write per recipient, the
  organiser's first (`outbox`, `Send`).  A death of the process, which may come
  at any time (`Die`), loses what was not sent; `cut` (history) names the
  comments it cut.
- A comment and a removal count as sent when they are issued, except for a
  removal issued in the very turn that traps (`CommitDeleteTraps`).

**CommentAge** is the arithmetic of `getTimeDifferentWith`: the stamp without
a zone, its reading as Taipei time, truncating division and the four units.
CommentThread extends it: `LabelRounds` and `NeverYounger` are about the rows
on the screen.  `Zone` is the set of zones that phones are in.  What a row can
know is the age that Taipei's time reads off the stamp (`TaipeiAge`), which is
the true one for comments from Taipei only: one from Tokyo starts at minus sixty
minutes, one from Greenwich at eight hours.

**Session** is who is signed in on one phone and whose data the event list and
the profile tab show.  Observers are never removed by a handler; `Revoke` says
whether the database's rules end those of a user who signs out, which the code
does not decide.  `eventObservers` are those of the event list in the order
of registration, `userObservers` counts those of each `user/<uid>`, and `calls`
are the calls to come.  Mail sign-in posts "login" in its answer; Facebook and Google
(one action for both) first read `user/<uid>`.  Decisions:

- `RegisterVC` signs the new user in without posting "login"; when it is left,
  `LoginVC` finds a user and presents new tabs over the old ones
  (`RegisterLeft`), and only the new ones are modelled from then on.
- The answer of a social sign-in's read and the write it causes are one step.
- The values are whose they are and how old, not what they say: an event list
  is a user and a version, a record is the user whose email it holds.  The
  labels and the picture of the profile tab are left out.
- An account is created and signed in in one step (`createUser` does both).
- The observers of `NotificationVC` and of the badge are left out.
- `PostLogin` is what the post of "login" does: `MainVC.didUserLogin`, and
  `ProfileVC.didUserLogin` (`ProfileDidLogin`, `ProfileCalls`) once that tab
  exists.

`MCMembership`, `MCEventForm`, `MCNotificationList`, `MCEventAlert`,
`MCCommentThread` and `MCSession` instantiate these for TLC.  The theorems are in `Membership_proofs`,
`MembershipOrder_proofs`, `EventForm_proofs`, `NotificationList_proofs`,
`EventAlert_proofs`, `CommentThread_proofs` (which has those about `CommentAge`
too), `Session_proofs` and, being few, in `Consent` itself.

## Runs

| Run | Shows |
|---|---|
| `membership_pair` | an organiser and a guest, every interleaving with crashes, behaviours of any length: `SentinelKept`, `OnlyConsenting`, `OrganiserKept`, `InvitesFirst`, `NoSilentJoin`, `RostersSound`, the invariant the proofs use, and `FollowsRules`: every step is one that `Consent` allows |
| `membership_serial` | three users, phones in turn (`SerialSpec`): whenever all phones are quiet, whoever is recorded as joined is listed by the event (`AcceptedIsMember`; the converse does not hold, see below) and the pending list is who still has to answer (`PendingIsUnanswered`).  So the losses below come from overlap, not from a handler by itself |
| `lost_agreement` (violation) | two guests who agree from the same copy: one of them is lost from `memberIDs`.  Nobody edits in this run (`Editors`), so that no stale edit is the cause |
| `resurrected` (violation) | a guest who left is put back by an edit that was uploading |
| `partial_entry` (violation) | add then delete of a never invited user creates a record that `queryEventList` traps on |
| `event_form` | two users of one phone, two forms: one may upload while the other is filled in or edits the same event from an older copy, with sign-outs, sign-ins that replace the user, late answers and deaths of the process in between: `UploadedComplete`, `PinShowsLocation`, `EntryHasEvent`, `NamesOrganiser`, `EventKeepsOrganiser` |
| `notification_rows` | two observers of one kind and one of the other, two notifications in any order: `LatestRowsLast`, `BadgeCounts` and, with fairness, `EveryNoteListed`: what arrives gets a row although only reads reload the table |
| `row_mismatch` (violation) | a row opens another event than its text names |
| `event_alert` | two options, a three-minute year, three orders on their way, deaths of the process between the two stores: `PendingIsChecked`, `OnTime` |
| `comment_thread` | two comments among three users, in any order, deletions and deaths included: `SettledShowsThread`, `DeletesOwnRow`, `SendsTyped`, `OthersTold`; and ages every minute of two weeks for stamps from Greenwich, Taipei and Tokyo: `LabelRounds`, `NeverYounger` below zero and across the three changes of unit |
| `session_switch` | two users of one phone, no observer revoked: whatever the order of sign-ins, late answers, registering and sign-outs, the event list is that of the user signed in once no call is due (`EventListIsMine`) |
| `email_mix` (violation) | an edit of the profile right after an account switch writes the former user's email into the record of the new one, even if the database revokes observers |

The violations are what the code does against what one of its own comments,
texts or forced casts says; `PROJECT.json` quotes the line.

Bounds.  One event id suffices for `Membership`: no action relates two events
except the cast of all entries in `QueryEventListTraps`, which one event
already triggers.  Two users give every organiser / guest race, three give
the guest / guest race.  `Organisers` names the only user who opens an empty
form: with one event id any other user's empty form can only be cancelled.
`MaxUploads = 1` still lets an upload overlap with the next edit of the same
phone.  `MaxChanges` bounds how many users one edit adds or removes, `MaxBusy`
the phones in use at once.  `SerialSpec` lets a phone be used only while every
other one is idle, and no process die with writes queued.  `Editors` are
the users who may open an edit form: the organiser, and nobody in
`lost_agreement`.
In `NotificationList` two notifications and two observers of a kind, three
together (`MaxTogether`), give overlapping lists and a skipped event; more than
two reloads on their way (`MaxReloads`) would draw the same array again, and a
read that waits for one is late, not lost.  In `EventAlert` the year has three
minutes and the horizon (`Horizon`) lies beyond it; three orders (`MaxOrders`)
let both rows be tapped, one of them twice, before any is served; an event is
moved between two dates (`Date`), one of which passes.
In `CommentThread` a comment has two users to tell, of whom a death may cut off
the second, which takes three users; with two comments (`MaxComments`), one
removed and one new, the list changes under a swiped row and keeps its length;
three calls or reloads on their way (`MaxOwed`) let a list overtake a local
removal, and three author reads and notifications (`MaxUntold`) let those of two
comments mix.  `Writer` are the users who comment: all.  In `Session` three
observers of the events, and of each user, are those of two logins and one more,
four calls on their way (`MaxCalls`; three in `email_mix`) let those of two
users and a change interleave, and a second upload (`MaxUploads`) would only
repeat the first.
In `EventForm` two users give a sign-out and another sign-in, or a sign-in
alone, under a form or an upload; two forms (`MaxForms`) give an upload that
ends under another form, be it a new one or an edit of the same event.
`BoundedNext` limits what goes on at once, to keep the product of independent
parts small.  Locations are picked in the first form only, when its title is
typed and no other user has signed in, and while it uploads the other one leaves
its texts alone: the forms share neither texts nor pins.  While a geocoder
request is under way the user stays and the lists read nothing: its answer
looks at neither.  Lists read while no form is on screen and one can still be
opened: a copy is of no use to anything else.  The proofs are without these
bounds.  Two geocoder requests (`MaxGeocodes`) and
two searches (`MaxSearches`) are the fewest that can be answered out of order;
of the two places one is nameless.  The users are interchangeable.
In `Membership` users other than the organiser are interchangeable, hence the
symmetry.
Deadlock is not checked: a user may do nothing, and bounded runs end.

Fairness.  Only `EveryNoteListed` needs any: weak fairness of each of the three
queues by itself, that is, the SDK makes the calls it owes (`Calls`) and answers
the reads (`ReadReturns`), and the main queue runs the reloads posted to it
(`ReloadData`), while the process lives.  Users, arriving notifications and event
writes are not fair.

## Seen while modelling, without a run

Each follows from the modelled actions and is a sequence, not a run:

- A pending invitee is added and deleted in an edit form, then agrees:
  `isMember` was set to false before (`AddEventVC.swift:321`) and agreeing sets
  only `isReply`, so the guest is listed in `memberIDs` and told at every visit
  not to be a member any more (`EventContentVC.swift:323`).
- A member who is invited again by an edit (a form opened before `memberData`
  was loaded) and rejects stays in `memberIDs`: reject writes the records and
  leaves the array alone (`EventContentVC.swift:297`).
- A notification whose event has no node is put into `notificationData` and gets
  no row until a later read finds an event, for its own read posts no reload
  (`NotificationVC.swift:128`); `EveryNoteListed` is about those whose event is
  there.
- A reminder option whose minute has passed can be switched on: the trigger has
  no year, so the request waits for the next year (`EventAlert.NextMatch`).
- A comment sent in another time zone than Taipei's is read with the wrong
  zone; a fresh one from Tokyo is "-60 minutes" old (`TaipeiAge`).
- A process that dies between the two stores of a reminder leaves a checkmark
  without a request or a request without a checkmark until the row is tapped
  again (`Die`, `cut`).
- A process that dies among the notifications of a comment leaves the organiser
  told and a member not (`CommentThread.Die`), and if the author's record is not
  found nobody is told (`AuthorMissing`).
- A profile read that is answered after the sign-out still sets the labels of
  the profile tab to the former user (`ProfileVC.swift:114`).
- Registering announces success before its picture is uploaded; if the upload
  fails the account has no record (`RegisterPressed`, `UploadFails`).
- Between a call of the comment observer and its reload, the delete button
  removes the comment that moved to the row's index, not the one it shows
  (which is why `DeletesOwnRow` is stated for when no reload is owed).
- An edit pressed before EventContentVC has found the address kills the process
  at `AddEventVC.swift:58`, together with the uploads under way
  (`OpenEditTraps`).
- `done` looks at the title, the location and the description, and not at the
  picture: without one the form is left and nothing is written, at
  `AddEventVC.swift:263` (`Done`).  A place whose geocoder answer has no words
  passes as an empty location.
- An event whose user signed out during the upload is dropped.  When another
  user has signed in, after that or instead of the first (a sign-in that
  `LoginVC` was left with), it is that user's event, or is handed over to that
  user in an edit, while the invitations name the one who opened the form
  (`Uploaded` of an adrift form; `EventKeepsOrganiser` and `NamesOrganiser` say
  that it takes such a change of the user).
- Of two uploads of one event the last to end wins, also when it is the older
  edit.
- The closure unwraps `self.user`; if the record was not read in time it traps
  after the invitation records were written, which then name no event
  (`UploadedTraps`).
- Search answers may show the places of an older text (`LocationSearchVC.swift:86`,
  `SearchAnswers`); two confirmed locations leave two pins, of which the last
  agrees with the text (`PinShowsLocation`).

## Proofs

`Membership_proofs` proves, for every finite set of users and every set of
events and bound on uploads, that `Spec` implies always `TypeOK`,
`RostersSound`, `SentinelKept`, `OnlyConsenting` and `OrganiserKept`.

The last three speak of the database only and are not inductive: what a phone
will write is fixed by what it read.  `RostersSound` says the same of every
copy of the array (on screens, in edit forms, in uploads, in queued `event`
and `memberIDs` writes), that such a copy belongs to an existing event of the
right creator, and that an organiser has no invitation record, no prompt and
no place in `agreed`.  Even `TypeOK` needs it: a `memberIDs` write must not
reach a node that does not exist.  The argument:

- `agreed` only grows, a creator is never replaced, a node never disappears
  (`Grows`), so sound copies stay sound while they are held
  (`SoundWriteGrows`, `ViewGrows`, `FormGrows`);
- a queue is a sequence over the set `SoundWrite`, so enqueueing and
  delivering are facts about `Seq` (`SeqConcat`, `SeqHeadTail`,
  `SeqMonotone`);
- `LocalIInv` covers the steps that touch one phone only; `DeliverIInv`,
  `AgreeIInv` (the step that extends `agreed`) and `DoneIInv` (the step that
  gives an event its creator) are proved part by part.

Assumptions: `User` is finite (the loops of the closure visit a finite set),
`Blank` and `NoUser` are not users, `NoEvent`, `NoView` and `NoForm` are not
records, `MaxUploads` is a natural number.

The second half of `Membership_proofs` is about `SerialSpec` and proves
`AcceptedIsMember` and `PendingIsUnanswered` for any number of users, events,
uploads and changes: while phones are used in turn, no handler by itself leaves
somebody who joined unlisted, or the pending list wrong.  Both are about moments when all phones are
quiet, so the invariant has to say what holds in between.  `SerialInv` does:

- whoever joined is in the array, or the own queue still holds the write that
  lists or removes that user (`JoinedListed`);
- the list of pending invitees is never too short, and who is in it without an
  open invitation is in a queued write that invites or removes (`PendingFollows`);
- what the phone in use has read is as the database has it: the array on its
  screen, in its form and in its uploads lists whoever joined, and its question
  is still open (`ViewCurrent`, `FormsCurrent`);
- every queued write finds what it needs later or earlier in its own queue
  (`QueueSettled`): an answer is followed by the removal from the list and by the
  array or the `isMember` of that user, an array leaves out only whom an
  `isMember` takes out as well, an invitation follows its entry in the list.

`QueueSettled` takes the database as an argument, so that what a delivery does
to it (`Settles`) and what a longer queue does (`ConcatSettled`) are lemmas
without a state.  That only the creator's phone invites and only the others
answer (`OwnWrite`) is where `RostersSound` is used again.  Neither premise can be
dropped: `lost_agreement` shows what two phones at once do, and a process that
dies between `isReply` and `memberIDs` leaves a user who joined and is not listed
(EventContentVC.swift:282 to 290).

`MembershipOrder_proofs` proves `InvitesFirst` and `NoSilentJoin`, which a crash
must not break, and the refinement `FollowsRules`.  All three rest on the order
inside a queue.  A queued write *needs* facts of the database (an array needs
the organiser to have been told of everybody in it, an event needs the
invitations of its form) and *gives* others.  `OrderInv` says that whatever a
write needs is held already or given by an earlier write of the same queue
(`QueuesOrdered`), and that what stands in the database and on screens is
backed.  Facts once held stay, so other phones do not matter; a crash drops a
whole queue, so it cannot keep the later half of an answer.  With it every
`Deliver` maps to `Invite`, `Publish`, `Change` or a stutter of `Consent`, the
step of agreeing to `Agree`, and a fresh event id to `Create`.  `Promise` is
proved of `Consent` alone, and `PromiseKept` carries it over.

`EventForm_proofs` proves the five properties of the form for any users, places,
forms and requests.  `UploadedComplete` is about the closure and is true because
of the check of `done`, an upload earlier: `DoneIsFilled` says that what was
checked stays so, since the screen is gone and a late answer of the geocoder can
only replace one address by another.  `OwnForm` says that a form which is not
adrift belongs to the user signed in, if anybody is, and its event to that user;
a sign-in keeps it by setting those of others adrift.  For edits it rests on
`OwnContent`: as long as the user stays, an event only changes hands to that
very user, so a copy that names the user as organiser is right however old it
is, and only of such a copy is the form offered.  `OwnEvent` gives
`EntryHasEvent`: a form writes the event it made or one that is there, and only
a death in the closure separates entries from their event.

`NotificationList_proofs` proves `LatestRowsLast` and `BadgeCounts` for any
number of observers.  `RowsLast` says the first index by index: the end of
`joinedEventData \o reads` is the latest list; a read that finds no event
shortens what older lists left in front, or marks the list as `skipped`.
`LastBadgeIsCurrent` is the second for calls on their way: the last one for the
badge carries the notifications of the database.  Because an empty list sets no
badge, `EmptyIsZero` is needed too: lists only grow, so an empty one means that
none was counted yet.  `TypeOK` says of the table that it never has more rows
than `notificationData`, which holds because the list of notifications only
grows.

`CommentThread_proofs` proves what the comment screen keeps.  `SettledShowsThread`
needs the last call on its way to carry the current comments
(`LastCallIsCurrent`) and the rows to agree with the array while no reload is
owed (`RowsShowData`); `DeletesOwnRow` needs in addition that a delete button
survives no reload (`OwnSwipe`).  `SendsTyped` is inductive next
to `TypeOK`.  `OthersTold` is about the notifications sent; `TellsOthers` says
the same of those sent and those in the outbox together, unless the comment was
cut, and that the organiser's stands in the outbox before any member's, so that a
death cuts off members only.

`AgesTrue` holds for phones in any zones, every age, `MaxAge` and `Step`: the
label is the age that Taipei's time reads off the stamp, rounded down to its
unit and never zero hours, days or weeks, in minutes if it lies below zero, and
it never shrinks.  The lemmas are about what a whole number of units leaves of a
time (`WholeUnits`) and about division on either side of zero.

`EventAlert_proofs` proves `PendingIsChecked` and `OnTime` for every list of
offsets, every length of a year, every horizon, any number of orders and any
date.  `PendingIsChecked` is about rows whose orders were served; while they are
on their way `LastOrders` says that the last one for a row agrees with its
switch, unless a death cut the row.  Since the centre serves the orders in turn,
only the last one decides what is pending.  `OnTime` speaks of the reminders
shown in the last minute, and `asked` is the minute in which the centre took the
request; the invariant `AlertIInv` says the same of the pending requests, which
is where it is settled, and needs `TypeOK` (a pending request waits for a minute
still ahead).  `NextMatchWithinYear` is the
arithmetic: a trigger without a year waits at most a year, and for the wanted
minute itself when that is less than a year ahead.

`Session_proofs` proves `EventListIsMine` for any users, sign-ins under way,
observers and calls, whether or not the database ends the observers of a user
who signs out.  `ListFollows` is the reason: once the sign-in was announced, the
last observer of the events belongs to the user signed in, and the last event
call on its way carries that user and the present version, or none is on its way
and the list has them already.  The step that needs more is the mail sign-in,
which announces at once: its user is an account (`MailSignIns`).

`TypeOK` of every module is proved next to its invariants, of which it is a
part.  Only model-checked: `EveryNoteListed`, since liveness is out of the
prover's reach, and the five runs that end in a violation.

## Plan

All components with a protocol of their own are in place.  What would extend
them, in this order:

1. `Session` composed with `NotificationList` (tab and badge over an account
   switch); `EventForm` has the sign-outs already.
2. Two phones of one user: the check-then-set of `user/<uid>` by the social
   sign-ins against profile edits.
3. Cell pictures that arrive after their cell was reused.

## Not modelled

- Layout, cells, colours, heights and wording; JPEG and thumbnail conversion;
  push registration; the date picker; the user's own position, which only moves
  a map.
- The progress view.  It is one for the whole app (`SVProgressHUD`), shown by
  many screens and left up by several of the losses above; no state that the
  other properties speak of depends on it.
- Password reset: one request and an alert.
- Names and pictures in reused cells (`CommentVC.swift:349`): what is wrong
  there is wrong until the next drawing.
- The vendored libraries under `Pods/` (LevelDB, Protobuf, nanopb, gRPC headers,
  the Firebase and Google SDKs).  They are the largest part of the repository by
  lines and no part of this program's own logic; the app is the Swift code under
  `Get together/Get together/`.  Of them only what the app relies on is
  modelled, from how the app uses it, and marked external: observers and their
  calls, pending writes, trigger dates, tables and tabs.
