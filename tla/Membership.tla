----------------------------- MODULE Membership -----------------------------
(***************************************************************************)
(* The invitation and membership protocol of Get together: the phones of   *)
(* the users share a Firebase Realtime Database and change it with plain   *)
(* setValue / updateChildValues / removeValue calls.                       *)
(*                                                                         *)
(* One phone per user.  A phone shows an event it has read (EventContentVC)*)
(* and edits it in a form (AddEventVC); what it shows is a snapshot that   *)
(* nothing refreshes.  A handler issues several writes, one after the      *)
(* other; the SDK queues them and sends them in order, the database        *)
(* applies each one atomically, and the queue dies with the process        *)
(* (isPersistenceEnabled is commented out in AppDelegate).                 *)
(***************************************************************************)
EXTENDS Naturals, Sequences, FiniteSets, EventRoster

CONSTANTS
  NoEvent,      \* the node event/<id> does not exist
  NoView,       \* the phone shows no event
  NoForm,       \* the phone has no form open
  MaxUploads    \* bound: image uploads a phone has under way at once

ASSUME MaxUploadsNat == MaxUploads \in Nat

VARIABLES
  event,               \* event/<eventID>
  invitingEventList,   \* invitingEventList/<userID>/<eventID>
  invitingMemberList,  \* invitingMemberList/<eventID>, the user ids in it
  notification,        \* notification/*, who is told about which event by whom
  outbox,              \* per user, the writes issued and not yet applied
  view,                \* per user, the EventContentVC on screen
  form,                \* per user, the AddEventVC on screen
  uploads,             \* per user, the forms whose image is being uploaded
  creator,             \* per event id, the user childByAutoId gave it to
  agreed               \* history: per event, who ever tapped "agree"

database == <<event, invitingEventList, invitingMemberList, notification>>
vars == <<database, outbox, view, form, uploads, creator, agreed>>

-----------------------------------------------------------------------------
(* The records of the database.                                            *)

(* memberIDs = {} stands for a node without memberIDs, which is what       *)
(* Firebase makes of an empty array.  `invitees` is history: the users     *)
(* invited by the upload that wrote the node.                              *)
EventNode == [organiserID : User, memberIDs : SUBSET MemberID,
              invitees : SUBSET User]

Key == {"eventID", "isReply", "isMember"}

(* An entry with no key does not exist.                                    *)
Entry == [keys : SUBSET Key, isReply : BOOLEAN, isMember : BOOLEAN]

NoEntry == [keys |-> {}, isReply |-> FALSE, isMember |-> FALSE]

Complete(entry) == entry.keys = Key

(* Open, joined and out: what queryEventList reads from an entry.          *)
Unanswered(entry) == Complete(entry) /\ ~entry.isReply
Joined(entry) == Complete(entry) /\ entry.isReply /\ entry.isMember
Out(entry) == Complete(entry) /\ entry.isReply /\ ~entry.isMember

Note == [userID : User, eventID : Event, from : User]

View == [eventID      : Event,
         organiserID  : User,
         memberIDs    : SUBSET MemberID,
         memberData   : SUBSET User,
         notification : BOOLEAN,      \* opened from NotificationVC
         prompt       : {"pending", "answer", "gone", "none"}]

Op == {"event", "memberIDs", "invite", "isReply", "isMember",
       "addInviting", "removeInviting", "notification"}

Write == [op : Op, eventID : Event, userID : User, from : User,
          memberIDs : SUBSET MemberID, invitees : SUBSET User]

ASSUME AbsentConstants ==
  /\ NoEvent \notin EventNode /\ \A S \in SUBSET User : S # NoEvent
  /\ NoView \notin View /\ NoForm \notin Form

TypeOK ==
  /\ event \in [Event -> EventNode \union {NoEvent}]
  /\ invitingEventList \in [User -> [Event -> Entry]]
  /\ invitingMemberList \in [Event -> SUBSET User]
  /\ notification \in SUBSET Note
  /\ outbox \in [User -> Seq(Write)]
  /\ view \in [User -> View \union {NoView}]
  /\ form \in [User -> Form \union {NoForm}]
  /\ uploads \in [User -> SUBSET Form]
  /\ creator \in [Event -> User \union {NoUser}]
  /\ agreed \in [Event -> SUBSET User]

Init ==
  /\ event = [e \in Event |-> NoEvent]
  /\ invitingEventList = [u \in User |-> [e \in Event |-> NoEntry]]
  /\ invitingMemberList = [e \in Event |-> {}]
  /\ notification = {}
  /\ outbox = [u \in User |-> <<>>]
  /\ view = [u \in User |-> NoView]
  /\ form = [u \in User |-> NoForm]
  /\ uploads = [u \in User |-> {}]
  /\ creator = [e \in Event |-> NoUser]
  /\ agreed = [e \in Event |-> {}]

-----------------------------------------------------------------------------
(* Firebase: writes are queued, sent in order and applied one by one.      *)

SimpleWrite(op, e, u, by) ==
  [op |-> op, eventID |-> e, userID |-> u, from |-> by,
   memberIDs |-> {}, invitees |-> {}]

Enqueue(u, writes) == outbox' = [outbox EXCEPT ![u] = @ \o writes]

(* setValue of a whole entry, and updateChildValues of one key: the latter *)
(* creates the node when it does not exist.                                *)
SetEntry == [keys |-> Key, isReply |-> FALSE, isMember |-> TRUE]

UpdateIsReply(entry) ==
  [entry EXCEPT !.keys = @ \union {"isReply"}, !.isReply = TRUE]

UpdateIsMember(entry) ==
  [entry EXCEPT !.keys = @ \union {"isMember"}, !.isMember = FALSE]

EntryAfter(w, entry) ==
  CASE w.op = "invite"   -> SetEntry
    [] w.op = "isReply"  -> UpdateIsReply(entry)
    [] w.op = "isMember" -> UpdateIsMember(entry)
    [] OTHER             -> entry

EventAfter(w, node) ==
  CASE w.op = "event" -> [organiserID |-> w.from, memberIDs |-> w.memberIDs,
                          invitees |-> w.invitees]
    [] w.op = "memberIDs" -> [node EXCEPT !.memberIDs = w.memberIDs]
    [] OTHER -> node

InvitingAfter(w, users) ==
  CASE w.op = "addInviting"    -> users \union {w.userID}
    [] w.op = "removeInviting" -> users \ {w.userID}
    [] OTHER                   -> users

NotificationAfter(w, notes) ==
  IF w.op = "notification"
    THEN notes \union {[userID |-> w.userID, eventID |-> w.eventID,
                        from |-> w.from]}
    ELSE notes

Deliver(u) ==
  /\ outbox[u] # <<>>
  /\ LET w == Head(outbox[u])
     IN  /\ event' = [event EXCEPT ![w.eventID] = EventAfter(w, @)]
         /\ invitingEventList' =
              [invitingEventList EXCEPT ![w.userID][w.eventID] =
                 EntryAfter(w, @)]
         /\ invitingMemberList' =
              [invitingMemberList EXCEPT ![w.eventID] = InvitingAfter(w, @)]
         /\ notification' = NotificationAfter(w, notification)
  /\ outbox' = [outbox EXCEPT ![u] = Tail(@)]
  /\ UNCHANGED <<view, form, uploads, creator, agreed>>

(* The process of u dies (killed, or a forced unwrap or cast traps): its   *)
(* screens, its uploads and the writes still queued are gone.              *)
ProcessDies(u) ==
  /\ view' = [view EXCEPT ![u] = NoView]
  /\ form' = [form EXCEPT ![u] = NoForm]
  /\ uploads' = [uploads EXCEPT ![u] = {}]
  /\ outbox' = [outbox EXCEPT ![u] = <<>>]
  /\ UNCHANGED <<database, creator, agreed>>

Crash(u) ==
  /\ view[u] # NoView \/ form[u] # NoForm \/ uploads[u] # {} \/ outbox[u] # <<>>
  /\ ProcessDies(u)

-----------------------------------------------------------------------------
(* EventContentVC: showing an event and answering its invitation.          *)

(* The phone shows what it read.  A list that lags behind the database is  *)
(* a view opened early, so the snapshot is taken from the database itself, *)
(* with the phone's own writes applied.                                    *)
OpenEvent(u, e, fromNotification) ==
  /\ view[u] = NoView /\ form[u] = NoForm /\ outbox[u] = <<>>
  /\ event[e] # NoEvent
  /\ view' = [view EXCEPT ![u] =
       [eventID |-> e, organiserID |-> event[e].organiserID,
        memberIDs |-> event[e].memberIDs, memberData |-> {},
        notification |-> fromNotification, prompt |-> "pending"]]
  /\ UNCHANGED <<database, outbox, form, uploads, creator, agreed>>

(* MainVC lists the events u organises and the ones u is a member of.      *)
OpenFromMain(u, e) ==
  /\ event[e] # NoEvent
  /\ u = event[e].organiserID \/ u \in event[e].memberIDs
  /\ OpenEvent(u, e, FALSE)

(* NotificationVC lists every notification addressed to u.                 *)
OpenFromNotification(u, e) ==
  /\ \E n \in notification : n.userID = u /\ n.eventID = e
  /\ OpenEvent(u, e, TRUE)

(* Mutant: the "" is taken for a user.                                     *)
QueryUserDataOfBlank(u) ==
  /\ view[u] # NoView /\ form[u] = NoForm
  /\ view' = [view EXCEPT ![u].memberData = view[u].memberIDs]
  /\ UNCHANGED <<database, outbox, form, uploads, creator, agreed>>

(* queryUserData: the users among the memberIDs of the snapshot.           *)
QueryUserData(u) ==
  /\ view[u] # NoView /\ form[u] = NoForm
  /\ view' = [view EXCEPT ![u].memberData = view[u].memberIDs \ {Blank}]
  /\ UNCHANGED <<database, outbox, form, uploads, creator, agreed>>

(* queryEventList casts eventID, isReply and isMember of every entry of u, *)
(* so one incomplete entry of any event traps.                             *)
EntriesReadable(u) ==
  \A e \in Event : invitingEventList[u][e] # NoEntry =>
                     Complete(invitingEventList[u][e])

(* Mutant: who has no entry is asked as well.                              *)
PromptForAnyone(entry) ==
  CASE Out(entry)    -> "gone"
    [] Joined(entry) -> "none"
    [] OTHER         -> "answer"

PromptFor(entry) ==
  CASE Unanswered(entry) -> "answer"
    [] Out(entry)        -> "gone"
    [] OTHER             -> "none"

QueryEventList(u) ==
  /\ view[u] # NoView /\ outbox[u] = <<>>
  /\ view[u].prompt = "pending"
  /\ EntriesReadable(u)
  /\ view' = [view EXCEPT ![u].prompt =
                PromptFor(invitingEventList[u][view[u].eventID])]
  /\ UNCHANGED <<database, outbox, form, uploads, creator, agreed>>

QueryEventListTraps(u) ==
  /\ view[u] # NoView /\ outbox[u] = <<>>
  /\ view[u].prompt = "pending"
  /\ ~EntriesReadable(u)
  /\ ProcessDies(u)

(* popViewController, after a handler or by the back button.               *)
Pop(u) == view' = [view EXCEPT ![u] = NoView]

(* No alert is up: only then do the other buttons react.                   *)
Idle(u) ==
  view[u] # NoView /\ form[u] = NoForm /\ view[u].prompt \in {"pending", "none"}

Back(u) ==
  /\ Idle(u)
  /\ Pop(u)
  /\ UNCHANGED <<database, outbox, form, uploads, creator, agreed>>

(* The "you are no longer a member" alert: its only button pops the view.  *)
DismissAlert(u) ==
  /\ view[u] # NoView /\ view[u].prompt = "gone"
  /\ Pop(u)
  /\ UNCHANGED <<database, outbox, form, uploads, creator, agreed>>

SetMemberIDs(e, u, ids) ==
  [SimpleWrite("memberIDs", e, u, u) EXCEPT !.memberIDs = ids]

(* Mutants: the organiser is told last; the pending invitation is kept.    *)
AgreeWritesTellLast(u, v) ==
  <<SimpleWrite("isReply", v.eventID, u, u),
    SimpleWrite("removeInviting", v.eventID, u, u),
    SetMemberIDs(v.eventID, u, v.memberIDs \union {u}),
    SimpleWrite("notification", v.eventID, v.organiserID, u)>>

AgreeWritesKeepPending(u, v) ==
  <<SimpleWrite("notification", v.eventID, v.organiserID, u),
    SimpleWrite("isReply", v.eventID, u, u),
    SetMemberIDs(v.eventID, u, v.memberIDs \union {u})>>

AgreeWrites(u, v) ==
  <<SimpleWrite("notification", v.eventID, v.organiserID, u),
    SimpleWrite("isReply", v.eventID, u, u),
    SimpleWrite("removeInviting", v.eventID, u, u),
    SetMemberIDs(v.eventID, u, v.memberIDs \union {u})>>

Agree(u) ==
  /\ view[u] # NoView /\ view[u].prompt = "answer"
  /\ Enqueue(u, AgreeWrites(u, view[u]))
  /\ agreed' = [agreed EXCEPT ![view[u].eventID] = @ \union {u}]
  /\ Pop(u)
  /\ UNCHANGED <<database, form, uploads, creator>>

(* isRemoved of the opened notification is set first; nothing reads it.    *)
RejectWrites(u, v) ==
  <<SimpleWrite("isReply", v.eventID, u, u),
    SimpleWrite("isMember", v.eventID, u, u),
    SimpleWrite("removeInviting", v.eventID, u, u),
    SimpleWrite("notification", v.eventID, v.organiserID, u)>>

Reject(u) ==
  /\ view[u] # NoView /\ view[u].prompt = "answer"
  /\ view[u].notification
  /\ Enqueue(u, RejectWrites(u, view[u]))
  /\ Pop(u)
  /\ UNCHANGED <<database, form, uploads, creator, agreed>>

(* self.notification is nil in a view opened from MainVC.                  *)
RejectTraps(u) ==
  /\ view[u] # NoView /\ view[u].prompt = "answer"
  /\ ~view[u].notification
  /\ ProcessDies(u)

(* Mutant: the record of the user who leaves is not updated.               *)
DropOutWritesKeepRecord(u, v) ==
  <<SetMemberIDs(v.eventID, u, v.memberIDs \ {u}),
    SimpleWrite("notification", v.eventID, v.organiserID, u)>>

DropOutWrites(u, v) ==
  <<SetMemberIDs(v.eventID, u, v.memberIDs \ {u}),
    SimpleWrite("isMember", v.eventID, u, u),
    SimpleWrite("notification", v.eventID, v.organiserID, u)>>

DropOut(u) ==
  /\ Idle(u)
  /\ u # view[u].organiserID
  /\ u \in view[u].memberIDs
  /\ Enqueue(u, DropOutWrites(u, view[u]))
  /\ Pop(u)
  /\ UNCHANGED <<database, form, uploads, creator, agreed>>

-----------------------------------------------------------------------------
(* AddEventVC: creating and editing an event.                              *)

AddPressed(u, e) ==
  /\ view[u] = NoView /\ form[u] = NoForm
  /\ creator[e] = NoUser
  /\ form' = [form EXCEPT ![u] = NewForm(e)]
  /\ UNCHANGED <<database, outbox, view, uploads, creator, agreed>>

EditPressed(u) ==
  /\ Idle(u)
  /\ u = view[u].organiserID
  /\ form' = [form EXCEPT ![u] =
       EditForm(view[u].eventID, view[u].memberIDs, view[u].memberData)]
  /\ UNCHANGED <<database, outbox, view, uploads, creator, agreed>>

AddMember(u, m) ==
  /\ form[u] # NoForm
  /\ MayAdd(form[u], u, m)
  /\ form' = [form EXCEPT ![u] = DidUpdateMember(@, m)]
  /\ UNCHANGED <<database, outbox, view, uploads, creator, agreed>>

DeleteMember(u, m) ==
  /\ form[u] # NoForm
  /\ m \in form[u].members
  /\ form' = [form EXCEPT ![u] = DeleteData(@, m)]
  /\ UNCHANGED <<database, outbox, view, uploads, creator, agreed>>

Cancel(u) ==
  /\ form[u] # NoForm
  /\ form' = [form EXCEPT ![u] = NoForm]
  /\ UNCHANGED <<database, outbox, view, uploads, creator, agreed>>

(* done: the image upload starts and the screens are popped to the root.   *)
(* A new event gets its id here.                                           *)
Done(u) ==
  /\ form[u] # NoForm
  /\ Cardinality(uploads[u]) < MaxUploads
  /\ \/ form[u].isEdit /\ UNCHANGED creator
     \/ /\ ~form[u].isEdit
        /\ creator[form[u].eventID] = NoUser
        /\ creator' = [creator EXCEPT ![form[u].eventID] = u]
  /\ uploads' = [uploads EXCEPT ![u] = @ \union {form[u]}]
  /\ form' = [form EXCEPT ![u] = NoForm]
  /\ Pop(u)
  /\ UNCHANGED <<database, outbox, agreed>>

(* uploadImage fails, or there is no image to upload: nothing is saved.    *)
UploadFails(u, f) ==
  /\ f \in uploads[u]
  /\ uploads' = [uploads EXCEPT ![u] = @ \ {f}]
  /\ UNCHANGED <<database, outbox, view, form, creator, agreed>>

(* The orders in which the loop over an Array(set) may visit the set.      *)
Orders(S) == {s \in [1..Cardinality(S) -> S] :
                \A m \in S : \E i \in 1..Cardinality(S) : s[i] = m}

(* The writes of the closure for one removed and for one invited user.     *)
(* memberList and eventList are only ever removed, so they hold nothing.   *)
RemoveWrite(u, e, m, i) ==
  IF i = 0 THEN SimpleWrite("isMember", e, m, u)
           ELSE SimpleWrite("notification", e, m, u)

InviteWrite(u, e, m, i) ==
  CASE i = 0 -> SimpleWrite("addInviting", e, m, u)
    [] i = 1 -> SimpleWrite("invite", e, m, u)
    [] OTHER -> SimpleWrite("notification", e, m, u)

RemoveWrites(u, f, order) ==
  [k \in 1..(2 * Len(order)) |->
     RemoveWrite(u, f.eventID, order[((k - 1) \div 2) + 1], (k - 1) % 2)]

InviteWrites(u, f, order) ==
  [k \in 1..(3 * Len(order)) |->
     InviteWrite(u, f.eventID, order[((k - 1) \div 3) + 1], (k - 1) % 3)]

EventWrite(u, f) ==
  [SimpleWrite("event", f.eventID, u, u) EXCEPT
     !.memberIDs = FinalMemberIDs(f), !.invitees = EditedMembers(f)]

(* Mutant: the event is written before the invitations.                    *)
UploadDoneEventFirst(u, f) ==
  /\ f \in uploads[u]
  /\ \E removed \in Orders(RemovedMembers(f)),
        invited \in Orders(EditedMembers(f)) :
       Enqueue(u, <<EventWrite(u, f)>> \o RemoveWrites(u, f, removed)
                    \o InviteWrites(u, f, invited))
  /\ uploads' = [uploads EXCEPT ![u] = @ \ {f}]
  /\ UNCHANGED <<database, view, form, creator, agreed>>

UploadDone(u, f) ==
  /\ f \in uploads[u]
  /\ \E removed \in Orders(RemovedMembers(f)),
        invited \in Orders(EditedMembers(f)) :
       Enqueue(u, RemoveWrites(u, f, removed) \o InviteWrites(u, f, invited)
                    \o <<EventWrite(u, f)>>)
  /\ uploads' = [uploads EXCEPT ![u] = @ \ {f}]
  /\ UNCHANGED <<database, view, form, creator, agreed>>

-----------------------------------------------------------------------------
Phone(u) ==
  \/ \E e \in Event : OpenFromMain(u, e) \/ OpenFromNotification(u, e)
  \/ QueryUserData(u) \/ QueryEventList(u) \/ QueryEventListTraps(u)
  \/ Back(u) \/ DismissAlert(u)
  \/ Agree(u) \/ Reject(u) \/ RejectTraps(u) \/ DropOut(u)
  \/ \E e \in Event : AddPressed(u, e)
  \/ EditPressed(u) \/ Cancel(u) \/ Done(u)
  \/ \E m \in User : AddMember(u, m) \/ DeleteMember(u, m)
  \/ \E f \in uploads[u] : UploadFails(u, f) \/ UploadDone(u, f)

Next == \E u \in User : Phone(u) \/ Deliver(u) \/ Crash(u)

Spec == Init /\ [][Next]_vars

(* Nothing is under way for u: no screen, no upload, no write.             *)
Quiet(u) ==
  view[u] = NoView /\ form[u] = NoForm /\ uploads[u] = {} /\ outbox[u] = <<>>

(* Phones in turn: one is used only while every other one is idle, and no  *)
(* process dies with writes queued.                                        *)
Alone(u) == \A v \in User \ {u} : Quiet(v)

Survives(u) == outbox[u] = <<>> \/ outbox'[u] # <<>>

SerialNext ==
  \E u \in User : Alone(u) /\ (Deliver(u) \/ (Phone(u) /\ Survives(u)))

SerialSpec == Init /\ [][SerialNext]_vars

-----------------------------------------------------------------------------
(* Properties.                                                             *)

(* Every event node keeps the "" that AddEventVC put into its memberIDs,   *)
(* whatever the phones write over each other.  Firebase drops a node that  *)
(* holds an empty array, and MainVC, NotificationVC and AppDelegate cast   *)
(* memberIDs with as!: without the "" the last drop-out would trap them.   *)
SentinelKept ==
  \A e \in Event : event[e] # NoEvent => Blank \in event[e].memberIDs

(* Nobody is listed as a member who did not tap "agree" at some time, even *)
(* though every phone writes the whole array it read earlier.              *)
OnlyConsenting ==
  \A e \in Event :
    event[e] # NoEvent => event[e].memberIDs \subseteq agreed[e] \union {Blank}

(* The event belongs to the user who created it, and that user is never    *)
(* also one of its members: editPressed offers the form to the organiser   *)
(* only, didUpdateMember refuses the current user, and the upload closure  *)
(* signs the event with the current user.                                  *)
OrganiserKept ==
  \A e \in Event : event[e] # NoEvent =>
    /\ event[e].organiserID = creator[e]
    /\ creator[e] \notin event[e].memberIDs

(* The upload closure writes the invitations before the event: an event    *)
(* that can be read has invited everybody its form invited, even when the  *)
(* process died half way through the writes.                               *)
InvitesFirst ==
  \A e \in Event : event[e] # NoEvent =>
    \A m \in event[e].invitees : Complete(invitingEventList[m][e])

(* The answer to an invitation tells the organiser first: whoever is in    *)
(* memberIDs has left the organiser a notification, crash or not.          *)
NoSilentJoin ==
  \A e \in Event, u \in User :
    event[e] # NoEvent /\ u \in event[e].memberIDs =>
      [userID |-> event[e].organiserID, eventID |-> e, from |-> u]
        \in notification

(* What holds of invitations whichever phones run at once: Consent, with   *)
(* the database seen through what anybody can read of it.  Crashes, stale  *)
(* copies and half-written answers change no more than the rules allow.    *)
Invited == [e \in Event |->
              {u \in User : "eventID" \in invitingEventList[u][e].keys}]

Members == [e \in Event |-> IF event[e] = NoEvent THEN NoEvent
                                                 ELSE event[e].memberIDs \ {Blank}]

Rules == INSTANCE Consent WITH
           organiser <- creator, invited <- Invited, members <- Members,
           Unpublished <- NoEvent

FollowsRules == Rules!Spec

(* RostersSound: every copy of a memberIDs array, in the database, on a    *)
(* screen, in a form, in an upload or in a queued write, holds the "" and  *)
(* otherwise only users who agreed, and whoever organises an event is      *)
(* never invited to it.  So whichever phone writes last, and however stale *)
(* its copy, the write cannot break the three invariants above.            *)
RosterSound(e, ids) == Blank \in ids /\ ids \subseteq agreed[e] \union {Blank}

EventsSound ==
  \A e \in Event : event[e] # NoEvent =>
    RosterSound(e, event[e].memberIDs) /\ event[e].organiserID = creator[e]

ViewSound(u, v) ==
  /\ event[v.eventID] # NoEvent
  /\ RosterSound(v.eventID, v.memberIDs)
  /\ v.memberData \subseteq agreed[v.eventID]
  /\ v.organiserID = creator[v.eventID]
  /\ v.prompt = "answer" => u # creator[v.eventID]

ViewsSound == \A u \in User : view[u] # NoView => ViewSound(u, view[u])

FormSound(u, f) ==
  /\ u \notin f.members
  /\ f.isEdit => creator[f.eventID] = u /\ RosterSound(f.eventID, f.memberIDs)

FormsSound ==
  \A u \in User :
    /\ form[u] # NoForm => FormSound(u, form[u])
    /\ \A f \in uploads[u] : FormSound(u, f) /\ creator[f.eventID] = u

SoundWrite ==
  {w \in Write :
     /\ w.op \in {"event", "memberIDs"} => RosterSound(w.eventID, w.memberIDs)
     /\ w.op = "event" => w.from = creator[w.eventID]
     /\ w.op = "memberIDs" => event[w.eventID] # NoEvent
     /\ w.op = "invite" => creator[w.eventID] \in User \ {w.userID}}

OutboxSound == outbox \in [User -> Seq(SoundWrite)]

OrganiserUninvited ==
  \A e \in Event :
    /\ creator[e] \notin agreed[e]
    /\ creator[e] = NoUser => agreed[e] = {}
    /\ \A u \in User : "eventID" \in invitingEventList[u][e].keys =>
                         creator[e] \in User \ {u}

RostersSound ==
  EventsSound /\ ViewsSound /\ FormsSound /\ OutboxSound /\ OrganiserUninvited

AllQuiet == \A u \in User : Quiet(u)

(* When no phone has anything under way, whoever accepted and was not      *)
(* removed since is listed by the event.                                   *)
AcceptedIsMember ==
  AllQuiet => \A e \in Event, u \in User :
    Joined(invitingEventList[u][e]) => u \in event[e].memberIDs

(* When no phone has anything under way, the list of pending invitees that *)
(* InvitingMemberVC shows is the set of users who still have to answer.    *)
PendingIsUnanswered ==
  AllQuiet => \A e \in Event :
    invitingMemberList[e] = {u \in User : Unanswered(invitingEventList[u][e])}

(* showDropOutAlert: "after leaving you must be invited again to rejoin".  *)
(* A user who left enters memberIDs again by a write of the own phone only *)
(* (the answer to a new invitation), never by another phone's.             *)
RejoinNeedsInvite ==
  [][\A e \in Event, u \in User :
       /\ event[e] # NoEvent /\ Out(invitingEventList[u][e])
       /\ u \in event'[e].memberIDs \ event[e].memberIDs
       => outbox'[u] # outbox[u]]_vars

(* queryEventList casts eventID, isReply and isMember of every record with *)
(* as!: every record that exists has the three of them.                    *)
EntriesComplete == \A u \in User : EntriesReadable(u)
=============================================================================
