------------------------- MODULE Membership_proofs -------------------------
(***************************************************************************)
(* Proofs about Membership for every number of users, events and uploads.  *)
(*                                                                         *)
(* The three invariants about the memberIDs of the database are not        *)
(* inductive: what a phone will write is decided by what it read earlier.  *)
(* RostersSound states them for every copy of the array, which is enough.  *)
(*                                                                         *)
(* The second half is about phones used in turn (SerialSpec), where who    *)
(* joined is listed and who is pending has not answered.  Its invariant    *)
(* says what the queue of the phone in use still has to bring about.       *)
(***************************************************************************)
EXTENDS Membership, FiniteSetTheorems, TLAPS

IInv == TypeOK /\ RostersSound

-----------------------------------------------------------------------------
(* Sequences: what a queue of writes is built from.                        *)

LEMMA SeqMonotone ==
  ASSUME NEW S, NEW T, S \subseteq T
  PROVE  Seq(S) \subseteq Seq(T)
  OBVIOUS

LEMMA SeqConcat ==
  ASSUME NEW S, NEW s \in Seq(S), NEW t \in Seq(S)
  PROVE  s \o t \in Seq(S)
  OBVIOUS

LEMMA SeqHeadTail ==
  ASSUME NEW S, NEW s \in Seq(S), s # <<>>
  PROVE  Head(s) \in S /\ Tail(s) \in Seq(S)
  OBVIOUS

LEMMA SeqOfFunction ==
  ASSUME NEW S, NEW n \in Nat, NEW f, f \in [1..n -> S]
  PROVE  f \in Seq(S) /\ Len(f) = n
  OBVIOUS

(* An order of a set of users is a sequence over that set.                 *)
LEMMA OrdersAreSequences ==
  ASSUME NEW S, S \subseteq User, NEW s \in Orders(S)
  PROVE  s \in Seq(S)
<1>1. IsFiniteSet(S)
  BY UserFinite, FS_Subset
<1>2. Cardinality(S) \in Nat
  BY <1>1, FS_CardinalityType
<1>3. s \in [1..Cardinality(S) -> S]
  BY DEF Orders
<1> QED
  BY <1>2, <1>3, SeqOfFunction

-----------------------------------------------------------------------------
(* What is sound stays sound: agreed only grows, a creator is never        *)
(* replaced and an event node never disappears.                            *)
Grows ==
  /\ \A e \in Event : agreed[e] \subseteq agreed'[e]
  /\ \A e \in Event : creator[e] # NoUser => creator'[e] = creator[e]
  /\ \A e \in Event : event[e] # NoEvent => event'[e] # NoEvent

LEMMA SoundWriteGrows ==
  ASSUME TypeOK, Grows
  PROVE  SoundWrite \subseteq SoundWrite'
BY RosterConstants DEF TypeOK, Grows, SoundWrite, RosterSound, Write, MemberID

LEMMA OutboxGrows ==
  ASSUME TypeOK, OutboxSound, Grows, NEW u \in User
  PROVE  outbox[u] \in Seq(SoundWrite')
BY SoundWriteGrows, SeqMonotone DEF OutboxSound

LEMMA ViewGrows ==
  ASSUME TypeOK, Grows, NEW u \in User, NEW v \in View, ViewSound(u, v)
  PROVE  ViewSound(u, v)'
BY RosterConstants DEF TypeOK, Grows, View, ViewSound, RosterSound

LEMMA FormGrows ==
  ASSUME TypeOK, Grows, NEW u \in User, NEW f \in Form, FormSound(u, f)
  PROVE  FormSound(u, f)'
BY RosterConstants DEF TypeOK, Grows, Form, FormSound, RosterSound

LEMMA UnchangedGrows ==
  ASSUME UNCHANGED <<agreed, creator, event>>
  PROVE  Grows
BY DEF Grows

LEMMA SimpleWriteSound ==
  ASSUME NEW op \in Op \ {"event", "memberIDs", "invite"},
         NEW e \in Event, NEW u \in User, NEW by \in User
  PROVE  SimpleWrite(op, e, u, by) \in SoundWrite
BY DEF SimpleWrite, SoundWrite, Write, Op

LEMMA SetMemberIDsSound ==
  ASSUME NEW e \in Event, NEW u \in User, NEW ids \in SUBSET MemberID,
         event[e] # NoEvent, RosterSound(e, ids)
  PROVE  SetMemberIDs(e, u, ids) \in SoundWrite
BY DEF SetMemberIDs, SimpleWrite, SoundWrite, Write, Op

LEMMA RemoveWritesSound ==
  ASSUME NEW u \in User, NEW f \in Form, NEW order \in Seq(User)
  PROVE  RemoveWrites(u, f, order) \in Seq(SoundWrite)
<1> DEFINE n == 2 * Len(order)
<1>1. n \in Nat
  OBVIOUS
<1>2. ASSUME NEW k \in 1..n
      PROVE  RemoveWrite(u, f.eventID, order[((k - 1) \div 2) + 1], (k - 1) % 2)
               \in SoundWrite
  <2>1. ((k - 1) \div 2) + 1 \in 1..Len(order)
    OBVIOUS
  <2>2. order[((k - 1) \div 2) + 1] \in User
    BY <2>1
  <2> QED
    BY <2>2, SimpleWriteSound DEF RemoveWrite, Form, Op
<1>3. RemoveWrites(u, f, order) \in [1..n -> SoundWrite]
  BY <1>2 DEF RemoveWrites
<1> QED
  BY <1>1, <1>3, SeqOfFunction

LEMMA InviteWritesSound ==
  ASSUME NEW u \in User, NEW f \in Form, creator[f.eventID] = u,
         NEW order \in Seq(User \ {u})
  PROVE  InviteWrites(u, f, order) \in Seq(SoundWrite)
<1> DEFINE n == 3 * Len(order)
<1>1. n \in Nat
  OBVIOUS
<1>2. ASSUME NEW k \in 1..n
      PROVE  InviteWrite(u, f.eventID, order[((k - 1) \div 3) + 1], (k - 1) % 3)
               \in SoundWrite
  <2>1. ((k - 1) \div 3) + 1 \in 1..Len(order)
    OBVIOUS
  <2>2. order[((k - 1) \div 3) + 1] \in User \ {u}
    BY <2>1
  <2>3. ASSUME NEW m \in User \ {u}
        PROVE  SimpleWrite("invite", f.eventID, m, u) \in SoundWrite
    BY DEF SimpleWrite, SoundWrite, Write, Op, Form
  <2> QED
    BY <2>2, <2>3, SimpleWriteSound DEF InviteWrite, Form, Op
<1>3. InviteWrites(u, f, order) \in [1..n -> SoundWrite]
  BY <1>2 DEF InviteWrites
<1> QED
  BY <1>1, <1>3, SeqOfFunction

LEMMA EventWriteSound ==
  ASSUME NEW u \in User, NEW f \in Form, FormSound(u, f),
         creator[f.eventID] = u
  PROVE  EventWrite(u, f) \in SoundWrite
BY RosterConstants
   DEF EventWrite, SimpleWrite, SoundWrite, Write, Op, Form, FormSound,
       RosterSound, FinalMemberIDs, RemovedMembers, EditedMembers, MemberID

-----------------------------------------------------------------------------
(* The initial state, and one lemma per group of actions.                  *)

LEMMA InitIInv == Init => IInv
<1> SUFFICES ASSUME Init PROVE IInv
  OBVIOUS
<1>1. TypeOK
  BY DEF Init, TypeOK, Entry, NoEntry, EventNode
<1>2. EventsSound /\ ViewsSound /\ FormsSound
  BY DEF Init, EventsSound, ViewsSound, FormsSound
<1>3. OutboxSound
  BY DEF Init, OutboxSound
<1>4. OrganiserUninvited
  BY RosterConstants DEF Init, OrganiserUninvited, NoEntry
<1> QED
  BY <1>1, <1>2, <1>3, <1>4 DEF IInv, RostersSound

(* What a queued write does to an event node and to an entry.              *)
LEMMA EventAfterSound ==
  ASSUME TypeOK, EventsSound, NEW w \in SoundWrite, NEW e \in Event, w.eventID = e,
         EventAfter(w, event[e]) # event[e]
  PROVE  /\ EventAfter(w, event[e]) \in EventNode
         /\ EventAfter(w, event[e]) # NoEvent
         /\ RosterSound(e, EventAfter(w, event[e]).memberIDs)
         /\ EventAfter(w, event[e]).organiserID = creator[e]
<1>1. CASE w.op = "event"
  BY <1>1, AbsentConstants
     DEF EventAfter, SoundWrite, Write, EventNode
<1>2. CASE w.op = "memberIDs"
  <2>1. event[e] \in EventNode /\ event[e].organiserID = creator[e]
    BY <1>2 DEF TypeOK, EventsSound, SoundWrite
  <2> QED
    BY <1>2, <2>1, AbsentConstants DEF EventAfter, SoundWrite, Write, EventNode
<1>3. CASE w.op \notin {"event", "memberIDs"}
  BY <1>3 DEF EventAfter
<1> QED
  BY <1>1, <1>2, <1>3

LEMMA EntryAfterType ==
  ASSUME NEW w \in Write, NEW entry \in Entry
  PROVE  EntryAfter(w, entry) \in Entry
BY DEF EntryAfter, Entry, SetEntry, UpdateIsReply, UpdateIsMember, Key

LEMMA EntryAfterInvite ==
  ASSUME NEW w \in Write, NEW entry \in Entry,
         "eventID" \in EntryAfter(w, entry).keys
  PROVE  "eventID" \in entry.keys \/ w.op = "invite"
BY DEF EntryAfter, Entry, SetEntry, UpdateIsReply, UpdateIsMember, Key

LEMMA DeliverIInv ==
  ASSUME IInv, NEW u \in User, Deliver(u)
  PROVE  IInv'
<1> DEFINE w == Head(outbox[u])
<1>0. TypeOK /\ EventsSound /\ ViewsSound /\ FormsSound /\ OutboxSound
        /\ OrganiserUninvited
  BY DEF IInv, RostersSound
<1>1. w \in SoundWrite /\ Tail(outbox[u]) \in Seq(SoundWrite)
  BY <1>0, SeqHeadTail DEF Deliver, OutboxSound
<1>2. w \in Write /\ w.eventID \in Event /\ w.userID \in User /\ w.from \in User
  BY <1>1 DEF SoundWrite, Write
<1>3. /\ event' = [event EXCEPT ![w.eventID] = EventAfter(w, event[w.eventID])]
      /\ invitingEventList' = [invitingEventList EXCEPT ![w.userID][w.eventID] =
                  EntryAfter(w, invitingEventList[w.userID][w.eventID])]
      /\ invitingMemberList' = [invitingMemberList EXCEPT ![w.eventID] =
                  InvitingAfter(w, invitingMemberList[w.eventID])]
      /\ notification' = NotificationAfter(w, notification)
      /\ outbox' = [outbox EXCEPT ![u] = Tail(outbox[u])]
      /\ UNCHANGED <<view, form, uploads, creator, agreed>>
  BY DEF Deliver
<1>4. ASSUME NEW e \in Event
      PROVE  \/ event'[e] = event[e]
             \/ /\ event'[e] \in EventNode
                /\ event'[e] # NoEvent
                /\ RosterSound(e, event'[e].memberIDs)
                /\ event'[e].organiserID = creator[e]
  BY <1>0, <1>1, <1>2, <1>3, EventAfterSound DEF TypeOK
<1>5. Grows
  BY <1>3, <1>4 DEF Grows
<1>6. TypeOK'
  <2>1. event' \in [Event -> EventNode \union {NoEvent}]
    BY <1>0, <1>3, <1>4 DEF TypeOK
  <2>2. invitingEventList' \in [User -> [Event -> Entry]]
    BY <1>0, <1>2, <1>3, EntryAfterType DEF TypeOK
  <2>3. invitingMemberList' \in [Event -> SUBSET User]
    BY <1>0, <1>2, <1>3 DEF TypeOK, InvitingAfter
  <2>4. notification' \in SUBSET Note
    BY <1>0, <1>2, <1>3 DEF TypeOK, NotificationAfter, Note
  <2>5. outbox' \in [User -> Seq(Write)]
    <3>1. Tail(outbox[u]) \in Seq(Write)
      BY <1>0, SeqHeadTail DEF TypeOK, Deliver
    <3> QED
      BY <1>0, <1>3, <3>1 DEF TypeOK
  <2> QED
    BY <1>0, <1>3, <2>1, <2>2, <2>3, <2>4, <2>5 DEF TypeOK
<1>7. EventsSound'
  BY <1>0, <1>3, <1>4 DEF EventsSound, RosterSound
<1>8. ViewsSound'
  BY <1>0, <1>3, <1>5, ViewGrows DEF ViewsSound, TypeOK
<1>9. FormsSound'
  BY <1>0, <1>3, <1>5, FormGrows DEF FormsSound, TypeOK
<1>10. OutboxSound'
  <2>1. Tail(outbox[u]) \in Seq(SoundWrite')
    BY <1>0, <1>1, <1>5, SoundWriteGrows, SeqMonotone
  <2>2. \A v \in User : outbox[v] \in Seq(SoundWrite')
    BY <1>0, <1>5, OutboxGrows
  <2> QED
    BY <1>0, <1>3, <2>1, <2>2 DEF OutboxSound, TypeOK
<1>11. OrganiserUninvited'
  <2>1. ASSUME NEW e \in Event, NEW m \in User,
               "eventID" \in invitingEventList'[m][e].keys
        PROVE  creator[e] \in User \ {m}
    <3>1. CASE m = w.userID /\ e = w.eventID
      <4>1. invitingEventList'[m][e] = EntryAfter(w, invitingEventList[m][e])
        BY <1>0, <1>2, <1>3, <3>1 DEF TypeOK
      <4>2. invitingEventList[m][e] \in Entry
        BY <1>0 DEF TypeOK
      <4>3. "eventID" \in invitingEventList[m][e].keys \/ w.op = "invite"
        BY <1>2, <2>1, <4>1, <4>2, EntryAfterInvite
      <4> QED
        BY <1>0, <1>1, <3>1, <4>3 DEF OrganiserUninvited, SoundWrite
    <3>2. CASE ~(m = w.userID /\ e = w.eventID)
      BY <1>0, <1>2, <1>3, <2>1, <3>2 DEF TypeOK, OrganiserUninvited
    <3> QED
      BY <3>1, <3>2
  <2> QED
    BY <1>0, <1>3, <2>1 DEF OrganiserUninvited
<1> QED
  BY <1>6, <1>7, <1>8, <1>9, <1>10, <1>11 DEF IInv, RostersSound

(* A step of a phone that touches its own screens, uploads and queue only. *)
LEMMA LocalIInv ==
  ASSUME IInv, UNCHANGED <<database, creator, agreed>>,
         outbox' \in [User -> Seq(SoundWrite)],
         view' \in [User -> View \union {NoView}],
         \A v \in User : view'[v] # NoView => ViewSound(v, view'[v]),
         form' \in [User -> Form \union {NoForm}],
         \A v \in User : form'[v] # NoForm => FormSound(v, form'[v]),
         uploads' \in [User -> SUBSET Form],
         \A v \in User : \A f \in uploads'[v] :
            FormSound(v, f) /\ creator[f.eventID] = v
  PROVE  IInv'
<1>0. TypeOK /\ EventsSound /\ OrganiserUninvited
  BY DEF IInv, RostersSound
<1>1. event' = event /\ invitingEventList' = invitingEventList
        /\ invitingMemberList' = invitingMemberList
        /\ notification' = notification /\ creator' = creator /\ agreed' = agreed
  BY DEF database
<1>2. SoundWrite' = SoundWrite
  BY <1>1 DEF SoundWrite, RosterSound
<1>3. TypeOK'
  <2>1. Seq(SoundWrite) \subseteq Seq(Write)
    BY SeqMonotone DEF SoundWrite
  <2> QED
    BY <1>0, <1>1, <2>1 DEF TypeOK
<1>4. EventsSound' /\ OrganiserUninvited'
  BY <1>0, <1>1 DEF EventsSound, RosterSound, OrganiserUninvited
<1>5. ViewsSound'
  BY <1>1 DEF ViewsSound, ViewSound, RosterSound
<1>6. FormsSound'
  BY <1>1 DEF FormsSound, FormSound, RosterSound
<1>7. OutboxSound'
  BY <1>2 DEF OutboxSound
<1> QED
  BY <1>3, <1>4, <1>5, <1>6, <1>7 DEF IInv, RostersSound

(* The parts of IInv a local step starts from.                             *)
LEMMA LocalFacts ==
  ASSUME IInv
  PROVE  /\ outbox \in [User -> Seq(SoundWrite)]
         /\ view \in [User -> View \union {NoView}]
         /\ \A v \in User : view[v] # NoView => ViewSound(v, view[v])
         /\ form \in [User -> Form \union {NoForm}]
         /\ \A v \in User : form[v] # NoForm => FormSound(v, form[v])
         /\ uploads \in [User -> SUBSET Form]
         /\ \A v \in User : \A f \in uploads[v] :
              FormSound(v, f) /\ creator[f.eventID] = v
BY DEF IInv, RostersSound, TypeOK, OutboxSound, ViewsSound, FormsSound

LEMMA EnqueueSound ==
  ASSUME IInv, NEW u \in User, NEW ws \in Seq(SoundWrite), Enqueue(u, ws)
  PROVE  outbox' \in [User -> Seq(SoundWrite)]
<1>1. outbox[u] \o ws \in Seq(SoundWrite)
  BY LocalFacts, SeqConcat
<1> QED
  BY <1>1, LocalFacts DEF Enqueue

LEMMA ProcessDiesIInv ==
  ASSUME IInv, NEW u \in User, ProcessDies(u)
  PROVE  IInv'
<1>1. outbox' \in [User -> Seq(SoundWrite)]
  BY LocalFacts DEF ProcessDies
<1> QED
  BY <1>1, LocalFacts, LocalIInv DEF ProcessDies

LEMMA OpenEventIInv ==
  ASSUME IInv, NEW u \in User, NEW e \in Event, NEW n \in BOOLEAN,
         OpenEvent(u, e, n)
  PROVE  IInv'
<1> DEFINE v == [eventID |-> e, organiserID |-> event[e].organiserID,
                 memberIDs |-> event[e].memberIDs, memberData |-> {},
                 notification |-> n, prompt |-> "pending"]
<1>1. event[e] \in EventNode /\ event[e] # NoEvent
  BY DEF IInv, TypeOK, OpenEvent
<1>2. v \in View
  BY <1>1 DEF View, EventNode
<1>3. ViewSound(u, v)
  BY <1>1 DEF IInv, RostersSound, EventsSound, ViewSound
<1>4. view' = [view EXCEPT ![u] = v]
  BY DEF OpenEvent
<1> QED
  BY <1>2, <1>3, <1>4, LocalFacts, LocalIInv DEF OpenEvent

LEMMA QueryUserDataIInv ==
  ASSUME IInv, NEW u \in User, QueryUserData(u)
  PROVE  IInv'
<1> DEFINE v == [view[u] EXCEPT !.memberData = view[u].memberIDs \ {Blank}]
<1>1. view[u] \in View /\ ViewSound(u, view[u])
  BY LocalFacts DEF QueryUserData
<1>2. v \in View
  BY <1>1 DEF View, MemberID
<1>3. ViewSound(u, v)
  BY <1>1 DEF ViewSound, RosterSound, View
<1>4. view' = [view EXCEPT ![u] = v]
  BY DEF QueryUserData
<1> QED
  BY <1>2, <1>3, <1>4, LocalFacts, LocalIInv DEF QueryUserData

(* Only an invited user is asked, and an organiser is not invited.         *)
LEMMA QueryEventListIInv ==
  ASSUME IInv, NEW u \in User, QueryEventList(u)
  PROVE  IInv'
<1> DEFINE e == view[u].eventID
           answer == PromptFor(invitingEventList[u][e])
           v == [view[u] EXCEPT !.prompt = answer]
<1>1. view[u] \in View /\ ViewSound(u, view[u]) /\ e \in Event
  BY LocalFacts DEF QueryEventList, View
<1>2. answer \in {"answer", "gone", "none"}
  BY DEF PromptFor
<1>3. v \in View
  BY <1>1, <1>2 DEF View
<1>4. answer = "answer" => u # creator[e]
  <2>1. answer = "answer" => "eventID" \in invitingEventList[u][e].keys
    BY DEF PromptFor, Unanswered, Complete, Key
  <2> QED
    BY <1>1, <2>1 DEF IInv, RostersSound, OrganiserUninvited
<1>5. ViewSound(u, v)
  BY <1>1, <1>4 DEF ViewSound, View
<1>6. view' = [view EXCEPT ![u] = v]
  BY DEF QueryEventList
<1> QED
  BY <1>3, <1>5, <1>6, LocalFacts, LocalIInv DEF QueryEventList

LEMMA PopIInv ==
  ASSUME IInv, NEW u \in User, Pop(u), NEW ws \in Seq(SoundWrite),
         Enqueue(u, ws) \/ UNCHANGED outbox,
         UNCHANGED <<database, form, uploads, creator, agreed>>
  PROVE  IInv'
<1>1. outbox' \in [User -> Seq(SoundWrite)]
  BY LocalFacts, EnqueueSound
<1> QED
  BY <1>1, LocalFacts, LocalIInv DEF Pop

LEMMA RejectIInv ==
  ASSUME IInv, NEW u \in User, Reject(u)
  PROVE  IInv'
<1>1. view[u].eventID \in Event /\ view[u].organiserID \in User
  BY LocalFacts DEF Reject, View
<1>2. RejectWrites(u, view[u]) \in Seq(SoundWrite)
  BY <1>1, SimpleWriteSound DEF RejectWrites, Op
<1> QED
  BY <1>2, PopIInv DEF Reject

LEMMA DropOutIInv ==
  ASSUME IInv, NEW u \in User, DropOut(u)
  PROVE  IInv'
<1>1. view[u] \in View /\ ViewSound(u, view[u])
  BY LocalFacts DEF DropOut, Idle
<1>2. SetMemberIDs(view[u].eventID, u, view[u].memberIDs \ {u}) \in SoundWrite
  <2>1. RosterSound(view[u].eventID, view[u].memberIDs \ {u})
    BY <1>1, RosterConstants DEF ViewSound, RosterSound
  <2> QED
    BY <1>1, <2>1, SetMemberIDsSound DEF ViewSound, View
<1>3. DropOutWrites(u, view[u]) \in Seq(SoundWrite)
  BY <1>1, <1>2, SimpleWriteSound DEF DropOutWrites, Op, View
<1> QED
  BY <1>3, PopIInv DEF DropOut

(* The one step that extends agreed: the copy of the array that the phone  *)
(* writes is sound only after it.                                          *)
LEMMA AgreeIInv ==
  ASSUME IInv, NEW u \in User, Agree(u)
  PROVE  IInv'
<1>v. PICK v \in View : v = view[u]
  BY LocalFacts DEF Agree
<1> DEFINE e == v.eventID
           ids == v.memberIDs \union {u}
<1>0. TypeOK /\ EventsSound /\ ViewsSound /\ FormsSound /\ OutboxSound
        /\ OrganiserUninvited
  BY DEF IInv, RostersSound
<1>1. v # NoView /\ ViewSound(u, v) /\ e \in Event /\ v.prompt = "answer"
  BY <1>v, LocalFacts DEF Agree, View
<1>2. /\ agreed' = [agreed EXCEPT ![e] = agreed[e] \union {u}]
      /\ view' = [view EXCEPT ![u] = NoView]
      /\ outbox' = [outbox EXCEPT ![u] = outbox[u] \o AgreeWrites(u, v)]
      /\ event' = event /\ invitingEventList' = invitingEventList
      /\ invitingMemberList' = invitingMemberList
      /\ notification' = notification
      /\ UNCHANGED <<form, uploads, creator>>
  BY <1>v DEF Agree, Pop, Enqueue, database
<1>3. Grows
  BY <1>0, <1>2 DEF Grows, TypeOK
<1>4. AgreeWrites(u, v) \in Seq(SoundWrite')
  <2>1. SetMemberIDs(e, u, ids) \in SoundWrite'
    <3>1. SetMemberIDs(e, u, ids) \in Write
      BY <1>1 DEF SetMemberIDs, SimpleWrite, Write, Op, View, MemberID
    <3>2. RosterSound(e, ids)'
      BY <1>0, <1>1, <1>2 DEF TypeOK, ViewSound, RosterSound
    <3> QED
      BY <1>1, <1>2, <3>1, <3>2
         DEF SetMemberIDs, SimpleWrite, SoundWrite, ViewSound, RosterSound
  <2>2. \A op \in {"notification", "isReply", "removeInviting"}, m \in User :
          SimpleWrite(op, e, m, u) \in SoundWrite'
    BY <1>0, <1>1, <1>3, SimpleWriteSound, SoundWriteGrows DEF Op
  <2> QED
    BY <1>1, <2>1, <2>2 DEF AgreeWrites, View
<1>5. OutboxSound'
  <2>1. \A x \in User : outbox[x] \in Seq(SoundWrite')
    BY <1>0, <1>3, OutboxGrows
  <2>2. outbox[u] \o AgreeWrites(u, v) \in Seq(SoundWrite')
    BY <1>4, <2>1, SeqConcat
  <2> QED
    BY <1>0, <1>2, <2>1, <2>2 DEF OutboxSound, TypeOK
<1>6. TypeOK'
  <2>1. Seq(SoundWrite') \subseteq Seq(Write)
    BY SeqMonotone DEF SoundWrite
  <2>2. outbox' \in [User -> Seq(Write)]
    BY <1>5, <2>1 DEF OutboxSound
  <2> QED
    BY <1>0, <1>1, <1>2, <2>2 DEF TypeOK
<1>7. EventsSound'
  BY <1>0, <1>2, <1>3 DEF EventsSound, RosterSound, Grows
<1>8. ViewsSound'
  BY <1>0, <1>2, <1>3, ViewGrows DEF ViewsSound, TypeOK
<1>9. FormsSound'
  BY <1>0, <1>2, <1>3, FormGrows DEF FormsSound, TypeOK
<1>10. OrganiserUninvited'
  <2>1. u # creator[e] /\ creator[e] # NoUser
    BY <1>1, RosterConstants DEF ViewSound, View
  <2> QED
    BY <1>0, <1>1, <1>2, <2>1 DEF OrganiserUninvited, TypeOK
<1> QED
  BY <1>5, <1>6, <1>7, <1>8, <1>9, <1>10 DEF IInv, RostersSound

LEMMA FormStepIInv ==
  ASSUME IInv, NEW u \in User, NEW f \in Form \union {NoForm},
         f # NoForm => FormSound(u, f), form' = [form EXCEPT ![u] = f],
         UNCHANGED <<database, outbox, view, uploads, creator, agreed>>
  PROVE  IInv'
BY LocalFacts, LocalIInv

LEMMA AddPressedIInv ==
  ASSUME IInv, NEW u \in User, NEW e \in Event, AddPressed(u, e)
  PROVE  IInv'
<1>1. NewForm(e) \in Form /\ FormSound(u, NewForm(e))
  BY DEF NewForm, Form, FormSound
<1> QED
  BY <1>1, FormStepIInv DEF AddPressed

LEMMA EditPressedIInv ==
  ASSUME IInv, NEW u \in User, EditPressed(u)
  PROVE  IInv'
<1> DEFINE v == view[u]
           f == EditForm(v.eventID, v.memberIDs, v.memberData)
<1>1. v \in View /\ ViewSound(u, v) /\ u = v.organiserID
  BY LocalFacts DEF EditPressed, Idle
<1>2. f \in Form
  BY <1>1 DEF EditForm, Form, View
<1>3. creator[v.eventID] \notin agreed[v.eventID]
  BY <1>1 DEF IInv, RostersSound, OrganiserUninvited, View
<1>4. FormSound(u, f)
  BY <1>1, <1>3 DEF FormSound, ViewSound, EditForm
<1> QED
  BY <1>2, <1>4, FormStepIInv DEF EditPressed

LEMMA AddMemberIInv ==
  ASSUME IInv, NEW u \in User, NEW m \in User, AddMember(u, m)
  PROVE  IInv'
<1>1. form[u] \in Form /\ FormSound(u, form[u])
  BY LocalFacts DEF AddMember
<1>2. DidUpdateMember(form[u], m) \in Form
  BY <1>1 DEF DidUpdateMember, Form
<1>3. FormSound(u, DidUpdateMember(form[u], m))
  BY <1>1 DEF DidUpdateMember, Form, FormSound, AddMember, MayAdd
<1> QED
  BY <1>2, <1>3, FormStepIInv DEF AddMember

LEMMA DeleteMemberIInv ==
  ASSUME IInv, NEW u \in User, NEW m \in User, DeleteMember(u, m)
  PROVE  IInv'
<1>1. form[u] \in Form /\ FormSound(u, form[u])
  BY LocalFacts DEF DeleteMember
<1>2. DeleteData(form[u], m) \in Form
  BY <1>1 DEF DeleteData, Form
<1>3. FormSound(u, DeleteData(form[u], m))
  BY <1>1 DEF DeleteData, Form, FormSound
<1> QED
  BY <1>2, <1>3, FormStepIInv DEF DeleteMember

(* The one step that gives an event its creator: until then nothing refers *)
(* to the event.                                                           *)
LEMMA DoneIInv ==
  ASSUME IInv, NEW u \in User, Done(u)
  PROVE  IInv'
<1>f. PICK f \in Form : f = form[u]
  BY LocalFacts DEF Done
<1> DEFINE e == f.eventID
<1>0. TypeOK /\ EventsSound /\ ViewsSound /\ FormsSound /\ OutboxSound
        /\ OrganiserUninvited
  BY DEF IInv, RostersSound
<1>1. FormSound(u, f) /\ e \in Event
  BY <1>f, LocalFacts DEF Done, Form
<1>2. /\ uploads' = [uploads EXCEPT ![u] = uploads[u] \union {f}]
      /\ form' = [form EXCEPT ![u] = NoForm]
      /\ view' = [view EXCEPT ![u] = NoView]
      /\ event' = event /\ invitingEventList' = invitingEventList
      /\ invitingMemberList' = invitingMemberList
      /\ notification' = notification
      /\ UNCHANGED <<outbox, agreed>>
  BY <1>f DEF Done, Pop, database
<1>3. \/ creator' = creator /\ creator[e] = u
      \/ creator[e] = NoUser /\ creator' = [creator EXCEPT ![e] = u]
  BY <1>f, <1>1 DEF Done, FormSound
<1>4. creator'[e] = u /\ creator' \in [Event -> User \union {NoUser}]
  BY <1>0, <1>1, <1>3 DEF TypeOK
<1>5. Grows
  BY <1>0, <1>1, <1>2, <1>3 DEF Grows, TypeOK
<1>6. TypeOK'
  BY <1>0, <1>1, <1>2, <1>4 DEF TypeOK
<1>7. EventsSound'
  BY <1>0, <1>2, <1>5, RosterConstants
     DEF EventsSound, RosterSound, Grows, TypeOK, EventNode
<1>8. ViewsSound'
  BY <1>0, <1>2, <1>5, ViewGrows DEF ViewsSound, TypeOK
<1>9. FormsSound'
  <2>1. FormSound(u, f)'
    BY <1>0, <1>1, <1>5, FormGrows
  <2>2. \A v \in User : form'[v] # NoForm => FormSound(v, form[v])'
    BY <1>0, <1>2, <1>5, FormGrows DEF FormsSound, TypeOK
  <2>3. ASSUME NEW v \in User, NEW g \in uploads[v]
        PROVE  FormSound(v, g)' /\ creator'[g.eventID] = v
    <3>1. g \in Form /\ g.eventID \in Event /\ creator[g.eventID] = v
      BY <1>0 DEF FormsSound, TypeOK, Form
    <3> QED
      BY <1>0, <1>5, <3>1, FormGrows, RosterConstants DEF FormsSound, Grows
  <2> QED
    BY <1>0, <1>2, <1>4, <2>1, <2>2, <2>3 DEF FormsSound, TypeOK, FormSound, RosterSound
<1>10. OutboxSound'
  BY <1>0, <1>2, <1>5, OutboxGrows DEF OutboxSound, TypeOK
<1>11. OrganiserUninvited'
  BY <1>0, <1>1, <1>2, <1>3, RosterConstants DEF OrganiserUninvited, TypeOK
<1> QED
  BY <1>6, <1>7, <1>8, <1>9, <1>10, <1>11 DEF IInv, RostersSound

LEMMA UploadDoneIInv ==
  ASSUME IInv, NEW u \in User, NEW f \in uploads[u], UploadDone(u, f)
  PROVE  IInv'
<1>1. f \in Form /\ FormSound(u, f) /\ creator[f.eventID] = u
  BY LocalFacts
<1>2. PICK removed \in Orders(RemovedMembers(f)),
           invited \in Orders(EditedMembers(f)) :
        Enqueue(u, RemoveWrites(u, f, removed) \o InviteWrites(u, f, invited)
                     \o <<EventWrite(u, f)>>)
  BY DEF UploadDone
<1>3. RemoveWrites(u, f, removed) \in Seq(SoundWrite)
  <2>1. RemovedMembers(f) \subseteq User
    BY <1>1 DEF RemovedMembers, Form
  <2>2. removed \in Seq(User)
    BY <2>1, OrdersAreSequences, SeqMonotone
  <2> QED
    BY <1>1, <2>2, RemoveWritesSound
<1>4. InviteWrites(u, f, invited) \in Seq(SoundWrite)
  <2>1. EditedMembers(f) \subseteq User \ {u}
    BY <1>1 DEF EditedMembers, Form, FormSound
  <2>2. invited \in Seq(User \ {u})
    BY <2>1, OrdersAreSequences, SeqMonotone
  <2> QED
    BY <1>1, <2>2, InviteWritesSound
<1>5. <<EventWrite(u, f)>> \in Seq(SoundWrite)
  BY <1>1, EventWriteSound
<1>6. outbox' \in [User -> Seq(SoundWrite)]
  BY <1>2, <1>3, <1>4, <1>5, SeqConcat, EnqueueSound
<1> QED
  BY <1>6, LocalFacts, LocalIInv DEF UploadDone

-----------------------------------------------------------------------------
(* Every step preserves IInv.                                              *)
LEMMA NextIInv == IInv /\ [Next]_vars => IInv'
<1> SUFFICES ASSUME IInv, [Next]_vars PROVE IInv'
  OBVIOUS
<1>1. CASE UNCHANGED vars
  BY <1>1, LocalFacts, LocalIInv DEF vars
<1>2. CASE Next
  <2>1. PICK u \in User : Phone(u) \/ Deliver(u) \/ Crash(u)
    BY <1>2 DEF Next
  <2>2. CASE Deliver(u)
    BY <2>2, DeliverIInv
  <2>3. CASE Crash(u)
    BY <2>3, ProcessDiesIInv DEF Crash
  <2>4. ASSUME NEW e \in Event, OpenFromMain(u, e) \/ OpenFromNotification(u, e)
        PROVE  IInv'
    BY <2>4, OpenEventIInv DEF OpenFromMain, OpenFromNotification
  <2>5. CASE QueryUserData(u)
    BY <2>5, QueryUserDataIInv
  <2>6. CASE QueryEventList(u)
    BY <2>6, QueryEventListIInv
  <2>7. CASE QueryEventListTraps(u)
    BY <2>7, ProcessDiesIInv DEF QueryEventListTraps
  <2>8. CASE Back(u) \/ DismissAlert(u)
    <3>1. <<>> \in Seq(SoundWrite)
      OBVIOUS
    <3> QED
      BY <2>8, <3>1, PopIInv DEF Back, DismissAlert
  <2>9. CASE Agree(u)
    BY <2>9, AgreeIInv
  <2>10. CASE Reject(u)
    BY <2>10, RejectIInv
  <2>11. CASE RejectTraps(u)
    BY <2>11, ProcessDiesIInv DEF RejectTraps
  <2>12. CASE DropOut(u)
    BY <2>12, DropOutIInv
  <2>13. ASSUME NEW e \in Event, AddPressed(u, e) PROVE IInv'
    BY <2>13, AddPressedIInv
  <2>14. CASE EditPressed(u)
    BY <2>14, EditPressedIInv
  <2>15. CASE Cancel(u)
    BY <2>15, FormStepIInv DEF Cancel
  <2>16. CASE Done(u)
    BY <2>16, DoneIInv
  <2>17. ASSUME NEW m \in User, AddMember(u, m) \/ DeleteMember(u, m)
         PROVE  IInv'
    BY <2>17, AddMemberIInv, DeleteMemberIInv
  <2>18. ASSUME NEW f \in uploads[u], UploadFails(u, f) PROVE IInv'
    BY <2>18, LocalFacts, LocalIInv DEF UploadFails
  <2>19. ASSUME NEW f \in uploads[u], UploadDone(u, f) PROVE IInv'
    BY <2>19, UploadDoneIInv
  <2> QED
    BY <2>1, <2>2, <2>3, <2>4, <2>5, <2>6, <2>7, <2>8, <2>9, <2>10, <2>11,
       <2>12, <2>13, <2>14, <2>15, <2>16, <2>17, <2>18, <2>19 DEF Phone
<1> QED
  BY <1>1, <1>2 DEF vars

(* Every copy of a member array stays sound, whichever phone writes last:  *)
(* the invariant the theorems below rest on.                               *)
THEOREM Inductive == Spec => []IInv
BY InitIInv, NextIInv, PTL DEF Spec

(* Every reachable state is well typed; in particular no write of          *)
(* memberIDs ever reaches an event node that does not exist, which would   *)
(* leave a node the forced casts of MainVC and NotificationVC trap on.     *)
THEOREM TypeCorrect == Spec => []TypeOK
<1>1. IInv => TypeOK
  BY DEF IInv
<1> QED
  BY <1>1, Inductive, PTL

(* Every copy of a member array, stale or not, is sound (AddEventVC,       *)
(* EventContentVC: the arrays the handlers build and write).               *)
THEOREM CopiesSound == Spec => []RostersSound
<1>1. IInv => RostersSound
  BY DEF IInv
<1> QED
  BY <1>1, Inductive, PTL

(* The "" of a new event survives every write of memberIDs.                *)
THEOREM SentinelSafe == Spec => []SentinelKept
<1>1. IInv => SentinelKept
  BY DEF IInv, RostersSound, EventsSound, RosterSound, SentinelKept
<1> QED
  BY <1>1, Inductive, PTL

(* Nobody becomes a member without having agreed.                          *)
THEOREM ConsentSafe == Spec => []OnlyConsenting
<1>1. IInv => OnlyConsenting
  BY DEF IInv, RostersSound, EventsSound, RosterSound, OnlyConsenting
<1> QED
  BY <1>1, Inductive, PTL

(* An event keeps its creator as organiser, who never is one of its        *)
(* members.                                                                *)
THEOREM OrganiserSafe == Spec => []OrganiserKept
<1>1. ASSUME IInv, NEW e \in Event, event[e] # NoEvent
      PROVE  event[e].organiserID = creator[e]
               /\ creator[e] \notin event[e].memberIDs
  <2>1. RosterSound(e, event[e].memberIDs) /\ event[e].organiserID = creator[e]
    BY <1>1 DEF IInv, RostersSound, EventsSound
  <2>2. creator[e] \in User
    BY <1>1, <2>1 DEF IInv, TypeOK, EventNode
  <2>3. creator[e] \notin agreed[e]
    BY <1>1 DEF IInv, RostersSound, OrganiserUninvited
  <2> QED
    BY <2>1, <2>2, <2>3, RosterConstants DEF RosterSound
<1>2. IInv => OrganiserKept
  BY <1>1 DEF OrganiserKept
<1> QED
  BY <1>2, Inductive, PTL

-----------------------------------------------------------------------------
(* Phones in turn.  What is under way is under way on one phone, and the   *)
(* rest of its queue settles what the writes before it began.              *)

IsWrite(w, op, e, m) == w.op = op /\ w.eventID = e /\ w.userID = m

(* A write of the member array that lists m.                               *)
Lists(w, e, m) == w.op = "memberIDs" /\ w.eventID = e /\ m \in w.memberIDs

Before(q, i, op, e, m) == \E j \in 1..(i - 1) : IsWrite(q[j], op, e, m)

After(q, i, op, e, m) == \E j \in (i + 1)..Len(q) : IsWrite(q[j], op, e, m)

(* Below, E stands for invitingEventList, L for invitingMemberList and C   *)
(* for creator.  First: whoever joined is in the array.                    *)
ListsJoined(E, e, ids) == \A m \in User : Joined(E[m][e]) => m \in ids

(* Only the creator's phone invites, only the others' answer.              *)
OwnWrite(u, w, C) ==
  /\ w.op \in {"event", "invite", "addInviting"} => C[w.eventID] = u
  /\ w.op \in {"memberIDs", "isReply", "removeInviting"} =>
       C[w.eventID] \in User \ {u} /\ w.userID = u

(* What write i of the queue q of u still needs.                           *)
ReplySettled(u, q, i, E) ==
  LET e == q[i].eventID
  IN  /\ Complete(E[u][e])
      /\ After(q, i, "removeInviting", e, u)
      /\ After(q, i, "isMember", e, u)
           \/ \E j \in (i + 1)..Len(q) : Lists(q[j], e, u)
      /\ \A j \in 1..Len(q) :
           q[j].op = "memberIDs" /\ q[j].eventID = e => Lists(q[j], e, u)

ArraySettled(u, q, i, E) ==
  \A m \in User : Joined(E[m][q[i].eventID]) =>
    \/ m \in q[i].memberIDs
    \/ Before(q, i, "isMember", q[i].eventID, m)
    \/ m = u /\ After(q, i, "isMember", q[i].eventID, m)

InviteSettled(q, i, L) ==
  \/ q[i].userID \in L[q[i].eventID]
  \/ Before(q, i, "addInviting", q[i].eventID, q[i].userID)

RemovalSettled(u, q, i, E) ==
  \/ ~Unanswered(E[u][q[i].eventID])
  \/ Before(q, i, "isReply", q[i].eventID, u)

WriteSettled(u, q, i, E, L) ==
  /\ q[i].op = "isReply" => ReplySettled(u, q, i, E)
  /\ q[i].op \in {"event", "memberIDs"} => ArraySettled(u, q, i, E)
  /\ q[i].op = "addInviting" =>
       After(q, i, "invite", q[i].eventID, q[i].userID)
  /\ q[i].op = "invite" => InviteSettled(q, i, L)
  /\ q[i].op = "removeInviting" => RemovalSettled(u, q, i, E)

QueueSettled(u, q, E, L, C) ==
  \A i \in 1..Len(q) : OwnWrite(u, q[i], C) /\ WriteSettled(u, q, i, E, L)

(* The record of a user who joined, and whether the user is listed: the    *)
(* queue of that user holds what is missing.                               *)
JoinedListed ==
  \A e \in Event, m \in User : Joined(invitingEventList[m][e]) =>
    \/ event[e] # NoEvent /\ m \in event[e].memberIDs
    \/ \E j \in 1..Len(outbox[m]) :
         Lists(outbox[m][j], e, m) \/ IsWrite(outbox[m][j], "isMember", e, m)

(* The list of pending invitees and the records: it is never too short,    *)
(* and a queue holds the invitation or the removal that is missing.        *)
PendingFollows ==
  \A e \in Event, m \in User :
    /\ Unanswered(invitingEventList[m][e]) => m \in invitingMemberList[e]
    /\ m \in invitingMemberList[e] =>
         \/ Unanswered(invitingEventList[m][e])
         \/ \E u \in User : \E j \in 1..Len(outbox[u]) :
              \/ IsWrite(outbox[u][j], "invite", e, m)
              \/ IsWrite(outbox[u][j], "removeInviting", e, m)

(* A record without all keys is the trace of a removal, or empty.          *)
Keyed(entry) == Complete(entry) \/ entry.keys \subseteq {"isMember"}

EntriesKeyed == \A e \in Event, m \in User : Keyed(invitingEventList[m][e])

(* The copies of the phone in use list whoever joined, and its question is *)
(* still open.                                                             *)
ViewCurrent(u) ==
  view[u] # NoView =>
    /\ ListsJoined(invitingEventList, view[u].eventID, view[u].memberIDs)
    /\ view[u].prompt = "answer" =>
         Unanswered(invitingEventList[u][view[u].eventID])
    /\ \A i \in 1..Len(outbox[u]) : creator[outbox[u][i].eventID] = u

FormsCurrent(u) ==
  /\ form[u] # NoForm /\ form[u].isEdit =>
       ListsJoined(invitingEventList, form[u].eventID, form[u].memberIDs)
  /\ \A f \in uploads[u] :
       ListsJoined(invitingEventList, f.eventID,
                   IF f.isEdit THEN f.memberIDs ELSE {})

PhoneSettled(u) ==
  /\ ViewCurrent(u) /\ FormsCurrent(u)
  /\ QueueSettled(u, outbox[u], invitingEventList, invitingMemberList, creator)

SerialInv ==
  /\ JoinedListed /\ PendingFollows /\ EntriesKeyed
  /\ \A u \in User : PhoneSettled(u)

-----------------------------------------------------------------------------
(* Positions in a queue.                                                   *)

LEMMA TailPositions ==
  ASSUME NEW q \in Seq(Write), q # <<>>
  PROVE  /\ Tail(q) \in Seq(Write) /\ Head(q) = q[1] /\ q[1] \in Write
         /\ Len(q) \in Nat \ {0} /\ Len(Tail(q)) = Len(q) - 1
         /\ \A i \in 1..Len(Tail(q)) : Tail(q)[i] = q[i + 1]
  OBVIOUS

LEMMA TailBefore ==
  ASSUME NEW q \in Seq(Write), q # <<>>, NEW i \in 1..Len(Tail(q)),
         NEW op, NEW e, NEW m, Before(q, i + 1, op, e, m)
  PROVE  IsWrite(q[1], op, e, m) \/ Before(Tail(q), i, op, e, m)
<1>1. PICK j \in 1..(i + 1 - 1) : IsWrite(q[j], op, e, m)
  BY DEF Before
<1> DEFINE t == Tail(q)
<1>2. Len(q) \in Nat \ {0} /\ Len(t) = Len(q) - 1
        /\ \A k \in 1..Len(t) : t[k] = q[k + 1]
  BY TailPositions
<1> HIDE DEF t
<1>3. CASE j > 1
  <2>1. j - 1 \in 1..(i - 1) /\ t[j - 1] = q[j]
    BY <1>1, <1>2, <1>3 DEF t
  <2> QED
    BY <1>1, <2>1 DEF Before, t
<1> QED
  BY <1>1, <1>3

LEMMA TailAfter ==
  ASSUME NEW q \in Seq(Write), q # <<>>, NEW i \in 1..Len(Tail(q)),
         NEW op, NEW e, NEW m, After(q, i + 1, op, e, m)
  PROVE  After(Tail(q), i, op, e, m)
<1>1. PICK j \in (i + 1 + 1)..Len(q) : IsWrite(q[j], op, e, m)
  BY DEF After
<1> DEFINE t == Tail(q)
<1>2. Len(q) \in Nat \ {0} /\ Len(t) = Len(q) - 1
        /\ \A k \in 1..Len(t) : t[k] = q[k + 1]
  BY TailPositions
<1> HIDE DEF t
<1>3. j - 1 \in (i + 1)..Len(t) /\ t[j - 1] = q[j]
  BY <1>1, <1>2 DEF t
<1> QED
  BY <1>1, <1>3 DEF After, t

LEMMA ConcatPositions ==
  ASSUME NEW q \in Seq(Write), NEW t \in Seq(Write)
  PROVE  /\ q \o t \in Seq(Write) /\ Len(q \o t) = Len(q) + Len(t)
         /\ Len(q) \in Nat /\ Len(t) \in Nat
         /\ \A i \in 1..Len(q) : (q \o t)[i] = q[i]
         /\ \A i \in 1..Len(t) : (q \o t)[Len(q) + i] = t[i]
  OBVIOUS

(* What a position of a queue is preceded or followed by stays so when the *)
(* queue grows, at either end.                                             *)
LEMMA ConcatAround ==
  ASSUME NEW q \in Seq(Write), NEW t \in Seq(Write), NEW op, NEW e, NEW m
  PROVE  /\ \A i \in 1..Len(q) :
              /\ Before(q, i, op, e, m) => Before(q \o t, i, op, e, m)
              /\ After(q, i, op, e, m) => After(q \o t, i, op, e, m)
         /\ \A i \in 1..Len(t) :
              /\ Before(t, i, op, e, m) => Before(q \o t, Len(q) + i, op, e, m)
              /\ After(t, i, op, e, m) => After(q \o t, Len(q) + i, op, e, m)
<1> DEFINE d == q \o t
<1>1. /\ Len(d) = Len(q) + Len(t) /\ Len(q) \in Nat /\ Len(t) \in Nat
      /\ \A i \in 1..Len(q) : d[i] = q[i]
      /\ \A i \in 1..Len(t) : d[Len(q) + i] = t[i]
  BY ConcatPositions
<1> HIDE DEF d
<1>2. ASSUME NEW i \in 1..Len(q)
      PROVE  /\ Before(q, i, op, e, m) => Before(d, i, op, e, m)
             /\ After(q, i, op, e, m) => After(d, i, op, e, m)
  <2>1. \A j \in 1..(i - 1) : j \in 1..Len(q) /\ d[j] = q[j]
    BY <1>1
  <2>2. \A j \in (i + 1)..Len(q) : j \in (i + 1)..Len(d) /\ d[j] = q[j]
    BY <1>1
  <2> QED
    BY <2>1, <2>2 DEF Before, After
<1>3. ASSUME NEW i \in 1..Len(t), Before(t, i, op, e, m)
      PROVE  Before(d, Len(q) + i, op, e, m)
  <2>1. PICK j \in 1..(i - 1) : IsWrite(t[j], op, e, m)
    BY <1>3 DEF Before
  <2>2. Len(q) + j \in 1..(Len(q) + i - 1) /\ d[Len(q) + j] = t[j]
    BY <1>1, <2>1
  <2> QED
    BY <2>1, <2>2 DEF Before
<1>4. ASSUME NEW i \in 1..Len(t), After(t, i, op, e, m)
      PROVE  After(d, Len(q) + i, op, e, m)
  <2>1. PICK j \in (i + 1)..Len(t) : IsWrite(t[j], op, e, m)
    BY <1>4 DEF After
  <2>2. Len(q) + j \in (Len(q) + i + 1)..Len(d) /\ d[Len(q) + j] = t[j]
    BY <1>1, <2>1
  <2> QED
    BY <2>1, <2>2 DEF After
<1> QED
  BY <1>2, <1>3, <1>4 DEF d

-----------------------------------------------------------------------------
(* One write is applied: what it does to records and lists.                *)

LEMMA EntryAfterSettles ==
  ASSUME NEW x \in Entry, Keyed(x), NEW w \in Write,
         w.op = "isReply" => Complete(x)
  PROVE  /\ Keyed(EntryAfter(w, x))
         /\ Complete(x) => Complete(EntryAfter(w, x))
         /\ Joined(EntryAfter(w, x)) => Joined(x) \/ w.op = "isReply"
         /\ Unanswered(EntryAfter(w, x)) => Unanswered(x) \/ w.op = "invite"
         /\ Unanswered(x) => Unanswered(EntryAfter(w, x)) \/ w.op = "isReply"
         /\ w.op = "invite" => Unanswered(EntryAfter(w, x))
         /\ w.op = "isReply" => ~Unanswered(EntryAfter(w, x))
         /\ w.op = "isMember" => ~Joined(EntryAfter(w, x))
<1>1. CASE w.op = "invite"
  BY <1>1 DEF EntryAfter, SetEntry, Keyed, Complete, Joined, Unanswered
<1>2. CASE w.op = "isReply"
  <2>1. EntryAfter(w, x) = UpdateIsReply(x)
    BY <1>2 DEF EntryAfter
  <2> QED
    BY <1>2, <2>1 DEF UpdateIsReply, Keyed, Complete, Joined, Unanswered, Entry, Key
<1>3. CASE w.op = "isMember"
  <2>1. EntryAfter(w, x) = UpdateIsMember(x)
    BY <1>3 DEF EntryAfter
  <2> QED
    BY <1>3, <2>1 DEF UpdateIsMember, Keyed, Complete, Joined, Unanswered, Entry, Key
<1>4. CASE w.op \notin {"invite", "isReply", "isMember"}
  <2>1. EntryAfter(w, x) = x
    BY <1>4 DEF EntryAfter
  <2> QED
    BY <1>4, <2>1
<1> QED
  BY <1>1, <1>2, <1>3, <1>4

(* E and L become F and K.                                                 *)
Settles(w, E, F, L, K) ==
  \A e \in Event, m \in User :
    /\ Keyed(F[m][e])
    /\ Complete(E[m][e]) => Complete(F[m][e])
    /\ Joined(F[m][e]) => Joined(E[m][e]) \/ IsWrite(w, "isReply", e, m)
    /\ Unanswered(F[m][e]) => Unanswered(E[m][e]) \/ IsWrite(w, "invite", e, m)
    /\ Unanswered(E[m][e]) => Unanswered(F[m][e]) \/ IsWrite(w, "isReply", e, m)
    /\ IsWrite(w, "invite", e, m) => Unanswered(F[m][e])
    /\ IsWrite(w, "isReply", e, m) => ~Unanswered(F[m][e])
    /\ IsWrite(w, "isMember", e, m) => ~Joined(F[m][e])
    /\ IsWrite(w, "addInviting", e, m) => m \in K[e]
    /\ IsWrite(w, "removeInviting", e, m) => m \notin K[e]
    /\ m \in L[e] => m \in K[e] \/ IsWrite(w, "removeInviting", e, m)
    /\ m \in K[e] => m \in L[e] \/ IsWrite(w, "addInviting", e, m)

LEMMA DeliverSettles ==
  ASSUME IInv, EntriesKeyed, NEW u \in User, Deliver(u),
         NEW w \in Write, w = Head(outbox[u]),
         w.op = "isReply" => Complete(invitingEventList[w.userID][w.eventID])
  PROVE  Settles(w, invitingEventList, invitingEventList',
                 invitingMemberList, invitingMemberList')
<1>1. /\ invitingEventList \in [User -> [Event -> Entry]]
      /\ invitingMemberList \in [Event -> SUBSET User]
      /\ w.userID \in User /\ w.eventID \in Event
  BY DEF IInv, TypeOK, Write
<1>2. /\ invitingEventList' = [invitingEventList EXCEPT ![w.userID][w.eventID] =
                  EntryAfter(w, invitingEventList[w.userID][w.eventID])]
      /\ invitingMemberList' = [invitingMemberList EXCEPT ![w.eventID] =
                  InvitingAfter(w, invitingMemberList[w.eventID])]
  BY DEF Deliver
<1> SUFFICES ASSUME NEW e \in Event, NEW m \in User
             PROVE  Settles(w, invitingEventList, invitingEventList',
                            invitingMemberList, invitingMemberList')!(e, m)
  BY DEF Settles
<1> DEFINE x == invitingEventList[m][e]
           y == invitingEventList'[m][e]
<1>3. x \in Entry /\ Keyed(x)
  BY <1>1 DEF EntriesKeyed
<1>4. \/ /\ w.userID = m /\ w.eventID = e /\ y = EntryAfter(w, x)
         /\ (w.op = "isReply" => Complete(x))
      \/ ~(w.userID = m /\ w.eventID = e) /\ y = x
  BY <1>1, <1>2
<1> HIDE DEF x, y
<1>5. /\ Keyed(y)
      /\ Complete(x) => Complete(y)
      /\ Joined(y) => Joined(x) \/ IsWrite(w, "isReply", e, m)
      /\ Unanswered(y) => Unanswered(x) \/ IsWrite(w, "invite", e, m)
      /\ Unanswered(x) => Unanswered(y) \/ IsWrite(w, "isReply", e, m)
      /\ IsWrite(w, "invite", e, m) => Unanswered(y)
      /\ IsWrite(w, "isReply", e, m) => ~Unanswered(y)
      /\ IsWrite(w, "isMember", e, m) => ~Joined(y)
  BY <1>3, <1>4, EntryAfterSettles DEF IsWrite
<1>6. /\ IsWrite(w, "addInviting", e, m) => m \in invitingMemberList'[e]
      /\ IsWrite(w, "removeInviting", e, m) => m \notin invitingMemberList'[e]
      /\ m \in invitingMemberList[e] =>
           m \in invitingMemberList'[e] \/ IsWrite(w, "removeInviting", e, m)
      /\ m \in invitingMemberList'[e] =>
           m \in invitingMemberList[e] \/ IsWrite(w, "addInviting", e, m)
  BY <1>1, <1>2 DEF InvitingAfter, IsWrite
<1> QED
  BY <1>5, <1>6 DEF x, y

(* The writes left need no more than they did.                             *)
LEMMA TailSettled ==
  ASSUME NEW u \in User, NEW q \in Seq(Write), q # <<>>,
         NEW E, NEW F, NEW L, NEW K, NEW C,
         Settles(q[1], E, F, L, K), QueueSettled(u, q, E, L, C)
  PROVE  QueueSettled(u, Tail(q), F, K, C)
<1> DEFINE t == Tail(q)
           w == q[1]
<1>1. /\ t \in Seq(Write) /\ Len(q) \in Nat \ {0} /\ Len(t) = Len(q) - 1
      /\ \A i \in 1..Len(t) : t[i] = q[i + 1]
  BY TailPositions
<1>2. \A i \in 1..Len(t) : \A op, e, m :
        /\ Before(q, i + 1, op, e, m) =>
             IsWrite(w, op, e, m) \/ Before(t, i, op, e, m)
        /\ After(q, i + 1, op, e, m) => After(t, i, op, e, m)
  BY TailBefore, TailAfter
<1>3. OwnWrite(u, w, C) /\ WriteSettled(u, q, 1, E, L)
  BY <1>1 DEF QueueSettled
<1> HIDE DEF t, w
<1> SUFFICES ASSUME NEW i \in 1..Len(t)
             PROVE  OwnWrite(u, t[i], C) /\ WriteSettled(u, t, i, F, K)
  BY DEF QueueSettled, t
<1> DEFINE e == t[i].eventID
           m == t[i].userID
<1>4. /\ i + 1 \in 1..Len(q) /\ q[i + 1] = t[i] /\ t[i] \in Write
      /\ e \in Event /\ m \in User
  <2>1. i + 1 \in 1..Len(q) /\ q[i + 1] = t[i]
    BY <1>1
  <2>2. t[i] \in Write
    BY <1>1
  <2> QED
    BY <2>1, <2>2 DEF Write
<1>5. OwnWrite(u, t[i], C) /\ WriteSettled(u, q, i + 1, E, L)
  BY <1>4 DEF QueueSettled
<1> HIDE DEF e, m
<1>6. \A n \in User :
        /\ Complete(E[n][e]) => Complete(F[n][e])
        /\ Joined(F[n][e]) => Joined(E[n][e]) \/ IsWrite(w, "isReply", e, n)
        /\ Unanswered(F[n][e]) => Unanswered(E[n][e]) \/ IsWrite(w, "invite", e, n)
        /\ IsWrite(w, "isReply", e, n) => ~Unanswered(F[n][e])
        /\ IsWrite(w, "isMember", e, n) => ~Joined(F[n][e])
        /\ IsWrite(w, "addInviting", e, n) => n \in K[e]
        /\ n \in L[e] => n \in K[e] \/ IsWrite(w, "removeInviting", e, n)
  BY <1>4 DEF Settles, w
<1>7. t[i].op = "isReply" => ReplySettled(u, t, i, F)
  <2> SUFFICES ASSUME t[i].op = "isReply"
               PROVE  ReplySettled(u, t, i, F)
    OBVIOUS
  <2>1. ReplySettled(u, q, i + 1, E)
    BY <1>4, <1>5 DEF WriteSettled
  <2>2. Complete(F[u][e]) /\ After(t, i, "removeInviting", e, u)
    BY <1>2, <1>4, <1>6, <2>1 DEF ReplySettled, e
  <2>3. \/ After(t, i, "isMember", e, u)
        \/ \E j \in (i + 1)..Len(t) : Lists(t[j], e, u)
    <3>1. CASE After(q, i + 1, "isMember", e, u)
      BY <1>2, <3>1
    <3>2. ASSUME NEW j \in (i + 1 + 1)..Len(q), Lists(q[j], e, u)
          PROVE  \E k \in (i + 1)..Len(t) : Lists(t[k], e, u)
      <4>1. j - 1 \in (i + 1)..Len(t) /\ t[j - 1] = q[j]
        BY <1>1, <3>2
      <4> QED
        BY <3>2, <4>1
    <3> QED
      BY <1>4, <2>1, <3>1, <3>2 DEF ReplySettled, e
  <2>4. ASSUME NEW j \in 1..Len(t), t[j].op = "memberIDs", t[j].eventID = e
        PROVE  Lists(t[j], e, u)
    <3>1. j + 1 \in 1..Len(q) /\ q[j + 1] = t[j]
      BY <1>1
    <3> QED
      BY <1>4, <2>1, <2>4, <3>1 DEF ReplySettled, e
  <2> QED
    BY <2>2, <2>3, <2>4 DEF ReplySettled, e
<1>8. t[i].op \in {"event", "memberIDs"} => ArraySettled(u, t, i, F)
  <2> SUFFICES ASSUME t[i].op \in {"event", "memberIDs"}, NEW n \in User,
                      Joined(F[n][e])
               PROVE  \/ n \in t[i].memberIDs \/ Before(t, i, "isMember", e, n)
                      \/ n = u /\ After(t, i, "isMember", e, n)
    BY DEF ArraySettled, e
  <2>1. CASE Joined(E[n][e])
    <3>1. \/ n \in t[i].memberIDs \/ Before(q, i + 1, "isMember", e, n)
          \/ n = u /\ After(q, i + 1, "isMember", e, n)
      BY <1>4, <1>5, <2>1 DEF WriteSettled, ArraySettled, e
    <3>2. ~IsWrite(w, "isMember", e, n)
      BY <1>6
    <3> QED
      BY <1>2, <3>1, <3>2
  <2>2. CASE IsWrite(w, "isReply", e, n)
    <3>1. n = u /\ C[e] # u /\ ReplySettled(u, q, 1, E) /\ q[1].eventID = e
      BY <1>3, <2>2 DEF IsWrite, OwnWrite, WriteSettled, w
    <3>2. t[i].op = "memberIDs"
      BY <1>5, <3>1 DEF OwnWrite, e
    <3>3. Lists(t[i], e, u)
      BY <1>4, <3>1, <3>2 DEF ReplySettled, e
    <3> QED
      BY <3>1, <3>3 DEF Lists
  <2> QED
    BY <1>6, <2>1, <2>2
<1>9. t[i].op = "addInviting" => After(t, i, "invite", e, m)
  BY <1>2, <1>4, <1>5 DEF WriteSettled, e, m
<1>10. t[i].op = "invite" => InviteSettled(t, i, K)
  <2> SUFFICES ASSUME t[i].op = "invite"
               PROVE  m \in K[e] \/ Before(t, i, "addInviting", e, m)
    BY DEF InviteSettled, e, m
  <2>1. m \in L[e] \/ Before(q, i + 1, "addInviting", e, m)
    BY <1>4, <1>5 DEF WriteSettled, InviteSettled, e, m
  <2>2. C[e] = u
    BY <1>5 DEF OwnWrite, e
  <2>3. ~IsWrite(w, "removeInviting", e, m)
    BY <1>3, <2>2 DEF IsWrite, OwnWrite
  <2> QED
    BY <1>2, <1>4, <1>6, <2>1, <2>3
<1>11. t[i].op = "removeInviting" => RemovalSettled(u, t, i, F)
  <2> SUFFICES ASSUME t[i].op = "removeInviting"
               PROVE  ~Unanswered(F[u][e]) \/ Before(t, i, "isReply", e, u)
    BY DEF RemovalSettled, e
  <2>1. ~Unanswered(E[u][e]) \/ Before(q, i + 1, "isReply", e, u)
    BY <1>4, <1>5 DEF WriteSettled, RemovalSettled, e
  <2>2. C[e] # u
    BY <1>5 DEF OwnWrite, e
  <2>3. ~IsWrite(w, "invite", e, u)
    BY <1>3, <2>2 DEF IsWrite, OwnWrite
  <2> QED
    BY <1>2, <1>6, <2>1, <2>3
<1> QED
  BY <1>5, <1>7, <1>8, <1>9, <1>10, <1>11 DEF WriteSettled, e, m
-----------------------------------------------------------------------------
(* Writes join the end of a queue.                                         *)

(* No write of q asks for the answer of its user to be listed.             *)
Unanswering(q) == \A i \in 1..Len(q) : q[i].op \notin {"isReply", "memberIDs"}

About(q, e) == \A i \in 1..Len(q) : q[i].eventID = e

LEMMA FirstSettled ==
  ASSUME NEW u \in User, NEW q \in Seq(Write), NEW t \in Seq(Write),
         NEW E, NEW L, NEW C, QueueSettled(u, q, E, L, C),
         Unanswering(q) \/ Unanswering(t), NEW i \in 1..Len(q)
  PROVE  OwnWrite(u, (q \o t)[i], C) /\ WriteSettled(u, q \o t, i, E, L)
<1> DEFINE d == q \o t
           e == q[i].eventID
           m == q[i].userID
<1>1. /\ Len(d) = Len(q) + Len(t) /\ Len(q) \in Nat /\ Len(t) \in Nat
      /\ \A j \in 1..Len(q) : d[j] = q[j]
      /\ \A j \in 1..Len(t) : d[Len(q) + j] = t[j]
  BY ConcatPositions
<1>2. OwnWrite(u, q[i], C) /\ WriteSettled(u, q, i, E, L)
  BY DEF QueueSettled
<1>3. \A op, n : /\ Before(q, i, op, e, n) => Before(d, i, op, e, n)
                 /\ After(q, i, op, e, n) => After(d, i, op, e, n)
  BY ConcatAround
<1>4. d[i] = q[i]
  BY <1>1
<1> HIDE DEF d, e, m
<1>5. q[i].op = "isReply" => ReplySettled(u, d, i, E)
  <2> SUFFICES ASSUME q[i].op = "isReply"
               PROVE  ReplySettled(u, d, i, E)
    OBVIOUS
  <2>1. ReplySettled(u, q, i, E)
    BY <1>2 DEF WriteSettled
  <2>2. ASSUME NEW j \in (i + 1)..Len(q), Lists(q[j], e, u)
        PROVE  \E k \in (i + 1)..Len(d) : Lists(d[k], e, u)
    <3>1. j \in (i + 1)..Len(d) /\ j \in 1..Len(q)
      BY <1>1
    <3>2. d[j] = q[j]
      BY <1>1, <3>1
    <3> QED
      BY <2>2, <3>1, <3>2
  <2>3. Unanswering(t)
    BY DEF Unanswering
  <2>4. ASSUME NEW j \in 1..Len(d), d[j].op = "memberIDs", d[j].eventID = e
        PROVE  Lists(d[j], e, u)
    <3>1. CASE j \in 1..Len(q)
      <4>1. d[j] = q[j]
        BY <1>1, <3>1
      <4> QED
        BY <2>1, <2>4, <3>1, <4>1 DEF ReplySettled, e
    <3>2. CASE j \notin 1..Len(q)
      <4>1. j - Len(q) \in 1..Len(t) /\ Len(q) + (j - Len(q)) = j
        BY <1>1, <3>2
      <4>2. d[j] = t[j - Len(q)]
        BY <1>1, <4>1
      <4> QED
        BY <2>3, <2>4, <4>1, <4>2 DEF Unanswering
    <3> QED
      BY <3>1, <3>2
  <2>5. /\ Complete(E[u][e]) /\ After(q, i, "removeInviting", e, u)
        /\ \/ After(q, i, "isMember", e, u)
           \/ \E j \in (i + 1)..Len(q) : Lists(q[j], e, u)
    BY <2>1 DEF ReplySettled, e
  <2> QED
    BY <1>3, <1>4, <2>2, <2>4, <2>5 DEF ReplySettled, e
<1>6. q[i].op \in {"event", "memberIDs"} => ArraySettled(u, d, i, E)
  BY <1>2, <1>3, <1>4 DEF WriteSettled, ArraySettled, e
<1>7. q[i].op = "addInviting" => After(d, i, "invite", e, m)
  BY <1>2, <1>3, <1>4 DEF WriteSettled, e, m
<1>8. q[i].op = "invite" => InviteSettled(d, i, L)
  BY <1>2, <1>3, <1>4 DEF WriteSettled, InviteSettled, e, m
<1>9. q[i].op = "removeInviting" => RemovalSettled(u, d, i, E)
  BY <1>2, <1>3, <1>4 DEF WriteSettled, RemovalSettled, e
<1>10. OwnWrite(u, d[i], C) /\ WriteSettled(u, d, i, E, L)
  BY <1>2, <1>4, <1>5, <1>6, <1>7, <1>8, <1>9 DEF WriteSettled, e, m
<1> QED
  BY <1>10 DEF d

LEMMA SecondSettled ==
  ASSUME NEW u \in User, NEW q \in Seq(Write), NEW t \in Seq(Write),
         NEW E, NEW L, NEW C, QueueSettled(u, t, E, L, C),
         Unanswering(q) \/ Unanswering(t), NEW i \in 1..Len(t)
  PROVE  /\ OwnWrite(u, (q \o t)[Len(q) + i], C)
         /\ WriteSettled(u, q \o t, Len(q) + i, E, L)
<1> DEFINE d == q \o t
           p == Len(q) + i
           e == t[i].eventID
           m == t[i].userID
<1>1. /\ Len(d) = Len(q) + Len(t) /\ Len(q) \in Nat /\ Len(t) \in Nat
      /\ \A j \in 1..Len(q) : d[j] = q[j]
      /\ \A j \in 1..Len(t) : d[Len(q) + j] = t[j]
  BY ConcatPositions
<1>2. OwnWrite(u, t[i], C) /\ WriteSettled(u, t, i, E, L)
  BY DEF QueueSettled
<1>3. \A op, n : /\ Before(t, i, op, e, n) => Before(d, p, op, e, n)
                 /\ After(t, i, op, e, n) => After(d, p, op, e, n)
  BY ConcatAround
<1>4. d[p] = t[i] /\ p = Len(q) + i
  BY <1>1
<1> HIDE DEF d, e, m, p
<1>5. t[i].op = "isReply" => ReplySettled(u, d, p, E)
  <2> SUFFICES ASSUME t[i].op = "isReply"
               PROVE  ReplySettled(u, d, p, E)
    OBVIOUS
  <2>1. ReplySettled(u, t, i, E)
    BY <1>2 DEF WriteSettled
  <2>2. ASSUME NEW j \in (i + 1)..Len(t), Lists(t[j], e, u)
        PROVE  \E k \in (p + 1)..Len(d) : Lists(d[k], e, u)
    <3>1. Len(q) + j \in (p + 1)..Len(d) /\ j \in 1..Len(t)
      BY <1>1, <1>4
    <3>2. d[Len(q) + j] = t[j]
      BY <1>1, <3>1
    <3> QED
      BY <2>2, <3>1, <3>2
  <2>3. Unanswering(q)
    BY DEF Unanswering
  <2>4. ASSUME NEW j \in 1..Len(d), d[j].op = "memberIDs", d[j].eventID = e
        PROVE  Lists(d[j], e, u)
    <3>1. CASE j \in 1..Len(q)
      <4>1. d[j] = q[j]
        BY <1>1, <3>1
      <4> QED
        BY <2>3, <2>4, <3>1, <4>1 DEF Unanswering
    <3>2. CASE j \notin 1..Len(q)
      <4>1. j - Len(q) \in 1..Len(t) /\ Len(q) + (j - Len(q)) = j
        BY <1>1, <3>2
      <4>2. d[j] = t[j - Len(q)]
        BY <1>1, <4>1
      <4> QED
        BY <2>1, <2>4, <4>1, <4>2 DEF ReplySettled, e
    <3> QED
      BY <3>1, <3>2
  <2>5. /\ Complete(E[u][e]) /\ After(t, i, "removeInviting", e, u)
        /\ \/ After(t, i, "isMember", e, u)
           \/ \E j \in (i + 1)..Len(t) : Lists(t[j], e, u)
    BY <2>1 DEF ReplySettled, e
  <2> QED
    BY <1>3, <1>4, <2>2, <2>4, <2>5 DEF ReplySettled, e
<1>6. t[i].op \in {"event", "memberIDs"} => ArraySettled(u, d, p, E)
  BY <1>2, <1>3, <1>4 DEF WriteSettled, ArraySettled, e
<1>7. t[i].op = "addInviting" => After(d, p, "invite", e, m)
  BY <1>2, <1>3, <1>4 DEF WriteSettled, e, m
<1>8. t[i].op = "invite" => InviteSettled(d, p, L)
  BY <1>2, <1>3, <1>4 DEF WriteSettled, InviteSettled, e, m
<1>9. t[i].op = "removeInviting" => RemovalSettled(u, d, p, E)
  BY <1>2, <1>3, <1>4 DEF WriteSettled, RemovalSettled, e
<1>10. OwnWrite(u, d[p], C) /\ WriteSettled(u, d, p, E, L)
  BY <1>2, <1>4, <1>5, <1>6, <1>7, <1>8, <1>9 DEF WriteSettled, e, m
<1> QED
  BY <1>10 DEF d, p

LEMMA ConcatSettled ==
  ASSUME NEW u \in User, NEW q \in Seq(Write), NEW t \in Seq(Write),
         NEW E, NEW L, NEW C, QueueSettled(u, q, E, L, C),
         QueueSettled(u, t, E, L, C), Unanswering(q) \/ Unanswering(t)
  PROVE  QueueSettled(u, q \o t, E, L, C)
<1> DEFINE d == q \o t
<1>1. Len(d) = Len(q) + Len(t) /\ Len(q) \in Nat /\ Len(t) \in Nat
  BY ConcatPositions
<1>2. \A i \in 1..Len(q) : OwnWrite(u, d[i], C) /\ WriteSettled(u, d, i, E, L)
  BY FirstSettled
<1>3. \A i \in 1..Len(t) : OwnWrite(u, d[Len(q) + i], C)
                             /\ WriteSettled(u, d, Len(q) + i, E, L)
  BY SecondSettled
<1> HIDE DEF d
<1>4. ASSUME NEW i \in 1..Len(d), i \notin 1..Len(q)
      PROVE  OwnWrite(u, d[i], C) /\ WriteSettled(u, d, i, E, L)
  <2>1. i - Len(q) \in 1..Len(t) /\ Len(q) + (i - Len(q)) = i
    BY <1>1, <1>4
  <2> QED
    BY <1>3, <2>1
<1>5. QueueSettled(u, d, E, L, C)
  BY <1>2, <1>4 DEF QueueSettled
<1> QED
  BY <1>5 DEF d

-----------------------------------------------------------------------------
(* The queues the handlers write.                                          *)

LEMMA SimpleWriteType ==
  ASSUME NEW op \in Op, NEW e \in Event, NEW m \in User, NEW by \in User
  PROVE  /\ SimpleWrite(op, e, m, by) \in Write
         /\ IsWrite(SimpleWrite(op, e, m, by), op, e, m)
  BY DEF SimpleWrite, Write, IsWrite

LEMMA SetMemberIDsType ==
  ASSUME NEW e \in Event, NEW m \in User, NEW ids \in SUBSET MemberID
  PROVE  /\ SetMemberIDs(e, m, ids) \in Write
         /\ IsWrite(SetMemberIDs(e, m, ids), "memberIDs", e, m)
         /\ SetMemberIDs(e, m, ids).memberIDs = ids
  BY DEF SetMemberIDs, SimpleWrite, Write, IsWrite, Op

LEMMA FourWrites ==
  ASSUME NEW a \in Write, NEW b \in Write, NEW c \in Write, NEW d \in Write
  PROVE  LET q == <<a, b, c, d>>
         IN  /\ q \in Seq(Write) /\ Len(q) = 4 /\ 1..Len(q) = {1, 2, 3, 4}
             /\ q[1] = a /\ q[2] = b /\ q[3] = c /\ q[4] = d
  OBVIOUS

LEMMA ThreeWrites ==
  ASSUME NEW a \in Write, NEW b \in Write, NEW c \in Write
  PROVE  LET q == <<a, b, c>>
         IN  /\ q \in Seq(Write) /\ Len(q) = 3 /\ 1..Len(q) = {1, 2, 3}
             /\ q[1] = a /\ q[2] = b /\ q[3] = c
  OBVIOUS

LEMMA AgreeSettled ==
  ASSUME NEW u \in User, NEW v \in View, NEW E, NEW L, NEW C,
         ListsJoined(E, v.eventID, v.memberIDs), Unanswered(E[u][v.eventID]),
         C[v.eventID] \in User \ {u}
  PROVE  AgreeWrites(u, v) \in Seq(Write) /\ QueueSettled(u, AgreeWrites(u, v), E, L, C)
<1> DEFINE e == v.eventID
           q == AgreeWrites(u, v)
           ids == v.memberIDs \union {u}
           a == SimpleWrite("notification", e, v.organiserID, u)
           b == SimpleWrite("isReply", e, u, u)
           c == SimpleWrite("removeInviting", e, u, u)
           d == SetMemberIDs(e, u, ids)
<1>1. e \in Event /\ v.organiserID \in User /\ ids \in SUBSET MemberID
  BY DEF View, MemberID
<1>2. /\ a \in Write /\ b \in Write /\ c \in Write /\ d \in Write
      /\ IsWrite(a, "notification", e, v.organiserID)
      /\ IsWrite(b, "isReply", e, u)
      /\ IsWrite(c, "removeInviting", e, u)
      /\ IsWrite(d, "memberIDs", e, u) /\ d.memberIDs = ids
  BY <1>1, SimpleWriteType, SetMemberIDsType DEF Op
<1>3. q = <<a, b, c, d>>
  BY DEF AgreeWrites
<1> HIDE DEF a, b, c, d, q
<1>4. /\ q \in Seq(Write) /\ Len(q) = 4 /\ 1..Len(q) = {1, 2, 3, 4}
      /\ q[1] = a /\ q[2] = b /\ q[3] = c /\ q[4] = d
  BY <1>2, <1>3, FourWrites
<1>5. /\ q[1] \in Write /\ q[2] \in Write /\ q[3] \in Write /\ q[4] \in Write
      /\ IsWrite(q[1], "notification", e, v.organiserID)
      /\ IsWrite(q[2], "isReply", e, u)
      /\ IsWrite(q[3], "removeInviting", e, u)
      /\ IsWrite(q[4], "memberIDs", e, u) /\ q[4].memberIDs = ids
  BY <1>2, <1>4
<1>6. Complete(E[u][e])
  BY DEF Unanswered
<1>7. OwnWrite(u, q[1], C) /\ WriteSettled(u, q, 1, E, L)
  BY <1>5 DEF IsWrite, OwnWrite, WriteSettled
<1>8. OwnWrite(u, q[2], C) /\ WriteSettled(u, q, 2, E, L)
  <2>1. After(q, 2, "removeInviting", e, u)
    BY <1>4, <1>5 DEF After
  <2>0. Lists(q[4], e, u) /\ 4 \in (2 + 1)..Len(q)
    BY <1>4, <1>5 DEF IsWrite, Lists
  <2>2. \E j \in (2 + 1)..Len(q) : Lists(q[j], e, u)
    BY <2>0
  <2>3. \A j \in 1..Len(q) :
          q[j].op = "memberIDs" /\ q[j].eventID = e => Lists(q[j], e, u)
    BY <1>5, <1>4, <2>0 DEF IsWrite
  <2>4. ReplySettled(u, q, 2, E)
    BY <1>5, <1>6, <2>1, <2>2, <2>3 DEF ReplySettled, IsWrite
  <2> QED
    BY <1>5, <2>4 DEF IsWrite, OwnWrite, WriteSettled
<1>9. OwnWrite(u, q[3], C) /\ WriteSettled(u, q, 3, E, L)
  <2>1. Before(q, 3, "isReply", e, u)
    BY <1>5 DEF Before
  <2> QED
    BY <1>5, <2>1 DEF IsWrite, OwnWrite, WriteSettled, RemovalSettled
<1>10. OwnWrite(u, q[4], C) /\ WriteSettled(u, q, 4, E, L)
  <2>1. ArraySettled(u, q, 4, E)
    BY <1>5 DEF IsWrite, ArraySettled, ListsJoined
  <2> QED
    BY <1>5, <2>1 DEF IsWrite, OwnWrite, WriteSettled
<1>11. QueueSettled(u, q, E, L, C)
  BY <1>4, <1>7, <1>8, <1>9, <1>10 DEF QueueSettled
<1> QED
  BY <1>4, <1>11 DEF q

LEMMA RejectSettled ==
  ASSUME NEW u \in User, NEW v \in View, NEW E, NEW L, NEW C,
         Unanswered(E[u][v.eventID]), C[v.eventID] \in User \ {u}
  PROVE  RejectWrites(u, v) \in Seq(Write) /\ QueueSettled(u, RejectWrites(u, v), E, L, C)
<1> DEFINE e == v.eventID
           q == RejectWrites(u, v)
           a == SimpleWrite("isReply", e, u, u)
           b == SimpleWrite("isMember", e, u, u)
           c == SimpleWrite("removeInviting", e, u, u)
           d == SimpleWrite("notification", e, v.organiserID, u)
<1>1. e \in Event /\ v.organiserID \in User
  BY DEF View
<1>2. /\ a \in Write /\ b \in Write /\ c \in Write /\ d \in Write
      /\ IsWrite(a, "isReply", e, u)
      /\ IsWrite(b, "isMember", e, u)
      /\ IsWrite(c, "removeInviting", e, u)
      /\ IsWrite(d, "notification", e, v.organiserID)
  BY <1>1, SimpleWriteType DEF Op
<1>3. q = <<a, b, c, d>>
  BY DEF RejectWrites
<1> HIDE DEF a, b, c, d, q
<1>4. /\ q \in Seq(Write) /\ Len(q) = 4 /\ 1..Len(q) = {1, 2, 3, 4}
      /\ q[1] = a /\ q[2] = b /\ q[3] = c /\ q[4] = d
  BY <1>2, <1>3, FourWrites
<1>5. /\ q[1] \in Write /\ q[2] \in Write /\ q[3] \in Write /\ q[4] \in Write
      /\ IsWrite(q[1], "isReply", e, u)
      /\ IsWrite(q[2], "isMember", e, u)
      /\ IsWrite(q[3], "removeInviting", e, u)
      /\ IsWrite(q[4], "notification", e, v.organiserID)
  BY <1>2, <1>4
<1>6. Complete(E[u][e])
  BY DEF Unanswered
<1>7. OwnWrite(u, q[1], C) /\ WriteSettled(u, q, 1, E, L)
  <2>1. After(q, 1, "removeInviting", e, u) /\ After(q, 1, "isMember", e, u)
    BY <1>4, <1>5 DEF After
  <2>2. \A j \in 1..Len(q) : q[j].op # "memberIDs"
    BY <1>4, <1>5 DEF IsWrite
  <2>3. ReplySettled(u, q, 1, E)
    BY <1>5, <1>6, <2>1, <2>2 DEF ReplySettled, IsWrite
  <2> QED
    BY <1>5, <2>3 DEF IsWrite, OwnWrite, WriteSettled
<1>8. OwnWrite(u, q[2], C) /\ WriteSettled(u, q, 2, E, L)
  BY <1>5 DEF IsWrite, OwnWrite, WriteSettled
<1>9. OwnWrite(u, q[3], C) /\ WriteSettled(u, q, 3, E, L)
  <2>1. Before(q, 3, "isReply", e, u)
    BY <1>5 DEF Before
  <2> QED
    BY <1>5, <2>1 DEF IsWrite, OwnWrite, WriteSettled, RemovalSettled
<1>10. OwnWrite(u, q[4], C) /\ WriteSettled(u, q, 4, E, L)
  BY <1>5 DEF IsWrite, OwnWrite, WriteSettled
<1>11. QueueSettled(u, q, E, L, C)
  BY <1>4, <1>7, <1>8, <1>9, <1>10 DEF QueueSettled
<1> QED
  BY <1>4, <1>11 DEF q

LEMMA DropOutSettled ==
  ASSUME NEW u \in User, NEW v \in View, NEW E, NEW L, NEW C,
         ListsJoined(E, v.eventID, v.memberIDs), C[v.eventID] \in User \ {u}
  PROVE  DropOutWrites(u, v) \in Seq(Write) /\ QueueSettled(u, DropOutWrites(u, v), E, L, C)
<1> DEFINE e == v.eventID
           q == DropOutWrites(u, v)
           ids == v.memberIDs \ {u}
           a == SetMemberIDs(e, u, ids)
           b == SimpleWrite("isMember", e, u, u)
           c == SimpleWrite("notification", e, v.organiserID, u)
<1>1. e \in Event /\ v.organiserID \in User /\ ids \in SUBSET MemberID
  BY DEF View
<1>2. /\ a \in Write /\ b \in Write /\ c \in Write
      /\ IsWrite(a, "memberIDs", e, u) /\ a.memberIDs = ids
      /\ IsWrite(b, "isMember", e, u)
      /\ IsWrite(c, "notification", e, v.organiserID)
  BY <1>1, SimpleWriteType, SetMemberIDsType DEF Op
<1>3. q = <<a, b, c>>
  BY DEF DropOutWrites
<1> HIDE DEF a, b, c, q
<1>4. /\ q \in Seq(Write) /\ Len(q) = 3 /\ 1..Len(q) = {1, 2, 3}
      /\ q[1] = a /\ q[2] = b /\ q[3] = c
  BY <1>2, <1>3, ThreeWrites
<1>5. /\ q[1] \in Write /\ q[2] \in Write /\ q[3] \in Write
      /\ IsWrite(q[1], "memberIDs", e, u) /\ q[1].memberIDs = ids
      /\ IsWrite(q[2], "isMember", e, u)
      /\ IsWrite(q[3], "notification", e, v.organiserID)
  BY <1>2, <1>4
<1>6. OwnWrite(u, q[1], C) /\ WriteSettled(u, q, 1, E, L)
  <2>1. After(q, 1, "isMember", e, u)
    BY <1>4, <1>5 DEF After
  <2>2. ArraySettled(u, q, 1, E)
    BY <1>5, <2>1 DEF IsWrite, ArraySettled, ListsJoined
  <2> QED
    BY <1>5, <2>2 DEF IsWrite, OwnWrite, WriteSettled
<1>7. OwnWrite(u, q[2], C) /\ WriteSettled(u, q, 2, E, L)
  BY <1>5 DEF IsWrite, OwnWrite, WriteSettled
<1>8. OwnWrite(u, q[3], C) /\ WriteSettled(u, q, 3, E, L)
  BY <1>5 DEF IsWrite, OwnWrite, WriteSettled
<1>9. QueueSettled(u, q, E, L, C)
  BY <1>4, <1>6, <1>7, <1>8 DEF QueueSettled
<1> QED
  BY <1>4, <1>9 DEF q
(* The closure of an upload: who is removed stops being a member before    *)
(* the event is written, and every invitation follows its entry in the     *)
(* list of pending invitees.                                               *)
LEMMA OrderedUsers ==
  ASSUME NEW S, S \subseteq User, NEW order \in Orders(S)
  PROVE  /\ order \in Seq(User) /\ Len(order) \in Nat
         /\ \A m \in S : \E i \in 1..Len(order) : order[i] = m
<1>1. Cardinality(S) \in Nat
  BY UserFinite, FS_Subset, FS_CardinalityType
<1>2. order \in Seq(User) /\ Len(order) = Cardinality(S)
  BY <1>1, OrdersAreSequences, SeqOfFunction, SeqMonotone DEF Orders
<1> QED
  BY <1>1, <1>2 DEF Orders

LEMMA RemovalsSettled ==
  ASSUME NEW u \in User, NEW f \in Form, NEW S, S \subseteq User,
         NEW order \in Orders(S), NEW E, NEW L, NEW C
  PROVE  LET q == RemoveWrites(u, f, order)
         IN  /\ q \in Seq(Write) /\ QueueSettled(u, q, E, L, C)
             /\ Unanswering(q) /\ About(q, f.eventID)
             /\ \A m \in S : \E j \in 1..Len(q) :
                  IsWrite(q[j], "isMember", f.eventID, m)
<1> DEFINE q == RemoveWrites(u, f, order)
           n == 2 * Len(order)
           e == f.eventID
<1>1. /\ order \in Seq(User) /\ Len(order) \in Nat /\ e \in Event
      /\ \A m \in S : \E i \in 1..Len(order) : order[i] = m
  BY OrderedUsers DEF Form
<1>2. ASSUME NEW k \in 1..n
      PROVE  /\ RemoveWrite(u, e, order[((k - 1) \div 2) + 1], (k - 1) % 2) \in Write
             /\ RemoveWrite(u, e, order[((k - 1) \div 2) + 1], (k - 1) % 2).op
                  \in {"isMember", "notification"}
             /\ RemoveWrite(u, e, order[((k - 1) \div 2) + 1], (k - 1) % 2).eventID = e
  <2>1. ((k - 1) \div 2) + 1 \in 1..Len(order)
    BY <1>1
  <2>2. order[((k - 1) \div 2) + 1] \in User
    BY <1>1, <2>1
  <2> QED
    BY <1>1, <2>2, SimpleWriteType DEF RemoveWrite, IsWrite, Op
<1>3. q \in [1..n -> Write] /\ n \in Nat
  BY <1>1, <1>2 DEF RemoveWrites
<1>4. q \in Seq(Write) /\ Len(q) = n
  BY <1>3, SeqOfFunction
<1>5. \A k \in 1..Len(q) :
        q[k].op \in {"isMember", "notification"} /\ q[k].eventID = e
  BY <1>2, <1>4 DEF RemoveWrites
<1>6. ASSUME NEW m \in S
      PROVE  \E j \in 1..Len(q) : IsWrite(q[j], "isMember", e, m)
  <2>1. PICK i \in 1..Len(order) : order[i] = m
    BY <1>1
  <2> DEFINE k == 2 * (i - 1) + 1
  <2>2. k \in 1..n /\ ((k - 1) \div 2) + 1 = i /\ (k - 1) % 2 = 0
    BY <1>1
  <2> HIDE DEF k, n
  <2>3. q[k] = RemoveWrite(u, e, order[((k - 1) \div 2) + 1], (k - 1) % 2)
    BY <2>2 DEF RemoveWrites, n
  <2>4. q[k] = SimpleWrite("isMember", e, m, u)
    BY <2>1, <2>2, <2>3 DEF RemoveWrite
  <2> QED
    BY <1>1, <1>4, <2>2, <2>4, SimpleWriteType DEF Op
<1> HIDE DEF q
<1>7. QueueSettled(u, q, E, L, C) /\ Unanswering(q) /\ About(q, e)
  BY <1>5 DEF QueueSettled, OwnWrite, WriteSettled, Unanswering, About
<1> QED
  BY <1>4, <1>6, <1>7 DEF q

LEMMA InvitationsSettled ==
  ASSUME NEW u \in User, NEW f \in Form, NEW S, S \subseteq User,
         NEW order \in Orders(S), NEW E, NEW L, NEW C, C[f.eventID] = u
  PROVE  LET q == InviteWrites(u, f, order)
         IN  /\ q \in Seq(Write) /\ QueueSettled(u, q, E, L, C)
             /\ Unanswering(q) /\ About(q, f.eventID)
<1> DEFINE q == InviteWrites(u, f, order)
           n == 3 * Len(order)
           e == f.eventID
           at(k) == order[((k - 1) \div 3) + 1]
           step(k) == (k - 1) % 3
<1>1. order \in Seq(User) /\ Len(order) \in Nat /\ e \in Event
  BY OrderedUsers DEF Form
<1>2. \A k \in 1..n : at(k) \in User /\ step(k) \in 0..2
  <2>1. ASSUME NEW k \in 1..n
        PROVE  ((k - 1) \div 3) + 1 \in 1..Len(order) /\ (k - 1) % 3 \in 0..2
    BY <1>1
  <2> QED
    BY <1>1, <2>1
<1>3. /\ \A k \in 1..n : step(k) = 0 =>
           k + 1 \in 1..n /\ step(k + 1) = 1 /\ at(k + 1) = at(k)
      /\ \A k \in 1..n : step(k) = 1 =>
           k - 1 \in 1..n /\ step(k - 1) = 0 /\ at(k - 1) = at(k)
  <2>1. ASSUME NEW k \in 1..n, (k - 1) % 3 = 0
        PROVE  k + 1 \in 1..n /\ (k + 1 - 1) % 3 = 1
                 /\ (k + 1 - 1) \div 3 = (k - 1) \div 3
    BY <1>1, <2>1
  <2>2. ASSUME NEW k \in 1..n, (k - 1) % 3 = 1
        PROVE  k - 1 \in 1..n /\ (k - 1 - 1) % 3 = 0
                 /\ (k - 1 - 1) \div 3 = (k - 1) \div 3
    BY <1>1, <2>2
  <2> QED
    BY <2>1, <2>2
<1>4. n \in Nat
  BY <1>1
<1>5. \A k \in 1..n : q[k] = InviteWrite(u, e, at(k), step(k))
  BY DEF InviteWrites
<1> HIDE DEF at, step
<1>6. \A k \in 1..n :
        /\ q[k] \in Write
        /\ step(k) = 0 => IsWrite(q[k], "addInviting", e, at(k))
        /\ step(k) = 1 => IsWrite(q[k], "invite", e, at(k))
        /\ step(k) = 2 => IsWrite(q[k], "notification", e, at(k))
  BY <1>1, <1>2, <1>5, SimpleWriteType DEF InviteWrite, Op
<1>7. q \in Seq(Write) /\ Len(q) = n
  <2>1. q \in [1..n -> Write]
    BY <1>5, <1>6 DEF InviteWrites
  <2> QED
    BY <1>4, <2>1, SeqOfFunction
<1> HIDE DEF q, n
<1> SUFFICES QueueSettled(u, q, E, L, C) /\ Unanswering(q) /\ About(q, e)
  BY <1>7 DEF q
<1>8. Unanswering(q) /\ About(q, e)
  BY <1>2, <1>6, <1>7 DEF Unanswering, About, IsWrite
<1>9. ASSUME NEW k \in 1..Len(q)
      PROVE  OwnWrite(u, q[k], C) /\ WriteSettled(u, q, k, E, L)
  <2>1. CASE step(k) = 0
    <3>1. k + 1 \in (k + 1)..Len(q) /\ IsWrite(q[k + 1], "invite", e, at(k))
      BY <1>3, <1>4, <1>6, <1>7, <2>1
    <3>2. IsWrite(q[k], "addInviting", e, at(k))
      BY <1>6, <1>7, <2>1
    <3>3. After(q, k, "invite", e, at(k))
      BY <3>1 DEF After
    <3> QED
      BY <3>2, <3>3 DEF OwnWrite, WriteSettled, IsWrite
  <2>2. CASE step(k) = 1
    <3>0. k - 1 \in 1..n /\ step(k - 1) = 0 /\ at(k - 1) = at(k)
      BY <1>3, <1>7, <2>2
    <3>1. k - 1 \in 1..(k - 1) /\ IsWrite(q[k - 1], "addInviting", e, at(k))
      <4>1. k - 1 \in 1..(k - 1)
        BY <1>4, <3>0
      <4> QED
        BY <1>6, <3>0, <4>1
    <3>2. IsWrite(q[k], "invite", e, at(k))
      BY <1>6, <1>7, <2>2
    <3>3. Before(q, k, "addInviting", e, at(k))
      BY <3>1 DEF Before
    <3> QED
      BY <3>2, <3>3 DEF OwnWrite, WriteSettled, InviteSettled, IsWrite
  <2>3. CASE step(k) = 2
    <3>1. IsWrite(q[k], "notification", e, at(k))
      BY <1>6, <1>7, <2>3
    <3> QED
      BY <3>1 DEF OwnWrite, WriteSettled, IsWrite
  <2> QED
    BY <1>2, <1>7, <2>1, <2>2, <2>3
<1> QED
  BY <1>8, <1>9 DEF QueueSettled
LEMMA AppendSettled ==
  ASSUME NEW u \in User, NEW q \in Seq(Write), NEW w \in Write,
         NEW E, NEW L, NEW C, QueueSettled(u, q, E, L, C), Unanswering(q),
         w.op = "event", C[w.eventID] = u,
         \A m \in User : Joined(E[m][w.eventID]) =>
           \/ m \in w.memberIDs
           \/ \E j \in 1..Len(q) : IsWrite(q[j], "isMember", w.eventID, m)
  PROVE  /\ q \o <<w>> \in Seq(Write) /\ QueueSettled(u, q \o <<w>>, E, L, C)
         /\ Unanswering(q \o <<w>>)
         /\ About(q, w.eventID) => About(q \o <<w>>, w.eventID)
<1> DEFINE t == <<w>>
           d == q \o t
           e == w.eventID
           p == Len(q) + 1
<1>1. t \in Seq(Write) /\ Len(t) = 1 /\ t[1] = w
  OBVIOUS
<1> HIDE DEF t
<1>2. /\ d \in Seq(Write) /\ Len(d) = p /\ Len(q) \in Nat /\ d[p] = w
      /\ \A j \in 1..Len(q) : d[j] = q[j]
  <2>1. /\ d \in Seq(Write) /\ Len(d) = Len(q) + Len(t) /\ Len(q) \in Nat
        /\ \A j \in 1..Len(q) : d[j] = q[j]
        /\ \A j \in 1..Len(t) : d[Len(q) + j] = t[j]
    BY <1>1, ConcatPositions
  <2>2. 1 \in 1..Len(t)
    BY <1>1
  <2> QED
    BY <1>1, <2>1, <2>2
<1>3. Unanswering(t)
  BY <1>1 DEF Unanswering
<1>4. \A i \in 1..Len(q) : OwnWrite(u, d[i], C) /\ WriteSettled(u, d, i, E, L)
  BY <1>1, <1>3, FirstSettled
<1>5. /\ p \in Nat /\ p = Len(q) + 1
      /\ \A i \in 1..p : i \in 1..Len(q) \/ i = p
      /\ \A j \in 1..Len(q) : j \in 1..(p - 1)
  BY <1>2
<1> HIDE DEF d, p
<1>6. ArraySettled(u, d, p, E)
  <2> SUFFICES ASSUME NEW m \in User, Joined(E[m][e])
               PROVE  m \in w.memberIDs \/ Before(d, p, "isMember", e, m)
    BY <1>2 DEF ArraySettled
  <2>1. ASSUME NEW j \in 1..Len(q), IsWrite(q[j], "isMember", e, m)
        PROVE  Before(d, p, "isMember", e, m)
    BY <1>2, <1>5, <2>1 DEF Before
  <2> QED
    BY <2>1
<1>7. OwnWrite(u, w, C)
  BY DEF OwnWrite
<1>8. OwnWrite(u, d[p], C) /\ WriteSettled(u, d, p, E, L)
  BY <1>2, <1>6, <1>7 DEF WriteSettled
<1>9. QueueSettled(u, d, E, L, C)
  BY <1>2, <1>4, <1>5, <1>8 DEF QueueSettled
<1>10. Unanswering(d) /\ (About(q, e) => About(d, e))
  BY <1>2, <1>5 DEF Unanswering, About
<1> QED
  BY <1>2, <1>9, <1>10 DEF d, t

LEMMA UnansweringConcat ==
  ASSUME NEW q \in Seq(Write), NEW t \in Seq(Write), NEW e,
         Unanswering(q), Unanswering(t), About(q, e), About(t, e)
  PROVE  Unanswering(q \o t) /\ About(q \o t, e)
<1> DEFINE d == q \o t
<1>1. /\ Len(d) = Len(q) + Len(t) /\ Len(q) \in Nat /\ Len(t) \in Nat
      /\ \A j \in 1..Len(q) : d[j] = q[j]
      /\ \A j \in 1..Len(t) : d[Len(q) + j] = t[j]
  BY ConcatPositions
<1> HIDE DEF d
<1>2. ASSUME NEW i \in 1..Len(d)
      PROVE  d[i].op \notin {"isReply", "memberIDs"} /\ d[i].eventID = e
  <2>1. CASE i \in 1..Len(q)
    BY <1>1, <2>1 DEF Unanswering, About
  <2>2. CASE i \notin 1..Len(q)
    <3>1. i - Len(q) \in 1..Len(t) /\ Len(q) + (i - Len(q)) = i
      BY <1>1, <2>2
    <3>2. d[i] = t[i - Len(q)]
      BY <1>1, <3>1
    <3> QED
      BY <3>1, <3>2 DEF Unanswering, About
  <2> QED
    BY <2>1, <2>2
<1> QED
  BY <1>2 DEF Unanswering, About, d

LEMMA UploadSettled ==
  ASSUME NEW u \in User, NEW f \in Form, NEW E, NEW L, NEW C, C[f.eventID] = u,
         ListsJoined(E, f.eventID, IF f.isEdit THEN f.memberIDs ELSE {}),
         NEW removed \in Orders(RemovedMembers(f)),
         NEW invited \in Orders(EditedMembers(f))
  PROVE  LET q == RemoveWrites(u, f, removed) \o InviteWrites(u, f, invited)
                    \o <<EventWrite(u, f)>>
         IN  /\ q \in Seq(Write) /\ QueueSettled(u, q, E, L, C)
             /\ Unanswering(q) /\ About(q, f.eventID)
<1> DEFINE R == RemoveWrites(u, f, removed)
           I == InviteWrites(u, f, invited)
           w == EventWrite(u, f)
           e == f.eventID
<1>1. RemovedMembers(f) \subseteq User /\ EditedMembers(f) \subseteq User
  BY DEF RemovedMembers, EditedMembers, Form
<1>2. /\ R \in Seq(Write) /\ QueueSettled(u, R, E, L, C)
      /\ Unanswering(R) /\ About(R, e)
      /\ \A m \in RemovedMembers(f) : \E j \in 1..Len(R) : IsWrite(R[j], "isMember", e, m)
  BY <1>1, RemovalsSettled
<1>3. /\ I \in Seq(Write) /\ QueueSettled(u, I, E, L, C)
      /\ Unanswering(I) /\ About(I, e)
  BY <1>1, InvitationsSettled
<1>4. /\ w \in Write /\ w.op = "event" /\ w.eventID = e
      /\ w.memberIDs = FinalMemberIDs(f)
  BY RosterConstants
     DEF EventWrite, SimpleWrite, Write, Op, Form, FinalMemberIDs,
         RemovedMembers, EditedMembers, MemberID
<1> HIDE DEF R, I, w
<1> DEFINE d == R \o I
<1>5. /\ d \in Seq(Write) /\ QueueSettled(u, d, E, L, C)
      /\ Unanswering(d) /\ About(d, e)
  BY <1>2, <1>3, ConcatPositions, ConcatSettled, UnansweringConcat
<1>6. \A m \in RemovedMembers(f) : \E j \in 1..Len(d) : IsWrite(d[j], "isMember", e, m)
  <2>1. \A j \in 1..Len(R) : j \in 1..Len(d) /\ d[j] = R[j]
    BY <1>2, <1>3, ConcatPositions
  <2> QED
    BY <1>2, <2>1
<1> HIDE DEF d
<1>7. \A m \in User : Joined(E[m][e]) =>
        m \in w.memberIDs \/ \E j \in 1..Len(d) : IsWrite(d[j], "isMember", e, m)
  BY <1>4, <1>6 DEF ListsJoined, FinalMemberIDs
<1>8. /\ d \o <<w>> \in Seq(Write) /\ QueueSettled(u, d \o <<w>>, E, L, C)
      /\ Unanswering(d \o <<w>>) /\ About(d \o <<w>>, e)
  BY <1>4, <1>5, <1>7, AppendSettled
<1> QED
  BY <1>8 DEF d, R, I, w
-----------------------------------------------------------------------------
(* Steps of the phone in use that leave the database alone.                *)

LEMMA QuietSettled ==
  ASSUME NEW v \in User, view'[v] = NoView, form'[v] = NoForm,
         uploads'[v] = {}, outbox'[v] = <<>>
  PROVE  PhoneSettled(v)'
<1>1. 1..Len(outbox'[v]) = {}
  OBVIOUS
<1>2. QueueSettled(v, outbox'[v], invitingEventList', invitingMemberList', creator')
  BY <1>1 DEF QueueSettled
<1>3. ViewCurrent(v)' /\ FormsCurrent(v)'
  BY DEF ViewCurrent, FormsCurrent
<1> QED
  BY <1>2, <1>3 DEF PhoneSettled

LEMMA LocalSerial ==
  ASSUME SerialInv, NEW u \in User, Alone(u), UNCHANGED database,
         \A v \in User \ {u} : /\ view'[v] = view[v] /\ form'[v] = form[v]
                               /\ uploads'[v] = uploads[v] /\ outbox'[v] = outbox[v],
         \A j \in 1..Len(outbox[u]) :
           j \in 1..Len(outbox'[u]) /\ outbox'[u][j] = outbox[u][j],
         PhoneSettled(u)'
  PROVE  SerialInv'
<1>1. event' = event /\ invitingEventList' = invitingEventList
        /\ invitingMemberList' = invitingMemberList
  BY DEF database
<1>2. \A v \in User : \A j \in 1..Len(outbox[v]) :
        j \in 1..Len(outbox'[v]) /\ outbox'[v][j] = outbox[v][j]
  OBVIOUS
<1>3. JoinedListed'
  BY <1>1, <1>2 DEF SerialInv, JoinedListed
<1>4. PendingFollows'
  BY <1>1, <1>2 DEF SerialInv, PendingFollows
<1>5. EntriesKeyed'
  BY <1>1 DEF SerialInv, EntriesKeyed
<1>6. \A v \in User \ {u} : PhoneSettled(v)'
  BY QuietSettled DEF Alone, Quiet
<1> QED
  BY <1>3, <1>4, <1>5, <1>6 DEF SerialInv

LEMMA SerialFacts ==
  ASSUME IInv, SerialInv, NEW u \in User
  PROVE  /\ outbox[u] \in Seq(Write) /\ outbox \in [User -> Seq(Write)]
         /\ ViewCurrent(u) /\ FormsCurrent(u)
         /\ QueueSettled(u, outbox[u], invitingEventList, invitingMemberList, creator)
  BY DEF IInv, TypeOK, SerialInv, PhoneSettled

(* The phone shows something else.                                         *)
LEMMA ViewStepSerial ==
  ASSUME IInv, SerialInv, NEW u \in User, Alone(u), NEW x,
         view' = [view EXCEPT ![u] = x],
         UNCHANGED <<database, outbox, form, uploads, creator>>,
         x # NoView =>
           /\ ListsJoined(invitingEventList, x.eventID, x.memberIDs)
           /\ x.prompt = "answer" => Unanswered(invitingEventList[u][x.eventID])
           /\ \A i \in 1..Len(outbox[u]) : creator[outbox[u][i].eventID] = u
  PROVE  SerialInv'
<1>1. view'[u] = x /\ \A v \in User \ {u} : view'[v] = view[v]
  BY LocalFacts
<1>2. invitingEventList' = invitingEventList /\ invitingMemberList' = invitingMemberList
  BY DEF database
<1>3. ViewCurrent(u)'
  BY <1>1, <1>2 DEF ViewCurrent
<1>4. FormsCurrent(u)'
  BY <1>2, SerialFacts DEF FormsCurrent
<1>5. PhoneSettled(u)'
  BY <1>2, <1>3, <1>4, SerialFacts DEF PhoneSettled
<1> QED
  BY <1>1, <1>5, LocalSerial

(* The form or the uploads of the phone change, or both.                   *)
LEMMA FormStepSerial ==
  ASSUME IInv, SerialInv, NEW u \in User, Alone(u),
         \A v \in User \ {u} : /\ view'[v] = view[v] /\ form'[v] = form[v]
                               /\ uploads'[v] = uploads[v],
         UNCHANGED <<database, outbox, creator>>,
         view'[u] = view[u] \/ view'[u] = NoView, FormsCurrent(u)'
  PROVE  SerialInv'
<1>1. invitingEventList' = invitingEventList /\ invitingMemberList' = invitingMemberList
  BY DEF database
<1>2. ViewCurrent(u)'
  BY <1>1, SerialFacts DEF ViewCurrent
<1>3. PhoneSettled(u)'
  BY <1>1, <1>2, SerialFacts DEF PhoneSettled
<1> QED
  BY <1>3, LocalSerial

(* The writes of a handler join the queue.                                 *)
LEMMA WriteStepSerial ==
  ASSUME IInv, SerialInv, NEW u \in User, Alone(u), NEW ws \in Seq(Write),
         Enqueue(u, ws), UNCHANGED <<database, form, creator>>,
         \A v \in User \ {u} : view'[v] = view[v] /\ uploads'[v] = uploads[v],
         uploads'[u] \subseteq uploads[u],
         \/ view'[u] = NoView
         \/ /\ view'[u] = view[u]
            /\ \A i \in 1..Len(ws) : creator[ws[i].eventID] = u,
         QueueSettled(u, ws, invitingEventList, invitingMemberList, creator),
         Unanswering(outbox[u]) \/ Unanswering(ws)
  PROVE  SerialInv'
<1> DEFINE q == outbox[u]
           d == q \o ws
<1>1. /\ invitingEventList' = invitingEventList
      /\ invitingMemberList' = invitingMemberList /\ creator' = creator
  BY DEF database
<1>2. /\ outbox'[u] = d /\ q \in Seq(Write)
      /\ \A v \in User \ {u} : outbox'[v] = outbox[v]
  BY SerialFacts DEF Enqueue
<1>3. /\ d \in Seq(Write) /\ Len(d) = Len(q) + Len(ws)
      /\ Len(q) \in Nat /\ Len(ws) \in Nat
      /\ \A j \in 1..Len(q) : d[j] = q[j]
      /\ \A j \in 1..Len(ws) : d[Len(q) + j] = ws[j]
  BY <1>2, ConcatPositions
<1>4. QueueSettled(u, d, invitingEventList, invitingMemberList, creator)
  BY <1>2, SerialFacts, ConcatSettled
<1> HIDE DEF d
<1>5. \A j \in 1..Len(q) : j \in 1..Len(d) /\ d[j] = q[j]
  BY <1>3
<1>6. ViewCurrent(u)'
  <2>1. CASE view'[u] = NoView
    BY <2>1 DEF ViewCurrent
  <2>2. CASE /\ view'[u] = view[u] /\ view[u] # NoView
             /\ \A i \in 1..Len(ws) : creator[ws[i].eventID] = u
    <3>1. /\ ListsJoined(invitingEventList, view[u].eventID, view[u].memberIDs)
          /\ view[u].prompt = "answer" =>
               Unanswered(invitingEventList[u][view[u].eventID])
          /\ \A i \in 1..Len(q) : creator[q[i].eventID] = u
      BY <2>2, SerialFacts DEF ViewCurrent
    <3>2. ASSUME NEW i \in 1..Len(d)
          PROVE  creator[d[i].eventID] = u
      <4>1. CASE i \in 1..Len(q)
        BY <1>5, <3>1, <4>1
      <4>2. CASE i \notin 1..Len(q)
        <5>1. i - Len(q) \in 1..Len(ws) /\ Len(q) + (i - Len(q)) = i
          BY <1>3, <4>2
        <5>2. d[i] = ws[i - Len(q)]
          BY <1>3, <5>1
        <5> QED
          BY <2>2, <5>1, <5>2
      <4> QED
        BY <4>1, <4>2
    <3> QED
      BY <1>1, <1>2, <2>2, <3>1, <3>2 DEF ViewCurrent
  <2> QED
    BY <2>1, <2>2
<1>7. FormsCurrent(u)'
  BY <1>1, SerialFacts DEF FormsCurrent
<1>8. PhoneSettled(u)'
  BY <1>1, <1>2, <1>4, <1>6, <1>7 DEF PhoneSettled
<1>9. UNCHANGED form
  OBVIOUS
<1> QED
  BY <1>2, <1>5, <1>8, LocalSerial
-----------------------------------------------------------------------------
(* One lemma per action.                                                   *)

(* Nothing is queued anywhere, so the array read lists whoever joined.     *)
LEMMA OpenEventSerial ==
  ASSUME IInv, SerialInv, NEW u \in User, Alone(u), NEW e \in Event,
         NEW n \in BOOLEAN, OpenEvent(u, e, n)
  PROVE  SerialInv'
<1> DEFINE x == [eventID |-> e, organiserID |-> event[e].organiserID,
                 memberIDs |-> event[e].memberIDs, memberData |-> {},
                 notification |-> n, prompt |-> "pending"]
<1>1. \A v \in User : outbox[v] = <<>>
  BY DEF OpenEvent, Alone, Quiet
<1>2. \A v \in User : 1..Len(outbox[v]) = {}
  BY <1>1
<1>3. ListsJoined(invitingEventList, e, event[e].memberIDs)
  BY <1>2 DEF SerialInv, JoinedListed, ListsJoined
<1>4. view' = [view EXCEPT ![u] = x]
  BY DEF OpenEvent
<1>5. UNCHANGED <<database, outbox, form, uploads, creator>>
  BY DEF OpenEvent
<1>6. /\ ListsJoined(invitingEventList, x.eventID, x.memberIDs)
      /\ x.prompt # "answer"
      /\ \A i \in 1..Len(outbox[u]) : creator[outbox[u][i].eventID] = u
  BY <1>2, <1>3
<1> HIDE DEF x
<1> QED
  BY <1>4, <1>5, <1>6, ViewStepSerial

LEMMA QueryUserDataSerial ==
  ASSUME IInv, SerialInv, NEW u \in User, Alone(u), QueryUserData(u)
  PROVE  SerialInv'
<1> DEFINE x == [view[u] EXCEPT !.memberData = view[u].memberIDs \ {Blank}]
<1>1. view[u] \in View /\ view[u] # NoView
  BY LocalFacts DEF QueryUserData
<1>2. /\ x.eventID = view[u].eventID /\ x.memberIDs = view[u].memberIDs
      /\ x.prompt = view[u].prompt
  BY <1>1 DEF View
<1>3. view' = [view EXCEPT ![u] = x]
  BY DEF QueryUserData
<1>4. UNCHANGED <<database, outbox, form, uploads, creator>>
  BY DEF QueryUserData
<1> HIDE DEF x
<1>5. /\ ListsJoined(invitingEventList, view[u].eventID, view[u].memberIDs)
      /\ view[u].prompt = "answer" => Unanswered(invitingEventList[u][view[u].eventID])
      /\ \A i \in 1..Len(outbox[u]) : creator[outbox[u][i].eventID] = u
  BY <1>1, SerialFacts DEF ViewCurrent
<1> QED
  BY <1>2, <1>3, <1>4, <1>5, ViewStepSerial

LEMMA QueryEventListSerial ==
  ASSUME IInv, SerialInv, NEW u \in User, Alone(u), QueryEventList(u)
  PROVE  SerialInv'
<1> DEFINE entry == invitingEventList[u][view[u].eventID]
           x == [view[u] EXCEPT !.prompt = PromptFor(entry)]
<1>1. view[u] \in View /\ view[u] # NoView
  BY LocalFacts DEF QueryEventList
<1>2. /\ x.eventID = view[u].eventID /\ x.memberIDs = view[u].memberIDs
      /\ x.prompt = PromptFor(entry)
  BY <1>1 DEF View
<1>3. view' = [view EXCEPT ![u] = x]
  BY DEF QueryEventList
<1>4. UNCHANGED <<database, outbox, form, uploads, creator>>
  BY DEF QueryEventList
<1> HIDE DEF x
<1>5. /\ ListsJoined(invitingEventList, view[u].eventID, view[u].memberIDs)
      /\ \A i \in 1..Len(outbox[u]) : creator[outbox[u][i].eventID] = u
  BY <1>1, SerialFacts DEF ViewCurrent
<1>6. PromptFor(entry) = "answer" => Unanswered(entry)
  BY DEF PromptFor
<1> QED
  BY <1>2, <1>3, <1>4, <1>5, <1>6, ViewStepSerial

LEMMA PopSerial ==
  ASSUME IInv, SerialInv, NEW u \in User, Alone(u), Back(u) \/ DismissAlert(u)
  PROVE  SerialInv'
BY ViewStepSerial DEF Back, DismissAlert, Pop

(* With a view open the queue answers no invitation: its writes are about  *)
(* events this user created.                                               *)
LEMMA ViewQueue ==
  ASSUME IInv, SerialInv, NEW u \in User, view[u] # NoView
  PROVE  /\ view[u] \in View /\ ViewSound(u, view[u])
         /\ Unanswering(outbox[u])
         /\ ListsJoined(invitingEventList, view[u].eventID, view[u].memberIDs)
         /\ view[u].prompt = "answer" =>
              Unanswered(invitingEventList[u][view[u].eventID])
         /\ view[u].organiserID = creator[view[u].eventID]
         /\ view[u].organiserID \in User
<1>1. view[u] \in View /\ ViewSound(u, view[u])
  BY LocalFacts
<1>2. /\ ListsJoined(invitingEventList, view[u].eventID, view[u].memberIDs)
      /\ view[u].prompt = "answer" => Unanswered(invitingEventList[u][view[u].eventID])
      /\ \A i \in 1..Len(outbox[u]) : creator[outbox[u][i].eventID] = u
  BY SerialFacts DEF ViewCurrent
<1>3. \A i \in 1..Len(outbox[u]) : OwnWrite(u, outbox[u][i], creator)
  BY SerialFacts DEF QueueSettled
<1>4. Unanswering(outbox[u])
  BY <1>2, <1>3 DEF Unanswering, OwnWrite
<1>5. view[u].organiserID = creator[view[u].eventID] /\ view[u].organiserID \in User
  BY <1>1 DEF ViewSound, View
<1> QED
  BY <1>1, <1>2, <1>4, <1>5

LEMMA AgreeSerial ==
  ASSUME IInv, SerialInv, NEW u \in User, Alone(u), Agree(u)
  PROVE  SerialInv'
<1>v. PICK v \in View : v = view[u] /\ v # NoView
  BY LocalFacts DEF Agree
<1>1. /\ Unanswering(outbox[u]) /\ ViewSound(u, v)
      /\ ListsJoined(invitingEventList, v.eventID, v.memberIDs)
      /\ Unanswered(invitingEventList[u][v.eventID])
      /\ v.organiserID = creator[v.eventID] /\ v.organiserID \in User
      /\ v.prompt = "answer"
  BY <1>v, ViewQueue DEF Agree
<1>2. creator[v.eventID] \in User \ {u}
  BY <1>1 DEF ViewSound
<1>3. /\ AgreeWrites(u, v) \in Seq(Write)
      /\ QueueSettled(u, AgreeWrites(u, v), invitingEventList, invitingMemberList,
                      creator)
  BY <1>1, <1>2, AgreeSettled
<1>4. /\ Enqueue(u, AgreeWrites(u, v)) /\ view'[u] = NoView
      /\ UNCHANGED <<database, form, uploads, creator>>
      /\ \A w \in User \ {u} : view'[w] = view[w]
  BY <1>v, LocalFacts DEF Agree, Pop
<1> QED
  BY <1>1, <1>3, <1>4, WriteStepSerial

LEMMA RejectSerial ==
  ASSUME IInv, SerialInv, NEW u \in User, Alone(u), Reject(u)
  PROVE  SerialInv'
<1>v. PICK v \in View : v = view[u] /\ v # NoView
  BY LocalFacts DEF Reject
<1>1. /\ Unanswering(outbox[u]) /\ ViewSound(u, v)
      /\ Unanswered(invitingEventList[u][v.eventID])
      /\ v.organiserID = creator[v.eventID] /\ v.organiserID \in User
      /\ v.prompt = "answer"
  BY <1>v, ViewQueue DEF Reject
<1>2. creator[v.eventID] \in User \ {u}
  BY <1>1 DEF ViewSound
<1>3. /\ RejectWrites(u, v) \in Seq(Write)
      /\ QueueSettled(u, RejectWrites(u, v), invitingEventList, invitingMemberList,
                      creator)
  BY <1>1, <1>2, RejectSettled
<1>4. /\ Enqueue(u, RejectWrites(u, v)) /\ view'[u] = NoView
      /\ UNCHANGED <<database, form, uploads, creator>>
      /\ \A w \in User \ {u} : view'[w] = view[w]
  BY <1>v, LocalFacts DEF Reject, Pop
<1> QED
  BY <1>1, <1>3, <1>4, WriteStepSerial

LEMMA DropOutSerial ==
  ASSUME IInv, SerialInv, NEW u \in User, Alone(u), DropOut(u)
  PROVE  SerialInv'
<1>v. PICK v \in View : v = view[u] /\ v # NoView
  BY LocalFacts DEF DropOut, Idle
<1>1. /\ Unanswering(outbox[u])
      /\ ListsJoined(invitingEventList, v.eventID, v.memberIDs)
      /\ v.organiserID = creator[v.eventID] /\ v.organiserID \in User
      /\ u # v.organiserID
  BY <1>v, ViewQueue DEF DropOut
<1>2. creator[v.eventID] \in User \ {u}
  BY <1>1
<1>3. /\ DropOutWrites(u, v) \in Seq(Write)
      /\ QueueSettled(u, DropOutWrites(u, v), invitingEventList, invitingMemberList,
                      creator)
  BY <1>1, <1>2, DropOutSettled
<1>4. /\ Enqueue(u, DropOutWrites(u, v)) /\ view'[u] = NoView
      /\ UNCHANGED <<database, form, uploads, creator>>
      /\ \A w \in User \ {u} : view'[w] = view[w]
  BY <1>v, LocalFacts DEF DropOut, Pop
<1> QED
  BY <1>1, <1>3, <1>4, WriteStepSerial

(* A trap that finds the queue empty loses no write.                       *)
LEMMA TrapSerial ==
  ASSUME IInv, SerialInv, NEW u \in User, Alone(u), ProcessDies(u), Survives(u)
  PROVE  SerialInv'
<1>1. /\ view'[u] = NoView /\ form'[u] = NoForm /\ uploads'[u] = {}
      /\ outbox'[u] = <<>> /\ UNCHANGED database
      /\ \A v \in User \ {u} : /\ view'[v] = view[v] /\ form'[v] = form[v]
                               /\ uploads'[v] = uploads[v] /\ outbox'[v] = outbox[v]
  BY LocalFacts DEF ProcessDies
<1>2. outbox[u] = <<>>
  BY <1>1 DEF Survives
<1>3. PhoneSettled(u)'
  BY <1>1, QuietSettled
<1>4. \A j \in 1..Len(outbox[u]) :
        j \in 1..Len(outbox'[u]) /\ outbox'[u][j] = outbox[u][j]
  BY <1>1, <1>2
<1> QED
  BY <1>1, <1>3, <1>4, LocalSerial
(* A form opens, changes or closes.                                        *)
LEMMA FormOnlySerial ==
  ASSUME IInv, SerialInv, NEW u \in User, Alone(u), NEW f,
         form' = [form EXCEPT ![u] = f],
         UNCHANGED <<database, outbox, view, uploads, creator>>,
         f # NoForm /\ f.isEdit =>
           ListsJoined(invitingEventList, f.eventID, f.memberIDs)
  PROVE  SerialInv'
<1>1. form'[u] = f /\ \A v \in User \ {u} : form'[v] = form[v]
  BY LocalFacts
<1>2. invitingEventList' = invitingEventList
  BY DEF database
<1>3. FormsCurrent(u)'
  BY <1>1, <1>2, SerialFacts DEF FormsCurrent
<1> QED
  BY <1>1, <1>3, FormStepSerial

LEMMA EditPressedSerial ==
  ASSUME IInv, SerialInv, NEW u \in User, Alone(u), EditPressed(u)
  PROVE  SerialInv'
<1> DEFINE f == EditForm(view[u].eventID, view[u].memberIDs, view[u].memberData)
<1>1. f.eventID = view[u].eventID /\ f.memberIDs = view[u].memberIDs
  BY DEF EditForm
<1>2. ListsJoined(invitingEventList, view[u].eventID, view[u].memberIDs)
  BY ViewQueue DEF EditPressed, Idle
<1>3. /\ form' = [form EXCEPT ![u] = f]
      /\ UNCHANGED <<database, outbox, view, uploads, creator>>
  BY DEF EditPressed
<1> HIDE DEF f
<1> QED
  BY <1>1, <1>2, <1>3, FormOnlySerial

LEMMA FormOpenSerial ==
  ASSUME IInv, SerialInv, NEW u \in User, Alone(u), NEW f \in Form,
         form[u] # NoForm, form' = [form EXCEPT ![u] = f],
         f.isEdit = form[u].isEdit, f.eventID = form[u].eventID,
         f.memberIDs = form[u].memberIDs,
         UNCHANGED <<database, outbox, view, uploads, creator>>
  PROVE  SerialInv'
<1>1. f.isEdit => ListsJoined(invitingEventList, f.eventID, f.memberIDs)
  BY SerialFacts DEF FormsCurrent
<1> QED
  BY <1>1, FormOnlySerial

LEMMA MembersSerial ==
  ASSUME IInv, SerialInv, NEW u \in User, Alone(u), NEW m \in User,
         AddMember(u, m) \/ DeleteMember(u, m)
  PROVE  SerialInv'
<1>1. form[u] \in Form /\ form[u] # NoForm
  BY LocalFacts DEF AddMember, DeleteMember
<1>2. \A f \in {DidUpdateMember(form[u], m), DeleteData(form[u], m)} :
        /\ f \in Form /\ f.isEdit = form[u].isEdit
        /\ f.eventID = form[u].eventID /\ f.memberIDs = form[u].memberIDs
  <2>1. PICK g \in Form : g = form[u]
    BY <1>1
  <2>2. LET f == DidUpdateMember(g, m)
        IN  /\ f \in Form /\ f.isEdit = g.isEdit
            /\ f.eventID = g.eventID /\ f.memberIDs = g.memberIDs
    BY DEF DidUpdateMember, Form
  <2>3. LET f == DeleteData(g, m)
        IN  /\ f \in Form /\ f.isEdit = g.isEdit
            /\ f.eventID = g.eventID /\ f.memberIDs = g.memberIDs
    BY DEF DeleteData, Form
  <2> QED
    BY <2>1, <2>2, <2>3
<1>3. PICK f \in {DidUpdateMember(form[u], m), DeleteData(form[u], m)} :
        /\ form' = [form EXCEPT ![u] = f]
        /\ UNCHANGED <<database, outbox, view, uploads, creator>>
  BY DEF AddMember, DeleteMember
<1> QED
  BY <1>1, <1>2, <1>3, FormOpenSerial

LEMMA OtherFormSerial ==
  ASSUME IInv, SerialInv, NEW u \in User, Alone(u),
         Cancel(u) \/ \E e \in Event : AddPressed(u, e)
  PROVE  SerialInv'
<1>1. CASE Cancel(u)
  BY <1>1, FormOnlySerial DEF Cancel
<1>2. ASSUME NEW e \in Event, AddPressed(u, e)
      PROVE  SerialInv'
  <2>1. NewForm(e).isEdit = FALSE
    BY DEF NewForm
  <2> QED
    BY <1>2, <2>1, FormOnlySerial DEF AddPressed
<1> QED
  BY <1>1, <1>2

(* An event that gets its creator is in no queue.                          *)
LEMMA CreatedSettled ==
  ASSUME NEW u \in User, NEW q \in Seq(Write), NEW E, NEW L, NEW C, NEW D,
         QueueSettled(u, q, E, L, C), \A e \in Event : C[e] \in User => D[e] = C[e]
  PROVE  QueueSettled(u, q, E, L, D)
<1>1. \A i \in 1..Len(q) : q[i].eventID \in Event
  <2>1. \A i \in 1..Len(q) : q[i] \in Write
    OBVIOUS
  <2> QED
    BY <2>1 DEF Write
<1>2. \A i \in 1..Len(q) : OwnWrite(u, q[i], D)
  BY <1>1 DEF QueueSettled, OwnWrite
<1> QED
  BY <1>2 DEF QueueSettled

LEMMA DoneSerial ==
  ASSUME IInv, SerialInv, NEW u \in User, Alone(u), Done(u)
  PROVE  SerialInv'
<1>f. PICK f \in Form : f = form[u] /\ f # NoForm
  BY LocalFacts DEF Done
<1>1. /\ uploads'[u] = uploads[u] \union {f} /\ form'[u] = NoForm
      /\ view'[u] = NoView /\ UNCHANGED <<database, outbox>>
      /\ \A v \in User \ {u} : /\ view'[v] = view[v] /\ form'[v] = form[v]
                               /\ uploads'[v] = uploads[v]
  BY <1>f, LocalFacts DEF Done, Pop
<1>2. /\ invitingEventList' = invitingEventList
      /\ invitingMemberList' = invitingMemberList /\ outbox' = outbox
  BY <1>1 DEF database
<1>3. f.eventID \in Event /\ creator \in [Event -> User \union {NoUser}]
  BY DEF Form, IInv, TypeOK
<1>4. \/ f.isEdit /\ creator' = creator
      \/ /\ ~f.isEdit /\ creator[f.eventID] = NoUser
         /\ creator' = [creator EXCEPT ![f.eventID] = u]
  BY <1>f DEF Done
<1>5. \A e \in Event : creator[e] \in User => creator'[e] = creator[e]
  BY <1>3, <1>4, RosterConstants
<1>6. QueueSettled(u, outbox'[u], invitingEventList', invitingMemberList', creator')
  BY <1>2, <1>5, SerialFacts, CreatedSettled
<1>7. ListsJoined(invitingEventList, f.eventID, IF f.isEdit THEN f.memberIDs ELSE {})
  <2>1. CASE f.isEdit
    BY <1>f, <2>1, SerialFacts DEF FormsCurrent
  <2>2. CASE ~f.isEdit
    <3>1. creator[f.eventID] \notin User
      BY <1>4, <2>2, RosterConstants
    <3>2. \A m \in User : "eventID" \notin invitingEventList[m][f.eventID].keys
      BY <1>3, <3>1 DEF IInv, RostersSound, OrganiserUninvited
    <3> QED
      BY <3>2 DEF ListsJoined, Joined, Complete, Key
  <2> QED
    BY <2>1, <2>2
<1>8. FormsCurrent(u)'
  BY <1>1, <1>2, <1>7, SerialFacts DEF FormsCurrent
<1>9. ViewCurrent(u)'
  BY <1>1 DEF ViewCurrent
<1>10. PhoneSettled(u)'
  BY <1>6, <1>8, <1>9 DEF PhoneSettled
<1> QED
  BY <1>1, <1>2, <1>10, LocalSerial

LEMMA UploadFailsSerial ==
  ASSUME IInv, SerialInv, NEW u \in User, Alone(u), NEW f \in uploads[u],
         UploadFails(u, f)
  PROVE  SerialInv'
<1>1. /\ uploads'[u] \subseteq uploads[u]
      /\ \A v \in User \ {u} : uploads'[v] = uploads[v]
      /\ UNCHANGED <<database, outbox, view, form, creator>>
  BY LocalFacts DEF UploadFails
<1>2. FormsCurrent(u)'
  BY <1>1, SerialFacts DEF FormsCurrent, database
<1> QED
  BY <1>1, <1>2, FormStepSerial

LEMMA UploadDoneSerial ==
  ASSUME IInv, SerialInv, NEW u \in User, Alone(u), NEW f \in uploads[u],
         UploadDone(u, f)
  PROVE  SerialInv'
<1>1. f \in Form /\ creator[f.eventID] = u
  BY LocalFacts
<1>2. PICK removed \in Orders(RemovedMembers(f)),
           invited \in Orders(EditedMembers(f)) :
        Enqueue(u, RemoveWrites(u, f, removed) \o InviteWrites(u, f, invited)
                     \o <<EventWrite(u, f)>>)
  BY DEF UploadDone
<1> DEFINE ws == RemoveWrites(u, f, removed) \o InviteWrites(u, f, invited)
                   \o <<EventWrite(u, f)>>
<1>3. ListsJoined(invitingEventList, f.eventID, IF f.isEdit THEN f.memberIDs ELSE {})
  BY SerialFacts DEF FormsCurrent
<1>4. /\ ws \in Seq(Write) /\ Unanswering(ws) /\ About(ws, f.eventID)
      /\ QueueSettled(u, ws, invitingEventList, invitingMemberList, creator)
  BY <1>1, <1>3, UploadSettled
<1>5. Enqueue(u, ws)
  BY <1>2
<1> HIDE DEF ws
<1>6. \A i \in 1..Len(ws) : creator[ws[i].eventID] = u
  BY <1>1, <1>4 DEF About
<1>7. /\ UNCHANGED <<database, view, form, creator>>
      /\ uploads'[u] \subseteq uploads[u]
      /\ \A v \in User \ {u} : uploads'[v] = uploads[v]
  BY LocalFacts DEF UploadDone
<1> QED
  BY <1>4, <1>5, <1>6, <1>7, WriteStepSerial
(* The oldest write of the queue is applied.                               *)
LEMMA DeliverSerial ==
  ASSUME IInv, SerialInv, NEW u \in User, Alone(u), Deliver(u)
  PROVE  SerialInv'
<1> DEFINE q == outbox[u]
           t == Tail(outbox[u])
           E == invitingEventList
           F == invitingEventList'
           L == invitingMemberList
           K == invitingMemberList'
<1>q. q \in Seq(Write) /\ q # <<>>
  BY SerialFacts DEF Deliver
<1>w. PICK w \in Write : w = q[1]
  BY <1>q, TailPositions
<1>0. /\ t \in Seq(Write) /\ Head(q) = w /\ Len(q) \in Nat \ {0}
      /\ Len(t) = Len(q) - 1 /\ \A i \in 1..Len(t) : t[i] = q[i + 1]
  BY <1>q, <1>w, TailPositions
<1>1. QueueSettled(u, q, E, L, creator) /\ ViewCurrent(u) /\ FormsCurrent(u)
        /\ JoinedListed /\ PendingFollows /\ EntriesKeyed
  BY SerialFacts DEF SerialInv
<1>2. OwnWrite(u, w, creator) /\ WriteSettled(u, q, 1, E, L)
  BY <1>0, <1>1, <1>w DEF QueueSettled
<1>3. /\ \A op, e, m : ~Before(q, 1, op, e, m)
      /\ \A op, e, m : After(q, 1, op, e, m) =>
           \E j \in 1..Len(t) : IsWrite(t[j], op, e, m)
  <2>1. \A j \in (1 + 1)..Len(q) : j - 1 \in 1..Len(t) /\ t[j - 1] = q[j]
    BY <1>0
  <2>2. 1..(1 - 1) = {}
    OBVIOUS
  <2> HIDE DEF q, t
  <2>3. \A op, e, m : ~Before(q, 1, op, e, m)
    BY <2>2 DEF Before
  <2>4. ASSUME NEW op, NEW e, NEW m, After(q, 1, op, e, m)
        PROVE  \E j \in 1..Len(t) : IsWrite(t[j], op, e, m)
    <3>1. PICK j \in (1 + 1)..Len(q) : IsWrite(q[j], op, e, m)
      BY <2>4 DEF After
    <3> QED
      BY <2>1, <3>1
  <2> QED
    BY <2>3, <2>4
<1>4. /\ outbox' = [outbox EXCEPT ![u] = t]
      /\ event' = [event EXCEPT ![w.eventID] = EventAfter(w, event[w.eventID])]
      /\ UNCHANGED <<view, form, uploads, creator, agreed>>
  BY <1>0 DEF Deliver
<1>5. /\ outbox'[u] = t /\ \A v \in User \ {u} : outbox'[v] = outbox[v]
      /\ \A v \in User \ {u} : outbox[v] = <<>> /\ 1..Len(outbox[v]) = {}
  <2>1. \A v \in User \ {u} : outbox[v] = <<>>
    BY DEF Alone, Quiet
  <2> QED
    BY <1>4, <2>1, SerialFacts
<1>6. Settles(w, E, F, L, K)
  <2>1. w.op = "isReply" => w.userID = u /\ Complete(E[w.userID][w.eventID])
    BY <1>2, <1>w DEF OwnWrite, WriteSettled, ReplySettled
  <2> QED
    BY <1>0, <1>1, <2>1, DeliverSettles
<1>7. QueueSettled(u, t, F, K, creator)
  BY <1>1, <1>6, <1>q, <1>w, TailSettled
<1>8. w \in SoundWrite
  BY <1>0, <1>q, LocalFacts, SeqHeadTail
<1>9. event \in [Event -> EventNode \union {NoEvent}] /\ EventsSound
        /\ w.eventID \in Event /\ TypeOK
  BY DEF IInv, RostersSound, TypeOK, Write
<1> HIDE DEF q, t, E, F, L, K
<1>10. JoinedListed'
  <2> SUFFICES ASSUME NEW e \in Event, NEW m \in User, Joined(F[m][e])
               PROVE  \/ event'[e] # NoEvent /\ m \in event'[e].memberIDs
                      \/ \E j \in 1..Len(outbox'[m]) :
                           \/ Lists(outbox'[m][j], e, m)
                           \/ IsWrite(outbox'[m][j], "isMember", e, m)
    BY DEF JoinedListed, F
  <2>e. /\ ~IsWrite(w, "isMember", e, m)
        /\ Joined(E[m][e]) \/ IsWrite(w, "isReply", e, m)
    BY <1>6 DEF Settles
  <2>1. CASE IsWrite(w, "isReply", e, m)
    <3>1. m = u
      BY <1>2, <2>1 DEF IsWrite, OwnWrite
    <3>2. ReplySettled(u, q, 1, E) /\ q[1].eventID = e
      BY <1>2, <1>w, <2>1 DEF IsWrite, WriteSettled
    <3>3. CASE After(q, 1, "isMember", e, u)
      BY <1>3, <1>5, <3>1, <3>3
    <3>4. ASSUME NEW j \in (1 + 1)..Len(q), Lists(q[j], e, u)
          PROVE  \E k \in 1..Len(t) : Lists(t[k], e, u)
      <4>1. j - 1 \in 1..Len(t) /\ t[j - 1] = q[j]
        BY <1>0
      <4> QED
        BY <3>4, <4>1
    <3> QED
      BY <1>5, <3>1, <3>2, <3>3, <3>4 DEF ReplySettled
  <2>2. CASE Joined(E[m][e]) /\ w.op \in {"event", "memberIDs"} /\ w.eventID = e
    <3>1. event'[e] # NoEvent /\ event'[e].memberIDs = w.memberIDs
      <4>1. CASE w.op = "event"
        <5>1. event'[e] = [organiserID |-> w.from, memberIDs |-> w.memberIDs,
                           invitees |-> w.invitees]
          BY <1>4, <1>9, <2>2, <4>1 DEF EventAfter
        <5>2. event'[e] \in EventNode
          BY <5>1 DEF Write, EventNode
        <5> QED
          BY <5>1, <5>2, AbsentConstants
      <4>2. CASE w.op = "memberIDs"
        <5>1. event[e] \in EventNode
          BY <1>8, <1>9, <2>2, <4>2 DEF SoundWrite
        <5>2. event'[e] = [event[e] EXCEPT !.memberIDs = w.memberIDs]
          BY <1>4, <1>9, <2>2, <4>2 DEF EventAfter
        <5>3. event'[e].memberIDs = w.memberIDs
          BY <5>1, <5>2 DEF EventNode
        <5>4. event'[e] \in EventNode
          BY <5>1, <5>2 DEF Write, EventNode
        <5> QED
          BY <5>3, <5>4, AbsentConstants
      <4> QED
        BY <2>2, <4>1, <4>2
    <3>2. \/ m \in w.memberIDs \/ Before(q, 1, "isMember", e, m)
          \/ m = u /\ After(q, 1, "isMember", e, m)
      BY <1>2, <1>w, <2>2 DEF WriteSettled, ArraySettled
    <3> QED
      BY <1>3, <1>5, <3>1, <3>2
  <2>3. CASE Joined(E[m][e]) /\ ~(w.op \in {"event", "memberIDs"} /\ w.eventID = e)
    <3>1. event'[e] = event[e]
      BY <1>4, <1>9, <2>3 DEF EventAfter
    <3>2. CASE event[e] # NoEvent /\ m \in event[e].memberIDs
      BY <3>1, <3>2
    <3>3. ASSUME NEW j \in 1..Len(outbox[m]),
                 Lists(outbox[m][j], e, m) \/ IsWrite(outbox[m][j], "isMember", e, m)
          PROVE  \E k \in 1..Len(outbox'[m]) :
                   \/ Lists(outbox'[m][k], e, m)
                   \/ IsWrite(outbox'[m][k], "isMember", e, m)
      <4>1. m = u /\ outbox[m] = q
        BY <1>5, <3>3 DEF q
      <4>2. j # 1
        BY <1>w, <2>3, <2>e, <3>3, <4>1 DEF Lists
      <4>3. j - 1 \in 1..Len(t) /\ t[j - 1] = q[j]
        BY <1>0, <3>3, <4>1, <4>2
      <4> QED
        BY <1>5, <3>3, <4>1, <4>3
    <3> QED
      BY <1>1, <2>3, <3>2, <3>3 DEF JoinedListed, E
  <2> QED
    BY <2>e, <2>1, <2>2, <2>3
<1>11. PendingFollows'
  <2> SUFFICES ASSUME NEW e \in Event, NEW m \in User
               PROVE  /\ Unanswered(F[m][e]) => m \in K[e]
                      /\ m \in K[e] =>
                           \/ Unanswered(F[m][e])
                           \/ \E v \in User : \E j \in 1..Len(outbox'[v]) :
                                \/ IsWrite(outbox'[v][j], "invite", e, m)
                                \/ IsWrite(outbox'[v][j], "removeInviting", e, m)
    BY DEF PendingFollows, F, K
  <2>e. /\ Unanswered(F[m][e]) => Unanswered(E[m][e]) \/ IsWrite(w, "invite", e, m)
        /\ Unanswered(E[m][e]) => Unanswered(F[m][e]) \/ IsWrite(w, "isReply", e, m)
        /\ IsWrite(w, "invite", e, m) => Unanswered(F[m][e])
        /\ IsWrite(w, "removeInviting", e, m) => m \notin K[e]
        /\ m \in L[e] => m \in K[e] \/ IsWrite(w, "removeInviting", e, m)
        /\ m \in K[e] => m \in L[e] \/ IsWrite(w, "addInviting", e, m)
    BY <1>6 DEF Settles
  <2>p. /\ Unanswered(E[m][e]) => m \in L[e]
        /\ m \in L[e] =>
             \/ Unanswered(E[m][e])
             \/ \E v \in User : \E j \in 1..Len(outbox[v]) :
                  \/ IsWrite(outbox[v][j], "invite", e, m)
                  \/ IsWrite(outbox[v][j], "removeInviting", e, m)
    BY <1>1 DEF PendingFollows, E, L
  <2>1. ASSUME Unanswered(F[m][e]) PROVE m \in K[e]
    <3>1. CASE IsWrite(w, "invite", e, m)
      <4>1. InviteSettled(q, 1, L) /\ q[1].eventID = e /\ q[1].userID = m
        BY <1>2, <1>w, <3>1 DEF IsWrite, WriteSettled
      <4>2. m \in L[e]
        BY <1>3, <4>1 DEF InviteSettled
      <4>3. ~IsWrite(w, "removeInviting", e, m)
        BY <3>1 DEF IsWrite
      <4> QED
        BY <2>e, <4>2, <4>3
    <3>2. CASE Unanswered(E[m][e])
      <4>1. ASSUME IsWrite(w, "removeInviting", e, m) PROVE FALSE
        <5>1. RemovalSettled(u, q, 1, E) /\ q[1].eventID = e /\ m = u
          BY <1>2, <1>w, <4>1 DEF IsWrite, WriteSettled, OwnWrite
        <5> QED
          BY <1>3, <3>2, <5>1 DEF RemovalSettled
      <4> QED
        BY <2>e, <2>p, <3>2, <4>1
    <3> QED
      BY <2>1, <2>e, <3>1, <3>2
  <2>2. ASSUME m \in K[e], ~Unanswered(F[m][e])
        PROVE  \E v \in User : \E j \in 1..Len(outbox'[v]) :
                 \/ IsWrite(outbox'[v][j], "invite", e, m)
                 \/ IsWrite(outbox'[v][j], "removeInviting", e, m)
    <3> SUFFICES \E j \in 1..Len(t) : \/ IsWrite(t[j], "invite", e, m)
                                      \/ IsWrite(t[j], "removeInviting", e, m)
      BY <1>5
    <3>1. CASE IsWrite(w, "addInviting", e, m)
      <4>1. After(q, 1, "invite", e, m)
        BY <1>2, <1>w, <3>1 DEF IsWrite, WriteSettled
      <4> QED
        BY <1>3, <4>1
    <3>2. CASE m \in L[e] /\ Unanswered(E[m][e])
      <4>1. IsWrite(w, "isReply", e, m)
        BY <2>2, <2>e, <3>2
      <4>2. ReplySettled(u, q, 1, E) /\ q[1].eventID = e /\ m = u
        BY <1>2, <1>w, <4>1 DEF IsWrite, WriteSettled, OwnWrite
      <4>3. After(q, 1, "removeInviting", e, m)
        BY <4>2 DEF ReplySettled
      <4> QED
        BY <1>3, <4>3
    <3>3. ASSUME NEW v \in User, NEW j \in 1..Len(outbox[v]),
                 \/ IsWrite(outbox[v][j], "invite", e, m)
                 \/ IsWrite(outbox[v][j], "removeInviting", e, m)
          PROVE  \E k \in 1..Len(t) : \/ IsWrite(t[k], "invite", e, m)
                                      \/ IsWrite(t[k], "removeInviting", e, m)
      <4>1. v = u /\ outbox[v] = q
        BY <1>5, <3>3 DEF q
      <4>2. j # 1
        BY <1>w, <2>2, <2>e, <3>3, <4>1
      <4>3. j - 1 \in 1..Len(t) /\ t[j - 1] = q[j]
        BY <1>0, <3>3, <4>1, <4>2
      <4> QED
        BY <3>3, <4>1, <4>3
    <3> QED
      BY <2>2, <2>e, <2>p, <3>1, <3>2, <3>3
  <2> QED
    BY <2>1, <2>2
<1>12. EntriesKeyed'
  BY <1>6 DEF EntriesKeyed, Settles, F
(* A list is as long as it must be while no answer of this phone for the    *)
(* event is being applied.                                                 *)
<1>13. ASSUME NEW e \in Event, NEW ids, creator[e] = u, ListsJoined(E, e, ids)
       PROVE  ListsJoined(F, e, ids)
  <2>1. \A m \in User : ~IsWrite(w, "isReply", e, m)
    BY <1>2, <1>13 DEF IsWrite, OwnWrite
  <2> QED
    BY <1>6, <1>13, <2>1 DEF ListsJoined, Settles
<1>14. ViewCurrent(u)'
  <2> SUFFICES ASSUME view[u] # NoView
               PROVE  /\ ListsJoined(F, view[u].eventID, view[u].memberIDs)
                      /\ view[u].prompt = "answer" =>
                           Unanswered(F[u][view[u].eventID])
                      /\ \A i \in 1..Len(t) : creator[t[i].eventID] = u
    BY <1>4, <1>5 DEF ViewCurrent, F
  <2>1. /\ ListsJoined(E, view[u].eventID, view[u].memberIDs)
        /\ view[u].prompt = "answer" => Unanswered(E[u][view[u].eventID])
        /\ \A i \in 1..Len(q) : creator[q[i].eventID] = u
    BY <1>1 DEF ViewCurrent, E, q
  <2>2. view[u].eventID \in Event
    BY LocalFacts DEF View
  <2>3. creator[w.eventID] = u
    BY <1>0, <1>w, <2>1
  <2>4. w.op # "isReply"
    BY <1>2, <2>3 DEF OwnWrite
  <2>5. ListsJoined(F, view[u].eventID, view[u].memberIDs)
    BY <1>6, <2>1, <2>2, <2>4 DEF ListsJoined, Settles, IsWrite
  <2>6. view[u].prompt = "answer" => Unanswered(F[u][view[u].eventID])
    BY <1>6, <2>1, <2>2, <2>4 DEF Settles, IsWrite
  <2>7. \A i \in 1..Len(t) : i + 1 \in 1..Len(q) /\ t[i] = q[i + 1]
    BY <1>0
  <2> QED
    BY <2>1, <2>5, <2>6, <2>7
<1>15. FormsCurrent(u)'
  <2>1. form[u] # NoForm /\ form[u].isEdit =>
          ListsJoined(F, form[u].eventID, form[u].memberIDs)
    <3> SUFFICES ASSUME form[u] # NoForm, form[u].isEdit
                 PROVE  ListsJoined(F, form[u].eventID, form[u].memberIDs)
      OBVIOUS
    <3>1. form[u].eventID \in Event /\ creator[form[u].eventID] = u
      BY LocalFacts DEF Form, FormSound
    <3> QED
      BY <1>1, <1>13, <3>1 DEF FormsCurrent, E
  <2>2. ASSUME NEW f \in uploads[u]
        PROVE  ListsJoined(F, f.eventID, IF f.isEdit THEN f.memberIDs ELSE {})
    <3>1. f.eventID \in Event /\ creator[f.eventID] = u
      BY LocalFacts DEF Form
    <3> QED
      BY <1>1, <1>13, <3>1 DEF FormsCurrent, E
  <2> QED
    BY <1>4, <2>1, <2>2 DEF FormsCurrent, F
<1>16. PhoneSettled(u)'
  BY <1>4, <1>5, <1>7, <1>14, <1>15 DEF PhoneSettled, F, K
<1>17. \A v \in User \ {u} : PhoneSettled(v)'
  BY <1>4, <1>5, QuietSettled DEF Alone, Quiet
<1> QED
  BY <1>10, <1>11, <1>12, <1>16, <1>17 DEF SerialInv
-----------------------------------------------------------------------------
(* Phones in turn: every step preserves SerialInv.                         *)

LEMMA InitSerial == Init => SerialInv
<1> SUFFICES ASSUME Init PROVE SerialInv
  OBVIOUS
<1>1. \A u \in User, e \in Event : invitingEventList[u][e] = NoEntry
  BY DEF Init
<1>2. \A u \in User : /\ view[u] = NoView /\ form[u] = NoForm
                      /\ uploads[u] = {} /\ outbox[u] = <<>>
  BY DEF Init
<1>3. \A u \in User : 1..Len(outbox[u]) = {}
  BY <1>2
<1>4. ~Joined(NoEntry) /\ ~Unanswered(NoEntry) /\ Keyed(NoEntry)
  BY DEF NoEntry, Joined, Unanswered, Complete, Keyed, Key
<1>5. JoinedListed /\ EntriesKeyed
  BY <1>1, <1>4 DEF JoinedListed, EntriesKeyed
<1>6. PendingFollows
  BY <1>1, <1>4 DEF PendingFollows, Init
<1>7. \A u \in User : PhoneSettled(u)
  BY <1>2, <1>3 DEF PhoneSettled, ViewCurrent, FormsCurrent, QueueSettled
<1> QED
  BY <1>5, <1>6, <1>7 DEF SerialInv

LEMMA StutterSerial ==
  ASSUME SerialInv, UNCHANGED vars
  PROVE  SerialInv'
<1>1. /\ event' = event /\ invitingEventList' = invitingEventList
      /\ invitingMemberList' = invitingMemberList /\ outbox' = outbox
      /\ view' = view /\ form' = form /\ uploads' = uploads /\ creator' = creator
  BY DEF vars, database
<1>2. JoinedListed' /\ PendingFollows' /\ EntriesKeyed'
  BY <1>1 DEF SerialInv, JoinedListed, PendingFollows, EntriesKeyed
<1>3. \A u \in User : PhoneSettled(u)'
  BY <1>1 DEF SerialInv, PhoneSettled, ViewCurrent, FormsCurrent
<1> QED
  BY <1>2, <1>3 DEF SerialInv

LEMMA SerialIsNext ==
  ASSUME [SerialNext]_vars
  PROVE  [Next]_vars
BY DEF SerialNext, Next

LEMMA NextSerial == IInv /\ SerialInv /\ [SerialNext]_vars => SerialInv'
<1> SUFFICES ASSUME IInv, SerialInv, [SerialNext]_vars PROVE SerialInv'
  OBVIOUS
<1>1. CASE UNCHANGED vars
  BY <1>1, StutterSerial
<1>2. CASE SerialNext
  <2>1. PICK u \in User : Alone(u) /\ (Deliver(u) \/ (Phone(u) /\ Survives(u)))
    BY <1>2 DEF SerialNext
  <2>2. CASE Deliver(u)
    BY <2>1, <2>2, DeliverSerial
  <2>3. ASSUME NEW e \in Event, OpenFromMain(u, e) \/ OpenFromNotification(u, e)
        PROVE  SerialInv'
    BY <2>1, <2>3, OpenEventSerial DEF OpenFromMain, OpenFromNotification
  <2>4. CASE QueryUserData(u)
    BY <2>1, <2>4, QueryUserDataSerial
  <2>5. CASE QueryEventList(u)
    BY <2>1, <2>5, QueryEventListSerial
  <2>6. CASE Survives(u) /\ (QueryEventListTraps(u) \/ RejectTraps(u))
    BY <2>1, <2>6, TrapSerial DEF QueryEventListTraps, RejectTraps
  <2>7. CASE Back(u) \/ DismissAlert(u)
    BY <2>1, <2>7, PopSerial
  <2>8. CASE Agree(u)
    BY <2>1, <2>8, AgreeSerial
  <2>9. CASE Reject(u)
    BY <2>1, <2>9, RejectSerial
  <2>10. CASE DropOut(u)
    BY <2>1, <2>10, DropOutSerial
  <2>11. CASE Cancel(u) \/ \E e \in Event : AddPressed(u, e)
    BY <2>1, <2>11, OtherFormSerial
  <2>12. CASE EditPressed(u)
    BY <2>1, <2>12, EditPressedSerial
  <2>13. CASE Done(u)
    BY <2>1, <2>13, DoneSerial
  <2>14. ASSUME NEW m \in User, AddMember(u, m) \/ DeleteMember(u, m)
         PROVE  SerialInv'
    BY <2>1, <2>14, MembersSerial
  <2>15. ASSUME NEW f \in uploads[u], UploadFails(u, f) PROVE SerialInv'
    BY <2>1, <2>15, UploadFailsSerial
  <2>16. ASSUME NEW f \in uploads[u], UploadDone(u, f) PROVE SerialInv'
    BY <2>1, <2>16, UploadDoneSerial
  <2> QED
    BY <2>1, <2>2, <2>3, <2>4, <2>5, <2>6, <2>7, <2>8, <2>9, <2>10, <2>11,
       <2>12, <2>13, <2>14, <2>15, <2>16 DEF Phone
<1> QED
  BY <1>1, <1>2

(* While phones are used in turn, the queue of the phone in use settles    *)
(* what the writes before it began (agree, reject, dropOut and the upload  *)
(* closure).                                                               *)
THEOREM SerialInductive == SerialSpec => [](IInv /\ SerialInv)
<1>1. Init => IInv /\ SerialInv
  BY InitIInv, InitSerial
<1>2. IInv /\ SerialInv /\ [SerialNext]_vars => (IInv /\ SerialInv)'
  BY SerialIsNext, NextIInv, NextSerial
<1> QED
  BY <1>1, <1>2, PTL DEF SerialSpec

(* With phones used in turn, the answer "agree" (EventContentVC) and the   *)
(* edits of the organiser (AddEventVC) leave the array of the event and    *)
(* the records of the users in step: whoever joined is listed.             *)
THEOREM JoinedAreListed == SerialSpec => []AcceptedIsMember
<1>1. ASSUME SerialInv, AllQuiet, NEW e \in Event, NEW u \in User,
             Joined(invitingEventList[u][e])
      PROVE  u \in event[e].memberIDs
  <2>1. 1..Len(outbox[u]) = {}
    BY <1>1 DEF AllQuiet, Quiet
  <2> QED
    BY <1>1, <2>1 DEF SerialInv, JoinedListed
<1>2. SerialInv => AcceptedIsMember
  BY <1>1 DEF AcceptedIsMember
<1> QED
  BY <1>2, SerialInductive, PTL

(* With phones used in turn, InvitingMemberVC lists exactly the users who  *)
(* still have to answer.                                                   *)
THEOREM PendingAreUnanswered == SerialSpec => []PendingIsUnanswered
<1>1. ASSUME IInv, SerialInv, AllQuiet, NEW e \in Event
      PROVE  invitingMemberList[e] = {u \in User : Unanswered(invitingEventList[u][e])}
  <2>1. \A u \in User : 1..Len(outbox[u]) = {}
    BY <1>1 DEF AllQuiet, Quiet
  <2>2. \A m \in User : m \in invitingMemberList[e] <=> Unanswered(invitingEventList[m][e])
    BY <1>1, <2>1 DEF SerialInv, PendingFollows
  <2>3. invitingMemberList[e] \subseteq User
    BY <1>1 DEF IInv, TypeOK
  <2> QED
    BY <2>2, <2>3
<1>2. IInv /\ SerialInv => PendingIsUnanswered
  BY <1>1 DEF PendingIsUnanswered
<1> QED
  BY <1>2, SerialInductive, PTL
=============================================================================
