----------------------- MODULE MembershipOrder_proofs -----------------------
(***************************************************************************)
(* Proofs about Membership that rest on the order of the writes a handler  *)
(* queues: a list of members is written after the organiser was told of    *)
(* every one of them, an event after everybody it invites; and that        *)
(* Membership implements Consent.                                          *)
(*                                                                         *)
(* A write needs some facts to hold of the database when it is applied,    *)
(* and gives others.  What a queued write needs is held already or given   *)
(* by an earlier write of the same queue: so a crash, which drops the      *)
(* queue, cannot leave the database with the second half of an answer.     *)
(***************************************************************************)
EXTENDS Membership_proofs

(* <<"told", e, m>>: the organiser of e has a notification from m;         *)
(* <<"invited", e, m>>: m has a complete invitation to e.                  *)
Fact == {"told", "invited"} \X Event \X User

Held ==
  {x \in Fact :
     IF x[1] = "told"
       THEN [userID |-> creator[x[2]], eventID |-> x[2], from |-> x[3]]
              \in notification
       ELSE Complete(invitingEventList[x[3]][x[2]])}

RosterNeeds(e, ids) == {"told"} \X {e} \X (ids \ {Blank})

InviteNeeds(e, invitees) == {"invited"} \X {e} \X invitees

Needs(w) ==
  {x \in RosterNeeds(w.eventID, w.memberIDs) : w.op \in {"event", "memberIDs"}}
    \union {x \in InviteNeeds(w.eventID, w.invitees) : w.op = "event"}

(* by: the creator of every event.                                         *)
Gives(w, by) ==
  {x \in Fact :
     \/ /\ w.op = "notification" /\ w.userID = by[w.eventID]
        /\ x = <<"told", w.eventID, w.from>>
     \/ w.op = "invite" /\ x = <<"invited", w.eventID, w.userID>>}

Ordered(ws, held, by) ==
  \A k \in 1..Len(ws) : \A x \in Needs(ws[k]) :
    x \in held \/ \E j \in 1..(k - 1) : x \in Gives(ws[j], by)

EventsBacked ==
  \A e \in Event : event[e] # NoEvent =>
    /\ RosterNeeds(e, event[e].memberIDs) \subseteq Held
    /\ InviteNeeds(e, event[e].invitees) \subseteq Held

ViewsBacked ==
  \A u \in User : view[u] # NoView =>
    /\ RosterNeeds(view[u].eventID, view[u].memberIDs) \subseteq Held
    /\ view[u].prompt = "answer" =>
         "eventID" \in invitingEventList[u][view[u].eventID].keys

FormBacked(f, held) ==
  f.isEdit => RosterNeeds(f.eventID, f.memberIDs) \subseteq held

FormsBacked ==
  \A u \in User : /\ form[u] # NoForm => FormBacked(form[u], Held)
                  /\ \A f \in uploads[u] : FormBacked(f, Held)

QueuesOrdered == \A u \in User : Ordered(outbox[u], Held, creator)

AgreedPublished == \A e \in Event : event[e] = NoEvent => agreed[e] = {}

OrderInv ==
  EventsBacked /\ ViewsBacked /\ FormsBacked /\ QueuesOrdered /\ AgreedPublished

-----------------------------------------------------------------------------
(* Queues of writes.                                                       *)

LEMMA NeedsAreFacts ==
  ASSUME NEW w \in Write
  PROVE  Needs(w) \subseteq Fact
BY DEF Needs, RosterNeeds, InviteNeeds, Fact, Write, MemberID

LEMMA OrderedGrows ==
  ASSUME NEW ws \in Seq(Write), NEW held, NEW by, NEW held2, NEW by2,
         held \subseteq held2,
         \A w \in Write : Gives(w, by) \subseteq Gives(w, by2),
         Ordered(ws, held, by)
  PROVE  Ordered(ws, held2, by2)
<1> SUFFICES ASSUME NEW k \in 1..Len(ws), NEW x \in Needs(ws[k])
             PROVE  x \in held2 \/ \E j \in 1..(k - 1) : x \in Gives(ws[j], by2)
  BY DEF Ordered
<1>1. ASSUME NEW j \in 1..(k - 1), x \in Gives(ws[j], by)
      PROVE  x \in Gives(ws[j], by2)
  <2>1. ws[j] \in Write
    OBVIOUS
  <2> QED
    BY <1>1, <2>1
<1> QED
  BY <1>1 DEF Ordered

LEMMA OrderedConcat ==
  ASSUME NEW s \in Seq(Write), NEW t \in Seq(Write), NEW held, NEW by,
         Ordered(s, held, by), Ordered(t, held, by)
  PROVE  Ordered(s \o t, held, by)
<1> SUFFICES ASSUME NEW k \in 1..Len(s \o t), NEW x \in Needs((s \o t)[k])
             PROVE  \/ x \in held
                    \/ \E j \in 1..(k - 1) : x \in Gives((s \o t)[j], by)
  BY DEF Ordered
<1>0. /\ Len(s) \in Nat /\ Len(t) \in Nat /\ Len(s \o t) = Len(s) + Len(t)
      /\ k \in Int
  OBVIOUS
<1>1. CASE k <= Len(s)
  <2>1. \A j \in 1..k : (s \o t)[j] = s[j]
    BY <1>0, <1>1
  <2>2. k \in 1..Len(s) /\ x \in Needs(s[k])
    BY <1>0, <1>1, <2>1
  <2> QED
    BY <2>1, <2>2 DEF Ordered
<1>2. CASE k > Len(s)
  <2> DEFINE i == k - Len(s)
  <2>1. i \in 1..Len(t) /\ (s \o t)[k] = t[i]
    BY <1>0, <1>2
  <2>2. ASSUME NEW j \in 1..(i - 1), x \in Gives(t[j], by)
        PROVE  \E l \in 1..(k - 1) : x \in Gives((s \o t)[l], by)
    <3>1. j + Len(s) \in 1..(k - 1) /\ (s \o t)[j + Len(s)] = t[j]
      BY <1>0, <1>2, <2>1
    <3> QED
      BY <2>2, <3>1
  <2> QED
    BY <2>1, <2>2 DEF Ordered
<1> QED
  BY <1>0, <1>1, <1>2

(* What a later part of a queue gives, the queue gives.                    *)
LEMMA GivenLater ==
  ASSUME NEW s \in Seq(Write), NEW t \in Seq(Write), NEW by, NEW x,
         NEW j \in 1..Len(t), x \in Gives(t[j], by)
  PROVE  \E l \in 1..Len(s \o t) : x \in Gives((s \o t)[l], by)
<1>1. Len(s) \in Nat /\ Len(t) \in Nat /\ Len(s \o t) = Len(s) + Len(t)
  OBVIOUS
<1>2. j + Len(s) \in 1..Len(s \o t) /\ (s \o t)[j + Len(s)] = t[j]
  BY <1>1
<1> QED
  BY <1>2

LEMMA OrderedAppend ==
  ASSUME NEW s \in Seq(Write), NEW w \in Write, NEW held, NEW by,
         Ordered(s, held, by),
         \A x \in Needs(w) :
           x \in held \/ \E j \in 1..Len(s) : x \in Gives(s[j], by)
  PROVE  s \o <<w>> \in Seq(Write) /\ Ordered(s \o <<w>>, held, by)
<1> DEFINE q == s \o <<w>>
<1>1. /\ q \in Seq(Write) /\ Len(s) \in Nat /\ Len(q) = Len(s) + 1
      /\ q[Len(s) + 1] = w /\ \A j \in 1..Len(s) : q[j] = s[j]
  OBVIOUS
<1> HIDE DEF q
<1>2. ASSUME NEW k \in 1..Len(q), NEW x \in Needs(q[k])
      PROVE  x \in held \/ \E j \in 1..(k - 1) : x \in Gives(q[j], by)
  <2>1. CASE k = Len(s) + 1
    <3>1. 1..(k - 1) = 1..Len(s) /\ x \in Needs(w)
      BY <1>1, <2>1
    <3> QED
      BY <1>1, <3>1
  <2>2. CASE k # Len(s) + 1
    <3>1. k \in 1..Len(s) /\ q[k] = s[k] /\ \A j \in 1..(k - 1) : q[j] = s[j]
      BY <1>1, <2>2
    <3> QED
      BY <3>1 DEF Ordered
  <2> QED
    BY <2>1, <2>2
<1> QED
  BY <1>1, <1>2 DEF Ordered, q

(* A queue without lists needs nothing.                                    *)
LEMMA OrderedFree ==
  ASSUME NEW s \in Seq(Write), NEW held, NEW by,
         \A k \in 1..Len(s) : s[k].op \notin {"event", "memberIDs"}
  PROVE  Ordered(s, held, by)
BY DEF Ordered, Needs

LEMMA OrderedHead ==
  ASSUME NEW ws \in Seq(Write), ws # <<>>, NEW held, NEW by,
         Ordered(ws, held, by)
  PROVE  Needs(Head(ws)) \subseteq held
<1>1. Len(ws) \in Nat /\ Len(ws) >= 1 /\ Head(ws) = ws[1]
  OBVIOUS
<1> QED
  BY <1>1 DEF Ordered

(* The head of the queue is applied, and what it gives is held.            *)
LEMMA OrderedTail ==
  ASSUME NEW ws \in Seq(Write), ws # <<>>, NEW held, NEW by,
         Ordered(ws, held, by), Gives(Head(ws), by) \subseteq held
  PROVE  Ordered(Tail(ws), held, by)
<1> SUFFICES ASSUME NEW k \in 1..Len(Tail(ws)), NEW x \in Needs(Tail(ws)[k])
             PROVE  \/ x \in held
                    \/ \E j \in 1..(k - 1) : x \in Gives(Tail(ws)[j], by)
  BY DEF Ordered
<1>1. /\ Len(ws) \in Nat /\ Len(ws) >= 1 /\ Len(Tail(ws)) = Len(ws) - 1
      /\ \A j \in 1..Len(Tail(ws)) : Tail(ws)[j] = ws[j + 1]
      /\ Head(ws) = ws[1]
  OBVIOUS
<1>2. k + 1 \in 1..Len(ws) /\ x \in Needs(ws[k + 1])
  BY <1>1
<1>3. ASSUME NEW j \in 1..k, x \in Gives(ws[j], by)
      PROVE  x \in held \/ \E l \in 1..(k - 1) : x \in Gives(Tail(ws)[l], by)
  <2>1. CASE j = 1
    BY <1>1, <1>3, <2>1
  <2>2. CASE j # 1
    <3>1. j - 1 \in 1..(k - 1) /\ j - 1 \in 1..Len(Tail(ws))
      BY <1>1, <2>2
    <3>2. Tail(ws)[j - 1] = ws[j]
      BY <1>1, <3>1
    <3> QED
      BY <1>3, <3>1, <3>2
  <2> QED
    BY <2>1, <2>2
<1>4. x \in held \/ \E j \in 1..((k + 1) - 1) : x \in Gives(ws[j], by)
  BY <1>2 DEF Ordered
<1>5. (k + 1) - 1 = k
  OBVIOUS
<1> QED
  BY <1>3, <1>4, <1>5

-----------------------------------------------------------------------------
(* What holds keeps holding: notifications stay, no entry loses a key and  *)
(* a creator is never replaced.                                            *)
Keeps ==
  /\ notification \subseteq notification'
  /\ \A e \in Event : creator[e] # NoUser => creator'[e] = creator[e]
  /\ \A u \in User, e \in Event :
       /\ invitingEventList[u][e].keys \subseteq invitingEventList'[u][e].keys
       /\ invitingEventList'[u][e].keys \subseteq Key

LEMMA HeldGrows ==
  ASSUME TypeOK, Keeps
  PROVE  Held \subseteq Held'
<1> SUFFICES ASSUME NEW x \in Held PROVE x \in Held'
  OBVIOUS
<1>1. x \in Fact /\ x[2] \in Event /\ x[3] \in User
  BY DEF Fact, Held
<1>2. CASE x[1] = "told"
  <2>1. [userID |-> creator[x[2]], eventID |-> x[2], from |-> x[3]]
          \in notification
    BY <1>2 DEF Held
  <2>2. creator[x[2]] \in User
    BY <1>1, <2>1 DEF TypeOK, Note
  <2> QED
    BY <1>1, <1>2, <2>1, <2>2, RosterConstants DEF Keeps, Held
<1>3. CASE x[1] # "told"
  <2>1. invitingEventList[x[3]][x[2]].keys = Key
    BY <1>3 DEF Held, Complete
  <2>2. invitingEventList'[x[3]][x[2]].keys = Key
    BY <1>1, <2>1 DEF Keeps
  <2> QED
    BY <1>1, <1>3, <2>2 DEF Held, Complete
<1> QED
  BY <1>2, <1>3

LEMMA GivesGrows ==
  ASSUME TypeOK, Keeps, NEW w \in Write
  PROVE  Gives(w, creator) \subseteq Gives(w, creator')
BY RosterConstants DEF TypeOK, Keeps, Gives, Write

LEMMA QueueGrows ==
  ASSUME TypeOK, Keeps, NEW ws \in Seq(Write), Ordered(ws, Held, creator)
  PROVE  Ordered(ws, Held', creator')
BY HeldGrows, GivesGrows, OrderedGrows

LEMMA EntryAfterGrows ==
  ASSUME NEW w \in Write, NEW entry \in Entry
  PROVE  /\ entry.keys \subseteq EntryAfter(w, entry).keys
         /\ EntryAfter(w, entry).keys \subseteq Key
         /\ w.op = "invite" => Complete(EntryAfter(w, entry))
BY DEF EntryAfter, Entry, SetEntry, UpdateIsReply, UpdateIsMember, Key, Complete

-----------------------------------------------------------------------------
(* The initial state, and one lemma per group of actions.                  *)

LEMMA InitOrder == Init => OrderInv
BY DEF Init, OrderInv, EventsBacked, ViewsBacked, FormsBacked, QueuesOrdered,
       AgreedPublished, Ordered

(* A step that leaves the database alone and creates at most a new event.  *)
LEMMA LocalOrder ==
  ASSUME IInv, OrderInv, UNCHANGED database, Keeps, AgreedPublished',
         \A u \in User :
           \/ outbox'[u] = <<>>
           \/ outbox'[u] = outbox[u]
           \/ \E ws \in Seq(Write) :
                Ordered(ws, Held, creator) /\ outbox'[u] = outbox[u] \o ws,
         \A u \in User : view'[u] # NoView =>
           /\ RosterNeeds(view'[u].eventID, view'[u].memberIDs) \subseteq Held
           /\ view'[u].prompt = "answer" =>
                "eventID" \in invitingEventList[u][view'[u].eventID].keys,
         \A u \in User : form'[u] # NoForm => FormBacked(form'[u], Held),
         \A u \in User : \A f \in uploads'[u] : FormBacked(f, Held)
  PROVE  OrderInv'
<1>0. TypeOK /\ event' = event /\ invitingEventList' = invitingEventList
  BY DEF IInv, database
<1>1. Held \subseteq Held'
  BY <1>0, HeldGrows
<1>2. EventsBacked'
  BY <1>0, <1>1 DEF OrderInv, EventsBacked
<1>3. ViewsBacked'
  BY <1>0, <1>1 DEF ViewsBacked
<1>4. FormsBacked'
  BY <1>1 DEF FormsBacked, FormBacked
<1>5. QueuesOrdered'
  <2> SUFFICES ASSUME NEW u \in User PROVE Ordered(outbox'[u], Held', creator')
    BY DEF QueuesOrdered
  <2>1. outbox[u] \in Seq(Write) /\ Ordered(outbox[u], Held, creator)
    BY <1>0 DEF TypeOK, OrderInv, QueuesOrdered
  <2>2. CASE outbox'[u] = <<>>
    BY <2>2 DEF Ordered
  <2>4. CASE outbox'[u] = outbox[u]
    BY <1>0, <2>1, <2>4, QueueGrows
  <2>3. ASSUME NEW ws \in Seq(Write), Ordered(ws, Held, creator),
               outbox'[u] = outbox[u] \o ws
        PROVE  Ordered(outbox'[u], Held', creator')
    <3>1. outbox[u] \o ws \in Seq(Write)
      BY <2>1, SeqConcat
    <3>2. Ordered(outbox[u] \o ws, Held, creator)
      BY <2>1, <2>3, OrderedConcat
    <3> QED
      BY <1>0, <2>3, <3>1, <3>2, QueueGrows
  <2> QED
    BY <2>2, <2>3, <2>4
<1> QED
  BY <1>2, <1>3, <1>4, <1>5 DEF OrderInv

(* The parts of OrderInv a local step starts from.                         *)
LEMMA OrderFacts ==
  ASSUME IInv, OrderInv
  PROVE  /\ \A u \in User : view[u] # NoView =>
              /\ view[u] \in View
              /\ RosterNeeds(view[u].eventID, view[u].memberIDs) \subseteq Held
              /\ view[u].prompt = "answer" =>
                   "eventID" \in invitingEventList[u][view[u].eventID].keys
         /\ \A u \in User : form[u] # NoForm => FormBacked(form[u], Held)
         /\ \A u \in User : \A f \in uploads[u] : FormBacked(f, Held)
         /\ AgreedPublished
BY DEF OrderInv, IInv, TypeOK, ViewsBacked, FormsBacked

LEMMA QuietKeeps ==
  ASSUME IInv, UNCHANGED <<database, creator>>
  PROVE  Keeps
BY DEF IInv, TypeOK, Keeps, database, Entry

LEMMA DeliverOrder ==
  ASSUME IInv, OrderInv, NEW u \in User, Deliver(u)
  PROVE  OrderInv'
<1> DEFINE w == Head(outbox[u])
<1>0. TypeOK /\ EventsSound /\ OutboxSound
  BY DEF IInv, RostersSound
<1>1. w \in SoundWrite /\ outbox[u] # <<>> /\ outbox[u] \in Seq(Write)
  BY <1>0, SeqHeadTail DEF Deliver, OutboxSound, TypeOK
<1>2. w \in Write /\ w.eventID \in Event /\ w.userID \in User /\ w.from \in User
  BY <1>1 DEF SoundWrite, Write
<1>3. /\ event' = [event EXCEPT ![w.eventID] = EventAfter(w, event[w.eventID])]
      /\ invitingEventList' = [invitingEventList EXCEPT ![w.userID][w.eventID] =
                  EntryAfter(w, invitingEventList[w.userID][w.eventID])]
      /\ notification' = NotificationAfter(w, notification)
      /\ outbox' = [outbox EXCEPT ![u] = Tail(outbox[u])]
      /\ UNCHANGED <<view, form, uploads, creator, agreed>>
  BY DEF Deliver
<1> HIDE DEF w
<1>4. Keeps
  <2>1. ASSUME NEW v \in User, NEW e \in Event
        PROVE  /\ invitingEventList[v][e].keys \subseteq invitingEventList'[v][e].keys
               /\ invitingEventList'[v][e].keys \subseteq Key
    <3>1. invitingEventList[v][e] \in Entry
      BY <1>0 DEF TypeOK
    <3>2. CASE v = w.userID /\ e = w.eventID
      <4>1. invitingEventList'[v][e] = EntryAfter(w, invitingEventList[v][e])
        BY <1>0, <1>2, <1>3, <3>2 DEF TypeOK
      <4> QED
        BY <1>2, <3>1, <4>1, EntryAfterGrows
    <3>3. CASE ~(v = w.userID /\ e = w.eventID)
      <4>1. invitingEventList'[v][e] = invitingEventList[v][e]
        BY <1>0, <1>2, <1>3, <3>3 DEF TypeOK
      <4> QED
        BY <3>1, <4>1 DEF Entry
    <3> QED
      BY <3>2, <3>3
  <2> QED
    BY <1>0, <1>3, <2>1 DEF Keeps, TypeOK, NotificationAfter
<1>5. Held \subseteq Held'
  BY <1>0, <1>4, HeldGrows
<1>6. Gives(w, creator) \subseteq Held'
  <2> SUFFICES ASSUME NEW x \in Gives(w, creator) PROVE x \in Held'
    OBVIOUS
  <2>1. CASE w.op = "notification"
    <3>1. x = <<"told", w.eventID, w.from>> /\ w.userID = creator[w.eventID]
            /\ x \in Fact
      BY <2>1 DEF Gives
    <3>2. [userID |-> w.userID, eventID |-> w.eventID, from |-> w.from]
            \in notification'
      BY <1>3, <2>1 DEF NotificationAfter
    <3> QED
      BY <1>3, <3>1, <3>2 DEF Held
  <2>2. CASE w.op # "notification"
    <3>1. x = <<"invited", w.eventID, w.userID>> /\ w.op = "invite" /\ x \in Fact
      BY <2>2 DEF Gives
    <3>2. invitingEventList'[w.userID][w.eventID] =
            EntryAfter(w, invitingEventList[w.userID][w.eventID])
      BY <1>0, <1>2, <1>3 DEF TypeOK
    <3>3. invitingEventList[w.userID][w.eventID] \in Entry
      BY <1>0, <1>2 DEF TypeOK
    <3>4. Complete(invitingEventList'[w.userID][w.eventID])
      BY <1>2, <3>1, <3>2, <3>3, EntryAfterGrows
    <3> QED
      BY <3>1, <3>4 DEF Held
  <2> QED
    BY <2>1, <2>2
<1>7. Ordered(outbox[u], Held, creator)
  BY DEF OrderInv, QueuesOrdered
<1>8. Needs(w) \subseteq Held
  BY <1>1, <1>7, OrderedHead DEF w
<1>9. EventsBacked'
  <2> SUFFICES ASSUME NEW e \in Event, event'[e] # NoEvent
               PROVE  /\ RosterNeeds(e, event'[e].memberIDs) \subseteq Held
                      /\ InviteNeeds(e, event'[e].invitees) \subseteq Held
    BY <1>5 DEF EventsBacked
  <2>1. CASE e = w.eventID /\ w.op = "event"
    <3>1. event'[e].memberIDs = w.memberIDs /\ event'[e].invitees = w.invitees
      BY <1>0, <1>2, <1>3, <2>1 DEF TypeOK, EventAfter
    <3> QED
      BY <1>8, <2>1, <3>1 DEF Needs
  <2>2. CASE e = w.eventID /\ w.op = "memberIDs"
    <3>1. event[e] # NoEvent /\ event[e] \in EventNode
      BY <1>0, <1>1, <2>2 DEF SoundWrite, TypeOK
    <3>2. /\ event'[e].memberIDs = w.memberIDs
          /\ event'[e].invitees = event[e].invitees
      BY <1>0, <1>2, <1>3, <2>2, <3>1 DEF TypeOK, EventAfter, EventNode
    <3> QED
      BY <1>8, <2>2, <3>1, <3>2 DEF Needs, OrderInv, EventsBacked
  <2>3. CASE ~(e = w.eventID /\ w.op \in {"event", "memberIDs"})
    <3>1. event'[e] = event[e]
      BY <1>0, <1>2, <1>3, <2>3 DEF TypeOK, EventAfter
    <3> QED
      BY <3>1 DEF OrderInv, EventsBacked
  <2> QED
    BY <2>1, <2>2, <2>3
<1>10. ViewsBacked'
  <2> SUFFICES ASSUME NEW v \in User, view[v] # NoView
               PROVE  /\ RosterNeeds(view[v].eventID, view[v].memberIDs)
                           \subseteq Held
                      /\ view[v].prompt = "answer" =>
                           "eventID" \in
                             invitingEventList'[v][view[v].eventID].keys
    BY <1>3, <1>5 DEF ViewsBacked
  <2>1. view[v].eventID \in Event
    BY OrderFacts DEF View
  <2> QED
    BY <1>4, <2>1, OrderFacts DEF Keeps
<1>11. FormsBacked'
  BY <1>3, <1>5 DEF OrderInv, FormsBacked, FormBacked
<1>12. QueuesOrdered'
  <2> SUFFICES ASSUME NEW v \in User PROVE Ordered(outbox'[v], Held', creator')
    BY DEF QueuesOrdered
  <2>1. outbox[v] \in Seq(Write) /\ Ordered(outbox[v], Held', creator')
    BY <1>0, <1>4, QueueGrows DEF TypeOK, OrderInv, QueuesOrdered
  <2>2. CASE v = u
    <3>1. outbox'[v] = Tail(outbox[v])
      BY <1>0, <1>3, <2>2 DEF TypeOK
    <3>2. Gives(Head(outbox[v]), creator') \subseteq Held'
      BY <1>3, <1>6, <2>2 DEF w
    <3> QED
      BY <1>1, <2>1, <2>2, <3>1, <3>2, OrderedTail
  <2>3. CASE v # u
    BY <1>0, <1>3, <2>1, <2>3 DEF TypeOK
  <2> QED
    BY <2>2, <2>3
<1>13. AgreedPublished'
  <2>1. ASSUME NEW e \in Event, event'[e] = NoEvent PROVE event[e] = NoEvent
    BY <1>0, <1>1, <1>2, <1>3, <2>1, EventAfterSound DEF TypeOK
  <2> QED
    BY <1>3, <2>1 DEF OrderInv, AgreedPublished
<1> QED
  BY <1>9, <1>10, <1>11, <1>12, <1>13 DEF OrderInv

LEMMA ProcessDiesOrder ==
  ASSUME IInv, OrderInv, NEW u \in User, ProcessDies(u)
  PROVE  OrderInv'
<1>1. Keeps
  BY QuietKeeps DEF ProcessDies
<1>2. \A v \in User : outbox'[v] = <<>> \/ outbox'[v] = outbox[v]
  BY DEF ProcessDies, IInv, TypeOK
<1>3. /\ \A v \in User : view'[v] # NoView => view'[v] = view[v]
      /\ \A v \in User : form'[v] # NoForm => form'[v] = form[v]
      /\ \A v \in User : uploads'[v] \subseteq uploads[v]
  BY DEF ProcessDies, IInv, TypeOK
<1>4. AgreedPublished'
  BY OrderFacts DEF ProcessDies, database, AgreedPublished
<1> QED
  BY <1>1, <1>2, <1>3, <1>4, OrderFacts, LocalOrder DEF ProcessDies

(* A screen is opened, refreshed or left, and at most writes are queued.   *)
LEMMA ViewOrder ==
  ASSUME IInv, OrderInv, NEW u \in User, NEW v,
         view' = [view EXCEPT ![u] = v],
         v # NoView => /\ RosterNeeds(v.eventID, v.memberIDs) \subseteq Held
                       /\ v.prompt = "answer" =>
                            "eventID" \in invitingEventList[u][v.eventID].keys,
         NEW ws \in Seq(Write), Ordered(ws, Held, creator),
         Enqueue(u, ws) \/ UNCHANGED outbox,
         UNCHANGED <<database, form, uploads, creator>>,
         \A e \in Event : event[e] = NoEvent => agreed'[e] = agreed[e]
  PROVE  OrderInv'
<1>1. Keeps
  BY QuietKeeps
<1>2. AgreedPublished'
  BY OrderFacts DEF database, AgreedPublished
<1>3. \A m \in User : \/ outbox'[m] = outbox[m]
                      \/ outbox'[m] = outbox[m] \o ws
  BY DEF Enqueue, IInv, TypeOK
<1>4. \A m \in User : view'[m] = view[m] \/ (m = u /\ view'[m] = v)
  BY DEF IInv, TypeOK
<1> QED
  BY <1>1, <1>2, <1>3, <1>4, OrderFacts, LocalOrder

LEMMA NothingQueued == <<>> \in Seq(Write) /\ Ordered(<<>>, Held, creator)
BY DEF Ordered

LEMMA OpenEventOrder ==
  ASSUME IInv, OrderInv, NEW u \in User, NEW e \in Event, NEW n \in BOOLEAN,
         OpenEvent(u, e, n)
  PROVE  OrderInv'
<1> DEFINE v == [eventID |-> e, organiserID |-> event[e].organiserID,
                 memberIDs |-> event[e].memberIDs, memberData |-> {},
                 notification |-> n, prompt |-> "pending"]
<1>1. RosterNeeds(v.eventID, v.memberIDs) \subseteq Held
  BY DEF OpenEvent, OrderInv, EventsBacked
<1>2. view' = [view EXCEPT ![u] = v] /\ v.prompt # "answer"
  BY DEF OpenEvent
<1> HIDE DEF v
<1> QED
  BY <1>1, <1>2, ViewOrder, NothingQueued DEF OpenEvent

LEMMA QueryUserDataOrder ==
  ASSUME IInv, OrderInv, NEW u \in User, QueryUserData(u)
  PROVE  OrderInv'
<1> DEFINE v == [view[u] EXCEPT !.memberData = view[u].memberIDs \ {Blank}]
<1>1. v.eventID = view[u].eventID /\ v.memberIDs = view[u].memberIDs
        /\ v.prompt = view[u].prompt /\ view' = [view EXCEPT ![u] = v]
  BY OrderFacts DEF QueryUserData, View
<1> HIDE DEF v
<1> QED
  BY <1>1, OrderFacts, ViewOrder, NothingQueued DEF QueryUserData

LEMMA QueryEventListOrder ==
  ASSUME IInv, OrderInv, NEW u \in User, QueryEventList(u)
  PROVE  OrderInv'
<1> DEFINE answer == PromptFor(invitingEventList[u][view[u].eventID])
           v == [view[u] EXCEPT !.prompt = answer]
<1>1. answer = "answer" =>
        "eventID" \in invitingEventList[u][view[u].eventID].keys
  BY DEF PromptFor, Unanswered, Complete, Key
<1>2. v.eventID = view[u].eventID /\ v.memberIDs = view[u].memberIDs
        /\ v.prompt = answer /\ view' = [view EXCEPT ![u] = v]
  BY OrderFacts DEF QueryEventList, View
<1> HIDE DEF v
<1> QED
  BY <1>1, <1>2, OrderFacts, ViewOrder, NothingQueued DEF QueryEventList

(* The queue of an answer: the organiser is told first.                    *)
LEMMA AgreeOrder ==
  ASSUME IInv, OrderInv, NEW u \in User, Agree(u)
  PROVE  OrderInv'
<1>v. PICK v \in View : v = view[u] /\ v # NoView
  BY OrderFacts DEF Agree
<1> DEFINE e == v.eventID
           ws == AgreeWrites(u, v)
           toTell == SimpleWrite("notification", e, v.organiserID, u)
<1>1. /\ ViewSound(u, v) /\ e \in Event
      /\ RosterNeeds(e, v.memberIDs) \subseteq Held
  BY <1>v, LocalFacts, OrderFacts DEF View
<1>2. ws \in Seq(Write) /\ Len(ws) = 4 /\ ws[1] = toTell
        /\ ws[4] = SetMemberIDs(e, u, v.memberIDs \union {u})
        /\ ws[2].op = "isReply" /\ ws[3].op = "removeInviting"
  BY <1>1, RosterConstants
     DEF AgreeWrites, SetMemberIDs, SimpleWrite, Write, Op, View, MemberID
<1>3. <<"told", e, u>> \in Gives(ws[1], creator)
  BY <1>1, <1>2 DEF Gives, SimpleWrite, ViewSound, Fact
<1>4. ws[4].memberIDs = v.memberIDs \union {u} /\ ws[4].op = "memberIDs"
        /\ ws[4].eventID = e /\ ws[1].op = "notification"
  BY <1>2 DEF SetMemberIDs, SimpleWrite
<1>5. Ordered(ws, Held, creator)
  <2> SUFFICES ASSUME NEW k \in 1..4, NEW x \in Needs(ws[k])
               PROVE  \/ x \in Held
                      \/ \E j \in 1..(k - 1) : x \in Gives(ws[j], creator)
    BY <1>2 DEF Ordered
  <2>1. k = 4
    BY <1>2, <1>4 DEF Needs
  <2>2. x \in RosterNeeds(e, v.memberIDs) \/ x = <<"told", e, u>>
    BY <1>4, <2>1 DEF Needs, RosterNeeds
  <2> QED
    BY <1>1, <1>3, <2>1, <2>2
<1>6. /\ Enqueue(u, ws) /\ view' = [view EXCEPT ![u] = NoView]
      /\ UNCHANGED <<database, form, uploads, creator>>
      /\ agreed' = [agreed EXCEPT ![e] = agreed[e] \union {u}]
  BY <1>v DEF Agree, Pop
<1>7. \A d \in Event : event[d] = NoEvent => agreed'[d] = agreed[d]
  BY <1>1, <1>6 DEF IInv, TypeOK, ViewSound
<1> HIDE DEF ws
<1> QED
  BY <1>2, <1>5, <1>6, <1>7, ViewOrder

LEMMA RejectOrder ==
  ASSUME IInv, OrderInv, NEW u \in User, Reject(u)
  PROVE  OrderInv'
<1>v. PICK v \in View : v = view[u]
  BY OrderFacts DEF Reject
<1> DEFINE ws == RejectWrites(u, v)
<1>1. ws \in Seq(Write) /\ Len(ws) = 4
        /\ \A k \in 1..4 : ws[k].op \notin {"event", "memberIDs"}
  BY DEF RejectWrites, SimpleWrite, Write, Op, View
<1>2. Ordered(ws, Held, creator)
  BY <1>1 DEF Ordered, Needs
<1>3. /\ Enqueue(u, ws) /\ view' = [view EXCEPT ![u] = NoView]
      /\ UNCHANGED <<database, form, uploads, creator, agreed>>
  BY <1>v DEF Reject, Pop
<1> HIDE DEF ws
<1> QED
  BY <1>1, <1>2, <1>3, ViewOrder

LEMMA DropOutOrder ==
  ASSUME IInv, OrderInv, NEW u \in User, DropOut(u)
  PROVE  OrderInv'
<1>v. PICK v \in View : v = view[u] /\ v # NoView
  BY OrderFacts DEF DropOut, Idle
<1> DEFINE ws == DropOutWrites(u, v)
<1>1. RosterNeeds(v.eventID, v.memberIDs) \subseteq Held
  BY <1>v, OrderFacts
<1>2. ws \in Seq(Write) /\ Len(ws) = 3
        /\ ws[1] = SetMemberIDs(v.eventID, u, v.memberIDs \ {u})
        /\ \A k \in 2..3 : ws[k].op \notin {"event", "memberIDs"}
  BY DEF DropOutWrites, SetMemberIDs, SimpleWrite, Write, Op, View
<1>3. Needs(ws[1]) \subseteq RosterNeeds(v.eventID, v.memberIDs)
  BY <1>2 DEF Needs, RosterNeeds, SetMemberIDs, SimpleWrite
<1>4. Ordered(ws, Held, creator)
  <2> SUFFICES ASSUME NEW k \in 1..3, NEW x \in Needs(ws[k]) PROVE x \in Held
    BY <1>2 DEF Ordered
  <2>1. CASE k = 1
    BY <1>1, <1>3, <2>1
  <2>2. CASE k # 1
    <3>1. ws[k].op \notin {"event", "memberIDs"}
      BY <1>2, <2>2
    <3> QED
      BY <3>1 DEF Needs
  <2> QED
    BY <2>1, <2>2
<1>5. /\ Enqueue(u, ws) /\ view' = [view EXCEPT ![u] = NoView]
      /\ UNCHANGED <<database, form, uploads, creator, agreed>>
  BY <1>v DEF DropOut, Pop
<1> HIDE DEF ws
<1> QED
  BY <1>2, <1>4, <1>5, ViewOrder

LEMMA FormOrder ==
  ASSUME IInv, OrderInv, NEW u \in User, NEW f,
         f # NoForm => FormBacked(f, Held), form' = [form EXCEPT ![u] = f],
         UNCHANGED <<database, outbox, view, uploads, creator, agreed>>
  PROVE  OrderInv'
<1>1. Keeps
  BY QuietKeeps
<1>2. AgreedPublished'
  BY OrderFacts DEF database, AgreedPublished
<1>3. \A v \in User : form'[v] = form[v] \/ form'[v] = f
  BY DEF IInv, TypeOK
<1> QED
  BY <1>1, <1>2, <1>3, OrderFacts, LocalOrder

LEMMA EditPressedOrder ==
  ASSUME IInv, OrderInv, NEW u \in User, EditPressed(u)
  PROVE  OrderInv'
<1> DEFINE f == EditForm(view[u].eventID, view[u].memberIDs, view[u].memberData)
<1>1. FormBacked(f, Held)
  BY OrderFacts DEF EditPressed, Idle, EditForm, FormBacked
<1> HIDE DEF f
<1> QED
  BY <1>1, FormOrder DEF EditPressed, f

LEMMA ChangedFormOrder ==
  ASSUME IInv, OrderInv, NEW u \in User, NEW m \in User,
         AddMember(u, m) \/ DeleteMember(u, m)
  PROVE  OrderInv'
<1>1. form[u] \in Form /\ FormBacked(form[u], Held)
  BY LocalFacts, OrderFacts DEF AddMember, DeleteMember
<1>2. FormBacked(DidUpdateMember(form[u], m), Held)
  BY <1>1 DEF FormBacked, DidUpdateMember, Form
<1>3. FormBacked(DeleteData(form[u], m), Held)
  BY <1>1 DEF FormBacked, DeleteData, Form
<1> QED
  BY <1>2, <1>3, FormOrder DEF AddMember, DeleteMember

(* A new event gets its creator.                                           *)
LEMMA DoneOrder ==
  ASSUME IInv, OrderInv, NEW u \in User, Done(u)
  PROVE  OrderInv'
<1>f. PICK f \in Form : f = form[u] /\ FormBacked(f, Held)
  BY LocalFacts, OrderFacts DEF Done
<1>0. TypeOK
  BY DEF IInv
<1>1. /\ uploads' = [uploads EXCEPT ![u] = uploads[u] \union {f}]
      /\ form' = [form EXCEPT ![u] = NoForm]
      /\ view' = [view EXCEPT ![u] = NoView]
      /\ UNCHANGED <<database, outbox, agreed>>
  BY <1>f DEF Done, Pop
<1>2. \/ creator' = creator
      \/ creator[f.eventID] = NoUser /\ creator' = [creator EXCEPT ![f.eventID] = u]
  BY <1>f DEF Done
<1>3. Keeps
  <2>1. UNCHANGED <<notification, invitingEventList>>
    BY <1>1 DEF database
  <2>2. \A e \in Event : creator[e] # NoUser => creator'[e] = creator[e]
    BY <1>0, <1>2 DEF TypeOK
  <2> QED
    BY <1>0, <2>1, <2>2 DEF Keeps, TypeOK, Entry
<1>4. AgreedPublished'
  BY <1>1, OrderFacts DEF database, AgreedPublished
<1>5. /\ \A v \in User : form'[v] # NoForm => form'[v] = form[v]
      /\ \A v \in User : view'[v] # NoView => view'[v] = view[v]
      /\ \A v \in User : \A g \in uploads'[v] : g = f \/ g \in uploads[v]
  BY <1>0, <1>1 DEF TypeOK
<1> QED
  BY <1>f, <1>1, <1>3, <1>4, <1>5, OrderFacts, LocalOrder

(* The queue of an upload: every invited user has the invitation before    *)
(* the event is written.                                                   *)
LEMMA InvitesCover ==
  ASSUME NEW u \in User, NEW f \in Form, NEW S \in SUBSET User,
         NEW order \in Orders(S), NEW m \in S, NEW by
  PROVE  \E j \in 1..Len(InviteWrites(u, f, order)) :
           <<"invited", f.eventID, m>> \in Gives(InviteWrites(u, f, order)[j], by)
<1>1. Cardinality(S) \in Nat
  BY UserFinite, FS_Subset, FS_CardinalityType
<1>2. order \in Seq(User) /\ Len(order) = Cardinality(S)
  BY <1>1, OrdersAreSequences, SeqOfFunction, SeqMonotone DEF Orders
<1>3. PICK i \in 1..Len(order) : order[i] = m
  BY <1>2 DEF Orders
<1> DEFINE k == 3 * (i - 1) + 2
           n == 3 * Len(order)
<1>4. /\ k \in 1..n /\ ((k - 1) \div 3) + 1 = i /\ (k - 1) % 3 = 1
      /\ n \in Nat
  BY <1>2
<1> HIDE DEF k, n
<1>5. InviteWrites(u, f, order)[k] = SimpleWrite("invite", f.eventID, m, u)
  <2>1. InviteWrites(u, f, order)[k] =
          InviteWrite(u, f.eventID, order[((k - 1) \div 3) + 1], (k - 1) % 3)
    BY <1>4 DEF InviteWrites, n
  <2>2. InviteWrite(u, f.eventID, m, 1) = SimpleWrite("invite", f.eventID, m, u)
    BY DEF InviteWrite
  <2> QED
    BY <1>3, <1>4, <2>1, <2>2
<1>6. Len(InviteWrites(u, f, order)) = n
  BY <1>4, SeqOfFunction DEF InviteWrites, n
<1>7. <<"invited", f.eventID, m>>
        \in Gives(SimpleWrite("invite", f.eventID, m, u), by)
  BY DEF Gives, SimpleWrite, Fact, Form
<1> QED
  BY <1>4, <1>5, <1>6, <1>7

LEMMA UploadDoneOrder ==
  ASSUME IInv, OrderInv, NEW u \in User, NEW f \in uploads[u], UploadDone(u, f)
  PROVE  OrderInv'
<1>0. TypeOK /\ f \in Form /\ FormBacked(f, Held) /\ FormSound(u, f)
        /\ creator[f.eventID] = u
  BY LocalFacts, OrderFacts DEF IInv
<1>1. PICK removed \in Orders(RemovedMembers(f)),
           invited \in Orders(EditedMembers(f)) :
        Enqueue(u, RemoveWrites(u, f, removed) \o InviteWrites(u, f, invited)
                     \o <<EventWrite(u, f)>>)
  BY DEF UploadDone
<1> DEFINE R == RemoveWrites(u, f, removed)
           I == InviteWrites(u, f, invited)
<1>2. R \in Seq(Write) /\ \A k \in 1..Len(R) : R[k].op \in {"isMember", "notification"}
  <2>1. RemovedMembers(f) \subseteq User
    BY <1>0 DEF RemovedMembers, Form
  <2>2. removed \in Seq(User)
    BY <2>1, OrdersAreSequences, SeqMonotone
  <2>3. R \in Seq(SoundWrite)
    BY <1>0, <2>2, RemoveWritesSound
  <2>4. 2 * Len(removed) \in Nat /\ R = [k \in 1..(2 * Len(removed)) |-> R[k]]
    BY <2>2 DEF RemoveWrites
  <2>5. ASSUME NEW k \in 1..(2 * Len(removed))
        PROVE  R[k].op \in {"isMember", "notification"}
    BY <2>5 DEF RemoveWrites, RemoveWrite, SimpleWrite
  <2>6. Len(R) = 2 * Len(removed)
    BY <2>4
  <2> QED
    BY <2>3, <2>5, <2>6, SeqMonotone DEF SoundWrite
<1>3. EditedMembers(f) \in SUBSET User /\ EditedMembers(f) \subseteq User \ {u}
  BY <1>0 DEF EditedMembers, Form, FormSound
<1>4. I \in Seq(Write)
        /\ \A k \in 1..Len(I) : I[k].op \in {"addInviting", "invite", "notification"}
  <2>2. invited \in Seq(User \ {u})
    BY <1>3, OrdersAreSequences, SeqMonotone
  <2>3. I \in Seq(SoundWrite)
    BY <1>0, <2>2, InviteWritesSound
  <2>4. 3 * Len(invited) \in Nat /\ I = [k \in 1..(3 * Len(invited)) |-> I[k]]
    BY <2>2 DEF InviteWrites
  <2>5. ASSUME NEW k \in 1..(3 * Len(invited))
        PROVE  I[k].op \in {"addInviting", "invite", "notification"}
    BY <2>5 DEF InviteWrites, InviteWrite, SimpleWrite
  <2>6. Len(I) = 3 * Len(invited)
    BY <2>4
  <2> QED
    BY <2>3, <2>5, <2>6, SeqMonotone DEF SoundWrite
<1>5. EventWrite(u, f) \in Write
  BY <1>0, EventWriteSound DEF SoundWrite
<1>6. Needs(EventWrite(u, f)) \subseteq
        Held \union InviteNeeds(f.eventID, EditedMembers(f))
  BY <1>0 DEF Needs, RosterNeeds, InviteNeeds, EventWrite, SimpleWrite,
              FormBacked, FinalMemberIDs, Form
<1>7. ASSUME NEW m \in EditedMembers(f)
      PROVE  \E j \in 1..Len(I) : <<"invited", f.eventID, m>> \in Gives(I[j], creator)
  BY <1>0, <1>3, InvitesCover
<1> HIDE DEF R, I
<1>8. R \o I \in Seq(Write) /\ Ordered(R \o I, Held, creator)
  <2>1. Ordered(R, Held, creator) /\ Ordered(I, Held, creator)
    BY <1>2, <1>4, OrderedFree
  <2> QED
    BY <1>2, <1>4, <2>1, SeqConcat, OrderedConcat
<1> DEFINE ws == (R \o I) \o <<EventWrite(u, f)>>
<1>9. ws \in Seq(Write) /\ Ordered(ws, Held, creator)
  <2>1. ASSUME NEW x \in Needs(EventWrite(u, f))
        PROVE  \/ x \in Held
               \/ \E j \in 1..Len(R \o I) : x \in Gives((R \o I)[j], creator)
    <3>1. x \in Held \/ \E m \in EditedMembers(f) : x = <<"invited", f.eventID, m>>
      BY <1>6 DEF InviteNeeds
    <3>2. ASSUME NEW m \in EditedMembers(f), x = <<"invited", f.eventID, m>>
          PROVE  \E j \in 1..Len(R \o I) : x \in Gives((R \o I)[j], creator)
      BY <1>2, <1>4, <1>7, <3>2, GivenLater
    <3> QED
      BY <3>1, <3>2
  <2> QED
    BY <1>5, <1>8, <2>1, OrderedAppend
<1>10. outbox' = [outbox EXCEPT ![u] = outbox[u] \o ws]
  BY <1>1 DEF Enqueue, R, I
<1>11. \A v \in User : outbox'[v] = outbox[v] \/ outbox'[v] = outbox[v] \o ws
  BY <1>0, <1>10 DEF TypeOK
<1>12. /\ UNCHANGED <<database, view, form, creator, agreed>>
       /\ \A v \in User : uploads'[v] \subseteq uploads[v]
  BY <1>0 DEF UploadDone, TypeOK
<1>13. Keeps /\ AgreedPublished'
  BY <1>12, QuietKeeps, OrderFacts DEF database, AgreedPublished
<1> HIDE DEF ws
<1> QED
  BY <1>9, <1>11, <1>12, <1>13, OrderFacts, LocalOrder

-----------------------------------------------------------------------------
(* Every step preserves OrderInv.                                          *)
LEMMA NextOrder == IInv /\ OrderInv /\ [Next]_vars => OrderInv'
<1> SUFFICES ASSUME IInv, OrderInv, [Next]_vars PROVE OrderInv'
  OBVIOUS
<1>1. CASE UNCHANGED vars
  <2>1. UNCHANGED <<database, outbox, view, form, uploads, creator, agreed>>
    BY <1>1 DEF vars
  <2>2. Keeps /\ AgreedPublished'
    BY <2>1, QuietKeeps, OrderFacts DEF AgreedPublished, database
  <2> QED
    BY <2>1, <2>2, OrderFacts, LocalOrder
<1>2. CASE Next
  <2>1. PICK u \in User : Phone(u) \/ Deliver(u) \/ Crash(u)
    BY <1>2 DEF Next
  <2>2. CASE Deliver(u)
    BY <2>2, DeliverOrder
  <2>3. CASE Crash(u) \/ QueryEventListTraps(u) \/ RejectTraps(u)
    BY <2>3, ProcessDiesOrder DEF Crash, QueryEventListTraps, RejectTraps
  <2>4. ASSUME NEW e \in Event, OpenFromMain(u, e) \/ OpenFromNotification(u, e)
        PROVE  OrderInv'
    BY <2>4, OpenEventOrder DEF OpenFromMain, OpenFromNotification
  <2>5. CASE QueryUserData(u)
    BY <2>5, QueryUserDataOrder
  <2>6. CASE QueryEventList(u)
    BY <2>6, QueryEventListOrder
  <2>7. CASE Back(u) \/ DismissAlert(u)
    BY <2>7, NothingQueued, ViewOrder DEF Back, DismissAlert, Pop
  <2>8. CASE Agree(u)
    BY <2>8, AgreeOrder
  <2>9. CASE Reject(u)
    BY <2>9, RejectOrder
  <2>10. CASE DropOut(u)
    BY <2>10, DropOutOrder
  <2>11. ASSUME NEW e \in Event, AddPressed(u, e) PROVE OrderInv'
    <3>1. FormBacked(NewForm(e), Held)
      BY DEF NewForm, FormBacked
    <3> QED
      BY <2>11, <3>1, FormOrder DEF AddPressed
  <2>12. CASE EditPressed(u)
    BY <2>12, EditPressedOrder
  <2>13. CASE Cancel(u)
    BY <2>13, FormOrder DEF Cancel
  <2>14. CASE Done(u)
    BY <2>14, DoneOrder
  <2>15. ASSUME NEW m \in User, AddMember(u, m) \/ DeleteMember(u, m)
         PROVE  OrderInv'
    BY <2>15, ChangedFormOrder
  <2>16. ASSUME NEW f \in uploads[u], UploadFails(u, f) PROVE OrderInv'
    <3>1. \A v \in User : uploads'[v] \subseteq uploads[v]
      BY <2>16 DEF UploadFails, IInv, TypeOK
    <3>2. Keeps /\ AgreedPublished'
      BY <2>16, QuietKeeps, OrderFacts DEF UploadFails, AgreedPublished, database
    <3> QED
      BY <2>16, <3>1, <3>2, OrderFacts, LocalOrder DEF UploadFails
  <2>17. ASSUME NEW f \in uploads[u], UploadDone(u, f) PROVE OrderInv'
    BY <2>17, UploadDoneOrder
  <2> QED
    BY <2>1, <2>2, <2>3, <2>4, <2>5, <2>6, <2>7, <2>8, <2>9, <2>10, <2>11,
       <2>12, <2>13, <2>14, <2>15, <2>16, <2>17 DEF Phone
<1> QED
  BY <1>1, <1>2 DEF vars

(* What a queued write needs is held or given before it: the order in      *)
(* which the handlers of EventContentVC and AddEventVC issue their writes. *)
THEOREM OrderInductive == Spec => [](IInv /\ OrderInv)
<1>1. Init => IInv /\ OrderInv
  BY InitIInv, InitOrder
<1>2. IInv /\ OrderInv /\ [Next]_vars => IInv' /\ OrderInv'
  BY NextIInv, NextOrder
<1> QED
  BY <1>1, <1>2, PTL DEF Spec

(* An event that can be read has invited everybody its form invited, also  *)
(* when the process died between the writes of uploadEventData.            *)
THEOREM InvitesSafe == Spec => []InvitesFirst
<1>1. ASSUME IInv, OrderInv, NEW e \in Event, event[e] # NoEvent,
             NEW m \in event[e].invitees
      PROVE  Complete(invitingEventList[m][e])
  <2>1. event[e] \in EventNode /\ m \in User
    BY <1>1 DEF IInv, TypeOK, EventNode
  <2>2. <<"invited", e, m>> \in Held
    BY <1>1 DEF OrderInv, EventsBacked, InviteNeeds
  <2> QED
    BY <2>1, <2>2 DEF Held
<1>2. IInv /\ OrderInv => InvitesFirst
  BY <1>1 DEF InvitesFirst
<1> QED
  BY <1>2, OrderInductive, PTL

(* Nobody gets into a member list without a notification for the           *)
(* organiser, whatever becomes of the process that answers.                *)
THEOREM JoinsTold == Spec => []NoSilentJoin
<1>1. ASSUME IInv, OrderInv, NEW e \in Event, NEW u \in User,
             event[e] # NoEvent, u \in event[e].memberIDs
      PROVE  [userID |-> event[e].organiserID, eventID |-> e, from |-> u]
               \in notification
  <2>1. event[e].organiserID = creator[e] /\ u # Blank
    BY <1>1, RosterConstants DEF IInv, RostersSound, EventsSound
  <2>2. <<"told", e, u>> \in Held
    BY <1>1, <2>1 DEF OrderInv, EventsBacked, RosterNeeds
  <2> QED
    BY <2>1, <2>2 DEF Held
<1>2. IInv /\ OrderInv => NoSilentJoin
  BY <1>1 DEF NoSilentJoin
<1> QED
  BY <1>2, OrderInductive, PTL

-----------------------------------------------------------------------------
(* Membership implements Consent: every step is one of its steps, or none. *)

LEMMA InitRules == Init => Rules!Init
BY DEF Init, Rules!Init, Invited, Members, NoEntry

LEMMA RulesStutter ==
  ASSUME UNCHANGED <<event, creator, agreed>>, Invited' = Invited
  PROVE  UNCHANGED Rules!vars
BY DEF Rules!vars, Members

LEMMA DeliverRules ==
  ASSUME IInv, OrderInv, IInv', NEW u \in User, Deliver(u)
  PROVE  Rules!Next \/ UNCHANGED Rules!vars
<1> DEFINE w == Head(outbox[u])
           e == w.eventID
<1>0. TypeOK /\ EventsSound /\ OutboxSound /\ OrganiserUninvited'
  BY DEF IInv, RostersSound
<1>1. w \in SoundWrite
  BY <1>0, SeqHeadTail DEF Deliver, OutboxSound
<1>2. w \in Write /\ e \in Event /\ w.userID \in User /\ w.from \in User
        /\ w.memberIDs \in SUBSET MemberID
  BY <1>1 DEF SoundWrite, Write
<1>3. /\ event' = [event EXCEPT ![e] = EventAfter(w, event[e])]
      /\ invitingEventList' = [invitingEventList EXCEPT ![w.userID][e] =
                  EntryAfter(w, invitingEventList[w.userID][e])]
      /\ UNCHANGED <<creator, agreed>>
  BY DEF Deliver
<1> HIDE DEF w
<1>4. \A m \in User, d \in Event : ~(m = w.userID /\ d = e) =>
        invitingEventList'[m][d] = invitingEventList[m][d]
  BY <1>0, <1>2, <1>3 DEF TypeOK
<1>5. invitingEventList'[w.userID][e] =
        EntryAfter(w, invitingEventList[w.userID][e])
  BY <1>0, <1>2, <1>3 DEF TypeOK
<1>6. invitingEventList[w.userID][e] \in Entry
  BY <1>0, <1>2 DEF TypeOK
<1>7. CASE w.op \in {"event", "memberIDs"}
  <2> DEFINE S == w.memberIDs \ {Blank}
  <2>1. Invited' = Invited
    <3>1. invitingEventList'[w.userID][e] = invitingEventList[w.userID][e]
      BY <1>5, <1>7 DEF EntryAfter
    <3> QED
      BY <1>4, <3>1 DEF Invited
  <2>2. S \subseteq agreed[e]
    BY <1>1, <1>7 DEF SoundWrite, RosterSound
  <2>3. event'[e] # NoEvent /\ event'[e].memberIDs = w.memberIDs
    <3>1. CASE w.op = "event"
      BY <1>0, <1>2, <1>3, <3>1, EventAfterSound, AbsentConstants
         DEF TypeOK, EventAfter, EventNode, SoundWrite, Write
    <3>2. CASE w.op = "memberIDs"
      <4>1. event[e] \in EventNode
        BY <1>0, <1>1, <1>2, <3>2 DEF SoundWrite, TypeOK
      <4>2. event'[e] = [event[e] EXCEPT !.memberIDs = w.memberIDs]
        BY <1>0, <1>2, <1>3, <3>2 DEF TypeOK, EventAfter
      <4>3. event'[e] \in EventNode /\ event'[e].memberIDs = w.memberIDs
        BY <1>2, <4>1, <4>2 DEF EventNode
      <4> QED
        BY <4>3, AbsentConstants
    <3> QED
      BY <1>7, <3>1, <3>2
  <2>4. Members' = [Members EXCEPT ![e] = S]
    BY <1>0, <1>2, <1>3, <2>3 DEF Members, TypeOK
  <2>5. CASE event[e] = NoEvent
    <3>1. w.op = "event"
      BY <1>1, <1>7, <2>5 DEF SoundWrite
    <3>2. creator[e] \in User
      BY <1>1, <1>2, <3>1 DEF SoundWrite
    <3>3. S = {}
      BY <1>2, <2>2, <2>5 DEF OrderInv, AgreedPublished
    <3>4. Members[e] = NoEvent
      BY <1>2, <2>5 DEF Members
    <3>5. Rules!Publish(e)
      BY <1>3, <2>1, <2>4, <3>2, <3>3, <3>4 DEF Rules!Publish
    <3> QED
      BY <1>2, <3>5 DEF Rules!Next
  <2>6. CASE event[e] # NoEvent
    <3>1. Members[e] # NoEvent
      <4>1. event[e] \in EventNode /\ RosterSound(e, event[e].memberIDs)
        BY <1>0, <1>2, <2>6 DEF TypeOK, EventsSound
      <4>2. event[e].memberIDs \ {Blank} \in SUBSET User
        BY <4>1 DEF EventNode, MemberID
      <4> QED
        BY <1>2, <2>6, <4>2, AbsentConstants DEF Members
    <3>2. Rules!Change(e)
      BY <1>3, <2>1, <2>2, <2>4, <3>1 DEF Rules!Change
    <3> QED
      BY <1>2, <3>2 DEF Rules!Next
  <2> QED
    BY <2>5, <2>6
<1>8. CASE w.op = "invite"
  <2>1. invitingEventList'[w.userID][e].keys = Key
    BY <1>5, <1>8 DEF EntryAfter, SetEntry
  <2>2. Invited' = [Invited EXCEPT ![e] = Invited[e] \union {w.userID}]
    <3>1. ASSUME NEW d \in Event
          PROVE  Invited'[d] = IF d = e THEN Invited[e] \union {w.userID}
                                        ELSE Invited[d]
      <4>1. CASE d = e
        <5>1. \A m \in User :
                "eventID" \in invitingEventList'[m][e].keys
                  <=> m = w.userID \/ "eventID" \in invitingEventList[m][e].keys
          BY <1>2, <1>4, <2>1 DEF Key
        <5> QED
          BY <1>2, <4>1, <5>1 DEF Invited
      <4>2. CASE d # e
        BY <1>4, <4>2 DEF Invited
      <4> QED
        BY <4>1, <4>2
    <3> QED
      BY <1>2, <3>1 DEF Invited
  <2>3. creator[e] \in User \ {w.userID}
    BY <1>0, <1>2, <1>3, <2>1 DEF OrganiserUninvited, Key
  <2>4. event' = event
    BY <1>0, <1>3, <1>8 DEF EventAfter, TypeOK
  <2>5. Rules!Invite(e, w.userID)
    BY <1>3, <2>2, <2>3, <2>4 DEF Rules!Invite, Members
  <2> QED
    BY <1>2, <2>5 DEF Rules!Next
<1>9. CASE w.op \notin {"event", "memberIDs", "invite"}
  <2>1. event' = event
    BY <1>0, <1>3, <1>9 DEF EventAfter, TypeOK
  <2>2. "eventID" \in invitingEventList'[w.userID][e].keys
          <=> "eventID" \in invitingEventList[w.userID][e].keys
    BY <1>2, <1>5, <1>6, <1>9, EntryAfterInvite, EntryAfterGrows
  <2>3. Invited' = Invited
    BY <1>4, <2>2 DEF Invited
  <2> QED
    BY <1>3, <2>1, <2>3, RulesStutter
<1> QED
  BY <1>7, <1>8, <1>9

LEMMA AgreeRules ==
  ASSUME IInv, OrderInv, NEW u \in User, Agree(u)
  PROVE  Rules!Next
<1> DEFINE e == view[u].eventID
<1>1. view[u] \in View /\ ViewSound(u, view[u]) /\ e \in Event
        /\ "eventID" \in invitingEventList[u][e].keys
  BY OrderFacts, LocalFacts DEF Agree, View
<1>2. Members[e] # NoEvent
  <2>1. event[e] \in EventNode /\ event[e] # NoEvent
    BY <1>1 DEF IInv, TypeOK, ViewSound
  <2>2. event[e].memberIDs \ {Blank} \in SUBSET User
    BY <2>1 DEF EventNode, MemberID
  <2> QED
    BY <1>1, <2>1, <2>2, AbsentConstants DEF Members
<1>3. u \in Invited[e]
  BY <1>1 DEF Invited
<1>4. Rules!Agree(e, u)
  BY <1>2, <1>3 DEF Rules!Agree, Agree, database, Invited, Members
<1> QED
  BY <1>1, <1>4 DEF Rules!Next

LEMMA DoneRules ==
  ASSUME IInv, NEW u \in User, Done(u)
  PROVE  Rules!Next \/ UNCHANGED Rules!vars
<1>1. UNCHANGED <<event, agreed>> /\ Invited' = Invited /\ Members' = Members
  BY DEF Done, database, Invited, Members
<1>2. CASE form[u].isEdit
  BY <1>1, <1>2, RulesStutter DEF Done
<1>3. CASE ~form[u].isEdit
  <2>1. form[u].eventID \in Event
    BY LocalFacts DEF Done, Form
  <2>2. Rules!Create(form[u].eventID, u)
    BY <1>1, <1>3 DEF Done, Rules!Create
  <2> QED
    BY <2>1, <2>2 DEF Rules!Next
<1> QED
  BY <1>2, <1>3

LEMMA NextRules ==
  IInv /\ OrderInv /\ IInv' /\ [Next]_vars => [Rules!Next]_(Rules!vars)
<1> SUFFICES ASSUME IInv, OrderInv, IInv', [Next]_vars
             PROVE  Rules!Next \/ UNCHANGED Rules!vars
  OBVIOUS
<1>1. CASE UNCHANGED vars
  BY <1>1, RulesStutter DEF vars, database, Invited
<1>2. CASE Next
  <2>1. PICK u \in User : Phone(u) \/ Deliver(u) \/ Crash(u)
    BY <1>2 DEF Next
  <2>2. CASE Deliver(u)
    BY <2>2, DeliverRules
  <2>3. CASE Agree(u)
    BY <2>3, AgreeRules
  <2>4. CASE Done(u)
    BY <2>4, DoneRules
  <2>5. CASE UNCHANGED <<database, creator, agreed>>
    BY <2>5, RulesStutter DEF database, Invited
  <2>6. Phone(u) => Agree(u) \/ Done(u) \/ UNCHANGED <<database, creator, agreed>>
    BY DEF Phone, OpenFromMain, OpenFromNotification, OpenEvent, QueryUserData,
           QueryEventList, QueryEventListTraps, Back, DismissAlert, Reject,
           RejectTraps, DropOut, AddPressed, EditPressed, Cancel, AddMember,
           DeleteMember, UploadFails, UploadDone, ProcessDies
  <2>7. Crash(u) => UNCHANGED <<database, creator, agreed>>
    BY DEF Crash, ProcessDies
  <2> QED
    BY <2>1, <2>2, <2>3, <2>4, <2>5, <2>6, <2>7
<1> QED
  BY <1>1, <1>2

(* However many phones run, whatever they had read before and wherever     *)
(* their processes die, the database changes as Consent allows.            *)
THEOREM Implements == Spec => FollowsRules
<1>1. Init => Rules!Init
  BY InitRules
<1>2. IInv /\ OrderInv /\ (IInv /\ OrderInv)' /\ [Next]_vars
        => [Rules!Next]_(Rules!vars)
  BY NextRules
<1>3. Spec => Rules!Spec
  BY <1>1, <1>2, OrderInductive, PTL DEF Spec, Rules!Spec
<1> QED
  BY <1>3 DEF FollowsRules

(* What Consent promises holds of the database: whoever is listed agreed,  *)
(* whoever agreed was invited, and no organiser is invited (the handlers   *)
(* of EventContentVC and AddEventVC check none of it when they write).     *)
THEOREM PromiseKept == Spec => []Rules!Orderly
<1>1. Rules!ConsentConstants
  BY RosterConstants, AbsentConstants DEF Rules!ConsentConstants
<1>2. Rules!Spec => []Rules!Orderly
  BY <1>1, Rules!Promise
<1> QED
  BY <1>2, Implements, PTL DEF FollowsRules
=============================================================================
