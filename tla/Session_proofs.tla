--------------------------- MODULE Session_proofs ---------------------------
(***************************************************************************)
(* What the event list shows of whom, for any users, any number of         *)
(* observers, calls, changes and sign-ins under way, and whether or not    *)
(* the database ends the observers of a user who signs out.                *)
(***************************************************************************)
EXTENDS Session, TLAPS

(* Only an account that exists signs in by mail, at once.                  *)
MailSignIns ==
  \A s \in signIns : ~s.social => s.user \in accounts

(* c is the last call of s for the event list.                             *)
LastOfEvents(s, c) ==
  \E i \in 1..Len(s) :
    s[i] = c /\ \A j \in (i + 1)..Len(s) : s[j].kind = "user"

OnlyUserCalls(s) == \A i \in 1..Len(s) : s[i].kind = "user"

(* The observer for the user signed in is the last of them, and the last   *)
(* call due brings the events as they are now; when none is due the list   *)
(* has them.                                                               *)
ListFollows ==
  currentUser # NoUser /\ Announced =>
    /\ eventObservers # <<>>
    /\ eventObservers[Len(eventObservers)] = currentUser
    /\ \/ LastOfEvents(calls, EventCall(currentUser, version))
       \/ /\ OnlyUserCalls(calls)
          /\ eventData = [user |-> currentUser, version |-> version]

SessionInv == TypeOK /\ MailSignIns /\ ListFollows

-----------------------------------------------------------------------------
(* Calls.                                                                  *)

LEMMA CallsTyped ==
  ASSUME NEW u \in User
  PROVE  /\ \A v \in 0..MaxVersion : EventCall(u, v) \in Call
         /\ \A v \in User \union {NoUser} : UserCall(u, v) \in Call
BY DEF Call, EventCall, UserCall

LEMMA CallKinds ==
  ASSUME NEW u, NEW v
  PROVE  EventCall(u, v).kind = "event" /\ UserCall(u, v).kind = "user"
BY DEF EventCall, UserCall

(* What the head of the queue brings.                                      *)
LEMMA CallValues ==
  ASSUME NEW c \in Call
  PROVE  /\ c.user \in User
         /\ c.kind = "event" => /\ c.value \in 0..MaxVersion
                                /\ c = EventCall(c.user, c.value)
         /\ c.kind = "user" => c.value \in User \union {NoUser}
BY DEF Call, EventCall

(* Calls for the profile do not change which call is the last for the      *)
(* event list.                                                             *)
LEMMA UserCallsFollow ==
  ASSUME NEW s \in Seq(Call), NEW t \in Seq(Call), OnlyUserCalls(t)
  PROVE  /\ s \o t \in Seq(Call)
         /\ OnlyUserCalls(s) => OnlyUserCalls(s \o t)
         /\ \A c : LastOfEvents(s, c) => LastOfEvents(s \o t, c)
<1>1. s \o t \in Seq(Call) /\ Len(s \o t) = Len(s) + Len(t)
  OBVIOUS
<1>2. \A i \in 1..Len(s) : (s \o t)[i] = s[i]
  OBVIOUS
<1>3. \A i \in (Len(s) + 1)..Len(s \o t) : (s \o t)[i].kind = "user"
  <2> TAKE i \in (Len(s) + 1)..Len(s \o t)
  <2>1. i - Len(s) \in 1..Len(t) /\ (s \o t)[i] = t[i - Len(s)]
    BY <1>1
  <2> QED
    BY <2>1 DEF OnlyUserCalls
<1>4. Len(s) \in Nat /\ Len(t) \in Nat
  OBVIOUS
<1> DEFINE d == s \o t
<1> HIDE DEF d
<1>5. OnlyUserCalls(s) => OnlyUserCalls(d)
  BY <1>1, <1>2, <1>3, <1>4 DEF OnlyUserCalls, d
<1>6. ASSUME NEW c, LastOfEvents(s, c)
      PROVE  LastOfEvents(d, c)
  <2>1. PICK i \in 1..Len(s) :
          s[i] = c /\ \A j \in (i + 1)..Len(s) : s[j].kind = "user"
    BY <1>6 DEF LastOfEvents
  <2>2. i \in 1..Len(d) /\ d[i] = c
    BY <1>1, <1>2, <1>4, <2>1 DEF d
  <2>3. ASSUME NEW j \in (i + 1)..Len(d)
        PROVE  d[j].kind = "user"
    <3>1. CASE j \in (i + 1)..Len(s)
      BY <1>2, <1>4, <2>1, <3>1 DEF d
    <3>2. CASE j \in (Len(s) + 1)..Len(d)
      BY <1>3, <3>2 DEF d
    <3> QED
      BY <1>4, <3>1, <3>2
  <2> QED
    BY <2>2, <2>3 DEF LastOfEvents
<1> QED
  BY <1>1, <1>5, <1>6 DEF d

(* The last of the calls appended is the last of all.                      *)
LEMMA EventCallsFollow ==
  ASSUME NEW s \in Seq(Call), NEW t \in Seq(Call), t # <<>>
  PROVE  s \o t \in Seq(Call) /\ LastOfEvents(s \o t, t[Len(t)])
<1>1. Len(s \o t) = Len(s) + Len(t) /\ Len(s) \in Nat /\ Len(t) \in Nat \ {0}
  OBVIOUS
<1>2. (s \o t)[Len(s) + Len(t)] = t[Len(t)]
  BY <1>1
<1> QED
  BY <1>1, <1>2 DEF LastOfEvents

LEMMA ObserverAdded ==
  ASSUME NEW s \in Seq(User), NEW u \in User
  PROVE  /\ Append(s, u) \in Seq(User) /\ Append(s, u) # <<>>
         /\ Append(s, u)[Len(Append(s, u))] = u
OBVIOUS

LEMMA EventCallFollows ==
  ASSUME NEW s \in Seq(Call), NEW c \in Call
  PROVE  Append(s, c) \in Seq(Call) /\ LastOfEvents(Append(s, c), c)
<1>1. Len(Append(s, c)) = Len(s) + 1 /\ Len(s) \in Nat
        /\ Append(s, c)[Len(s) + 1] = c
  OBVIOUS
<1> QED
  BY <1>1 DEF LastOfEvents

LEMMA UserCallFollows ==
  ASSUME NEW s \in Seq(Call), NEW c \in Call, c.kind = "user"
  PROVE  /\ Append(s, c) \in Seq(Call)
         /\ OnlyUserCalls(s) => OnlyUserCalls(Append(s, c))
         /\ \A e : LastOfEvents(s, e) => LastOfEvents(Append(s, c), e)
<1>1. <<c>> \in Seq(Call) /\ OnlyUserCalls(<<c>>)
  BY DEF OnlyUserCalls
<1>2. Append(s, c) = s \o <<c>>
  OBVIOUS
<1> QED
  BY <1>1, <1>2, UserCallsFollow

(* The first call is made.                                                 *)
LEMMA CallMade ==
  ASSUME NEW s \in Seq(Call), s # <<>>
  PROVE  /\ Head(s) \in Call /\ Tail(s) \in Seq(Call)
         /\ OnlyUserCalls(s) => OnlyUserCalls(Tail(s)) /\ Head(s).kind = "user"
         /\ \A c : LastOfEvents(s, c) =>
               \/ LastOfEvents(Tail(s), c)
               \/ (Head(s) = c /\ OnlyUserCalls(Tail(s)))
<1> DEFINE t == Tail(s)
<1>1. Head(s) \in Call /\ Head(s) = s[1] /\ t \in Seq(Call)
        /\ Len(t) = Len(s) - 1 /\ Len(s) \in Nat \ {0}
        /\ \A i \in 1..Len(t) : t[i] = s[i + 1]
  OBVIOUS
<1> HIDE DEF t
<1>2. OnlyUserCalls(s) => OnlyUserCalls(t) /\ Head(s).kind = "user"
  BY <1>1 DEF OnlyUserCalls
<1>3. ASSUME NEW c, LastOfEvents(s, c)
      PROVE  LastOfEvents(t, c) \/ (Head(s) = c /\ OnlyUserCalls(t))
  <2>1. PICK i \in 1..Len(s) :
          s[i] = c /\ \A j \in (i + 1)..Len(s) : s[j].kind = "user"
    BY <1>3 DEF LastOfEvents
  <2>2. CASE i = 1
    BY <1>1, <2>1, <2>2 DEF OnlyUserCalls
  <2>3. CASE i > 1
    <3>1. i - 1 \in 1..Len(t) /\ t[i - 1] = c
      BY <1>1, <2>1, <2>3
    <3>2. \A j \in (i - 1 + 1)..Len(t) : t[j].kind = "user"
      BY <1>1, <2>1, <2>3
    <3> QED
      BY <3>1, <3>2 DEF LastOfEvents
  <2> QED
    BY <1>1, <2>2, <2>3
<1> QED
  BY <1>1, <1>2, <1>3 DEF t

(* What a change calls.                                                    *)
LEMMA ChangeCalls ==
  ASSUME TypeOK
  PROVE  /\ \A v \in 0..MaxVersion :
              /\ EventCalls(v) \in Seq(Call)
              /\ Len(EventCalls(v)) = Len(eventObservers)
              /\ \A i \in 1..Len(eventObservers) :
                   EventCalls(v)[i] = EventCall(eventObservers[i], v)
         /\ \A u \in User, v \in User \union {NoUser} :
              UserCalls(u, v) \in Seq(Call) /\ OnlyUserCalls(UserCalls(u, v))
<1>1. ASSUME NEW v \in 0..MaxVersion
      PROVE  /\ EventCalls(v) \in Seq(Call)
             /\ Len(EventCalls(v)) = Len(eventObservers)
             /\ \A i \in 1..Len(eventObservers) :
                  EventCalls(v)[i] = EventCall(eventObservers[i], v)
  <2>1. \A i \in 1..Len(eventObservers) :
          EventCall(eventObservers[i], v) \in Call
    <3> TAKE i \in 1..Len(eventObservers)
    <3>1. eventObservers[i] \in User
      BY DEF TypeOK
    <3> QED
      BY <3>1, CallsTyped
  <2> QED
    BY <2>1 DEF EventCalls, TypeOK
<1>2. ASSUME NEW u \in User, NEW v \in User \union {NoUser}
      PROVE  UserCalls(u, v) \in Seq(Call) /\ OnlyUserCalls(UserCalls(u, v))
  <2>1. UserCall(u, v) \in Call /\ UserCall(u, v).kind = "user"
    BY CallsTyped, CallKinds
  <2>2. userObservers[u] \in Nat
    BY SessionConstants DEF TypeOK
  <2> DEFINE c == UserCall(u, v)
  <2> HIDE DEF c
  <2> QED
    BY <2>1, <2>2 DEF UserCalls, OnlyUserCalls, c
<1> QED
  BY <1>1, <1>2

-----------------------------------------------------------------------------
(* Types.                                                                  *)

(* "login": the lists grow by observers for the user signed in, and the    *)
(* last call for the event list is theirs.                                 *)
LEMMA LoginPosted ==
  ASSUME TypeOK, NEW u \in User \union {NoUser},
         NEW before \in Seq(Call), OnlyUserCalls(before),
         records' \in [User -> User \union {NoUser}], PostLogin(u, before)
  PROVE  /\ eventObservers' \in Seq(User)
         /\ userObservers' \in [User -> 0..MaxObservers]
         /\ calls' \in Seq(Call)
         /\ editEnabled' \in BOOLEAN
         /\ u # NoUser => /\ eventObservers' # <<>>
                          /\ eventObservers'[Len(eventObservers')] = u
                          /\ LastOfEvents(calls', EventCall(u, version))
<1>1. CASE u = NoUser
  <2>1. calls' = calls \o before /\ UNCHANGED <<observers, editEnabled>>
    BY <1>1 DEF PostLogin
  <2>2. calls' \in Seq(Call)
    BY <2>1, UserCallsFollow DEF TypeOK
  <2> QED
    BY <1>1, <2>1, <2>2 DEF TypeOK, observers
<1>2. CASE u # NoUser
  <2> DEFINE t == IF profileLoaded THEN <<UserCall(u, records'[u])>> ELSE <<>>
  <2>1. /\ ObserveEvents(u) /\ (ObserveUser(u) \/ UNCHANGED userObservers)
        /\ calls' = calls \o before \o <<EventCall(u, version)>> \o t
        /\ editEnabled' = (editEnabled \/ profileLoaded) /\ InBounds
    BY <1>2 DEF PostLogin, ProfileDidLogin, ProfileCalls
  <2>2. u \in User
    BY <1>2
  <2>3. eventObservers' \in Seq(User) /\ eventObservers' # <<>>
          /\ eventObservers'[Len(eventObservers')] = u
    BY <2>1, <2>2, ObserverAdded DEF ObserveEvents, TypeOK
  <2>4. userObservers' \in [User -> 0..MaxObservers]
    BY <2>1, <2>2, SessionConstants DEF ObserveUser, InBounds, TypeOK
  <2>5. <<EventCall(u, version)>> \in Seq(Call) /\ EventCall(u, version) \in Call
    BY <2>2, CallsTyped DEF TypeOK
  <2>6. t \in Seq(Call) /\ OnlyUserCalls(t)
    <3>1. UserCall(u, records'[u]) \in Call
            /\ UserCall(u, records'[u]).kind = "user"
      BY <2>2, CallsTyped, CallKinds
    <3> QED
      BY <3>1 DEF OnlyUserCalls
  <2> DEFINE c == calls \o before
             e == c \o <<EventCall(u, version)>>
  <2>7. c \in Seq(Call)
    BY UserCallsFollow DEF TypeOK
  <2> HIDE DEF t, c
  <2>8. e \in Seq(Call) /\ LastOfEvents(e, EventCall(u, version))
    <3> DEFINE o == <<EventCall(u, version)>>
    <3>1. o # <<>> /\ o[Len(o)] = EventCall(u, version)
      OBVIOUS
    <3>2. o \in Seq(Call)
      BY <2>5
    <3> HIDE DEF o
    <3>3. c \o o \in Seq(Call) /\ LastOfEvents(c \o o, o[Len(o)])
      BY <2>7, <3>1, <3>2, EventCallsFollow
    <3> QED
      BY <3>1, <3>3 DEF o
  <2> HIDE DEF e
  <2>9. calls' = e \o t
    BY <2>1 DEF e, c
  <2>10. calls' \in Seq(Call) /\ LastOfEvents(calls', EventCall(u, version))
    BY <2>6, <2>8, <2>9, UserCallsFollow
  <2>11. editEnabled' \in BOOLEAN
    BY <2>1, Zenon DEF TypeOK
  <2> QED
    BY <2>3, <2>4, <2>10, <2>11
<1> QED
  BY <1>1, <1>2

LEMMA TabsTyped ==
  ASSUME TypeOK, NEW u \in User \union {NoUser}, Tabs(u)
  PROVE  /\ eventObservers' \in Seq(User)
         /\ userObservers' \in [User -> 0..MaxObservers]
         /\ calls' \in Seq(Call)
         /\ u # NoUser => /\ eventObservers' # <<>>
                          /\ eventObservers'[Len(eventObservers')] = u
                          /\ LastOfEvents(calls', EventCall(u, version))
<1>1. eventObservers' \in Seq(User) /\ userObservers' \in [User -> 0..MaxObservers]
  BY SessionConstants DEF Tabs
<1>2. CASE u = NoUser
  BY <1>1, <1>2 DEF Tabs
<1>3. CASE u # NoUser
  <2> DEFINE e == EventCall(u, version)
  <2>1. e \in Call
    BY <1>3, CallsTyped DEF TypeOK
  <2>2. calls' = Append(<<>>, e) /\ eventObservers' = <<u>>
    BY <1>3 DEF Tabs
  <2>3. calls' \in Seq(Call) /\ LastOfEvents(calls', e)
    <3> HIDE DEF e
    <3>1. <<>> \in Seq(Call)
      OBVIOUS
    <3>2. Append(<<>>, e) \in Seq(Call) /\ LastOfEvents(Append(<<>>, e), e)
      BY <2>1, <3>1, EventCallFollows, Zenon
    <3> QED
      BY <2>2, <3>2, Zenon
  <2>4. eventObservers' # <<>> /\ eventObservers'[Len(eventObservers')] = u
    BY <2>2
  <2> QED
    BY <1>1, <2>3, <2>4
<1> QED
  BY <1>2, <1>3

LEMMA SocialReadTyped ==
  ASSUME TypeOK, NEW s \in signIns, SocialRead(s)
  PROVE  /\ s.user \in User
         /\ records' \in [User -> User \union {NoUser}]
         /\ \E before \in Seq(Call) :
              OnlyUserCalls(before) /\ PostLogin(currentUser, before)
<1>1. s.user \in User
  BY DEF TypeOK, SignIn
<1>2. FirstRecord(s.user) \in User \union {NoUser}
  BY <1>1 DEF FirstRecord, TypeOK
<1>3. records' \in [User -> User \union {NoUser}]
  BY <1>1, <1>2 DEF SocialRead, TypeOK
<1> DEFINE before == IF records' = records THEN <<>> ELSE UserCalls(s.user, s.user)
<1>4. before \in Seq(Call) /\ OnlyUserCalls(before)
  BY <1>1, ChangeCalls DEF OnlyUserCalls
<1>5. PostLogin(currentUser, before)
  BY DEF SocialRead
<1> HIDE DEF before
<1> QED
  BY <1>1, <1>3, <1>4, <1>5

LEMMA TypeStep ==
  ASSUME TypeOK, MailSignIns, [Next]_vars
  PROVE  TypeOK'
<1> USE DEF TypeOK
<1>0. CASE ShowLogin \/ LaterPressed
  BY <1>0 DEF ShowLogin, LaterPressed, remote, observers, profile
<1>1. CASE Logout
  <2>1. eventObservers' \in Seq(User)
    <3>1. eventObservers' = <<>> \/ eventObservers' = eventObservers
      BY <1>1 DEF Logout, observers
    <3>2. <<>> \in Seq(User)
      OBVIOUS
    <3> QED
      BY <3>1, <3>2
  <2>2. userObservers' \in [User -> 0..MaxObservers]
    BY <1>1, SessionConstants DEF Logout, observers
  <2> QED
    BY <1>1, <2>1, <2>2 DEF Logout, remote
<1>2. ASSUME NEW u \in User, RegisterPressed(u)
      PROVE  TypeOK'
  BY <1>2 DEF RegisterPressed, Record, observers, profile
<1>3. ASSUME NEW u \in User, NEW social \in BOOLEAN, SignInPressed(u, social)
      PROVE  TypeOK'
  BY <1>3 DEF SignInPressed, SignIn, remote, observers, profile
<1>4. ASSUME NEW s \in signIns, SignInFails(s)
      PROVE  TypeOK'
  BY <1>4 DEF SignInFails, remote, observers, profile
<1>5. ASSUME NEW s \in signIns, SignedIn(s)
      PROVE  TypeOK'
  <2>1. s.user \in User /\ s.user \in accounts /\ currentUser' = s.user
    BY <1>5 DEF SignedIn, SignIn, MailSignIns
  <2>2. UNCHANGED <<accounts, records, version, eventData, profileLoaded, user,
                    editing, uploads>>
    BY <1>5 DEF SignedIn, remote
  <2>3. screen' \in {"tabs", "login", "registered"} /\ signIns' \subseteq SignIn
    BY <1>5 DEF SignedIn, DismissLogin
  <2>4. <<>> \in Seq(Call) /\ OnlyUserCalls(<<>>) /\ PostLogin(s.user, <<>>)
    BY <1>5 DEF SignedIn, OnlyUserCalls
  <2>5. /\ eventObservers' \in Seq(User)
        /\ userObservers' \in [User -> 0..MaxObservers]
        /\ calls' \in Seq(Call) /\ editEnabled' \in BOOLEAN
    <3>1. records' \in [User -> User \union {NoUser}]
      BY <2>2
    <3> QED
      BY <2>1, <2>4, <3>1, LoginPosted
  <2> QED
    BY <2>1, <2>2, <2>3, <2>5
<1>6. ASSUME NEW s \in signIns, SocialSignedIn(s)
      PROVE  TypeOK'
  <2>1. s.user \in User /\ [s EXCEPT !.step = "read"] \in SignIn
    BY DEF SignIn
  <2> QED
    BY <1>6, <2>1 DEF SocialSignedIn, observers, profile
<1>7. ASSUME NEW s \in signIns, SocialRead(s)
      PROVE  TypeOK'
  <2>1. UNCHANGED <<accounts, version, currentUser, eventData, profileLoaded,
                    user, editing, uploads>>
    BY <1>7 DEF SocialRead
  <2>2. screen' \in {"tabs", "login", "registered"} /\ signIns' \subseteq SignIn
    BY <1>7 DEF SocialRead, DismissLogin
  <2>3. PICK before \in Seq(Call) :
          OnlyUserCalls(before) /\ PostLogin(currentUser, before)
    BY <1>7, SocialReadTyped
  <2>4. records' \in [User -> User \union {NoUser}]
    BY <1>7, SocialReadTyped
  <2>5. /\ eventObservers' \in Seq(User)
        /\ userObservers' \in [User -> 0..MaxObservers]
        /\ calls' \in Seq(Call) /\ editEnabled' \in BOOLEAN
    BY <2>3, <2>4, LoginPosted
  <2> QED
    BY <2>1, <2>2, <2>4, <2>5
<1>8. ASSUME NEW u \in User \union {NoUser}, u = currentUser, Tabs(u),
             UNCHANGED <<remote, currentUser>>, signIns' \subseteq signIns,
             uploads' \subseteq uploads
      PROVE  TypeOK'
  BY <1>8, TabsTyped DEF Tabs, remote
<1>9. CASE RegisterLeft \/ EditTraps
  BY <1>8, <1>9 DEF RegisterLeft, EditTraps, Relaunch
<1>10. CASE RefreshData
  <2>1. currentUser \in User /\ EventCall(currentUser, version) \in Call
    BY <1>10, CallsTyped DEF RefreshData
  <2>2. eventObservers' \in Seq(User)
    BY <1>10, <2>1, ObserverAdded DEF RefreshData, ObserveEvents
  <2>3. calls' \in Seq(Call)
    BY <1>10, <2>1, EventCallFollows DEF RefreshData
  <2> QED
    BY <1>10, <2>2, <2>3 DEF RefreshData, remote, profile
<1>11. CASE EventsChange
  <2>1. version' \in 0..MaxVersion /\ EventCalls(version') \in Seq(Call)
    BY <1>11, ChangeCalls, SessionConstants DEF EventsChange
  <2>2. calls' \in Seq(Call)
    BY <1>11, <2>1 DEF EventsChange
  <2> QED
    BY <1>11, <2>1, <2>2 DEF EventsChange, observers, profile
<1>12. CASE EventCalled
  <2>1. /\ Head(calls).user \in User /\ Head(calls).value \in 0..MaxVersion
        /\ Tail(calls) \in Seq(Call)
    BY <1>12, CallMade, CallValues DEF EventCalled, Due
  <2> QED
    BY <1>12, <2>1 DEF EventCalled, remote, observers, profile
<1>13. CASE ProfileDidLoad
  <2>1. userObservers' \in [User -> 0..MaxObservers]
    BY <1>13, SessionConstants DEF ProfileDidLoad, ObserveUser, InBounds
  <2>2. calls' \in Seq(Call)
    <3>1. CASE currentUser = NoUser
      BY <1>13, <3>1 DEF ProfileDidLoad
    <3>2. CASE currentUser # NoUser
      <4> DEFINE c == UserCall(currentUser, records[currentUser])
      <4>1. c \in Call /\ c.kind = "user"
        BY <3>2, CallsTyped, CallKinds
      <4>2. calls' = Append(calls, c)
        BY <1>13, <3>2 DEF ProfileDidLoad
      <4> HIDE DEF c
      <4> QED
        BY <4>1, <4>2, UserCallFollows
    <3> QED
      BY <3>1, <3>2
  <2> QED
    BY <1>13, <2>1, <2>2 DEF ProfileDidLoad, remote
<1>14. CASE UserCalled
  <2> DEFINE c == Head(calls)
  <2>1. /\ c.user \in User /\ c.value \in User \union {NoUser}
        /\ Tail(calls) \in Seq(Call)
    BY <1>14, CallMade, CallValues DEF UserCalled, Due
  <2>2. user' \in Record \union {NoRecord}
    BY <1>14, <2>1 DEF UserCalled, Record
  <2> QED
    BY <1>14, <2>1, <2>2 DEF UserCalled, remote, observers
<1>15. CASE EditPressed
  BY <1>15 DEF EditPressed, remote, observers
<1>16. ASSUME NEW b \in BOOLEAN, EditLeft(b)
       PROVE  TypeOK'
  <2>1. uploads' \subseteq Record
    BY <1>16 DEF EditLeft, Record, NoRecord
  <2> QED
    BY <1>16, <2>1 DEF EditLeft, remote, observers
<1>17. ASSUME NEW p \in uploads, UploadDone(p)
       PROVE  TypeOK'
  <2>1. p.userID \in User /\ p.email \in User
    BY DEF Record
  <2>2. UserCalls(p.userID, p.email) \in Seq(Call)
    BY <2>1, ChangeCalls
  <2>3. calls' \in Seq(Call)
    BY <1>17, <2>2 DEF UploadDone
  <2> QED
    BY <1>17, <2>1, <2>3 DEF UploadDone, observers, profile
<1>18. ASSUME NEW p \in uploads, UploadFails(p)
       PROVE  TypeOK'
  BY <1>18 DEF UploadFails, remote, observers, profile
<1>19. CASE UNCHANGED vars
  BY <1>19 DEF vars, remote, observers, profile
<1> QED
  BY <1>0, <1>1, <1>2, <1>3, <1>4, <1>5, <1>6, <1>7, <1>9, <1>10, <1>11, <1>12,
     <1>13, <1>14, <1>15, <1>16, <1>17, <1>18, <1>19, Zenon DEF Next

LEMMA MailStep ==
  ASSUME TypeOK, MailSignIns, [Next]_vars
  PROVE  MailSignIns'
<1>1. accounts \subseteq accounts'
  BY DEF Next, ShowLogin, LaterPressed, Logout, RegisterPressed, SignInPressed,
         SignInFails, SignedIn, SocialSignedIn, SocialRead, RegisterLeft,
         RefreshData, EventsChange, EventCalled, ProfileDidLoad, UserCalled,
         EditPressed, EditTraps, EditLeft, UploadDone, UploadFails, Relaunch,
         remote, vars
<1>2. \A s \in signIns' : ~s.social => s \in signIns \/ s.user \in accounts
  <2>1. ASSUME NEW u \in User, NEW social \in BOOLEAN, SignInPressed(u, social)
        PROVE  \A s \in signIns' :
                 ~s.social => s \in signIns \/ s.user \in accounts
    BY <2>1 DEF SignInPressed
  <2>2. ASSUME NEW t \in signIns, SocialSignedIn(t)
        PROVE  \A s \in signIns' :
                 ~s.social => s \in signIns \/ s.user \in accounts
    <3>1. t.social /\ [t EXCEPT !.step = "read"].social = t.social
      BY <2>2 DEF SocialSignedIn, TypeOK, SignIn
    <3> QED
      BY <2>2, <3>1 DEF SocialSignedIn
  <2>3. CASE signIns' \subseteq signIns
    BY <2>3
  <2> QED
    BY <2>1, <2>2, <2>3
    DEF Next, ShowLogin, LaterPressed, Logout, RegisterPressed, SignInFails,
        SignedIn, SocialRead, RegisterLeft, RefreshData, EventsChange,
        EventCalled, ProfileDidLoad, UserCalled, EditPressed, EditTraps,
        EditLeft, UploadDone, UploadFails, Relaunch, vars
<1> QED
  BY <1>1, <1>2 DEF MailSignIns

-----------------------------------------------------------------------------
(* The list follows the session.                                           *)

(* Nothing the list depends on has changed.                                *)
LEMMA ListUnchanged ==
  ASSUME ListFollows,
         UNCHANGED <<version, currentUser, eventObservers, calls, eventData>>,
         Announced' => Announced
  PROVE  ListFollows'
BY DEF ListFollows, OnlyUserCalls, LastOfEvents, EventCall

(* The observers for the user signed in were just told.                    *)
LEMMA ListTold ==
  ASSUME currentUser' # NoUser => 
           /\ eventObservers' # <<>>
           /\ eventObservers'[Len(eventObservers')] = currentUser'
           /\ LastOfEvents(calls', EventCall(currentUser', version'))
  PROVE  ListFollows'
BY DEF ListFollows

(* Calls for the profile were added.                                       *)
LEMMA ListAfterUserCalls ==
  ASSUME TypeOK, ListFollows, NEW t \in Seq(Call), OnlyUserCalls(t),
         calls' = calls \o t,
         UNCHANGED <<version, currentUser, eventObservers, eventData, screen,
                     signIns>>
  PROVE  ListFollows'
<1>1. calls \in Seq(Call)
  BY DEF TypeOK
<1>2. /\ OnlyUserCalls(calls) => OnlyUserCalls(calls')
      /\ LastOfEvents(calls, EventCall(currentUser, version))
           => LastOfEvents(calls', EventCall(currentUser, version))
  BY <1>1, UserCallsFollow
<1> QED
  BY <1>2 DEF ListFollows, Announced

LEMMA ListStep ==
  ASSUME TypeOK, MailSignIns, ListFollows, [Next]_vars
  PROVE  ListFollows'
<1>1. CASE ShowLogin \/ LaterPressed
  BY <1>1, ListUnchanged
    DEF ShowLogin, LaterPressed, remote, observers, Announced
<1>2. CASE Logout
  BY <1>2, ListTold DEF Logout
<1>3. ASSUME NEW u \in User, RegisterPressed(u)
      PROVE  ListFollows'
  BY <1>3 DEF RegisterPressed, ListFollows, Announced
<1>4. ASSUME NEW u \in User, NEW social \in BOOLEAN, SignInPressed(u, social)
      PROVE  ListFollows'
  BY <1>4, ListUnchanged DEF SignInPressed, remote, observers, Announced
<1>5. ASSUME NEW s \in signIns, SignInFails(s)
      PROVE  ListFollows'
  BY <1>5, ListUnchanged DEF SignInFails, remote, observers, Announced
<1>6. ASSUME NEW s \in signIns, SignedIn(s)
      PROVE  ListFollows'
  <2>1. s.user \in User /\ currentUser' = s.user /\ UNCHANGED <<records, version>>
    BY <1>6 DEF SignedIn, SignIn, TypeOK, remote
  <2>2. <<>> \in Seq(Call) /\ OnlyUserCalls(<<>>) /\ PostLogin(s.user, <<>>)
    BY <1>6 DEF SignedIn, OnlyUserCalls
  <2>3. records' \in [User -> User \union {NoUser}]
    BY <2>1 DEF TypeOK
  <2>4. s.user # NoUser =>
          /\ eventObservers' # <<>>
          /\ eventObservers'[Len(eventObservers')] = s.user
          /\ LastOfEvents(calls', EventCall(s.user, version))
    BY <2>1, <2>2, <2>3, LoginPosted
  <2> QED
    BY <2>1, <2>4, ListTold
<1>7. ASSUME NEW s \in signIns, SocialSignedIn(s)
      PROVE  ListFollows'
  <2>1. currentUser' = s.user /\ [s EXCEPT !.step = "read"] \in signIns'
    BY <1>7 DEF SocialSignedIn
  <2>2. [s EXCEPT !.step = "read"].step = "read"
          /\ [s EXCEPT !.step = "read"].user = s.user
    BY DEF TypeOK, SignIn
  <2> QED
    BY <2>1, <2>2 DEF ListFollows, Announced
<1>8. ASSUME NEW s \in signIns, SocialRead(s)
      PROVE  ListFollows'
  <2>1. PICK before \in Seq(Call) :
          OnlyUserCalls(before) /\ PostLogin(currentUser, before)
    BY <1>8, SocialReadTyped
  <2>2. UNCHANGED <<version, currentUser>>
          /\ records' \in [User -> User \union {NoUser}]
          /\ currentUser \in User \union {NoUser}
    BY <1>8, SocialReadTyped DEF SocialRead, TypeOK
  <2> QED
    BY <2>1, <2>2, LoginPosted, ListTold
<1>9. ASSUME Tabs(currentUser), UNCHANGED <<remote, currentUser>>
      PROVE  ListFollows'
  <2>1. currentUser \in User \union {NoUser}
    BY DEF TypeOK
  <2>2. UNCHANGED <<version, currentUser>>
    BY <1>9 DEF remote
  <2> QED
    BY <1>9, <2>1, <2>2, TabsTyped, ListTold
<1>10. CASE RegisterLeft \/ EditTraps
  BY <1>9, <1>10 DEF RegisterLeft, EditTraps, Relaunch
<1>11. CASE RefreshData
  <2>1. currentUser \in User /\ EventCall(currentUser, version) \in Call
          /\ calls \in Seq(Call) /\ eventObservers \in Seq(User)
    BY <1>11, CallsTyped DEF RefreshData, TypeOK
  <2>2. UNCHANGED <<version, currentUser>>
          /\ eventObservers' = Append(eventObservers, currentUser)
          /\ calls' = Append(calls, EventCall(currentUser, version))
    BY <1>11 DEF RefreshData, ObserveEvents, remote
  <2> QED
    BY <2>1, <2>2, ObserverAdded, EventCallFollows, ListTold
<1>12. CASE EventsChange
  <2>1. SUFFICES ASSUME currentUser' # NoUser, Announced'
                 PROVE  ListFollows'
    BY DEF ListFollows
  <2>2. /\ UNCHANGED <<currentUser, eventObservers, screen, signIns>>
        /\ version' \in 0..MaxVersion /\ calls' = calls \o EventCalls(version')
    BY <1>12, SessionConstants DEF EventsChange, observers, TypeOK
  <2>3. eventObservers # <<>> /\ eventObservers[Len(eventObservers)] = currentUser
    BY <2>1, <2>2 DEF ListFollows, Announced
  <2> DEFINE t == EventCalls(version')
  <2>4. /\ t \in Seq(Call) /\ Len(t) = Len(eventObservers)
        /\ \A i \in 1..Len(eventObservers) :
             t[i] = EventCall(eventObservers[i], version')
    BY <2>2, ChangeCalls
  <2>5. Len(eventObservers) \in Nat \ {0}
    BY <2>3 DEF TypeOK
  <2>6. t # <<>> /\ t[Len(t)] = EventCall(currentUser, version')
    BY <2>3, <2>4, <2>5
  <2> HIDE DEF t
  <2>7. LastOfEvents(calls \o t, t[Len(t)])
    BY <2>4, <2>6, EventCallsFollow DEF TypeOK
  <2> QED
    BY <2>2, <2>3, <2>6, <2>7, ListTold DEF t
<1>13. CASE EventCalled
  <2>1. SUFFICES ASSUME currentUser # NoUser, Announced
                 PROVE  ListFollows'
    BY <1>13 DEF EventCalled, ListFollows, Announced
  <2>2. /\ calls \in Seq(Call) /\ calls # <<>> /\ Head(calls).kind = "event"
        /\ calls' = Tail(calls)
        /\ eventData' = [user |-> Head(calls).user, version |-> Head(calls).value]
        /\ UNCHANGED <<version, currentUser, eventObservers>>
    BY <1>13 DEF EventCalled, Due, remote, observers, TypeOK
  <2> DEFINE e == EventCall(currentUser, version)
  <2>3. LastOfEvents(calls, e)
    BY <2>1, <2>2, CallMade DEF ListFollows
  <2>4. LastOfEvents(calls', e) \/ (Head(calls) = e /\ OnlyUserCalls(calls'))
    BY <2>2, <2>3, CallMade
  <2>5. Head(calls) = e => eventData' = [user |-> currentUser, version |-> version]
    BY <2>2 DEF EventCall
  <2> QED
    BY <2>1, <2>2, <2>4, <2>5 DEF ListFollows
<1>14. CASE ProfileDidLoad
  <2>1. UNCHANGED <<version, currentUser, eventObservers, eventData, screen,
                    signIns>>
    BY <1>14 DEF ProfileDidLoad, remote
  <2>2. CASE currentUser = NoUser
    BY <2>1, <2>2 DEF ListFollows
  <2>3. CASE currentUser # NoUser
    <3> DEFINE c == UserCall(currentUser, records[currentUser])
    <3>1. c \in Call /\ c.kind = "user"
      BY <2>3, CallsTyped, CallKinds DEF TypeOK
    <3>2. calls' = Append(calls, c) /\ calls \in Seq(Call)
      BY <1>14, <2>3 DEF ProfileDidLoad, TypeOK
    <3> HIDE DEF c
    <3>3. <<c>> \in Seq(Call) /\ OnlyUserCalls(<<c>>) /\ calls' = calls \o <<c>>
      BY <3>1, <3>2 DEF OnlyUserCalls
    <3> QED
      BY <2>1, <3>3, ListAfterUserCalls
  <2> QED
    BY <2>2, <2>3
<1>15. CASE UserCalled
  <2>1. SUFFICES ASSUME currentUser # NoUser, Announced
                 PROVE  ListFollows'
    BY <1>15 DEF UserCalled, ListFollows, Announced
  <2>2. /\ calls \in Seq(Call) /\ calls # <<>> /\ Head(calls).kind = "user"
        /\ calls' = Tail(calls)
        /\ UNCHANGED <<version, currentUser, eventObservers, eventData>>
    BY <1>15 DEF UserCalled, Due, remote, observers, TypeOK
  <2> DEFINE e == EventCall(currentUser, version)
  <2>3. Head(calls) # e
    BY <2>2, CallKinds
  <2>4. LastOfEvents(calls, e) => LastOfEvents(calls', e)
    BY <2>2, <2>3, CallMade
  <2>5. OnlyUserCalls(calls) => OnlyUserCalls(calls')
    BY <2>2, CallMade
  <2> QED
    BY <2>1, <2>2, <2>4, <2>5 DEF ListFollows
<1>16. CASE EditPressed
  BY <1>16, ListUnchanged DEF EditPressed, remote, observers, Announced
<1>17. ASSUME NEW b \in BOOLEAN, EditLeft(b)
       PROVE  ListFollows'
  BY <1>17, ListUnchanged DEF EditLeft, remote, observers, Announced
<1>18. ASSUME NEW p \in uploads, UploadDone(p)
       PROVE  ListFollows'
  <2>1. p.userID \in User /\ p.email \in User
    BY DEF Record, TypeOK
  <2> DEFINE t == UserCalls(p.userID, p.email)
  <2>2. t \in Seq(Call) /\ OnlyUserCalls(t)
    BY <2>1, ChangeCalls
  <2>3. /\ calls' = calls \o t
        /\ UNCHANGED <<version, currentUser, eventObservers, eventData, screen,
                       signIns>>
    BY <1>18 DEF UploadDone, observers
  <2> HIDE DEF t
  <2> QED
    BY <2>2, <2>3, ListAfterUserCalls
<1>19. ASSUME NEW p \in uploads, UploadFails(p)
       PROVE  ListFollows'
  BY <1>19, ListUnchanged DEF UploadFails, remote, observers, Announced
<1>20. CASE UNCHANGED vars
  BY <1>20, ListUnchanged DEF vars, remote, observers, Announced
<1> QED
  BY <1>1, <1>2, <1>3, <1>4, <1>5, <1>6, <1>7, <1>8, <1>10, <1>11, <1>12,
     <1>13, <1>14, <1>15, <1>16, <1>17, <1>18, <1>19, <1>20, Zenon DEF Next

-----------------------------------------------------------------------------
LEMMA SessionInit == Init => SessionInv
<1> SUFFICES ASSUME Init
             PROVE  SessionInv
  OBVIOUS
<1>1. eventObservers \in Seq(User) /\ version \in 0..MaxVersion
  BY SessionConstants DEF Init
<1>2. calls \in Seq(Call) /\ (currentUser # NoUser =>
                               LastOfEvents(calls, EventCall(currentUser, version)))
  <2>1. CASE currentUser = NoUser
    <3>1. calls = <<>>
      BY <2>1 DEF Init, EventCalls
    <3> QED
      BY <2>1, <3>1
  <2>2. CASE currentUser # NoUser
    <3> DEFINE c == EventCall(currentUser, version)
    <3>1. c \in Call
      BY <1>1, <2>2, CallsTyped DEF Init
    <3>2. calls = <<c>>
      BY <2>2 DEF Init, EventCalls
    <3> HIDE DEF c
    <3>3. <<c>> \in Seq(Call) /\ LastOfEvents(<<c>>, c)
      BY <3>1 DEF LastOfEvents
    <3> QED
      BY <3>2, <3>3 DEF c
  <2> QED
    BY <2>1, <2>2
<1>3. TypeOK
  <2>1. records \in [User -> User \union {NoUser}]
    BY DEF Init
  <2>2. userObservers \in [User -> 0..MaxObservers]
    BY SessionConstants DEF Init
  <2> QED
    BY <1>1, <1>2, <2>1, <2>2 DEF Init, TypeOK
<1>4. MailSignIns
  BY DEF Init, MailSignIns
<1>5. ListFollows
  BY <1>2 DEF Init, ListFollows
<1> QED
  BY <1>3, <1>4, <1>5 DEF SessionInv

(* The three facts hold whatever order sign-ins, answers, changes and      *)
(* calls come in.                                                          *)
THEOREM SessionInductive == Spec => []SessionInv
<1>1. SessionInv /\ [Next]_vars => SessionInv'
  BY TypeStep, MailStep, ListStep DEF SessionInv
<1> QED
  BY <1>1, SessionInit, PTL DEF Spec

(* Every record the phone holds or sends is whole, and nobody is signed in *)
(* who has no account.                                                     *)
THEOREM SessionTyped == Spec => []TypeOK
<1>1. SessionInv => TypeOK
  BY DEF SessionInv
<1> QED
  BY <1>1, SessionInductive, PTL

(* The event list is the one of the user signed in once no call is due,    *)
(* although no observer of a former user is ever removed.                  *)
THEOREM ListIsMine == Spec => []EventListIsMine
<1>1. SessionInv => EventListIsMine
  <2> SUFFICES ASSUME SessionInv, currentUser # NoUser, Announced, ~EventCallsDue
               PROVE  eventData = [user |-> currentUser, version |-> version]
    BY DEF EventListIsMine
  <2>1. ~LastOfEvents(calls, EventCall(currentUser, version))
    BY CallKinds DEF LastOfEvents, EventCallsDue
  <2> QED
    BY <2>1 DEF SessionInv, ListFollows
<1> QED
  BY <1>1, SessionInductive, PTL
=============================================================================
