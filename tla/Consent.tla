------------------------------- MODULE Consent -------------------------------
(***************************************************************************)
(* What the invitations of Get together promise, whatever the phones do at *)
(* the same time: an event belongs to the user who created it, that user   *)
(* alone has others invited, only an invited user can agree to come, and   *)
(* only users who agreed are ever listed as members.  The list itself may  *)
(* change at any time and lose or regain any of them, for every phone      *)
(* writes the whole list it read some time before.                         *)
(*                                                                         *)
(* Membership implements this specification.                               *)
(***************************************************************************)
EXTENDS TLAPS

CONSTANTS
  User,
  Event,
  NoUser,     \* the organiser of an event nobody has created
  Unpublished \* the member list of an event that cannot be read yet

ConsentConstants == NoUser \notin User /\ Unpublished \notin SUBSET User

VARIABLES
  organiser,  \* of every event
  invited,    \* per event, who was ever invited
  agreed,     \* per event, who ever agreed to come
  members     \* per event, its member list

vars == <<organiser, invited, agreed, members>>

TypeOK ==
  /\ organiser \in [Event -> User \union {NoUser}]
  /\ invited \in [Event -> SUBSET User]
  /\ agreed \in [Event -> SUBSET User]
  /\ members \in [Event -> (SUBSET User) \union {Unpublished}]

Init ==
  /\ organiser = [e \in Event |-> NoUser]
  /\ invited = [e \in Event |-> {}]
  /\ agreed = [e \in Event |-> {}]
  /\ members = [e \in Event |-> Unpublished]

Create(e, u) ==
  /\ organiser[e] = NoUser
  /\ organiser' = [organiser EXCEPT ![e] = u]
  /\ UNCHANGED <<invited, agreed, members>>

(* Invitations may go out before the event can be read.                    *)
Invite(e, u) ==
  /\ organiser[e] \in User \ {u}
  /\ invited' = [invited EXCEPT ![e] = @ \union {u}]
  /\ UNCHANGED <<organiser, agreed, members>>

Publish(e) ==
  /\ organiser[e] \in User
  /\ members[e] = Unpublished
  /\ members' = [members EXCEPT ![e] = {}]
  /\ UNCHANGED <<organiser, invited, agreed>>

Agree(e, u) ==
  /\ members[e] # Unpublished
  /\ u \in invited[e]
  /\ agreed' = [agreed EXCEPT ![e] = @ \union {u}]
  /\ UNCHANGED <<organiser, invited, members>>

Change(e) ==
  /\ members[e] # Unpublished
  /\ \E S \in SUBSET agreed[e] : members' = [members EXCEPT ![e] = S]
  /\ UNCHANGED <<organiser, invited, agreed>>

Next ==
  \E e \in Event :
    \/ Publish(e) \/ Change(e)
    \/ \E u \in User : Create(e, u) \/ Invite(e, u) \/ Agree(e, u)

Spec == Init /\ [][Next]_vars

-----------------------------------------------------------------------------
(* Whoever is on a list agreed, whoever agreed was invited, and nobody     *)
(* invites himself: so no organiser is a member of the own event.          *)
Orderly ==
  \A e \in Event :
    /\ members[e] # Unpublished => members[e] \subseteq agreed[e]
    /\ agreed[e] \subseteq invited[e]
    /\ organiser[e] \notin invited[e]
    /\ organiser[e] = NoUser => invited[e] = {}

(* The promise holds in every behaviour of the specification.              *)
THEOREM Promise ==
  ASSUME ConsentConstants
  PROVE  Spec => []Orderly
<1> DEFINE Inv == TypeOK /\ Orderly
<1>1. Init => Inv
  BY DEF ConsentConstants, Init, TypeOK, Orderly
<1>2. Inv /\ [Next]_vars => Inv'
  <2> SUFFICES ASSUME TypeOK, Orderly, [Next]_vars PROVE Inv'
    OBVIOUS
  <2>1. CASE UNCHANGED vars
    BY <2>1 DEF vars, TypeOK, Orderly
  <2>2. ASSUME NEW e \in Event, NEW u \in User, Create(e, u) PROVE Inv'
    BY <2>2 DEF ConsentConstants, Create, TypeOK, Orderly
  <2>3. ASSUME NEW e \in Event, NEW u \in User, Invite(e, u) PROVE Inv'
    BY <2>3 DEF ConsentConstants, Invite, TypeOK, Orderly
  <2>4. ASSUME NEW e \in Event, Publish(e) PROVE Inv'
    BY <2>4 DEF Publish, TypeOK, Orderly
  <2>5. ASSUME NEW e \in Event, NEW u \in User, Agree(e, u) PROVE Inv'
    BY <2>5 DEF Agree, TypeOK, Orderly
  <2>6. ASSUME NEW e \in Event, Change(e) PROVE Inv'
    BY <2>6 DEF ConsentConstants, Change, TypeOK, Orderly
  <2> QED
    BY <2>1, <2>2, <2>3, <2>4, <2>5, <2>6 DEF Next
<1> QED
  BY <1>1, <1>2, PTL DEF Spec
=============================================================================
