---------------------------- MODULE EventRoster ----------------------------
(***************************************************************************)
(* The event form (AddEventVC) as operators on a form record: how the      *)
(* organiser's taps change the three member arrays of the form, and what   *)
(* the upload closure computes from them.                                  *)
(*                                                                         *)
(* Every array of GUser is a set of users: GUser is Hashable by userID,    *)
(* the closure works on Set(array), and didUpdateMember keeps `members`    *)
(* free of duplicates.  An array of member ids is a set of ids too, since  *)
(* every reader of memberIDs takes Set(memberIDs) or filters by value.     *)
(***************************************************************************)

EXTENDS FiniteSets

CONSTANTS
  User,      \* the registered users
  Event,     \* the ids childByAutoId hands out for events
  Blank,     \* the "" that AddEventVC puts in the memberIDs of a new event
  NoUser     \* no user

ASSUME UserFinite == IsFiniteSet(User)

ASSUME RosterConstants == Blank \notin User /\ NoUser \notin User

MemberID == User \union {Blank}

Form == [eventID        : Event,
         isEdit         : BOOLEAN,
         memberIDs      : SUBSET MemberID,  \* self.event.memberIDs
         members        : SUBSET User,
         originalMemers : SUBSET User,
         deletedMembers : SUBSET User]

(* The form opened from MainVC: no event yet, every array empty.  The id   *)
(* is the one childByAutoId will hand out when `done` is pressed.          *)
NewForm(e) ==
  [eventID |-> e, isEdit |-> FALSE, memberIDs |-> {},
   members |-> {}, originalMemers |-> {}, deletedMembers |-> {}]

(* The form opened by the editEvent segue: the event shown by              *)
(* EventContentVC and the memberData it has loaded so far.                 *)
EditForm(e, memberIDs, memberData) ==
  [eventID |-> e, isEdit |-> TRUE, memberIDs |-> memberIDs,
   members |-> memberData, originalMemers |-> memberData,
   deletedMembers |-> {}]

(* Mutant: only the users already in the form are refused.                 *)
MayAddSelf(f, currentUser, m) == m \notin f.members

(* didUpdateMember refuses the current user and whoever is in `members`.   *)
MayAdd(f, currentUser, m) == m # currentUser /\ m \notin f.members

DidUpdateMember(f, m) == [f EXCEPT !.members = @ \union {m}]

(* deleteData remembers the removed user in edit mode only.                *)
DeleteData(f, m) ==
  [f EXCEPT !.members = @ \ {m},
            !.deletedMembers = IF f.isEdit THEN @ \union {m} ELSE @]

(* The sets the upload closure computes: who gets an invitation, who gets  *)
(* removed, and the memberIDs of the event it writes.                      *)
EditedMembers(f) == (f.members \ f.deletedMembers) \ f.originalMemers

RemovedMembers(f) == f.deletedMembers \ f.members

(* Mutants: a new event starts without the ""; the form lists the users it *)
(* invites as members at once.                                             *)
FinalMemberIDsEmpty(f) ==
  IF f.isEdit THEN f.memberIDs \ RemovedMembers(f) ELSE {}

FinalMemberIDsWithInvited(f) ==
  IF f.isEdit THEN (f.memberIDs \ RemovedMembers(f)) \union EditedMembers(f)
              ELSE {Blank} \union EditedMembers(f)

FinalMemberIDs(f) ==
  IF f.isEdit THEN f.memberIDs \ RemovedMembers(f) ELSE {Blank}

=============================================================================
