---------------------------- MODULE MCMembership ----------------------------
(***************************************************************************)
(* Membership on small instances, with a bound on how many phones are in   *)
(* use at once.                                                            *)
(***************************************************************************)
EXTENDS Membership, TLC

CONSTANTS
  MaxBusy,     \* bound: phones in use at once
  Organisers,  \* bound: the users who open an empty event form
  Editors,     \* bound: the users who open an edit form
  MaxChanges   \* bound: users that one edit of an event adds or removes

ASSUME MaxBusyPositive == MaxBusy \in Nat \ {0} /\ MaxChanges \in Nat

ASSUME OrganisersAreUsers == Organisers \subseteq User /\ Editors \subseteq Organisers

Symmetry == Permutations(User \ Organisers)

Changes(f) == f.deletedMembers \union (f.members \ f.originalMemers)

Bounded(u) ==
  form'[u] # NoForm =>
    /\ u \in Organisers
    /\ form'[u].isEdit =>
         u \in Editors /\ Cardinality(Changes(form'[u])) <= MaxChanges

MayRun(u) ==
  /\ Cardinality({v \in User \ {u} : ~Quiet(v)}) < MaxBusy
  /\ Bounded(u)

OverlapNext ==
  \E u \in User : (Phone(u) \/ Deliver(u) \/ Crash(u)) /\ MayRun(u)

OverlapSpec == Init /\ [][OverlapNext]_vars

(* The same without crashes.                                               *)
CrashFreeNext == \E u \in User : (Phone(u) \/ Deliver(u)) /\ MayRun(u)

CrashFreeSpec == Init /\ [][CrashFreeNext]_vars

(* Phones in turn (MaxBusy plays no part).                                 *)
TurnsNext == SerialNext /\ \A u \in User : Bounded(u)

TurnsSpec == Init /\ [][TurnsNext]_vars
=============================================================================
