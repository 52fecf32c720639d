---------------------------- MODULE MCEventForm ----------------------------
(***************************************************************************)
(* EventForm with the users interchangeable and a bound on what goes on at *)
(* once: locations are picked in the first form only, when its title has   *)
(* been typed and no other user has signed in than the one who opened it;  *)
(* while it is uploading the second form is an edit that leaves the texts  *)
(* alone; the lists read an event while no form is on screen and one can   *)
(* still be opened; and with a request of the geocoder under way the user  *)
(* stays and the lists read nothing.                                       *)
(***************************************************************************)
EXTENDS EventForm

CONSTANT MaxSearches   \* bound: searches under way

ASSUME SearchBound == MaxSearches \in Nat

ListsRead == content'.event # content.event /\ content'.event # NoEvent

BoundedNext ==
  /\ Next
  /\ (\E f \in Form : Uploading(f)) =>
       \A f \in Form : stage'[f] = "open" =>
            form'[f].title = "typed" /\ form'[f].description = "typed"
  /\ picker'.isOpen => stage'[1] = "open" /\ ~form'[1].adrift
                      /\ form'[1].title = "typed"
  /\ Cardinality(picker'.searches) <= MaxSearches
  /\ ListsRead => NoForm /\ \E f \in Form : stage[f] = "unused"
  /\ geocodes # <<>> => ~ListsRead /\ currentUser' = currentUser

BoundedSpec == Init /\ [][BoundedNext]_vars

Symmetry == Permutations(User)
=============================================================================
