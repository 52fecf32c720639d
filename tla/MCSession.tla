----------------------------- MODULE MCSession -----------------------------
(***************************************************************************)
(* Session with a bound on the observer calls and the uploads on their     *)
(* way.                                                                    *)
(***************************************************************************)
EXTENDS Session, TLC

CONSTANTS
  MaxCalls,   \* bound: observer calls on their way
  MaxUploads  \* bound: profile images on their way

ASSUME CallBounds == MaxCalls \in Nat /\ MaxUploads \in Nat

Symmetry == Permutations(User)

BoundedNext ==
  /\ Next
  /\ Len(calls') <= MaxCalls
  /\ Cardinality(uploads') <= MaxUploads

BoundedSpec == Init /\ [][BoundedNext]_vars
=============================================================================
