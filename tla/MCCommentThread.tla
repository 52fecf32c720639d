-------------------------- MODULE MCCommentThread --------------------------
(***************************************************************************)
(* CommentThread with bounds: on the calls and reloads on their way, on    *)
(* the notifications on theirs, and on who comments.                       *)
(***************************************************************************)
EXTENDS CommentThread

CONSTANTS
  Writer,     \* the users who comment; the others are only told
  MaxOwed,    \* bound: calls and reloads on their way
  MaxUntold   \* bound: author reads and notifications on their way

ASSUME ThreadBounds ==
  Writer \subseteq User /\ MaxOwed \in Nat /\ MaxUntold \in Nat

BoundedNext ==
  /\ Next
  /\ \A i \in 1..Len(comments') : comments'[i].userID \in Writer
  /\ Len(calls') + reloads' <= MaxOwed
  /\ Cardinality(asks') + Len(outbox') <= MaxUntold

BoundedSpec == Init /\ [][BoundedNext]_vars
=============================================================================
