----------------------------- MODULE PathStore -----------------------------
(***************************************************************************)
(* What the recorder promises, without pages, buffers or an index page: a  *)
(* store with one recording per path.  A recording grows point by point in *)
(* `trail' and replaces the stored one as a whole.  While a path is being  *)
(* replaced it is torn; the other paths keep what they hold, except that a *)
(* power loss in the middle of a replacement may empty them.               *)
(***************************************************************************)
EXTENDS Integers, Sequences

CONSTANTS
  Paths,   \* the paths of the store
  Points,  \* what a recorded point can be
  Room(_)  \* how many points path p can hold

VARIABLES
  store,  \* the recording each path holds
  torn,   \* the paths being replaced: nothing is promised of what they hold
  trail   \* the recording under way

Init ==
  /\ store = [p \in Paths |-> <<>>]
  /\ torn = {}
  /\ trail = <<>>

Sample(w) ==
  /\ trail' = Append(trail, w)
  /\ UNCHANGED <<store, torn>>

Discard ==
  /\ trail' = <<>>
  /\ UNCHANGED <<store, torn>>

Touch(p) ==
  /\ torn' = torn \cup {p}
  /\ store' = [store EXCEPT ![p] = <<>>]
  /\ UNCHANGED trail

\* A save stores the trail; a path is never given more than it has room for.
Save(p) ==
  /\ p \in torn
  /\ Len(trail) <= Room(p)
  /\ store' = [store EXCEPT ![p] = trail]
  /\ torn' = torn \ {p}
  /\ UNCHANGED trail

Clear(p) ==
  /\ p \in torn
  /\ torn' = torn \ {p}
  /\ UNCHANGED <<store, trail>>

\* Only a replacement under way lets a power loss reach the other paths.
PowerLoss ==
  /\ trail' = <<>>
  /\ \E lost \in SUBSET Paths :
       /\ lost # {} => torn # {}
       /\ store' = [p \in Paths |-> IF p \in lost THEN <<>> ELSE store[p]]
  /\ UNCHANGED torn

Next ==
  \/ \E w \in Points : Sample(w)
  \/ Discard
  \/ \E p \in Paths : Touch(p) \/ Save(p) \/ Clear(p)
  \/ PowerLoss

Spec == Init /\ [][Next]_<<store, torn, trail>>
=============================================================================
