-------------------------------- MODULE Dict --------------------------------
(***************************************************************************)
(* What a Lua table promises its program: a map from keys to values, and   *)
(* traversals with next() that meet every entry once although entries may  *)
(* be cleared or changed on the way.                                       *)
(***************************************************************************)
CONSTANTS Key, Value, Nil

VARIABLES
    map,       \* map[k]: the value of k, Nil if it is absent
    visited    \* keys the traversal has returned, {Nil} when there is none

contents == <<map, visited>>

Present == UNION {{k \in Key : m[k] # Nil} : m \in {map}}
NoTraversal == {Nil}
Traversing == visited # NoTraversal

Init ==
    /\ map = [k \in Key |-> Nil]
    /\ visited = NoTraversal

\* t[k] = v, or t[k] = nil: no other key is touched.  A new key ends the traversal: next()
\* is undefined after it.
Assign(m, k, v) == [m EXCEPT ![k] = v]
Put ==
    \E old \in {map}, new \in {map'} :
        \E k \in Key, v \in Value \cup {Nil} :
            /\ new = Assign(old, k, v)
            /\ visited' = IF old[k] = Nil /\ v # Nil THEN NoTraversal ELSE visited

StartTraversal ==
    /\ visited' = {}
    /\ UNCHANGED map

\* next() returns an entry that it has not returned before, ...
Advance(k) ==
    /\ Traversing
    /\ k \notin visited /\ visited' = visited \cup {k}
    /\ k \in Present
    /\ UNCHANGED map

\* ... and nil only when there is no such entry.
EndTraversal ==
    /\ Traversing
    /\ Present \subseteq visited
    /\ visited' = NoTraversal
    /\ UNCHANGED map

Next ==
    \/ Put
    \/ \E k \in Key : Advance(k)
    \/ StartTraversal
    \/ EndTraversal

Spec == Init /\ [][Next]_contents
=============================================================================
