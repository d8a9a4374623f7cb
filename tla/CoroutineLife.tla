---------------------------- MODULE CoroutineLife ----------------------------
(***************************************************************************)
(* The life of a coroutine as its program sees it: the manual's states     *)
(* "suspended", "running" and "dead", and the time when coroutine.close    *)
(* (or a failed coroutine.wrap) closes its variables.                      *)
(***************************************************************************)
VARIABLE life

Init == life = "suspended"

Resume == life = "suspended" /\ life' = "running"
Yield  == life = "running" /\ life' = "suspended"
End    == life = "running" /\ life' = "dead"

\* A dead coroutine may be closed again, but nothing brings it back.
Close  == life \in {"suspended", "dead"} /\ life' = "closing"
Closed == life = "closing" /\ life' = "dead"

Next == Resume \/ Yield \/ End \/ Close \/ Closed

Spec == Init /\ [][Next]_life
=============================================================================
