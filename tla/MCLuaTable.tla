----------------------------- MODULE MCLuaTable -----------------------------
(***************************************************************************)
(* Instances of LuaTable for TLC.                                          *)
(***************************************************************************)
EXTENDS LuaTable

CONSTANTS s1, s2, s3, r1, v1, v2

\* s1 and s2 collide in every table; r1 collides with them in a table of size 2
\* or 4 and shares its address with s3
KeyHash == (s1 :> 1) @@ (s2 :> 5) @@ (s3 :> 2) @@ (r1 :> 1)
KeyAddr == (s1 :> 1) @@ (s2 :> 2) @@ (s3 :> 3) @@ (r1 :> 3)
MCHash == [k \in StrKey \cup RefKey |-> KeyHash[k]]
MCAddr == [k \in StrKey \cup RefKey |-> KeyAddr[k]]

\* names, whose nodes die and come back; integers in a small array part whose growth may
\* fail; integers at the end of a long one, up to the largest; and names and integers with
\* two values and a limit for the array part
MCUses ==
    {[keys |-> {s1, s2, s3, r1}, values |-> {v1}, sizes |-> {<<0, 0>>}, maxabits |-> 1, maxinteger |-> 7, faults |-> FALSE],
     [keys |-> {1, 2, 3, 4, 6}, values |-> {v1}, sizes |-> {<<0, 0>>, <<3, 0>>, <<6, 1>>}, maxabits |-> 3, maxinteger |-> 7, faults |-> TRUE],
     [keys |-> {8, 9, 10, 11, 14, 15}, values |-> {v1}, sizes |-> {<<14, 1>>, <<16, 0>>}, maxabits |-> 4, maxinteger |-> 15, faults |-> FALSE],
     [keys |-> {1, 2, 3, s1}, values |-> {v1, v2}, sizes |-> {<<0, 0>>}, maxabits |-> 1, maxinteger |-> 3, faults |-> TRUE]}
=============================================================================
