------------------------------ MODULE TableLib ------------------------------
(***************************************************************************)
(* ltablib.c: move, insert, remove and unpack over integers that wrap      *)
(* around.  A table is a function on all integers; the state is one call   *)
(* with its arguments.                                                     *)
(***************************************************************************)
EXTENDS Integers, Sequences

CONSTANTS MaxInteger,   \* LUA_MAXINTEGER
          MaxResults    \* INT_MAX: limit of the results of unpack

ASSUME ListsAssumption == MaxInteger \in Nat \ {0} /\ MaxResults \in Nat

VARIABLE list   \* the call

LuaInteger == (-MaxInteger - 1)..MaxInteger
Unsigned(i) == i % (2 * (MaxInteger + 1))
Wrap(i) == IF Unsigned(i) > MaxInteger THEN Unsigned(i) - 2 * (MaxInteger + 1) ELSE Unsigned(i)

\* a result is an error, or the table afterwards and the results
Raised(e) == [err |-> e]
Done(t, vals) == [err |-> "", t |-> t, vals |-> vals]

\* elements copied one after the other: the k-th is the one at from[k], of the table itself
\* or of another one, and goes to to[k]
Copied(dst, src, same, to, from) ==
    LET after[k \in 0..Len(to)] ==
            IF k = 0 THEN dst
            ELSE [after[k - 1] EXCEPT ![to[k]] = IF same THEN after[k - 1][from[k]] ELSE src[from[k]]]
    IN  after[Len(to)]
\* n indices, upwards from i or downwards to i
IndicesUp(i, n) == [k \in 1..n |-> i + k - 1]
IndicesDown(i, n) == [k \in 1..n |-> i + n - k]

\* mutant: always upwards
UpwardsAlways(f, e, t, same) == TRUE
\* may the elements be copied from the first to the last?
Upwards(f, e, t, same) == t > e \/ t <= f \/ ~same

\* tmove, to the same table or to another one
TMove(src, dst, same, f, e, t) ==
    LET n == e - f + 1
        moved == IF Upwards(f, e, t, same)
                 THEN Copied(dst, src, same, IndicesUp(t, n), IndicesUp(f, n))
                 ELSE Copied(dst, src, same, IndicesDown(t, n), IndicesDown(f, n))
    IN  IF e < f THEN Done(dst, <<>>)
        ELSE IF ~(f > 0 \/ e < MaxInteger + f) THEN Raised("too many elements to move")
        ELSE IF t > MaxInteger - n + 1 THEN Raised("destination wrap around")
        ELSE Done(moved, <<>>)
\* the signed values that tmove computes on the way
TMoveComputes(f, e, t) ==
    LET n == e - f + 1 IN
    (IF e >= f /\ f <= 0 THEN {MaxInteger + f} ELSE {}) \cup
    (IF e >= f /\ (f > 0 \/ e < MaxInteger + f)
     THEN {e - f, n, MaxInteger - n, MaxInteger - n + 1} \cup
          (IF t <= MaxInteger - n + 1 THEN {f + n - 1, t + n - 1} ELSE {})
     ELSE {})

\* tinsert with a position, in a list of length 'len'
TInsert(tab, len, pos, v) ==
    LET e == Wrap(len + 1)
        moved == IF e > pos
                 THEN Copied(tab, tab, TRUE, IndicesDown(pos + 1, e - pos), IndicesDown(pos, e - pos)) ELSE tab
    IN  IF Unsigned(pos - 1) >= Unsigned(e) THEN Raised("position out of bounds")
        ELSE Done([moved EXCEPT ![pos] = v], <<>>)

\* tremove with a position
TRemove(tab, len, pos) ==
    LET moved == IF pos < len
                 THEN Copied(tab, tab, TRUE, IndicesUp(pos, len - pos), IndicesUp(pos + 1, len - pos)) ELSE tab
    IN  IF pos # len /\ Unsigned(pos - 1) > Unsigned(len) THEN Raised("position out of bounds")
        ELSE Done([moved EXCEPT ![IF pos < len THEN len ELSE pos] = "nil"], <<tab[pos]>>)

\* tunpack; 'room' is what lua_checkstack grants
TUnpack(tab, i, e, room) ==
    LET n == Unsigned(e - i) IN
    IF i > e THEN Done(tab, <<>>)
    ELSE IF n >= MaxResults \/ n + 1 > room THEN Raised("too many results to unpack")
    ELSE Done(tab, [k \in 1..(n + 1) |-> tab[i + k - 1]])

(***************************************************************************)
(* A call with any arguments, and what it has to do.                       *)
(***************************************************************************)
Elements == [i \in LuaInteger |-> <<"old", i>>]
Others == [i \in LuaInteger |-> <<"other", i>>]
ListOf(len) == [i \in LuaInteger |-> IF i \in 1..len THEN <<"old", i>> ELSE "nil"]

ListsInit == list = [what |-> "none"]
CallMove(f, e, t, same) == list' = [what |-> "move", f |-> f, e |-> e, t |-> t, same |-> same]
CallInsert(len, pos) == list' = [what |-> "insert", len |-> len, pos |-> pos]
CallRemove(len, pos) == list' = [what |-> "remove", len |-> len, pos |-> pos]
CallUnpack(i, e) == list' = [what |-> "unpack", i |-> i, e |-> e]
ListsNext ==
    /\ list.what = "none"
    /\ \/ \E f, e, t \in LuaInteger, same \in BOOLEAN : CallMove(f, e, t, same)
       \/ \E len \in 0..(MaxInteger - 1), pos \in LuaInteger : CallInsert(len, pos) \/ CallRemove(len, pos)
       \/ \E i, e \in LuaInteger : CallUnpack(i, e)
ListsSpec == ListsInit /\ [][ListsNext]_list

MoveRight(f, e, t, same) ==
    LET dst == IF same THEN Elements ELSE Others
        r == TMove(Elements, dst, same, f, e, t)
        fits == e < f \/ (e - f + 1 <= MaxInteger /\ t + (e - f) <= MaxInteger)
    IN  /\ (r.err = "") = fits
        /\ fits => r.t = [i \in LuaInteger |-> IF i \in t..(t + (e - f)) /\ e >= f THEN Elements[f + i - t] ELSE dst[i]]
        /\ TMoveComputes(f, e, t) \subseteq LuaInteger
InsertRight(len, pos) ==
    LET r == TInsert(ListOf(len), len, pos, "new") IN
    /\ (r.err = "") = (pos \in 1..(len + 1))
    /\ r.err = "" => \A i \in LuaInteger :
           r.t[i] = IF i = pos THEN "new" ELSE IF i \in (pos + 1)..(len + 1) THEN <<"old", i - 1>> ELSE ListOf(len)[i]
RemoveRight(len, pos) ==
    LET r == TRemove(ListOf(len), len, pos) IN
    /\ (r.err = "") = (pos \in 1..(len + 1) \/ pos = len)
    /\ r.err = "" =>
           /\ r.vals = <<ListOf(len)[pos]>>
           /\ \A i \in LuaInteger :
                  r.t[i] = IF i \in pos..(len - 1) /\ pos > 0 THEN <<"old", i + 1>>
                           ELSE IF i = len /\ pos <= len THEN "nil" ELSE ListOf(len)[i]
UnpackRight(i, e) ==
    LET r == TUnpack(Elements, i, e, MaxResults) IN
    /\ (r.err = "") = (e < i \/ e - i + 1 <= MaxResults)
    /\ r.err = "" => r.vals = [k \in 1..(IF e < i THEN 0 ELSE e - i + 1) |-> Elements[i + k - 1]]

\* At every boundary of the integers: move copies the elements that were there before
\* the call, for overlapping ranges too, and computes nothing that overflows; insert and
\* remove shift the elements after the position; a position that is out of bounds or a
\* count that does not fit is an error, never a loop or a wrapped index.
ListsRight ==
    CASE list.what = "move" -> MoveRight(list.f, list.e, list.t, list.same)
      [] list.what = "insert" -> InsertRight(list.len, list.pos)
      [] list.what = "remove" -> RemoveRight(list.len, list.pos)
      [] list.what = "unpack" -> UnpackRight(list.i, list.e)
      [] OTHER -> TRUE
=============================================================================
