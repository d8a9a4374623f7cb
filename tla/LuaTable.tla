------------------------------ MODULE LuaTable ------------------------------
(***************************************************************************)
(* One table of ltable.c: the array part with its limit hint, the hash     *)
(* part with chained scatter (Brent's variation), growth by rehash, next() *)
(* and the length operator.  Around it, what the collector does to its     *)
(* keys: an entry without a value dies, and the address of its key may     *)
(* come back as another object.                                            *)
(***************************************************************************)
EXTENDS Integers, FiniteSets, FiniteSetsExt, SequencesExt

CONSTANTS
    IntKey,      \* integer keys
    StrKey,      \* short strings: hashed by content
    RefKey,      \* tables, functions, ...: hashed by address
    Hash,        \* hash of a string, address of a RefKey as a number
    Addr,        \* where a collectable key lives
    Value, Nil,
    Bits,        \* bound: log2 of the largest size of a part
    Uses         \* bound: uses of the table

Pow2[i \in Nat] == IF i = 0 THEN 1 ELSE 2 * Pow2[i - 1]

\* a use of the table has: the keys and values of the program, the sizes that the parts,
\* array and hash, start with, the limits MAXABITS and LUA_MAXINTEGER of the build, and
\* whether allocations may fail
ASSUME KeyAssumption ==
    /\ Bits \in Nat
    /\ \A u \in Uses :
           /\ u.keys \subseteq IntKey \cup StrKey \cup RefKey /\ u.values \subseteq Value
           /\ u.sizes \subseteq Nat \X (0..Pow2[Bits]) /\ u.faults \in BOOLEAN
           /\ IsFiniteSet(u.keys) /\ Cardinality(u.keys) <= Pow2[Bits]
           /\ u.maxabits \in Nat /\ u.maxinteger \in Nat
           /\ u.keys \cap IntKey \subseteq 1..u.maxinteger
    /\ IntKey \subseteq Nat \ {0} /\ \A k \in StrKey \cup RefKey : k \notin Nat
    /\ Nil \notin IntKey \cup StrKey \cup RefKey \cup Value
    /\ Hash \in [StrKey \cup RefKey -> Nat]
    /\ DOMAIN Addr = StrKey \cup RefKey

VARIABLES
    use,       \* the member of Uses
    t,         \* the table
    alive,     \* the collectable keys that exist
    cursor,    \* the control variable of a traversal: a key, Nil at its start
    visited    \* history of the traversal: keys returned, {Nil} if there is none

vars == <<use, t, alive, cursor, visited>>

-----------------------------------------------------------------------------
Collectable == StrKey \cup RefKey
Key == IntKey \cup Collectable
MAXINTEGER == use.maxinteger
PowersOf2 == {Pow2[i] : i \in 0..Bits}
MAXASIZE == Pow2[use.maxabits]

FreeNode == [key |-> Nil, dead |-> FALSE, val |-> Nil, next |-> 0]

\* setnodevector: no node at all stands for the shared dummy node
NodeVector(size) ==
    IF size = 0 THEN << >>
    ELSE [i \in 0..(Min({p \in PowersOf2 : p >= size}) - 1) |-> FreeNode]

IsDummy(u) == u.node = << >>
SizeNode(u) == Cardinality(DOMAIN u.node)

\* isreal is the complement of the bit BITRAS in 'flags'
NewTable(array, size) ==
    [array |-> array, alimit |-> Len(array), isreal |-> TRUE,
     node |-> NodeVector(size), lastfree |-> Cardinality(DOMAIN NodeVector(size))]

-----------------------------------------------------------------------------
(***************************************************************************)
(* The limit of the array part.                                            *)
(***************************************************************************)
IsPow2(n) == n = 0 \/ n \in PowersOf2
LimitEqualsSize(u) == u.isreal \/ IsPow2(u.alimit)

\* luaH_realasize: the power of 2 that is not smaller than the limit
RealSize(u) ==
    IF LimitEqualsSize(u) THEN u.alimit
    ELSE Min({p \in PowersOf2 : p >= u.alimit})

IsPow2RealSize(u) == ~u.isreal \/ IsPow2(u.alimit)
SetLimitToSize(u) == [u EXCEPT !.alimit = RealSize(u), !.isreal = TRUE]

\* x & ~y: the sum of the bits of x that are off in y
HasBit(x, i) == (x \div Pow2[i]) % 2 = 1
AndNot(x, y) ==
    LET sum[i \in 0..(Bits + 1)] ==
            IF i = 0 THEN 0
            ELSE sum[i - 1] + (IF HasBit(x, i - 1) /\ ~HasBit(y, i - 1) THEN Pow2[i - 1] ELSE 0)
    IN  sum[Bits + 1]

\* luaH_getint on a key beyond the limit: a test on bits, for keys that have no
\* bit above PowersOf2, tells whether the array goes on up to the key
BeyondLimit(u, k) ==
    /\ k > u.alimit /\ ~u.isreal
    /\ k - 1 < Pow2[Bits + 1]
    /\ AndNot(k - 1, u.alimit - 1) < u.alimit

InArray(u, k) == k \notin Collectable /\ (k <= u.alimit \/ BeyondLimit(u, k))

\* getting an integer key may move the limit: "probably '#t' is here now"
Touch(u, k) ==
    IF k \notin Collectable /\ BeyondLimit(u, k)
    THEN [u EXCEPT !.alimit = k] ELSE u

-----------------------------------------------------------------------------
(***************************************************************************)
(* Looking up a key.                                                       *)
(***************************************************************************)
\* mainpositionTV: strings modulo the size, a power of 2; the others modulo an
\* odd number
OddMod(u, n) == n % (IF SizeNode(u) = 1 THEN 1 ELSE SizeNode(u) - 1)
MainPosition(u, k) ==
    IF k \in StrKey THEN Hash[k] % SizeNode(u)
    ELSE IF k \in RefKey THEN OddMod(u, Hash[k])
    ELSE OddMod(u, k)

\* equalkey: a dead key is compared by its address, and only for next()
EqualKey(k, n, deadok) ==
    IF n.dead THEN deadok /\ k \in Collectable /\ Addr[k] = Addr[n.key]
    ELSE n.key = k

\* Chain(u, i)[j]: the node j links after node i (the last one repeats)
Chain(u, i) ==
    LET link == [p \in DOMAIN u.node |-> p + u.node[p].next]
        at[j \in 0..SizeNode(u)] == IF j = 0 THEN i ELSE link[at[j - 1]]
    IN  at

\* getgeneric: the first node of the chain from k's main position that has k,
\* or none (absentkey); at[n] is the node after n rounds
Nodes(u, k, deadok) ==
    LET follow == [i \in DOMAIN u.node |->
                      IF EqualKey(k, u.node[i], deadok) THEN i ELSE i + u.node[i].next]
        at[n \in 0..SizeNode(u)] == IF n = 0 THEN MainPosition(u, k) ELSE follow[at[n - 1]]
    IN  IF IsDummy(u) THEN {}
        ELSE {i \in {at[SizeNode(u) - 1]} : EqualKey(k, u.node[i], deadok)}

\* luaH_get
Found(u, k) == Nodes(u, k, FALSE)
Get(u, k) ==
    IF InArray(u, k) THEN u.array[k]
    ELSE LET present == {u.node[i].val : i \in Found(u, k)} \ {Nil}
         IN  IF present = {} THEN Nil ELSE CHOOSE v \in present : TRUE

-----------------------------------------------------------------------------
(***************************************************************************)
(* Inserting a key.                                                        *)
(***************************************************************************)
\* getfreepos: lastfree moves down to a node that never had a key
FreeBelow(u) == {i \in DOMAIN u.node : i < u.lastfree /\ u.node[i].key = Nil}

HasRoom(u, k) ==
    /\ ~IsDummy(u)
    /\ u.node[MainPosition(u, k)].val = Nil \/ FreeBelow(u) # {}

NewNode(k, v, next) == [key |-> k, dead |-> FALSE, val |-> v, next |-> next]
Fill(nodes, i, k, v) == [nodes EXCEPT ![i] = NewNode(k, v, @.next)]

RelocateAsIs(u, mp, f, k, v) ==
    LET at   == Chain(u, MainPosition(u, u.node[mp].key))
        prev == at[Min({j \in 0..(SizeNode(u) - 1) : at[j + 1] = mp})]
    IN  [u.node EXCEPT ![prev].next = f - prev, ![f] = u.node[mp],
                       ![mp] = NewNode(k, v, 0)]

\* the colliding node is out of its main position: it moves to f, its chain too
Relocate(u, mp, f, k, v) ==
    LET at   == Chain(u, MainPosition(u, u.node[mp].key))
        prev == at[Min({j \in 0..(SizeNode(u) - 1) : at[j + 1] = mp})]
        old  == u.node[mp]
        next == IF old.next = 0 THEN 0 ELSE (mp + old.next) - f
    IN  [u.node EXCEPT
            ![prev].next = f - prev,
            ![f]  = [old EXCEPT !.next = next],
            ![mp] = NewNode(k, v, 0)]

\* the colliding node is in its main position: the new key goes to f, next in
\* its chain

Link(u, mp, f, k, v) ==
    LET next == u.node[mp].next
    IN  [Fill(u.node, f, k, v) EXCEPT
            ![f].next = IF next = 0 THEN 0 ELSE (mp + next) - f,
            ![mp].next = f - mp]

\* luaH_newkey where no rehash is needed; the main position counts as free when
\* it has no value, even if it has a key and a place in a chain
NewKey(u, k, v) ==
    LET mp == MainPosition(u, k)
    IN  IF u.node[mp].val = Nil THEN [u EXCEPT !.node = Fill(@, mp, k, v)]
        ELSE LET f == Max(FreeBelow(u))
             IN  [u EXCEPT !.lastfree = f,
                           !.node = IF MainPosition(u, u.node[mp].key) # mp
                                    THEN Relocate(u, mp, f, k, v)
                                    ELSE Link(u, mp, f, k, v)]

NeedsNewKey(u, k, v) == ~InArray(u, k) /\ Found(u, k) = {} /\ v # Nil

\* luaH_set and luaH_setint where no rehash is needed.  A rehash inside a rehash
\* is left out: the key would be lost, and the refinement of Dict with it.
SetInPlace(u, k, v) ==
    LET w == Touch(u, k)
    IN  IF InArray(u, k) THEN [w EXCEPT !.array[k] = v]
        ELSE IF Found(u, k) # {}
        THEN LET i == CHOOSE i \in Found(u, k) : TRUE IN [w EXCEPT !.node[i].val = v]
        ELSE IF v # Nil /\ HasRoom(u, k) THEN NewKey(u, k, v) ELSE u

-----------------------------------------------------------------------------
(***************************************************************************)
(* Growing.                                                                *)
(***************************************************************************)
ArrayKeys(u) == {i \in DOMAIN u.array : u.array[i] # Nil}
HashKeys(u) == {u.node[i].key : i \in {j \in DOMAIN u.node : u.node[j].val # Nil}}

\* computesizes: the largest power of 2 such that more than half of the slots
\* up to it are in use
ArraySize(ints) ==
    Max({0} \cup {p \in PowersOf2 : Cardinality({i \in ints : i <= p}) > p \div 2})

\* What luaH_resize moves, in its order: the slice of the array that vanishes,
\* then the old hash part.
Vanishing(u, asize) == Cardinality((asize + 1)..Len(u.array))
VanishingSlice(u, asize) ==
    [i \in 1..Vanishing(u, asize) |-> <<asize + i, u.array[asize + i]>>]
Moved(u, asize) ==
    VanishingSlice(u, asize)
    \o [i \in 1..SizeNode(u) |-> <<u.node[i - 1].key, u.node[i - 1].val>>]

Reinsert(u, e) == IF e[2] = Nil THEN u ELSE SetInPlace(u, e[1], e[2])
ReinsertAll(table, entries) ==
    LET after[n \in 0..Len(entries)] ==
            IF n = 0 THEN table ELSE Reinsert(after[n - 1], entries[n])
    IN  after[Len(entries)]

\* luaH_resize when both allocations succeed
Resized(u, asize, hsize) ==
    LET array == [i \in 1..asize |-> IF i <= Len(u.array) THEN u.array[i] ELSE Nil]
    IN  ReinsertAll(NewTable(array, hsize), Moved(u, asize))

\* The array shrinks: under its new size, and with the new hash part in place of the old,
\* the table takes in the slice that vanishes, ...
Pretended(u, asize, hsize) ==
    LET vector == NodeVector(hsize)
    IN  ReinsertAll([u EXCEPT !.alimit = asize, !.node = vector,
                              !.lastfree = Cardinality(DOMAIN vector)],
                    VanishingSlice(u, asize))

\* ... and takes its size and its hash part, those of u, back
RestoredSizeOnly(u, w) == [w EXCEPT !.alimit = u.alimit]
Restored(u, w) == [w EXCEPT !.alimit = u.alimit, !.node = u.node, !.lastfree = u.lastfree]

\* luaH_resize when an allocation fails, of nodes or of the array
NodesFail(u, hsize) == IF hsize > 0 THEN {u} ELSE {}
ArrayFails(u, asize, hsize) ==
    IF asize = 0 THEN {}
    ELSE IF asize < Len(u.array) THEN {Restored(u, Pretended(u, asize, hsize))}
    ELSE {u}
ResizeFails(u, asize, hsize) == NodesFail(u, hsize) \cup ArrayFails(u, asize, hsize)

\* rehash, with one more key to come: the sizes of the array and the hash part
Sizes(u, k) ==
    LET keys  == ArrayKeys(u) \cup HashKeys(u) \cup {k}
        ints  == {i \in keys \cap IntKey : i <= MAXASIZE}
        asize == ArraySize(ints)
    IN  <<asize, Cardinality(keys) - Cardinality({i \in ints : i <= asize})>>

Rehash(u, k) == LET s == Sizes(u, k) IN Resized(u, s[1], s[2])
RehashFails(u, k) == LET s == Sizes(u, k) IN ResizeFails(u, s[1], s[2])

-----------------------------------------------------------------------------
(***************************************************************************)
(* next().                                                                 *)
(***************************************************************************)
\* Array slots, then nodes, in one numbering that starts at 1.
EntryCount(u) == RealSize(u) + SizeNode(u)
Entry(u, i) ==
    IF i <= RealSize(u) THEN <<i, u.array[i]>>
    ELSE LET n == u.node[i - RealSize(u) - 1] IN <<n.key, n.val>>

\* findindex: none for a key that is not there
FindIndexLive(u, k) ==
    IF k = Nil THEN {0}
    ELSE IF k \in IntKey /\ k <= RealSize(u) THEN {k}
    ELSE {RealSize(u) + i + 1 : i \in Nodes(u, k, FALSE)}

FindIndex(u, k) ==
    IF k = Nil THEN {0}
    ELSE IF k \in IntKey /\ k <= RealSize(u) THEN {k}
    ELSE {RealSize(u) + i + 1 : i \in Nodes(u, k, TRUE)}

\* indexes of the entries with a value after i
After(u, i) == {j \in (i + 1)..EntryCount(u) : Entry(u, j)[2] # Nil}

-----------------------------------------------------------------------------
(***************************************************************************)
(* The length operator.                                                    *)
(***************************************************************************)
\* binsearch and the last loop of hash_search: 'from' is in 'present' or 0, 'to' is
\* not; at[n] is the interval after n rounds
Halve(present, i, j) ==
    LET m == (i + j) \div 2
    IN  IF j - i <= 1 THEN <<i, j>> ELSE IF m \in present THEN <<m, j>> ELSE <<i, m>>
BinarySearch(present, from, to) ==
    LET halve == [p \in (from..to) \X (from..to) |-> Halve(present, p[1], p[2])]
        at[n \in 0..(to - from)] == IF n = 0 THEN <<from, to>> ELSE halve[at[n - 1]]
    IN  at[to - from][1]

InArrayPart(u, i) == u.array[i] # Nil
ArrayPresent(u) == {i \in DOMAIN u.array : InArrayPart(u, i)}
ByGet(u, i) == Get(u, i) # Nil
Between(u, i, j) == {m \in i..j : ByGet(u, m)}

\* hash_search: j + 1 is present; double until an absent index.  at[n] is
\* present, after n rounds.
CanDouble(i) == i <= MAXINTEGER \div 2
HashSearch(u, j) ==
    LET double == [i \in 1..MAXINTEGER |-> IF CanDouble(i) /\ ByGet(u, 2 * i) THEN 2 * i ELSE i]
        start == IF j = 0 THEN 1 ELSE j
        at[n \in 0..MAXINTEGER] == IF n = 0 THEN start ELSE double[at[n - 1]]
        i == at[MAXINTEGER]
        absent == IF CanDouble(i) THEN 2 * i ELSE MAXINTEGER
    IN  IF ~CanDouble(i) /\ ByGet(u, MAXINTEGER) THEN MAXINTEGER
        ELSE BinarySearch(Between(u, i, absent), i, absent)

\* luaH_getn: the length it returns and the table it leaves
SetHint(u, limit) == [u EXCEPT !.alimit = limit, !.isreal = FALSE]

GetnBeforeAnyHint(u) ==
    LET limit == u.alimit
    IN  IF limit >= 2 /\ InArrayPart(u, limit - 1)
        THEN <<limit - 1, SetHint(u, limit - 1)>>
        ELSE LET b == BinarySearch(ArrayPresent(u), 0, limit) IN <<b, u>>

\* (1) the limit is empty: the border is before it
GetnBefore(u) ==
    LET limit == u.alimit
    IN  IF limit >= 2 /\ InArrayPart(u, limit - 1)
        THEN <<limit - 1, IF IsPow2RealSize(u) /\ ~IsPow2(limit - 1)
                          THEN SetHint(u, limit - 1) ELSE u>>
        ELSE LET b == BinarySearch(ArrayPresent(u), 0, limit)
             IN  <<b, IF IsPow2RealSize(u) /\ b > RealSize(u) \div 2
                      THEN SetHint(u, b) ELSE u>>

\* (3) the array part is full, or there is none
GetnHash(u) ==
    IF IsDummy(u) \/ ~ByGet(u, RealSize(u) + 1) THEN <<RealSize(u), u>>
    ELSE <<HashSearch(u, RealSize(u)), u>>

GetnAfterNoHash(u) ==
    IF ~InArrayPart(u, u.alimit + 1) THEN <<u.alimit, u>> ELSE <<RealSize(u), u>>

\* (2) the array goes on after the limit, which is present
GetnAfter(u) ==
    LET b == BinarySearch(ArrayPresent(u), u.alimit, RealSize(u))
    IN  IF ~InArrayPart(u, u.alimit + 1) THEN <<u.alimit, u>>
        ELSE IF ~InArrayPart(u, RealSize(u)) THEN <<b, [u EXCEPT !.alimit = b]>>
        ELSE GetnHash(u)

Getn(u) ==
    IF u.alimit > 0 /\ ~InArrayPart(u, u.alimit) THEN GetnBefore(u)
    ELSE IF ~LimitEqualsSize(u) THEN GetnAfter(u)
    ELSE GetnHash(u)

-----------------------------------------------------------------------------
(***************************************************************************)
(* The operations.                                                         *)
(***************************************************************************)
NoTraversal == {Nil}
Traversing == visited # NoTraversal

\* lua_createtable and OP_NEWTABLE give the parts the sizes the program asks for
Init ==
    /\ use \in Uses
    /\ \E s \in use.sizes : t = NewTable([i \in 1..s[1] |-> Nil], s[2])
    /\ alive = {}
    /\ cursor = Nil /\ visited = NoTraversal

Grows(u, k, v) == NeedsNewKey(u, k, v) /\ ~HasRoom(u, k)
Assigned(u, k, v) ==
    IF Grows(u, k, v) THEN SetInPlace(Rehash(SetLimitToSize(u), k), k, v)
    ELSE SetInPlace(u, k, v)

\* a key that is new to the program ends the traversal: next() is undefined
Disturb(k, v) ==
    IF Get(t, k) = Nil /\ v # Nil
    THEN cursor' = Nil /\ visited' = NoTraversal
    ELSE UNCHANGED <<cursor, visited>>

\* t[k] = v
Put(k, v) ==
    /\ k \in use.keys /\ k \in IntKey \cup alive /\ v \in use.values \cup {Nil}
    /\ t' = Assigned(t, k, v)
    /\ Disturb(k, v)
    /\ UNCHANGED <<use, alive>>

\* the same when an allocation of luaH_resize fails: the search for a free node has
\* exhausted 'lastfree', and rehash has set the limit to the size
BeforeResize(u) == [SetLimitToSize(u) EXCEPT !.lastfree = 0]
PutFails(k, v) ==
    /\ use.faults
    /\ k \in use.keys /\ k \in IntKey \cup alive /\ v \in use.values \cup {Nil}
    /\ Grows(t, k, v)
    /\ t' \in RehashFails(BeforeResize(t), k)
    /\ UNCHANGED <<use, alive, cursor, visited>>

\* reading t[k]
Read(k) ==
    /\ k \in use.keys
    /\ t' = Touch(t, k)
    /\ UNCHANGED <<use, alive, cursor, visited>>

\* #t
Length ==
    /\ t' = Getn(t)[2]
    /\ UNCHANGED <<use, alive, cursor, visited>>

StartTraversal ==
    /\ cursor' = Nil /\ visited' = {}
    /\ UNCHANGED <<use, t, alive>>

\* luaH_next
NextEntry ==
    /\ Traversing
    /\ \E i \in FindIndex(t, cursor) :
        /\ After(t, i) # {}
        /\ LET k == Entry(t, Min(After(t, i)))[1]
           IN  cursor' = k /\ visited' = visited \cup {k}
    /\ UNCHANGED <<use, t, alive>>

NoMoreEntries ==
    /\ Traversing
    /\ \E i \in FindIndex(t, cursor) : After(t, i) = {}
    /\ cursor' = Nil /\ visited' = NoTraversal
    /\ UNCHANGED <<use, t, alive>>

\* traversestrongtable: clearkey on every entry without a value
KeysCleared(u) ==
    [u EXCEPT !.node =
        [i \in DOMAIN u.node |->
            [u.node[i] EXCEPT !.dead = \/ u.node[i].dead
                                       \/ u.node[i].val = Nil /\ u.node[i].key \in Collectable]]]
ClearKeys ==
    /\ t' = KeysCleared(t)
    /\ UNCHANGED <<use, alive, cursor, visited>>

\* The collector frees a key that neither the table nor the traversal holds, ...
Collect(k) ==
    /\ k \in alive \ {cursor}
    /\ \A i \in DOMAIN t.node : t.node[i].key = k => t.node[i].dead
    /\ alive' = alive \ {k}
    /\ UNCHANGED <<use, t, cursor, visited>>

\* ... and an object is created at an address that is free.
Create(k) ==
    /\ k \in Collectable \cap use.keys
    /\ \A o \in alive : Addr[o] # Addr[k]
    /\ alive' = alive \cup {k}
    /\ UNCHANGED <<use, t, cursor, visited>>

Next ==
    \/ \E k \in Key, v \in Value \cup {Nil} : Put(k, v) \/ PutFails(k, v)
    \/ \E k \in IntKey : Read(k)
    \/ \E k \in Key : Collect(k) \/ Create(k)
    \/ Length
    \/ StartTraversal \/ NextEntry \/ NoMoreEntries
    \/ ClearKeys

Spec == Init /\ [][Next]_vars

-----------------------------------------------------------------------------
(***************************************************************************)
(* Properties.                                                             *)
(***************************************************************************)
NodeType ==
    [key : Key \cup {Nil}, dead : BOOLEAN, val : Value \cup {Nil}, next : Int]
TableType(u) ==
    /\ u \in [array : Seq(Value \cup {Nil}), alimit : Nat, isreal : BOOLEAN,
              node : [DOMAIN u.node -> NodeType], lastfree : Nat]
    /\ u.alimit <= Len(u.array) /\ u.lastfree <= SizeNode(u)
    /\ SizeNode(u) \in PowersOf2 \cup {0} /\ DOMAIN u.node = 0..(SizeNode(u) - 1)
    /\ \A i \in DOMAIN u.node : i + u.node[i].next \in DOMAIN u.node
TypeOK ==
    /\ TableType(t)
    /\ alive \subseteq Collectable
    /\ cursor \in Key \cup {Nil} /\ visited \subseteq Key \cup {Nil}

Chains ==
    \A i \in DOMAIN t.node :
        /\ t.node[Chain(t, i)[SizeNode(t)]].next = 0
        /\ t.node[i].key # Nil /\ ~t.node[i].dead => Found(t, t.node[i].key) = {i}
        /\ t.node[i].val # Nil => ~t.node[i].dead /\ t.node[i].key \in IntKey \cup alive
NoFreeNodeMissed ==
    \A i \in DOMAIN t.node : i >= t.lastfree => t.node[i].key # Nil
LiveEntryFirst ==
    \A i \in DOMAIN t.node :
        t.node[i].val # Nil => Nodes(t, t.node[i].key, TRUE) = {i}

\* The table is well formed: chains end, and every key is where a lookup finds it, once: after any mix of
\* insertions, relocations, reuse of cleared entries and rehashes, a key that is not
\* dead is on the chain of its main position.  getfreepos only goes down, and so it
\* misses no free node: a table grows only when each of its nodes has had a key.  And
\* next(), which accepts dead keys, also when the key is back in the table in another node
\* or its address belongs to another object now, meets the entry that has the value first.
NodesSound == TypeOK /\ Chains /\ NoFreeNodeMissed /\ LiveEntryFirst

RealSizeKnown == RealSize(t) = Len(t.array)
NoShadow ==
    \A i \in DOMAIN t.node :
        t.node[i].key \in IntKey /\ t.node[i].val # Nil => t.node[i].key > Len(t.array)
\* The size of the array part, which nothing else records, is never lost, however the
\* limit was moved as a hint; and an integer key is in one part of the table only.
ArrayPartSound == RealSizeKnown /\ NoShadow

\* #t is a border, whatever holes the table has, wherever the limit is, and also
\* when the search runs into the largest integer.
BorderFound ==
    LET n == Getn(t)[1]
    IN  /\ n = 0 \/ Get(t, n) # Nil
        /\ n = MAXINTEGER \/ Get(t, n + 1) = Nil

\* A traversal never fails with "invalid key to 'next'", although the entry of
\* its current key may be cleared and its key dead.
CursorFound == Traversing => FindIndex(t, cursor) # {}

\* What a program reads.
MapOf(u) == [k \in Key |-> Get(u, k)]
D == INSTANCE Dict WITH map <- MapOf(t)

\* Every operation does to the map what it was asked, and to nothing else: an assignment
\* gives its key its value, a failed one, a read, a length and the collector change nothing,
\* next() returns an entry that it has not returned, and nil when it has returned them all.
AssignmentsAsAsked(map) ==
    \A k \in use.keys \cap (IntKey \cup alive), v \in use.values \cup {Nil} :
        /\ MapOf(Assigned(t, k, v)) = D!Assign(map, k, v)
        /\ use.faults /\ Grows(t, k, v) =>
               \A u \in RehashFails(BeforeResize(t), k) : MapOf(u) = map
OthersAsAsked(map) ==
    /\ \A k \in use.keys : MapOf(Touch(t, k)) = map
    /\ MapOf(Getn(t)[2]) = map
    /\ MapOf(KeysCleared(t)) = map
NextAsAsked ==
    Traversing =>
        \A i \in FindIndex(t, cursor) :
            IF After(t, i) = {} THEN D!Present \subseteq visited
            ELSE Entry(t, Min(After(t, i)))[1] \in D!Present \ visited
MapAsAsked == \A map \in {MapOf(t)} : AssignmentsAsAsked(map) /\ OthersAsAsked(map)

\* The table is a dictionary for its program: its steps are those of a dictionary, and in
\* every state that it can reach each operation does exactly what it was asked, whatever
\* relocations, rehashes, failed allocations, moves of the limit and dead keys came before
\* or are part of it.
IsDict == D!Spec /\ [](MapAsAsked /\ NextAsAsked)
=============================================================================
