--------------------------- MODULE LuaTableChains ---------------------------
(***************************************************************************)
(* Proofs about the hash part of LuaTable: the chains of nodes, with       *)
(* relocation, reuse of cleared nodes and dead keys, and the traversal     *)
(* that finds its way by them.                                             *)
(*                                                                         *)
(* Nodes are on paths.  c[i] names the path of node i and r[i] is its rank *)
(* there; a path is left only at its end.  A chain is the part of a path   *)
(* that begins at a main position: a path may have several.                *)
(***************************************************************************)
EXTENDS LuaTableProofs

\* i is not after j on its path.
On(c, r, i, j) == c[i] = c[j] /\ r[i] <= r[j]
\* Links go up by one rank, and only the last node of a path has none; a node that
\* never had a key is alone.
Linked(u, c, r) ==
    /\ c \in [DOMAIN u.node -> DOMAIN u.node] /\ r \in [DOMAIN u.node -> Nat]
    /\ \A i \in DOMAIN u.node : u.node[i].next # 0 =>
           /\ c[i + u.node[i].next] = c[i]
           /\ r[i + u.node[i].next] = r[i] + 1
    /\ \A i, j \in DOMAIN u.node : c[i] = c[j] =>
           /\ r[i] < r[j] => u.node[i].next # 0
           /\ r[i] = r[j] => i = j
           /\ u.node[i].key = Nil => i = j
\* A key is on the chain of its main position, and the node there is at home.
HomeOK(u, c, r, i) ==
    LET m == MainPosition(u, u.node[i].key)
    IN  /\ On(c, r, m, i)
        /\ u.node[m].key # Nil /\ MainPosition(u, u.node[m].key) = m
Homes(u, c, r) == \A i \in DOMAIN u.node : u.node[i].key # Nil => HomeOK(u, c, r, i)
\* No node before it on its chain could be taken for it, not even by next().
FirstOK(u, c, r, k, i) ==
    \A j \in DOMAIN u.node :
        On(c, r, MainPosition(u, k), j) /\ c[j] = c[i] /\ r[j] < r[i] => ~EqualKey(k, u.node[j], TRUE)
Firsts(u, c, r) ==
    \A i \in DOMAIN u.node :
        u.node[i].key # Nil /\ ~u.node[i].dead => FirstOK(u, c, r, u.node[i].key, i)

-----------------------------------------------------------------------------
\* A walk along the links that stops at the nodes of a set.
Follow(u, stop) ==
    [i \in DOMAIN u.node |-> IF i \in stop THEN i ELSE i + u.node[i].next]

\* Node i, d steps from node m.
Walked(u, c, r, stop, m, i, d) ==
    /\ i \in DOMAIN u.node /\ On(c, r, m, i)
    /\ \A j \in DOMAIN u.node : On(c, r, m, j) /\ r[j] < r[i] => j \notin stop
    /\ i \in stop \/ u.node[i].next = 0 \/ r[i] = r[m] + d
    /\ r[i] <= r[m] + d

\* It goes up its path one rank at a time until it meets such a node or the end.
LEMMA Walk ==
  ASSUME NEW u, TableType(u), NEW c, NEW r, Linked(u, c, r), NEW stop,
         NEW m \in DOMAIN u.node, NEW n \in Nat,
         NEW g, g = Iterated(Follow(u, stop), m, n)
  PROVE  \A d \in 0..n : Walked(u, c, r, stop, m, g[d], d)
<1> DEFINE f == Follow(u, stop)
           Good(i, d) == Walked(u, c, r, stop, m, i, d)
           S == {d \in Nat : d <= n => Good(g[d], d)}
<1>1. g = [i \in 0..n |-> IF i = 0 THEN m ELSE f[g[i - 1]]]
  BY IteratedIs
<1>2. \A i \in DOMAIN u.node : r[i] \in Nat
  BY DEF Linked, Walked
<1>3. 0 \in S
  <2>1. g[0] = m
    BY <1>1
  <2>2. Good(m, 0)
    BY <1>2 DEF On, Walked
  <2> QED
    BY <2>1, <2>2
<1>4. ASSUME NEW i, NEW d \in Nat, Good(i, d) PROVE Good(f[i], d + 1)
  <2>1. f[i] = IF i \in stop THEN i ELSE i + u.node[i].next
    BY <1>4 DEF Follow, Walked
  <2>2. CASE i \in stop
    BY <1>2, <1>4, <2>1, <2>2 DEF On, Walked
  <2>3. CASE i \notin stop /\ u.node[i].next = 0
    <3>1. i + 0 = i
      <4>1. c[i] = c[i] /\ i \in DOMAIN u.node
        BY <1>4 DEF Walked
      <4> QED
        BY <4>1, KeyAssumption, SizeIs
    <3> QED
      BY <1>2, <1>4, <2>1, <2>3, <3>1 DEF Walked
  <2>4. CASE i \notin stop /\ u.node[i].next # 0
    <3>1. PICK j : j = i + u.node[i].next
      OBVIOUS
    <3>2. j \in DOMAIN u.node
      BY <1>4, <3>1 DEF TableType, Walked
    <3>3. c[j] = c[i] /\ r[j] = r[i] + 1
      BY <1>4, <2>4, <3>1 DEF Linked, Walked
    <3>4. On(c, r, m, j) /\ r[i] = r[m] + d
      BY <1>2, <1>4, <2>4, <3>2, <3>3 DEF On, Walked
    <3>5. ASSUME NEW x \in DOMAIN u.node, On(c, r, m, x), r[x] < r[j] PROVE x \notin stop
      <4>1. CASE r[x] < r[i]
        BY <1>4, <3>5, <4>1 DEF Walked
      <4>2. CASE r[x] = r[i]
        <5>1. x = i
          BY <1>4, <3>5, <4>2 DEF Linked, On, Walked
        <5> QED
          BY <2>4, <5>1
      <4> QED
        BY <1>2, <1>4, <3>2, <3>3, <3>5, <4>1, <4>2 DEF Walked
    <3>6. f[i] = j
      BY <2>1, <2>4, <3>1
    <3>7. r[j] = r[m] + (d + 1) /\ r[j] <= r[m] + (d + 1)
      BY <1>2, <1>4, <3>3, <3>4 DEF Walked
    <3> QED
      BY <3>2, <3>4, <3>5, <3>6, <3>7 DEF Walked
  <2> QED
    BY <2>2, <2>3, <2>4
<1> HIDE DEF Good, f
<1>5. \A d \in Nat : d \in S => d + 1 \in S
  <2> SUFFICES ASSUME NEW d \in Nat, d \in S, d + 1 <= n PROVE Good(g[d + 1], d + 1)
    OBVIOUS
  <2>1. Good(g[d], d)
    OBVIOUS
  <2>2. g[d + 1] = f[g[d]]
    <3>1. d + 1 \in 0..n /\ d + 1 # 0 /\ (d + 1) - 1 = d
      OBVIOUS
    <3> QED
      BY <1>1, <3>1
  <2> QED
    BY <1>4, <2>1, <2>2
<1> HIDE DEF S
<1>6. \A d \in Nat : d \in S
  BY <1>3, <1>5, Induction
<1> QED
  BY <1>6 DEF S, Good

\* From one node of a path to a later one, by as many links as ranks.
LEMMA Reaches ==
  ASSUME KeyAssumption, NEW u, TableType(u), NEW c, NEW r, Linked(u, c, r),
         NEW i \in DOMAIN u.node, NEW j \in DOMAIN u.node, On(c, r, i, j),
         NEW d \in Nat, r[j] = r[i] + d, NEW n \in Nat, n >= d,
         NEW stop, stop = {}, NEW g, g = Iterated(Follow(u, stop), i, n)
  PROVE  g[d] = j /\ \A e \in 0..d : g[e] \in DOMAIN u.node /\ r[g[e]] = r[i] + e
<1>1. \A x \in DOMAIN u.node : r[x] \in Nat
  BY DEF Linked
<1>2. \A e \in 0..n : Walked(u, c, r, stop, i, g[e], e)
  BY Walk
<1>3. ASSUME NEW e \in 0..d PROVE g[e] \in DOMAIN u.node /\ c[g[e]] = c[j] /\ r[g[e]] = r[i] + e
  <2>1. /\ g[e] \in DOMAIN u.node /\ On(c, r, i, g[e])
        /\ u.node[g[e]].next = 0 \/ r[g[e]] = r[i] + e
        /\ r[g[e]] <= r[i] + e
    BY <1>2 DEF Walked
  <2>2. c[g[e]] = c[j] /\ (r[g[e]] < r[j] => u.node[g[e]].next # 0)
    BY <2>1 DEF On, Linked
  <2> QED
    BY <1>1, <2>1, <2>2
<1>4. g[d] = j
  <2>1. g[d] \in DOMAIN u.node /\ c[g[d]] = c[j] /\ r[g[d]] = r[j]
    BY <1>3
  <2> QED
    BY <2>1 DEF Linked
<1> QED
  BY <1>3, <1>4

\* A path has no more nodes than there are.
LEMMA RanksBounded ==
  ASSUME KeyAssumption, NEW u, TableType(u), NEW c, NEW r, Linked(u, c, r),
         NEW i \in DOMAIN u.node, NEW j \in DOMAIN u.node, On(c, r, i, j)
  PROVE  r[j] - r[i] \in 0..(SizeNode(u) - 1)
<1>1. \A x \in DOMAIN u.node : r[x] \in Nat
  BY DEF Linked
<1>2. PICK d \in Nat : r[j] = r[i] + d
  <2>1. r[j] - r[i] \in Nat /\ r[j] = r[i] + (r[j] - r[i])
    BY <1>1 DEF On
  <2> QED
    BY <2>1
<1>3. PICK stop : stop = {}
  OBVIOUS
<1>4. PICK g : g = Iterated(Follow(u, stop), i, d)
  OBVIOUS
<1>5. \A e \in 0..d : g[e] \in DOMAIN u.node /\ r[g[e]] = r[i] + e
  BY <1>2, <1>3, <1>4, Reaches
<1>6. PICK h : h = [e \in 0..d |-> g[e]]
  OBVIOUS
<1>7. h \in Injection(0..d, DOMAIN u.node)
  <2>1. h \in [0..d -> DOMAIN u.node] /\ \A e \in 0..d : h[e] = g[e]
    BY <1>5, <1>6
  <2>2. ASSUME NEW e \in 0..d, NEW x \in 0..d, h[e] = h[x] PROVE e = x
    <3>1. r[i] + e = r[i] + x
      BY <1>5, <2>1, <2>2
    <3>2. r[i] \in Nat
      BY <1>1
    <3> QED
      BY <3>1, <3>2
  <2> QED
    BY <2>1, <2>2 DEF Injection, IsInjective
<1>8. /\ IsFiniteSet(0..d) /\ Cardinality(0..d) = d + 1
      /\ SizeNode(u) \in Nat /\ IsFiniteSet(DOMAIN u.node)
  <2>1. SizeNode(u) \in Nat /\ DOMAIN u.node = 0..(SizeNode(u) - 1)
    BY SizeIs
  <2>2. IsFiniteSet(0..(SizeNode(u) - 1))
    BY <2>1, FS_Interval
  <2>3. IsFiniteSet(0..d) /\ Cardinality(0..d) = d - 0 + 1
    BY FS_Interval
  <2> QED
    BY <2>1, <2>2, <2>3
<1>9. Cardinality(0..d) <= SizeNode(u)
  BY <1>7, <1>8, FS_Injection DEF SizeNode
<1> QED
  BY <1>1, <1>2, <1>8, <1>9

\* It ends.
LEMMA ChainEnds ==
  ASSUME KeyAssumption, NEW u, TableType(u), NEW c, NEW r, Linked(u, c, r), NEW i \in DOMAIN u.node
  PROVE  Chain(u, i)[SizeNode(u)] \in DOMAIN u.node /\ u.node[Chain(u, i)[SizeNode(u)]].next = 0
<1>1. PICK s \in Nat : s = SizeNode(u)
  BY SizeIs
<1>2. PICK stop : stop = {}
  OBVIOUS
<1>3. PICK g : g = Iterated(Follow(u, stop), i, s)
  OBVIOUS
<1>4. g[s] \in DOMAIN u.node /\ On(c, r, i, g[s])
      /\ (g[s] \in stop \/ u.node[g[s]].next = 0 \/ r[g[s]] = r[i] + s)
  <2>1. \A e \in 0..s : Walked(u, c, r, stop, i, g[e], e)
    BY <1>3, Walk
  <2> QED
    BY <2>1 DEF Walked
<1>5. r[g[s]] - r[i] \in 0..(s - 1) /\ r[g[s]] \in Nat /\ r[i] \in Nat
  BY <1>1, <1>4, RanksBounded DEF Linked
<1>6. Chain(u, i) = g
  <2>1. Follow(u, stop) = [p \in DOMAIN u.node |-> p + u.node[p].next]
    BY <1>2 DEF Follow
  <2> QED
    BY <1>1, <1>3, <2>1 DEF Chain, Iterated
<1> QED
  BY <1>1, <1>2, <1>4, <1>5, <1>6

\* getgeneric: the search ends at the first node of the chain that has the key.
Hit(u, c, r, k, deadok, i) ==
    /\ i \in DOMAIN u.node /\ EqualKey(k, u.node[i], deadok)
    /\ On(c, r, MainPosition(u, k), i)
    /\ \A j \in DOMAIN u.node :
           On(c, r, MainPosition(u, k), j) /\ r[j] < r[i] => ~EqualKey(k, u.node[j], deadok)
\* There is such a node when any node of the chain has it.
LEMMA NodesAre ==
  ASSUME KeyAssumption, NEW u, TableType(u), ~IsDummy(u), NEW c, NEW r, Linked(u, c, r),
         NEW k, k \in Collectable \/ k \in Nat, NEW deadok
  PROVE  /\ \A i : Hit(u, c, r, k, deadok, i) => Nodes(u, k, deadok) = {i}
         /\ \A i \in Nodes(u, k, deadok) : Hit(u, c, r, k, deadok, i)
         /\ \A i \in DOMAIN u.node :
               EqualKey(k, u.node[i], deadok) /\ On(c, r, MainPosition(u, k), i)
               => Nodes(u, k, deadok) # {}
<1>1. PICK s \in Nat : s = SizeNode(u) /\ s > 0
  BY SizeIs
<1>2. PICK m \in DOMAIN u.node : m = MainPosition(u, k)
  BY MainPositionIn
<1>3. PICK stop : stop = {i \in DOMAIN u.node : EqualKey(k, u.node[i], deadok)}
  OBVIOUS
<1>4. PICK g : g = Iterated(Follow(u, stop), m, s)
  OBVIOUS
<1>5. PICK e : e = g[s - 1]
  OBVIOUS
<1>6. Walked(u, c, r, stop, m, e, s - 1)
  <2>1. \A d \in 0..s : Walked(u, c, r, stop, m, g[d], d)
    BY <1>4, Walk
  <2>2. s - 1 \in 0..s
    BY <1>1
  <2> QED
    BY <1>5, <2>1, <2>2
<1>7. Nodes(u, k, deadok) = {i \in {e} : i \in stop}
  <2>1. Follow(u, stop) = [i \in DOMAIN u.node |->
                              IF EqualKey(k, u.node[i], deadok) THEN i ELSE i + u.node[i].next]
    BY <1>3 DEF Follow
  <2>2. Nodes(u, k, deadok) = {i \in {g[s - 1]} : EqualKey(k, u.node[i], deadok)}
    BY <1>1, <1>2, <1>4, <2>1 DEF Nodes, Iterated
  <2> QED
    BY <1>3, <1>5, <1>6, <2>2 DEF Walked
<1>8. \A i \in DOMAIN u.node : r[i] \in Nat
  BY DEF Linked
<1>9. e \in stop \/ u.node[e].next = 0
  <2> SUFFICES ASSUME e \notin stop, u.node[e].next # 0 PROVE FALSE
    OBVIOUS
  <2>1. e \in DOMAIN u.node /\ On(c, r, m, e) /\ r[e] = r[m] + (s - 1)
    BY <1>6 DEF Walked
  <2>2. PICK j \in DOMAIN u.node : j = e + u.node[e].next
    BY <2>1 DEF TableType
  <2>3. c[j] = c[e] /\ r[j] = r[e] + 1
    BY <2>1, <2>2 DEF Linked
  <2>4. On(c, r, m, j)
    BY <1>8, <2>1, <2>3 DEF On
  <2>5. r[j] - r[m] \in 0..(s - 1)
    BY <1>1, <2>4, RanksBounded
  <2> QED
    BY <1>1, <1>8, <2>1, <2>3, <2>5
<1>10. ASSUME NEW i \in stop, On(c, r, m, i) PROVE e \in stop /\ r[e] <= r[i]
  <2>1. i \in DOMAIN u.node /\ e \in DOMAIN u.node /\ c[e] = c[i]
    BY <1>3, <1>6, <1>10 DEF Walked, On
  <2>2. ~(r[i] < r[e])
    BY <1>6, <1>10, <2>1 DEF Walked
  <2>3. r[e] < r[i] => u.node[e].next # 0
    BY <2>1 DEF Linked
  <2>4. r[e] = r[i] => e = i
    BY <2>1 DEF Linked
  <2>5. r[e] \in Nat /\ r[i] \in Nat
    BY <1>8, <2>1
  <2> QED
    BY <1>9, <2>2, <2>3, <2>4, <2>5
<1>11. ASSUME NEW i, Hit(u, c, r, k, deadok, i) PROVE Nodes(u, k, deadok) = {i}
  <2>1. i \in stop /\ On(c, r, m, i)
    BY <1>2, <1>3, <1>11 DEF Hit
  <2>2. e \in stop /\ r[e] <= r[i]
    BY <1>10, <2>1
  <2>3. e \in DOMAIN u.node /\ On(c, r, m, e) /\ EqualKey(k, u.node[e], deadok)
    BY <1>3, <1>6, <2>2 DEF Walked
  <2>4. ~(r[e] < r[i])
    BY <1>2, <1>11, <2>3 DEF Hit
  <2>5. e = i
    <3>1. i \in DOMAIN u.node /\ c[e] = c[i] /\ r[e] = r[i]
      BY <1>3, <1>8, <2>1, <2>2, <2>3, <2>4 DEF On
    <3> QED
      BY <2>3, <3>1 DEF Linked
  <2> QED
    BY <1>7, <2>2, <2>5
<1>12. ASSUME NEW i \in Nodes(u, k, deadok) PROVE Hit(u, c, r, k, deadok, i)
  <2>1. i = e /\ e \in stop
    BY <1>7
  <2> QED
    BY <1>2, <1>3, <1>6, <2>1 DEF Walked, Hit
<1>13. ASSUME NEW i \in DOMAIN u.node, EqualKey(k, u.node[i], deadok),
              On(c, r, MainPosition(u, k), i)
       PROVE  Nodes(u, k, deadok) # {}
  <2>1. i \in stop /\ On(c, r, m, i)
    BY <1>2, <1>3, <1>13
  <2>2. e \in stop
    BY <1>10, <2>1
  <2> QED
    BY <1>7, <2>2
<1> QED
  BY <1>11, <1>12, <1>13

\* The loop of luaH_newkey that looks for the node before a colliding one.
Previous(u, a, mp) == Chain(u, a)[Min({j \in 0..(SizeNode(u) - 1) : Chain(u, a)[j + 1] = mp})]
\* It finds the node whose link leads there.
LEMMA PreviousIs ==
  ASSUME KeyAssumption, NEW u, TableType(u), NEW c, NEW r, Linked(u, c, r),
         NEW a \in DOMAIN u.node, NEW mp \in DOMAIN u.node, a # mp, On(c, r, a, mp),
         NEW p, p = Previous(u, a, mp)
  PROVE  /\ p \in DOMAIN u.node /\ u.node[p].next # 0 /\ p + u.node[p].next = mp
         /\ p # mp /\ c[p] = c[mp] /\ r[mp] = r[p] + 1 /\ On(c, r, a, p)
<1>1. PICK s \in Nat : s = SizeNode(u)
  BY SizeIs
<1>2. PICK stop : stop = {}
  OBVIOUS
<1>3. PICK g : g = Iterated(Follow(u, stop), a, s)
  OBVIOUS
<1>4. Chain(u, a) = g
  <2>1. Follow(u, stop) = [x \in DOMAIN u.node |-> x + u.node[x].next]
    BY <1>2 DEF Follow
  <2> QED
    BY <1>1, <1>3, <2>1 DEF Chain, Iterated
<1>5. \A d \in 0..s : g[d] \in DOMAIN u.node /\ On(c, r, a, g[d])
  <2>1. \A d \in 0..s : Walked(u, c, r, stop, a, g[d], d)
    BY <1>3, Walk
  <2> QED
    BY <2>1 DEF Walked
<1>6. \A x \in DOMAIN u.node : r[x] \in Nat
  BY DEF Linked
<1>7. PICK d \in Nat : r[mp] = r[a] + d /\ d <= s - 1
  <2>1. r[mp] - r[a] \in 0..(s - 1) /\ r[mp] = r[a] + (r[mp] - r[a])
    BY <1>1, <1>6, RanksBounded
  <2> QED
    BY <2>1
<1>8. d # 0
  <2> SUFFICES ASSUME d = 0 PROVE FALSE
    OBVIOUS
  <2>1. c[a] = c[mp] /\ r[a] = r[mp]
    BY <1>6, <1>7 DEF On
  <2> QED
    BY <2>1 DEF Linked
<1>9. g[d] = mp
  BY <1>1, <1>2, <1>3, <1>7, Reaches
<1>a. PICK A : A = {j \in 0..(s - 1) : g[j + 1] = mp}
  OBVIOUS
<1>10. A \subseteq Nat /\ d - 1 \in A
  BY <1>7, <1>8, <1>9, <1>a
<1>b. A # {}
  BY <1>10
<1>11. PICK j \in A : j = Min(A) /\ \A x \in A : j <= x
  <2>1. Min(A) \in A /\ \A x \in A : Min(A) <= x
    BY <1>10, <1>b, MinOf
  <2> QED
    BY <2>1
<1>c. j \in 0..(s - 1) /\ g[j + 1] = mp /\ j \in Nat /\ j < s
  BY <1>11, <1>a
<1>12. p = g[j] /\ p \in DOMAIN u.node /\ On(c, r, a, p)
  <2>1. p = g[j]
    <3>1. A = {x \in 0..(SizeNode(u) - 1) : Chain(u, a)[x + 1] = mp}
      BY <1>1, <1>4, <1>a
    <3> QED
      BY <1>4, <1>11, <3>1 DEF Previous
  <2>2. j \in 0..s
    BY <1>c
  <2> QED
    BY <1>5, <2>1, <2>2
<1>13. g[0] = a /\ g[j + 1] = p + u.node[p].next
  <2>1. \A x \in DOMAIN u.node : Follow(u, stop)[x] = x + u.node[x].next
    BY <1>2 DEF Follow
  <2>2. g = [x \in 0..s |-> IF x = 0 THEN a ELSE Follow(u, stop)[g[x - 1]]]
    BY <1>3, IteratedIs
  <2>3. g[j + 1] = Follow(u, stop)[g[j]] /\ g[0] = a
    <3>1. j + 1 \in 0..s /\ 0 \in 0..s /\ j + 1 # 0 /\ (j + 1) - 1 = j
      BY <1>c
    <3>2. \A x \in 0..s : g[x] = IF x = 0 THEN a ELSE Follow(u, stop)[g[x - 1]]
      BY <2>2
    <3> QED
      BY <3>1, <3>2
  <2> QED
    BY <1>12, <2>1, <2>3
<1>14. p + u.node[p].next = mp
  BY <1>c, <1>13
<1>15. u.node[p].next # 0
  <2> SUFFICES ASSUME u.node[p].next = 0 PROVE FALSE
    OBVIOUS
  <2>1. p = mp
    <3>1. p \in Int
      BY <1>12, SizeIs
    <3> QED
      BY <1>14, <3>1
  <2>2. CASE j = 0
    BY <1>12, <1>13, <2>1, <2>2
  <2>3. CASE j # 0
    <3>1. j - 1 \in 0..(s - 1) /\ (j - 1) + 1 = j
      BY <1>c, <2>3
    <3>2. g[(j - 1) + 1] = mp
      BY <1>12, <2>1, <3>1
    <3>3. j - 1 \in A
      BY <1>a, <3>1, <3>2
    <3>4. j <= j - 1
      BY <1>11, <3>3
    <3> QED
      BY <1>c, <3>4
  <2> QED
    BY <2>2, <2>3
<1>16. c[p] = c[mp] /\ r[mp] = r[p] + 1
  BY <1>12, <1>14, <1>15 DEF Linked
<1>17. p # mp
  BY <1>6, <1>12, <1>16
<1> QED
  BY <1>12, <1>14, <1>15, <1>16, <1>17

-----------------------------------------------------------------------------
\* The hash part is in order for some naming of its paths.
Chained(u, c, r) == Linked(u, c, r) /\ Homes(u, c, r) /\ Firsts(u, c, r)

\* Main positions depend on the number of nodes alone.
LEMMA MainPositionSame ==
  ASSUME NEW u, NEW w, DOMAIN w.node = DOMAIN u.node
  PROVE  \A k : MainPosition(w, k) = MainPosition(u, k)
  BY DEF MainPosition, OddMod, SizeNode

\* What NodeType says of a node, and what the kinds of keys have to do with each other.
LEMMA KeysAre ==
  ASSUME KeyAssumption
  PROVE  /\ Nil \notin Key /\ IntKey \subseteq Nat \ {0}
         /\ \A k \in Key : k \in Collectable \/ k \in Nat \ {0}
         /\ \A k \in Collectable : k \notin IntKey
  BY DEF KeyAssumption, Key, Collectable

\* Two nodes on the chain of a main position: one is before the other, or they are one.
LEMMA OnSame ==
  ASSUME NEW u, NEW c, NEW r, Linked(u, c, r), NEW m, NEW i \in DOMAIN u.node,
         NEW j \in DOMAIN u.node, On(c, r, m, i), On(c, r, m, j)
  PROVE  c[i] = c[j] /\ (i = j \/ r[i] < r[j] \/ r[j] < r[i])
<1>1. c[i] = c[j] /\ r[i] \in Nat /\ r[j] \in Nat
  BY DEF Linked, On
<1>2. r[i] = r[j] => i = j
  BY <1>1 DEF Linked
<1> QED
  BY <1>1, <1>2

\* A key that is not dead is in one node.
LEMMA OneNode ==
  ASSUME KeyAssumption, NEW u, TableInv(u), NEW c, NEW r, Chained(u, c, r),
         NEW i \in DOMAIN u.node, NEW j \in DOMAIN u.node,
         u.node[i].key # Nil, u.node[i].key = u.node[j].key,
         ~u.node[i].dead, ~u.node[j].dead
  PROVE  i = j
<1>1. PICK k : k = u.node[i].key
  OBVIOUS
<1>2. On(c, r, MainPosition(u, k), i) /\ On(c, r, MainPosition(u, k), j)
  BY <1>1 DEF Chained, Homes, HomeOK
<1>3. c[i] = c[j] /\ (i = j \/ r[i] < r[j] \/ r[j] < r[i])
  BY <1>2, OnSame DEF Chained
<1>4. FirstOK(u, c, r, k, i) /\ FirstOK(u, c, r, k, j)
  BY <1>1 DEF Chained, Firsts
<1>5. EqualKey(k, u.node[i], TRUE) /\ EqualKey(k, u.node[j], TRUE)
  BY <1>1 DEF EqualKey
<1> QED
  BY <1>2, <1>3, <1>4, <1>5 DEF FirstOK

\* A lookup that skips dead keys finds the node of a key that is not dead, if there is one.
LEMMA FoundExactly ==
  ASSUME KeyAssumption, NEW u, TableInv(u), NEW c, NEW r, Chained(u, c, r), NEW k \in Key
  PROVE  /\ \A i \in DOMAIN u.node : u.node[i].key = k /\ ~u.node[i].dead
                                     => Found(u, k) = {i} /\ Nodes(u, k, TRUE) = {i}
         /\ (\A i \in DOMAIN u.node : u.node[i].key = k => u.node[i].dead) => Found(u, k) = {}
<1>1. TableType(u) /\ Linked(u, c, r) /\ k # Nil /\ (k \in Collectable \/ k \in Nat)
  BY KeysAre DEF TableInv, Chained
<1>2. ASSUME NEW i \in DOMAIN u.node, u.node[i].key = k, ~u.node[i].dead
      PROVE  Found(u, k) = {i} /\ Nodes(u, k, TRUE) = {i}
  <2>1. On(c, r, MainPosition(u, k), i) /\ FirstOK(u, c, r, k, i)
    BY <1>1, <1>2 DEF Chained, Homes, HomeOK, Firsts
  <2>2. \A j \in DOMAIN u.node :
           On(c, r, MainPosition(u, k), j) /\ r[j] < r[i] => ~EqualKey(k, u.node[j], TRUE)
    BY <2>1 DEF FirstOK, On
  <2>3. ~IsDummy(u)
    <3>1. DOMAIN << >> = {}
      OBVIOUS
    <3> QED
      BY <3>1 DEF IsDummy
  <2>4. Hit(u, c, r, k, TRUE, i)
    BY <1>2, <2>1, <2>2 DEF Hit, EqualKey
  <2>5. Hit(u, c, r, k, FALSE, i)
    BY <1>2, <2>1, <2>2 DEF Hit, EqualKey
  <2>6. Nodes(u, k, TRUE) = {i}
    <3>1. PICK b : b = TRUE
      OBVIOUS
    <3>2. \A x : Hit(u, c, r, k, b, x) => Nodes(u, k, b) = {x}
      BY <1>1, <2>3, NodesAre
    <3> QED
      BY <2>4, <3>1, <3>2
  <2>7. Nodes(u, k, FALSE) = {i}
    <3>1. PICK b : b = FALSE
      OBVIOUS
    <3>2. \A x : Hit(u, c, r, k, b, x) => Nodes(u, k, b) = {x}
      BY <1>1, <2>3, NodesAre
    <3> QED
      BY <2>5, <3>1, <3>2
  <2> QED
    BY <2>6, <2>7 DEF Found
<1>3. \A i \in Found(u, k) : i \in DOMAIN u.node /\ u.node[i].key = k /\ ~u.node[i].dead
  BY <1>1, FoundIs
<1> QED
  BY <1>2, <1>3

\* What a lookup gives, for a key that the array part does not have.
LEMMA GetHash ==
  ASSUME KeyAssumption, NEW u, TableInv(u), NEW c, NEW r, Chained(u, c, r),
         NEW k \in Key, ~InArray(u, k)
  PROVE  /\ \A i \in DOMAIN u.node : u.node[i].key = k /\ u.node[i].val # Nil
                                     => Get(u, k) = u.node[i].val
         /\ (\A i \in DOMAIN u.node : u.node[i].key = k => u.node[i].val = Nil) => Get(u, k) = Nil
<1> DEFINE present == {u.node[i].val : i \in Found(u, k)} \ {Nil}
<1>1. Get(u, k) = IF present = {} THEN Nil ELSE CHOOSE v \in present : TRUE
  BY DEF Get
<1>2. ASSUME NEW i \in DOMAIN u.node, u.node[i].key = k, u.node[i].val # Nil
      PROVE  Get(u, k) = u.node[i].val
  <2>1. ~u.node[i].dead
    BY <1>2 DEF TableInv, KeysOK
  <2>2. Found(u, k) = {i}
    BY <1>2, <2>1, FoundExactly
  <2>3. present = {u.node[i].val}
    BY <1>2, <2>2
  <2> QED
    BY <1>1, <2>3
<1>3. ASSUME \A i \in DOMAIN u.node : u.node[i].key = k => u.node[i].val = Nil
      PROVE  Get(u, k) = Nil
  <2>1. \A i \in Found(u, k) : i \in DOMAIN u.node /\ u.node[i].key = k
    <3>1. TableType(u) /\ (k \in Collectable \/ k \in Nat)
      BY KeysAre DEF TableInv
    <3> QED
      BY <3>1, FoundIs
  <2>2. present = {}
    BY <1>3, <2>1
  <2> QED
    BY <1>1, <2>2
<1> QED
  BY <1>2, <1>3

\* The array part has the integers up to its size.
LEMMA InArrayExactly ==
  ASSUME KeyAssumption, NEW u, TableInv(u), NEW k \in Key
  PROVE  /\ InArray(u, k) <=> k \in IntKey /\ k <= Len(u.array)
         /\ InArray(u, k) => k \in 1..Len(u.array) /\ Get(u, k) = u.array[k]
<1>1. k \in Collectable => ~InArray(u, k) /\ k \notin IntKey
  BY KeysAre DEF InArray
<1>2. k \in IntKey => k \in Nat \ {0} /\ Len(u.array) \in Nat /\ (InArray(u, k) <=> k <= Len(u.array))
  BY KeysAre, InArrayIs, TypeIs DEF TableInv
<1>3. k \in IntKey \/ k \in Collectable
  BY DEF Key, Collectable
<1>4. InArray(u, k) => Get(u, k) = u.array[k]
  BY DEF Get
<1> QED
  BY <1>1, <1>2, <1>3, <1>4

-----------------------------------------------------------------------------
(***************************************************************************)
(* luaH_newkey keeps the chains: the three ways a key gets its node.       *)
(***************************************************************************)
\* The key is in no node, except as a dead one.
Absent(u, k) == \A i \in DOMAIN u.node : u.node[i].key = k => u.node[i].dead
\* They differ in the links.
Same(m, n) == m.key = n.key /\ m.dead = n.dead /\ m.val = n.val

\* The key at mp, which keeps its place in a chain.
Filled(u, h, mp, k, v) ==
    /\ DOMAIN h = DOMAIN u.node
    /\ \A j \in DOMAIN u.node :
           h[j] = IF j = mp THEN NewNode(k, v, u.node[mp].next) ELSE u.node[j]
\* The main position has no value: the key takes it over.
LEMMA FillChained ==
  ASSUME KeyAssumption, NEW u, TableInv(u), NEW c, NEW r, Chained(u, c, r),
         NEW k \in Key, Absent(u, k), NEW v, NEW mp \in DOMAIN u.node, mp = MainPosition(u, k),
         NEW w, Filled(u, w.node, mp, k, v)
  PROVE  Chained(w, c, r)
<1>a. DOMAIN w.node = DOMAIN u.node
  BY DEF Filled
<1>1. \A x : MainPosition(w, x) = MainPosition(u, x)
  BY <1>a, MainPositionSame
<1>2. k # Nil
  BY KeysAre
<1>3. /\ w.node[mp].key = k /\ w.node[mp].dead = FALSE /\ w.node[mp].next = u.node[mp].next
      /\ \A j \in DOMAIN u.node : j # mp => w.node[j] = u.node[j]
      /\ \A j \in DOMAIN u.node : w.node[j].next = u.node[j].next
  <2>1. w.node[mp] = NewNode(k, v, u.node[mp].next)
    BY DEF Filled
  <2>2. \A j \in DOMAIN u.node : j # mp => w.node[j] = u.node[j]
    BY DEF Filled
  <2> QED
    BY <2>1, <2>2 DEF NewNode
<1>4. /\ \A x \in DOMAIN u.node : r[x] \in Nat
      /\ c \in [DOMAIN u.node -> DOMAIN u.node] /\ r \in [DOMAIN u.node -> Nat]
  BY DEF Chained, Linked
<1>5. Linked(w, c, r)
  <2>1. \A i \in DOMAIN u.node : w.node[i].key = Nil => u.node[i].key = Nil
    BY <1>2, <1>3
  <2>2. \A i \in DOMAIN u.node : w.node[i].next # 0 =>
           /\ c[i + w.node[i].next] = c[i]
           /\ r[i + w.node[i].next] = r[i] + 1
    BY <1>3 DEF Chained, Linked
  <2>3. \A i, j \in DOMAIN u.node : c[i] = c[j] =>
           /\ r[i] < r[j] => w.node[i].next # 0
           /\ r[i] = r[j] => i = j
           /\ w.node[i].key = Nil => i = j
    BY <1>3, <2>1 DEF Chained, Linked
  <2> QED
    BY <1>4, <1>a, <2>2, <2>3 DEF Linked
<1>6. ASSUME NEW i \in DOMAIN u.node, w.node[i].key # Nil PROVE HomeOK(w, c, r, i)
  <2>1. CASE i = mp
    <3>1. MainPosition(w, w.node[i].key) = mp /\ On(c, r, mp, mp)
      BY <1>1, <1>3, <1>4, <2>1 DEF On
    <3> QED
      BY <1>2, <1>3, <2>1, <3>1 DEF HomeOK
  <2>2. CASE i # mp
    <3>1. PICK m : m = MainPosition(u, u.node[i].key)
      OBVIOUS
    <3>2. w.node[i] = u.node[i] /\ MainPosition(w, w.node[i].key) = m
      BY <1>1, <1>3, <2>2, <3>1
    <3>3. On(c, r, m, i) /\ u.node[m].key # Nil /\ MainPosition(u, u.node[m].key) = m
      BY <1>6, <3>1, <3>2 DEF Chained, Homes, HomeOK
    <3>4. m \in DOMAIN u.node
      <4>1. ~IsDummy(u)
        <5>1. DOMAIN << >> = {}
          OBVIOUS
        <5> QED
          BY <5>1 DEF IsDummy
      <4>2. u.node[i].key \in Key
        BY <1>6, <3>2, NodeIs DEF NodeOK, NodeType
      <4>3. u.node[i].key \in Collectable \/ u.node[i].key \in Nat
        BY <4>2, KeysAre
      <4> QED
        BY <3>1, <4>1, <4>3, MainPositionIn DEF TableInv
    <3>5. w.node[m].key # Nil /\ MainPosition(w, w.node[m].key) = m
      BY <1>1, <1>2, <1>3, <3>3, <3>4
    <3> QED
      BY <3>2, <3>3, <3>5 DEF HomeOK
  <2> QED
    BY <2>1, <2>2
<1>7. ASSUME NEW i \in DOMAIN u.node, w.node[i].key # Nil, ~w.node[i].dead
      PROVE  FirstOK(w, c, r, w.node[i].key, i)
  <2> SUFFICES ASSUME NEW j \in DOMAIN u.node, On(c, r, MainPosition(w, w.node[i].key), j),
                      c[j] = c[i], r[j] < r[i]
               PROVE  ~EqualKey(w.node[i].key, w.node[j], TRUE)
    BY <1>a DEF FirstOK
  <2>1. i # mp
    <3> SUFFICES ASSUME i = mp PROVE FALSE
      OBVIOUS
    <3>1. r[mp] <= r[j] /\ r[j] < r[mp]
      BY <1>1, <1>3 DEF On
    <3> QED
      BY <1>4, <3>1
  <2>2. w.node[i] = u.node[i]
    BY <1>3, <2>1
  <2>3. CASE j = mp
    <3>1. w.node[i].key # k
      BY <1>7, <2>2 DEF Absent
    <3> QED
      BY <1>3, <2>3, <3>1 DEF EqualKey
  <2>4. CASE j # mp
    <3>1. FirstOK(u, c, r, u.node[i].key, i)
      BY <1>7, <2>2 DEF Chained, Firsts
    <3> QED
      BY <1>1, <1>3, <2>2, <2>4, <3>1 DEF FirstOK
  <2> QED
    BY <2>3, <2>4
<1> QED
  BY <1>5, <1>6, <1>7, <1>a DEF Chained, Homes, Firsts

\* The node at the main position of a key that is in the table.
LEMMA HomeIs ==
  ASSUME KeyAssumption, NEW u, TableInv(u), NEW c, NEW r, Chained(u, c, r),
         NEW i \in DOMAIN u.node, u.node[i].key # Nil
  PROVE  /\ ~IsDummy(u) /\ u.node[i].key \in Key
         /\ \E m \in DOMAIN u.node :
               /\ m = MainPosition(u, u.node[i].key) /\ On(c, r, m, i)
               /\ u.node[m].key # Nil /\ MainPosition(u, u.node[m].key) = m
<1>1. ~IsDummy(u)
  <2>1. DOMAIN << >> = {}
    OBVIOUS
  <2> QED
    BY <2>1 DEF IsDummy
<1>2. u.node[i].key \in Key
  BY NodeIs DEF NodeOK, NodeType
<1>3. u.node[i].key \in Collectable \/ u.node[i].key \in Nat
  BY <1>2, KeysAre
<1>4. MainPosition(u, u.node[i].key) \in DOMAIN u.node
  BY <1>1, <1>3, MainPositionIn DEF TableInv
<1> QED
  BY <1>1, <1>2, <1>4 DEF Chained, Homes, HomeOK

\* A node that never had a key is alone, and links nowhere.
LEMMA FreeIsAlone ==
  ASSUME KeyAssumption, NEW u, TableInv(u), NEW c, NEW r, Linked(u, c, r),
         NEW f \in DOMAIN u.node, u.node[f].key = Nil
  PROVE  (\A i \in DOMAIN u.node : c[i] = c[f] => i = f) /\ u.node[f].next = 0
<1>1. \A i \in DOMAIN u.node : c[i] = c[f] => i = f
  BY DEF Linked
<1>2. u.node[f].next = 0
  <2> SUFFICES ASSUME u.node[f].next # 0 PROVE FALSE
    OBVIOUS
  <2>1. PICK j \in DOMAIN u.node : j = f + u.node[f].next
    BY DEF TableInv, TableType
  <2>2. c[j] = c[f] /\ r[j] = r[f] + 1 /\ r[f] \in Nat
    BY <2>1 DEF Linked
  <2> QED
    BY <1>1, <2>2
<1> QED
  BY <1>1, <1>2

\* The key at f, next in the chain after mp.
LinkedAfter(u, h, mp, f, k, v) ==
    LET next == IF u.node[mp].next = 0 THEN 0 ELSE (mp + u.node[mp].next) - f
    IN  /\ DOMAIN h = DOMAIN u.node
        /\ \A j \in DOMAIN u.node :
               h[j] = IF j = mp THEN [u.node[mp] EXCEPT !.next = f - mp]
                      ELSE IF j = f THEN NewNode(k, v, next) ELSE u.node[j]
\* The colliding node is at home: the new key goes to f.
LEMMA LinkChained ==
  ASSUME KeyAssumption, NEW u, TableInv(u), NEW c, NEW r, Chained(u, c, r),
         NEW k \in Key, Absent(u, k), NEW v, NEW mp \in DOMAIN u.node, mp = MainPosition(u, k),
         NEW f \in DOMAIN u.node, u.node[f].key = Nil,
         u.node[mp].key # Nil, ~u.node[mp].dead, MainPosition(u, u.node[mp].key) = mp,
         NEW w, LinkedAfter(u, w.node, mp, f, k, v)
  PROVE  \E c2, r2 : Chained(w, c2, r2)
<1> DEFINE dom == DOMAIN u.node
<1>a. DOMAIN w.node = DOMAIN u.node
  BY DEF LinkedAfter
<1>b. PICK next : next = IF u.node[mp].next = 0 THEN 0 ELSE (mp + u.node[mp].next) - f
  OBVIOUS
<1>1. \A x : MainPosition(w, x) = MainPosition(u, x)
  BY <1>a, MainPositionSame
<1>2. k # Nil /\ mp # f
  BY KeysAre
<1>3. /\ w.node[f].key = k /\ w.node[f].dead = FALSE /\ w.node[f].next = next
      /\ w.node[mp].next = f - mp /\ Same(w.node[mp], u.node[mp])
      /\ \A j \in dom : j # f => Same(w.node[j], u.node[j])
      /\ \A j \in dom : j # f /\ j # mp => w.node[j].next = u.node[j].next
  <2>1. u.node[mp] \in NodeType
    BY TypeIs DEF TableInv
  <2>2. w.node[mp] = [u.node[mp] EXCEPT !.next = f - mp] /\ w.node[f] = NewNode(k, v, next)
    BY <1>2, <1>b DEF LinkedAfter
  <2>3. w.node[mp].next = f - mp /\ Same(w.node[mp], u.node[mp])
    BY <2>1, <2>2 DEF NodeType, Same
  <2>4. w.node[f].key = k /\ w.node[f].dead = FALSE /\ w.node[f].next = next
    BY <2>2 DEF NewNode
  <2>5. \A j \in dom : j # f /\ j # mp => w.node[j] = u.node[j]
    BY DEF LinkedAfter
  <2>6. \A j \in dom : j # f => Same(w.node[j], u.node[j])
    BY <2>3, <2>5 DEF Same
  <2> QED
    BY <2>3, <2>4, <2>5, <2>6
<1>4. /\ \A x \in dom : r[x] \in Nat
      /\ c \in [dom -> dom] /\ r \in [dom -> Nat] /\ dom \subseteq Int /\ Linked(u, c, r)
  BY SizeIs DEF TableInv, Chained, Linked
<1>5. (\A i \in dom : c[i] = c[f] => i = f) /\ u.node[f].next = 0
  BY <1>4, FreeIsAlone
<1>6. PICK c2 : c2 = [x \in dom |-> IF x = f THEN c[mp] ELSE c[x]]
  OBVIOUS
<1>7. PICK r2 : r2 = [x \in dom |-> IF x = f THEN r[mp] + 1
                                  ELSE IF c[x] = c[mp] /\ r[x] > r[mp] THEN r[x] + 1 ELSE r[x]]
  OBVIOUS
<1>8. /\ c2[f] = c[mp] /\ r2[f] = r[mp] + 1 /\ r2[mp] = r[mp]
      /\ \A x \in dom : x # f => c2[x] = c[x]
      /\ \A x \in dom : x # f => r2[x] = IF c[x] = c[mp] /\ r[x] > r[mp] THEN r[x] + 1 ELSE r[x]
      /\ c2 \in [dom -> dom] /\ r2 \in [dom -> Nat]
  <2>1. c2 \in [dom -> dom] /\ r2 \in [dom -> Nat]
    BY <1>4, <1>6, <1>7
  <2> QED
    BY <1>2, <1>4, <1>6, <1>7, <2>1
<1>9. ASSUME NEW x \in dom, NEW y \in dom, x # f, y # f, c[x] = c[y]
      PROVE  /\ r2[x] < r2[y] <=> r[x] < r[y]
             /\ r2[x] <= r2[y] <=> r[x] <= r[y]
             /\ r2[x] = r2[y] <=> r[x] = r[y]
  BY SMTT(60), <1>4, <1>8, <1>9
<1>10. ASSUME NEW x \in dom, x # f, c[x] = c[mp]
       PROVE  r2[x] # r2[f] /\ (r2[x] < r2[f] <=> r[x] <= r[mp])
  BY <1>4, <1>8, <1>10
<1>11. ASSUME NEW i \in dom, w.node[i].next # 0
       PROVE  c2[i + w.node[i].next] = c2[i] /\ r2[i + w.node[i].next] = r2[i] + 1
  <2>1. CASE i = mp
    <3>1. mp + (f - mp) = f
      BY <1>4
    <3> QED
      BY <1>2, <1>3, <1>8, <2>1, <3>1
  <2>2. CASE i = f
    <3>1. u.node[mp].next # 0 /\ next = (mp + u.node[mp].next) - f
      BY <1>3, <1>11, <1>b, <2>2
    <3>2. PICK j \in dom : j = mp + u.node[mp].next
      BY DEF TableInv, TableType
    <3>3. c[j] = c[mp] /\ r[j] = r[mp] + 1
      BY <1>4, <3>1, <3>2 DEF Linked
    <3>4. j # f
      BY <1>2, <1>5, <3>3
    <3>5. f + (j - f) = j
      BY <1>4
    <3>6. r2[j] = r[j] + 1
      BY <1>4, <1>8, <3>3, <3>4
    <3>7. i + w.node[i].next = j
      BY <1>3, <2>2, <3>1, <3>2, <3>5
    <3> QED
      BY <1>8, <2>2, <3>3, <3>4, <3>6, <3>7
  <2>3. CASE i # mp /\ i # f
    <3>1. u.node[i].next # 0 /\ w.node[i].next = u.node[i].next
      BY <1>3, <1>11, <2>3
    <3>2. PICK j \in dom : j = i + u.node[i].next
      BY DEF TableInv, TableType
    <3>3. c[j] = c[i] /\ r[j] = r[i] + 1
      BY <1>4, <3>1, <3>2 DEF Linked
    <3>4. j # f
      BY <1>5, <2>3, <3>3
    <3>5. c[i] = c[mp] => r[i] # r[mp]
      BY <1>4, <2>3 DEF Linked
    <3>6. r2[j] = r2[i] + 1
      BY <1>4, <1>8, <2>3, <3>3, <3>4, <3>5
    <3> QED
      BY <1>8, <2>3, <3>1, <3>2, <3>3, <3>4, <3>6
  <2> QED
    BY <2>1, <2>2, <2>3
<1>12. ASSUME NEW i \in dom, NEW j \in dom, c2[i] = c2[j]
       PROVE  /\ r2[i] < r2[j] => w.node[i].next # 0
              /\ r2[i] = r2[j] => i = j
              /\ w.node[i].key = Nil => i = j
  <2>1. ASSUME r2[i] < r2[j] PROVE w.node[i].next # 0
    <3>1. CASE i = mp
      <4>1. f \in Int /\ mp \in Int /\ f - mp # 0
        BY <1>2, <1>4
      <4> QED
        BY <1>3, <3>1, <4>1
    <3>2. CASE i = f
      <4>1. j # f /\ c[j] = c[mp] /\ ~(r[j] <= r[mp])
        BY <1>4, <1>8, <1>10, <1>12, <2>1, <3>2
      <4>2. u.node[mp].next # 0
        BY <1>4, <4>1 DEF Linked
      <4>3. PICK x \in dom : x = mp + u.node[mp].next
        BY DEF TableInv, TableType
      <4>4. c[x] = c[mp]
        BY <1>4, <4>2, <4>3 DEF Linked
      <4>5. x # f
        BY <1>2, <1>5, <4>4
      <4>6. x - f # 0
        BY <1>4, <4>5
      <4> QED
        BY <1>3, <1>b, <3>2, <4>2, <4>3, <4>6
    <3>3. CASE i # mp /\ i # f /\ j # f
      BY SMTT(60), <1>3, <1>4, <1>8, <1>9, <1>12, <2>1, <3>3 DEF Linked
    <3>4. CASE i # mp /\ i # f /\ j = f
      <4>1. c[i] = c[mp] /\ r[i] <= r[mp]
        BY <1>8, <1>10, <1>12, <2>1, <3>4
      <4>2. r[i] # r[mp]
        BY <1>4, <3>4, <4>1 DEF Linked
      <4>3. r[i] < r[mp]
        BY <1>4, <4>1, <4>2
      <4> QED
        BY <1>3, <1>4, <3>4, <4>1, <4>3 DEF Linked
    <3> QED
      BY <3>1, <3>2, <3>3, <3>4
  <2>2. ASSUME r2[i] = r2[j] PROVE i = j
    <3>1. CASE i # f /\ j # f
      BY <1>4, <1>8, <1>9, <1>12, <2>2, <3>1 DEF Linked
    <3>2. CASE i = f \/ j = f
      BY <1>8, <1>10, <1>12, <2>2, <3>2
    <3> QED
      BY <3>1, <3>2
  <2>3. ASSUME w.node[i].key = Nil PROVE i = j
    <3>1. i # f /\ i # mp /\ u.node[i].key = Nil
      BY <1>2, <1>3, <2>3 DEF Same
    <3>2. c[i] = c[j] \/ (j = f /\ c[i] = c[mp])
      BY <1>8, <1>12, <3>1
    <3>3. \A x \in dom : c[x] = c[i] => x = i
      BY <1>4, <3>1, FreeIsAlone
    <3>4. ~(j = f /\ c[i] = c[mp])
      BY <3>1, <3>3
    <3> QED
      BY <3>2, <3>3, <3>4
  <2> QED
    BY <2>1, <2>2, <2>3
<1>13. Linked(w, c2, r2)
  BY <1>8, <1>11, <1>12, <1>a DEF Linked
<1>14. ASSUME NEW i \in dom, w.node[i].key # Nil PROVE HomeOK(w, c2, r2, i)
  <2>1. CASE i = f
    <3>1. On(c2, r2, mp, f)
      BY <1>2, <1>4, <1>8 DEF On
    <3>2. w.node[mp].key = u.node[mp].key
      BY <1>3 DEF Same
    <3> QED
      BY <1>1, <1>3, <2>1, <3>1, <3>2 DEF HomeOK
  <2>2. CASE i # f
    <3>1. w.node[i].key = u.node[i].key
      BY <1>3, <2>2 DEF Same
    <3>2. PICK m \in dom : /\ m = MainPosition(u, u.node[i].key) /\ On(c, r, m, i)
                         /\ u.node[m].key # Nil /\ MainPosition(u, u.node[m].key) = m
      BY <1>14, <3>1, HomeIs
    <3>3. m # f /\ w.node[m].key = u.node[m].key
      BY <1>3, <3>2 DEF Same
    <3>4. On(c2, r2, m, i)
      BY <1>8, <1>9, <2>2, <3>2, <3>3 DEF On
    <3> QED
      BY <1>1, <3>1, <3>2, <3>3, <3>4 DEF HomeOK
  <2> QED
    BY <2>1, <2>2
<1>15. ASSUME NEW i \in dom, w.node[i].key # Nil, ~w.node[i].dead
       PROVE  FirstOK(w, c2, r2, w.node[i].key, i)
  <2> SUFFICES ASSUME NEW j \in dom, On(c2, r2, MainPosition(w, w.node[i].key), j),
                      c2[j] = c2[i], r2[j] < r2[i]
               PROVE  ~EqualKey(w.node[i].key, w.node[j], TRUE)
    BY <1>a DEF FirstOK
  <2>1. CASE i = f
    <3>1. On(c2, r2, mp, j) /\ j # f
      BY <1>1, <1>3, <1>4, <1>8, <2>1
    <3>2. c[j] = c[mp] /\ r[mp] <= r[j] /\ r[j] <= r[mp]
      BY <1>2, <1>8, <1>9, <1>10, <2>1, <3>1 DEF On
    <3>3. j = mp
      <4>1. r[j] = r[mp] /\ c[j] = c[mp] /\ j \in dom /\ mp \in dom
        BY <1>4, <3>2
      <4> QED
        BY <1>4, <4>1 DEF Linked
    <3>4. u.node[mp].key # k
      BY DEF Absent
    <3> QED
      BY <1>3, <2>1, <3>3, <3>4 DEF EqualKey, Same
  <2>2. CASE i # f /\ j = f
    <3>1. w.node[i].key # k
      BY <1>3, <1>15, <2>2 DEF Absent, Same
    <3> QED
      BY <1>3, <2>2, <3>1 DEF EqualKey
  <2>3. CASE i # f /\ j # f
    <3>1. Same(w.node[i], u.node[i]) /\ Same(w.node[j], u.node[j])
      BY <1>3, <2>3
    <3>2. u.node[i].key # Nil /\ ~u.node[i].dead /\ w.node[i].key = u.node[i].key
      BY <1>15, <3>1 DEF Same
    <3>3. PICK m \in dom : /\ m = MainPosition(u, u.node[i].key) /\ On(c, r, m, i)
                         /\ u.node[m].key # Nil /\ MainPosition(u, u.node[m].key) = m
      BY <3>2, HomeIs
    <3>4. m # f /\ On(c2, r2, m, j)
      BY <1>1, <3>2, <3>3
    <3>5. On(c, r, m, j) /\ c[j] = c[i] /\ r[j] < r[i]
      BY <1>8, <1>9, <2>3, <3>4 DEF On
    <3>6. ~EqualKey(u.node[i].key, u.node[j], TRUE)
      BY <3>2, <3>3, <3>5 DEF Chained, Firsts, FirstOK
    <3> QED
      BY <3>1, <3>6 DEF Same, EqualKey
  <2> QED
    BY <2>1, <2>2, <2>3
<1>16. Chained(w, c2, r2)
  BY <1>13, <1>14, <1>15, <1>a DEF Chained, Homes, Firsts
<1> QED
  BY <1>16

\* What the relocation of a colliding node leaves, when p is the node before it.
Relocated(u, h, mp, f, k, v, p) ==
    LET next == IF u.node[mp].next = 0 THEN 0 ELSE (mp + u.node[mp].next) - f
    IN  /\ DOMAIN h = DOMAIN u.node
        /\ \A j \in DOMAIN u.node :
               h[j] = IF j = mp THEN NewNode(k, v, 0)
                      ELSE IF j = f THEN [u.node[mp] EXCEPT !.next = next]
                      ELSE IF j = p THEN [u.node[p] EXCEPT !.next = f - p]
                      ELSE u.node[j]
\* It is what Relocate does.
LEMMA RelocateIs ==
  ASSUME KeyAssumption, NEW u, TableInv(u), NEW mp \in DOMAIN u.node, NEW f \in DOMAIN u.node,
         NEW k, NEW v, NEW p \in DOMAIN u.node, p # mp, p # f, mp # f,
         p = Previous(u, MainPosition(u, u.node[mp].key), mp),
         NEW h, h = Relocate(u, mp, f, k, v)
  PROVE  Relocated(u, h, mp, f, k, v, p)
<1>1. u.node \in [DOMAIN u.node -> NodeType]
  BY TypeIs DEF TableInv
<1>2. PICK old : old = u.node[mp]
  OBVIOUS
<1>3. PICK next : next = IF old.next = 0 THEN 0 ELSE (mp + old.next) - f
  OBVIOUS
<1>4. h = [u.node EXCEPT ![p].next = f - p,
                         ![f]  = [old EXCEPT !.next = next],
                         ![mp] = NewNode(k, v, 0)]
  BY <1>2, <1>3 DEF Relocate, Previous
<1> QED
  BY <1>1, <1>2, <1>3, <1>4 DEF Relocated

\* The colliding node is not at home: it moves to f, and the new key begins a path at mp.
LEMMA RelocateChained ==
  ASSUME KeyAssumption, NEW u, TableInv(u), NEW c, NEW r, Chained(u, c, r),
         NEW k \in Key, NEW v, NEW mp \in DOMAIN u.node, mp = MainPosition(u, k),
         NEW f \in DOMAIN u.node, u.node[f].key = Nil,
         u.node[mp].key # Nil, ~u.node[mp].dead,
         NEW p \in DOMAIN u.node, u.node[p].next # 0, p + u.node[p].next = mp,
         c[p] = c[mp], r[mp] = r[p] + 1,
         NEW a \in DOMAIN u.node, a = MainPosition(u, u.node[mp].key), a # mp,
         NEW w, Relocated(u, w.node, mp, f, k, v, p)
  PROVE  \E c2, r2 : Chained(w, c2, r2)
<1> DEFINE dom == DOMAIN u.node
<1>c. DOMAIN w.node = DOMAIN u.node
  BY DEF Relocated
<1>1. \A x : MainPosition(w, x) = MainPosition(u, x)
  BY <1>c, MainPositionSame
<1>2. k # Nil /\ mp # f
  BY KeysAre
<1>3. /\ \A x \in dom : r[x] \in Nat /\ x \in Int
      /\ c \in [dom -> dom] /\ r \in [dom -> Nat] /\ Linked(u, c, r)
  BY SMTT(60), SizeIs DEF TableInv, Chained, Linked
<1>4. (\A i \in dom : c[i] = c[f] => i = f) /\ u.node[f].next = 0
  BY <1>3, FreeIsAlone
<1>5. p # mp /\ p # f
  <2>1. r[p] \in Nat /\ r[mp] \in Nat
    BY <1>3
  <2> QED
    BY <1>2, <1>4, <2>1
<1>b. PICK next : next = IF u.node[mp].next = 0 THEN 0 ELSE (mp + u.node[mp].next) - f
  OBVIOUS
<1>6. PICK s : s = [x \in dom |-> IF x = mp THEN f ELSE IF x = f THEN mp ELSE x]
  OBVIOUS
<1>7. /\ s \in [dom -> dom] /\ s[mp] = f /\ s[f] = mp
      /\ \A x \in dom : x # mp /\ x # f => s[x] = x
      /\ \A x, y \in dom : s[x] = s[y] => x = y
  BY <1>6
<1>8. /\ w.node[mp].key = k /\ w.node[mp].dead = FALSE /\ w.node[mp].next = 0
      /\ \A j \in dom : j # mp => Same(w.node[j], u.node[s[j]])
      /\ w.node[f].next = next /\ w.node[p].next = f - p
      /\ \A j \in dom : j # f /\ j # mp /\ j # p => w.node[j].next = u.node[j].next
  <2>1. w.node[mp] = NewNode(k, v, 0)
    BY DEF Relocated
  <2>2. w.node[f] = [u.node[mp] EXCEPT !.next = next] /\ w.node[p] = [u.node[p] EXCEPT !.next = f - p]
    BY <1>2, <1>5, <1>b DEF Relocated
  <2>3. u.node[mp] \in NodeType /\ u.node[p] \in NodeType
    BY TypeIs DEF TableInv
  <2>4. w.node[f].next = next /\ Same(w.node[f], u.node[mp])
    BY <2>2, <2>3 DEF NodeType, Same
  <2>5. w.node[p].next = f - p /\ Same(w.node[p], u.node[p])
    BY <2>2, <2>3 DEF NodeType, Same
  <2>6. \A j \in dom : j # f /\ j # mp /\ j # p => w.node[j] = u.node[j]
    BY DEF Relocated
  <2>7. ASSUME NEW j \in dom, j # mp PROVE Same(w.node[j], u.node[s[j]])
    <3>1. CASE j = f
      BY <1>7, <2>4, <3>1
    <3>2. CASE j # f
      <4>1. s[j] = j
        BY <1>7, <2>7, <3>2
      <4> QED
        BY <2>5, <2>6, <2>7, <3>2, <4>1 DEF Same
    <3> QED
      BY <3>1, <3>2
  <2> QED
    BY <2>1, <2>4, <2>5, <2>6, <2>7 DEF NewNode
<1>9. PICK c2 : c2 = [x \in dom |-> c[s[x]]]
  OBVIOUS
<1>10. PICK r2 : r2 = [x \in dom |-> r[s[x]]]
  OBVIOUS
<1>11. /\ c2 \in [dom -> dom] /\ r2 \in [dom -> Nat]
       /\ \A x \in dom : c2[x] = c[s[x]] /\ r2[x] = r[s[x]]
  BY SMTT(60), <1>3, <1>7, <1>9, <1>10
<1>12. ASSUME NEW i \in dom, u.node[i].next # 0, i + u.node[i].next = mp PROVE i = p
  <2>1. c[mp] = c[i] /\ r[mp] = r[i] + 1
    BY <1>3, <1>12 DEF Linked
  <2>2. c[i] = c[p] /\ r[i] = r[p]
    <3>1. r[i] \in Nat /\ r[p] \in Nat
      BY <1>3
    <3> QED
      BY <2>1, <3>1
  <2> QED
    BY <1>3, <2>2 DEF Linked
<1>13. ASSUME NEW i \in dom
       PROVE  /\ w.node[i].next # 0 <=> u.node[s[i]].next # 0
              /\ w.node[i].next # 0 =>
                    /\ i + w.node[i].next \in dom
                    /\ s[i + w.node[i].next] = s[i] + u.node[s[i]].next
  <2>1. CASE i = mp
    BY <1>4, <1>7, <1>8, <2>1
  <2>2. CASE i = f
    <3>1. s[i] = mp
      BY <1>7, <2>2
    <3>2. PICK j \in dom : j = mp + u.node[mp].next
      BY DEF TableInv, TableType
    <3>3. CASE u.node[mp].next = 0
      BY <1>8, <1>b, <2>2, <3>1, <3>3
    <3>4. CASE u.node[mp].next # 0
      <4>1. c[j] = c[mp] /\ r[j] = r[mp] + 1 /\ r[mp] \in Nat
        BY <1>3, <3>2, <3>4 DEF Linked
      <4>2. j # f /\ j # mp
        BY <1>2, <1>4, <4>1
      <4>3. w.node[i].next = j - f
        BY <1>8, <1>b, <2>2, <3>2, <3>4
      <4>4. j - f # 0 /\ f + (j - f) = j
        BY <1>3, <4>2
      <4>5. s[j] = j
        BY <1>7, <4>2
      <4> QED
        BY <2>2, <3>1, <3>2, <3>4, <4>3, <4>4, <4>5
    <3> QED
      BY <3>3, <3>4
  <2>3. CASE i = p
    <3>1. s[i] = p /\ w.node[i].next = f - p
      BY <1>5, <1>7, <1>8, <2>3
    <3>2. f - p # 0 /\ p + (f - p) = f
      BY <1>3, <1>5
    <3> QED
      BY <1>7, <2>3, <3>1, <3>2
  <2>4. CASE i # mp /\ i # f /\ i # p
    <3>1. s[i] = i /\ w.node[i].next = u.node[i].next
      BY <1>7, <1>8, <2>4
    <3>2. PICK j \in dom : j = i + u.node[i].next
      BY DEF TableInv, TableType
    <3>3. ASSUME u.node[i].next # 0 PROVE s[j] = j
      <4>1. j # mp
        BY <1>12, <2>4, <3>2, <3>3
      <4>2. c[j] = c[i]
        BY <1>3, <3>2, <3>3 DEF Linked
      <4>3. j # f
        BY <1>4, <2>4, <4>2
      <4> QED
        BY <1>7, <4>1, <4>3
    <3> QED
      BY <3>1, <3>2, <3>3
  <2> QED
    BY <2>1, <2>2, <2>3, <2>4
<1>a. \A x, y \in dom : c[x] = c[y] =>
         /\ r[x] < r[y] => u.node[x].next # 0
         /\ r[x] = r[y] => x = y
         /\ u.node[x].key = Nil => x = y
  BY <1>3 DEF Linked
<1>14. Linked(w, c2, r2)
  <2>1. ASSUME NEW i \in dom, w.node[i].next # 0
        PROVE  c2[i + w.node[i].next] = c2[i] /\ r2[i + w.node[i].next] = r2[i] + 1
    <3>1. PICK x \in dom : x = s[i]
      BY <1>7
    <3>2. PICK y \in dom : y = i + w.node[i].next /\ s[y] = x + u.node[x].next
      BY <1>13, <2>1, <3>1
    <3>3. u.node[x].next # 0
      BY <1>13, <2>1, <3>1
    <3>4. c[s[y]] = c[x] /\ r[s[y]] = r[x] + 1
      BY <1>3, <3>2, <3>3 DEF Linked
    <3> QED
      BY <1>11, <3>1, <3>2, <3>4
  <2>2. ASSUME NEW i \in dom, NEW j \in dom, c2[i] = c2[j]
        PROVE  /\ r2[i] < r2[j] => w.node[i].next # 0
               /\ r2[i] = r2[j] => i = j
               /\ w.node[i].key = Nil => i = j
    <3>1. PICK x \in dom : x = s[i]
      BY <1>7
    <3>2. PICK y \in dom : y = s[j]
      BY <1>7
    <3>3. c[x] = c[y] /\ r2[i] = r[x] /\ r2[j] = r[y]
      BY <1>11, <2>2, <3>1, <3>2
    <3>4. r2[i] < r2[j] => w.node[i].next # 0
      <4>1. r[x] < r[y] => u.node[x].next # 0
        BY <1>a, <3>3
      <4>2. w.node[i].next # 0 <=> u.node[x].next # 0
        BY <1>13, <3>1
      <4> QED
        BY <3>3, <4>1, <4>2
    <3>5. r2[i] = r2[j] => i = j
      <4>1. r2[i] = r2[j] => x = y
        BY <1>a, <3>3
      <4> QED
        BY <1>7, <3>1, <3>2, <4>1
    <3>6. w.node[i].key = Nil => i = j
      <4> SUFFICES ASSUME w.node[i].key = Nil PROVE i = j
        OBVIOUS
      <4>1. i # mp
        BY <1>2, <1>8
      <4>2. u.node[x].key = Nil
        <5>1. Same(w.node[i], u.node[x])
          BY <1>8, <3>1, <4>1
        <5> QED
          BY <5>1 DEF Same
      <4>3. x = y
        BY <1>a, <3>3, <4>2
      <4>4. s[i] = s[j]
        BY <3>1, <3>2, <4>3
      <4> QED
        BY <1>7, <4>4
    <3> QED
      BY <3>4, <3>5, <3>6
  <2> QED
    BY <1>11, <1>c, <2>1, <2>2 DEF Linked
<1>15. ASSUME NEW i \in dom, w.node[i].key # Nil PROVE HomeOK(w, c2, r2, i)
  <2>1. CASE i = mp
    <3>1. On(c2, r2, mp, mp)
      <4>1. r2[mp] \in Nat
        BY <1>11
      <4> QED
        BY <4>1 DEF On
    <3> QED
      BY <1>1, <1>2, <1>8, <2>1, <3>1 DEF HomeOK
  <2>2. CASE i # mp
    <3>1. PICK x \in dom : x = s[i]
      BY <1>7
    <3>2. w.node[i].key = u.node[x].key
      BY <1>8, <2>2, <3>1 DEF Same
    <3>3. PICK m \in dom : /\ m = MainPosition(u, u.node[x].key) /\ On(c, r, m, x)
                         /\ u.node[m].key # Nil /\ MainPosition(u, u.node[m].key) = m
      BY <1>15, <3>2, HomeIs
    <3>4. m # mp /\ m # f
      BY <3>3
    <3>5. s[m] = m /\ w.node[m].key = u.node[m].key
      BY <1>7, <1>8, <3>4 DEF Same
    <3>6. On(c2, r2, m, i)
      BY SMTT(60), <1>11, <3>1, <3>3, <3>5 DEF On
    <3> QED
      BY <1>1, <3>2, <3>3, <3>5, <3>6 DEF HomeOK
  <2> QED
    BY <2>1, <2>2
<1>16. ASSUME NEW i \in dom, w.node[i].key # Nil, ~w.node[i].dead
       PROVE  FirstOK(w, c2, r2, w.node[i].key, i)
  <2> SUFFICES ASSUME NEW j \in dom, On(c2, r2, MainPosition(w, w.node[i].key), j),
                      c2[j] = c2[i], r2[j] < r2[i]
               PROVE  ~EqualKey(w.node[i].key, w.node[j], TRUE)
    BY <1>c DEF FirstOK
  <2>1. PICK x \in dom : x = s[i]
    BY <1>7
  <2>2. PICK y \in dom : y = s[j]
    BY <1>7
  <2>3. c[y] = c[x] /\ r[y] < r[x]
    BY <1>11, <2>1, <2>2
  <2>4. x # y /\ x # f /\ y # f
    <3>1. x # y
      BY <1>3, <2>3
    <3> QED
      BY <1>4, <2>3, <3>1
  <2>5. i # mp /\ j # mp
    BY <1>7, <2>1, <2>2, <2>4
  <2>6. Same(w.node[i], u.node[x]) /\ Same(w.node[j], u.node[y])
    BY <1>8, <2>1, <2>2, <2>5
  <2>7. u.node[x].key # Nil /\ ~u.node[x].dead /\ w.node[i].key = u.node[x].key
    BY <1>16, <2>6 DEF Same
  <2>8. PICK m \in dom : /\ m = MainPosition(u, u.node[x].key) /\ On(c, r, m, x)
                       /\ u.node[m].key # Nil /\ MainPosition(u, u.node[m].key) = m
    BY <2>7, HomeIs
  <2>9. s[m] = m
    BY <1>7, <2>8
  <2>10. On(c, r, m, y)
    BY <1>1, <1>11, <2>2, <2>7, <2>8, <2>9 DEF On
  <2>11. ~EqualKey(u.node[x].key, u.node[y], TRUE)
    BY <2>3, <2>7, <2>8, <2>10 DEF Chained, Firsts, FirstOK
  <2> QED
    BY <2>6, <2>11 DEF Same, EqualKey
<1>17. Chained(w, c2, r2)
  BY <1>14, <1>15, <1>16, <1>c DEF Chained, Homes, Firsts
<1> QED
  BY <1>17

-----------------------------------------------------------------------------
\* Dead keys are collectable; the others are objects of the program, or numbers.
KeysLive(u, live) ==
    \A i \in DOMAIN u.node :
        IF u.node[i].dead THEN u.node[i].key \in Collectable
        ELSE u.node[i].key \in IntKey \cup live \cup {Nil}
\* getfreepos has not passed by a free node.
NoneMissed(u) == \A i \in DOMAIN u.node : i >= u.lastfree => u.node[i].key # Nil
\* The invariant of the hash part.
HashInv(u, live) == (\E c, r : Chained(u, c, r)) /\ KeysLive(u, live) /\ NoneMissed(u)

\* The contents of the nodes are what they were, and a new one that may have taken the
\* place of one without value.
Inserted(u, w, k, v) ==
    /\ DOMAIN w.node = DOMAIN u.node
    /\ \A i \in DOMAIN w.node : \/ Same(w.node[i], NewNode(k, v, 0))
                                \/ \E j \in DOMAIN u.node : Same(w.node[i], u.node[j])
    /\ \A j \in DOMAIN u.node : u.node[j].val # Nil =>
           \E i \in DOMAIN w.node : Same(w.node[i], u.node[j])
    /\ \E i \in DOMAIN w.node : Same(w.node[i], NewNode(k, v, 0))

\* The three cases of luaH_newkey.
LEMMA FillIs ==
  ASSUME KeyAssumption, NEW u, TableInv(u), NEW c, NEW r, Chained(u, c, r), NoneMissed(u),
         NEW k \in Key, Absent(u, k), NEW v, NEW mp \in DOMAIN u.node, mp = MainPosition(u, k),
         u.node[mp].val = Nil,
         NEW w, w.lastfree = u.lastfree, w.node = Fill(u.node, mp, k, v)
  PROVE  (\E c2, r2 : Chained(w, c2, r2)) /\ NoneMissed(w) /\ Inserted(u, w, k, v)
<1>1. u.node \in [DOMAIN u.node -> NodeType] /\ k # Nil
  BY TypeIs, KeysAre DEF TableInv
<1>2. PICK h : h = w.node
  OBVIOUS
<1>3. Filled(u, h, mp, k, v)
  BY <1>1, <1>2 DEF Fill, Filled
<1>4. DOMAIN h = DOMAIN u.node
  BY <1>3 DEF Filled
<1>5. Chained(w, c, r)
  BY <1>2, <1>3, FillChained
<1>6. Same(h[mp], NewNode(k, v, 0)) /\ \A j \in DOMAIN u.node : j # mp => Same(h[j], u.node[j])
  <2>1. h[mp] = NewNode(k, v, u.node[mp].next)
    BY <1>3 DEF Filled
  <2>2. \A j \in DOMAIN u.node : j # mp => h[j] = u.node[j]
    BY <1>3 DEF Filled
  <2> QED
    BY <2>1, <2>2 DEF Same, NewNode
<1>7. NoneMissed(w)
  BY <1>1, <1>2, <1>4, <1>6 DEF NoneMissed, Same, NewNode
<1>8. Inserted(u, w, k, v)
  BY <1>2, <1>4, <1>6 DEF Inserted
<1> QED
  BY <1>5, <1>7, <1>8

\* The free node is the highest below lastfree.
LEMMA FreeIs ==
  ASSUME KeyAssumption, NEW u, TableInv(u), NoneMissed(u), FreeBelow(u) # {},
         NEW f, f = Max(FreeBelow(u))
  PROVE  /\ f \in DOMAIN u.node /\ f \in Nat /\ u.node[f].key = Nil
         /\ \A i \in DOMAIN u.node : i > f => u.node[i].key # Nil
<1>1. PICK s \in Nat : s = SizeNode(u) /\ DOMAIN u.node = 0..(s - 1)
  BY SizeIs DEF TableInv
<1>2. FreeBelow(u) \subseteq 0..s
  BY <1>1 DEF FreeBelow
<1>3. f \in FreeBelow(u) /\ \A x \in FreeBelow(u) : x <= f
  BY <1>2, MaxOf
<1>4. u.lastfree \in Nat
  BY TypeIs DEF TableInv
<1>5. ASSUME NEW i \in DOMAIN u.node, i > f PROVE u.node[i].key # Nil
  <2>1. CASE i < u.lastfree
    <3>1. i \in Int /\ f \in Int
      BY <1>1, <1>2, <1>3
    <3>2. i \notin FreeBelow(u)
      BY <1>3, <1>5, <3>1
    <3> QED
      BY <2>1, <3>2 DEF FreeBelow
  <2>2. CASE i >= u.lastfree
    BY <2>2 DEF NoneMissed
  <2> QED
    BY <1>1, <1>4, <2>1, <2>2
<1> QED
  BY <1>1, <1>3, <1>5 DEF FreeBelow

\* The new key follows the node at its main position.
LEMMA LinkIs ==
  ASSUME KeyAssumption, NEW u, TableInv(u), NEW c, NEW r, Chained(u, c, r), NoneMissed(u),
         NEW k \in Key, Absent(u, k), NEW v, NEW mp \in DOMAIN u.node, mp = MainPosition(u, k),
         u.node[mp].val # Nil, MainPosition(u, u.node[mp].key) = mp,
         FreeBelow(u) # {}, NEW f, f = Max(FreeBelow(u)),
         NEW w, w.lastfree = f, w.node = Link(u, mp, f, k, v)
  PROVE  (\E c2, r2 : Chained(w, c2, r2)) /\ NoneMissed(w) /\ Inserted(u, w, k, v)
<1>1. u.node \in [DOMAIN u.node -> NodeType] /\ k # Nil
  BY TypeIs, KeysAre DEF TableInv
<1>2. /\ f \in DOMAIN u.node /\ f \in Nat /\ u.node[f].key = Nil
      /\ \A i \in DOMAIN u.node : i > f => u.node[i].key # Nil
  BY FreeIs
<1>3. u.node[mp].key # Nil /\ ~u.node[mp].dead
  BY DEF TableInv, KeysOK
<1>4. PICK next : next = IF u.node[mp].next = 0 THEN 0 ELSE (mp + u.node[mp].next) - f
  OBVIOUS
<1>5. PICK h : h = w.node
  OBVIOUS
<1>6. PICK g : g = Fill(u.node, f, k, v)
  OBVIOUS
<1>7. h = [g EXCEPT ![f].next = next, ![mp].next = f - mp]
  BY <1>4, <1>5, <1>6 DEF Link
<1>8. /\ DOMAIN g = DOMAIN u.node /\ g = [j \in DOMAIN u.node |-> g[j]]
      /\ \A j \in DOMAIN u.node :
            g[j] = IF j = f THEN NewNode(k, v, u.node[f].next) ELSE u.node[j]
  BY <1>1, <1>2, <1>6 DEF Fill
<1>9. DOMAIN h = DOMAIN u.node
  BY <1>7, <1>8
<1>10. mp # f
  BY <1>2, <1>3
<1>11. \A j \in DOMAIN u.node :
          h[j] = IF j = mp THEN [g[mp] EXCEPT !.next = f - mp]
                 ELSE IF j = f THEN [g[f] EXCEPT !.next = next] ELSE g[j]
  BY <1>7, <1>8, <1>10
<1>12. [g[f] EXCEPT !.next = next] = NewNode(k, v, next)
  <2>1. PICK n : n = g[f]
    OBVIOUS
  <2>2. PICK old : old = u.node[f].next
    OBVIOUS
  <2>3. PICK no : no = FALSE
    OBVIOUS
  <2>4. n = [key |-> k, dead |-> no, val |-> v, next |-> old]
    BY <1>2, <1>8, <2>1, <2>2, <2>3 DEF NewNode
  <2>5. [n EXCEPT !.next = next] = [key |-> k, dead |-> no, val |-> v, next |-> next]
    BY <2>4
  <2> QED
    BY <2>1, <2>3, <2>5 DEF NewNode
<1>13. LinkedAfter(u, h, mp, f, k, v)
  <2>1. \A j \in DOMAIN u.node :
            h[j] = IF j = mp THEN [u.node[mp] EXCEPT !.next = f - mp]
                   ELSE IF j = f THEN NewNode(k, v, next) ELSE u.node[j]
    BY <1>8, <1>10, <1>11, <1>12
  <2> QED
    BY <1>4, <1>9, <2>1 DEF LinkedAfter
<1>14. \E c2, r2 : Chained(w, c2, r2)
  BY <1>2, <1>3, <1>5, <1>13, LinkChained
<1>15. Same(h[mp], u.node[mp])
  <2>1. u.node[mp] \in NodeType
    BY <1>1
  <2>2. h[mp] = [u.node[mp] EXCEPT !.next = f - mp]
    BY <1>13 DEF LinkedAfter
  <2> QED
    BY <2>1, <2>2 DEF NodeType, Same
<1>16. /\ Same(h[f], NewNode(k, v, 0)) /\ h[f].key = k
       /\ \A j \in DOMAIN u.node : j # f => Same(h[j], u.node[j])
  <2>1. h[f] = NewNode(k, v, next)
    BY <1>2, <1>4, <1>10, <1>13 DEF LinkedAfter
  <2>2. \A j \in DOMAIN u.node : j # f /\ j # mp => h[j] = u.node[j]
    BY <1>13 DEF LinkedAfter
  <2> QED
    BY <1>15, <2>1, <2>2 DEF Same, NewNode
<1>17. NoneMissed(w)
  <2> SUFFICES ASSUME NEW i \in DOMAIN u.node, i >= f PROVE h[i].key # Nil
    BY <1>5, <1>9 DEF NoneMissed
  <2>1. i = f \/ (i # f /\ i > f)
    <3>1. i \in Int
      BY SizeIs DEF TableInv
    <3> QED
      BY <1>2, <3>1
  <2> QED
    BY <1>1, <1>2, <1>16, <2>1 DEF Same
<1>18. Inserted(u, w, k, v)
  <2>1. \A j \in DOMAIN u.node : u.node[j].val # Nil => j # f
    BY <1>2 DEF TableInv, KeysOK
  <2> QED
    BY <1>2, <1>5, <1>9, <1>16, <2>1 DEF Inserted
<1> QED
  BY <1>14, <1>17, <1>18

\* The colliding node moves to the free one.
LEMMA RelocateMoves ==
  ASSUME KeyAssumption, NEW u, TableInv(u), NEW c, NEW r, Chained(u, c, r), NoneMissed(u),
         NEW k \in Key, Absent(u, k), NEW v, NEW mp \in DOMAIN u.node, mp = MainPosition(u, k),
         u.node[mp].val # Nil, MainPosition(u, u.node[mp].key) # mp,
         FreeBelow(u) # {}, NEW f, f = Max(FreeBelow(u)),
         NEW w, w.lastfree = f, w.node = Relocate(u, mp, f, k, v)
  PROVE  (\E c2, r2 : Chained(w, c2, r2)) /\ NoneMissed(w) /\ Inserted(u, w, k, v)
<1>1. u.node \in [DOMAIN u.node -> NodeType] /\ k # Nil
  BY TypeIs, KeysAre DEF TableInv
<1>2. /\ f \in DOMAIN u.node /\ f \in Nat /\ u.node[f].key = Nil
      /\ \A i \in DOMAIN u.node : i > f => u.node[i].key # Nil
  BY FreeIs
<1>3. u.node[mp].key # Nil /\ ~u.node[mp].dead
  BY DEF TableInv, KeysOK
<1>4. PICK a \in DOMAIN u.node :
         /\ a = MainPosition(u, u.node[mp].key) /\ On(c, r, a, mp)
         /\ u.node[a].key # Nil /\ MainPosition(u, u.node[a].key) = a
  BY <1>3, HomeIs
<1>5. PICK p : p = Previous(u, a, mp)
  OBVIOUS
<1>6. /\ p \in DOMAIN u.node /\ u.node[p].next # 0 /\ p + u.node[p].next = mp
      /\ p # mp /\ c[p] = c[mp] /\ r[mp] = r[p] + 1 /\ On(c, r, a, p)
  <2>1. TableType(u) /\ Linked(u, c, r) /\ a # mp
    BY <1>4 DEF TableInv, Chained
  <2> QED
    BY <1>4, <1>5, <2>1, PreviousIs
<1>7. mp # f /\ p # f
  <2>1. u.node[f].next = 0
    BY <1>2, FreeIsAlone DEF Chained
  <2> QED
    BY <1>2, <1>3, <1>6, <2>1
<1>8. PICK h : h = w.node
  OBVIOUS
<1>9. Relocated(u, h, mp, f, k, v, p)
  BY <1>2, <1>4, <1>5, <1>6, <1>7, <1>8, RelocateIs
<1>10. \E c2, r2 : Chained(w, c2, r2)
  BY <1>2, <1>3, <1>4, <1>6, <1>8, <1>9, RelocateChained
<1>11. DOMAIN h = DOMAIN u.node
  BY <1>9 DEF Relocated
<1>12. /\ Same(h[mp], NewNode(k, v, 0)) /\ h[mp].key = k /\ Same(h[f], u.node[mp])
       /\ \A j \in DOMAIN u.node : j # f /\ j # mp => Same(h[j], u.node[j])
  <2>1. u.node[mp] \in NodeType /\ u.node[p] \in NodeType
    BY <1>1, <1>6
  <2>2. PICK next : next = IF u.node[mp].next = 0 THEN 0 ELSE (mp + u.node[mp].next) - f
    OBVIOUS
  <2>3. h[mp] = NewNode(k, v, 0)
    BY <1>9 DEF Relocated
  <2>4. h[f] = [u.node[mp] EXCEPT !.next = next]
    BY <1>2, <1>7, <1>9, <2>2 DEF Relocated
  <2>5. h[p] = [u.node[p] EXCEPT !.next = f - p]
    BY <1>6, <1>7, <1>9 DEF Relocated
  <2>6. \A j \in DOMAIN u.node : j # f /\ j # mp /\ j # p => h[j] = u.node[j]
    BY <1>9 DEF Relocated
  <2>7. Same(h[f], u.node[mp])
    BY <2>1, <2>4 DEF NodeType, Same
  <2>8. Same(h[p], u.node[p])
    BY <2>1, <2>5 DEF NodeType, Same
  <2>9. Same(h[mp], NewNode(k, v, 0)) /\ h[mp].key = k
    BY <2>3 DEF NewNode, Same
  <2> QED
    BY <2>6, <2>7, <2>8, <2>9 DEF Same
<1>13. NoneMissed(w)
  <2> SUFFICES ASSUME NEW i \in DOMAIN u.node, i >= f PROVE h[i].key # Nil
    BY <1>8, <1>11 DEF NoneMissed
  <2>1. i = f \/ (i # f /\ i > f)
    <3>1. i \in Int
      BY SizeIs DEF TableInv
    <3> QED
      BY <1>2, <3>1
  <2>2. u.node[i].key # Nil \/ i = f
    BY <1>2, <2>1
  <2> QED
    BY <1>1, <1>3, <1>12, <2>2 DEF Same
<1>14. Inserted(u, w, k, v)
  <2>1. \A j \in DOMAIN u.node : u.node[j].val # Nil => j # f
    BY <1>2 DEF TableInv, KeysOK
  <2>2. \A j \in DOMAIN u.node : u.node[j].val # Nil =>
           \E i \in DOMAIN w.node : Same(w.node[i], u.node[j])
    BY <1>2, <1>8, <1>11, <1>12, <2>1
  <2>3. \A i \in DOMAIN w.node : \/ Same(w.node[i], NewNode(k, v, 0))
                                 \/ \E j \in DOMAIN u.node : Same(w.node[i], u.node[j])
    BY <1>8, <1>11, <1>12
  <2> QED
    BY <1>8, <1>11, <1>12, <2>2, <2>3 DEF Inserted
<1> QED
  BY <1>10, <1>13, <1>14

\* luaH_newkey keeps the hash part in order and adds one entry.
LEMMA NewKeyIs ==
  ASSUME KeyAssumption, use \in Uses, NEW u, TableInv(u), NEW live, HashInv(u, live),
         NEW k \in use.keys, k \in IntKey \cup live, k \in IntKey => k > Len(u.array),
         Absent(u, k), HasRoom(u, k), NEW v \in Value, NEW w, w = NewKey(u, k, v)
  PROVE  /\ TableInv(w) /\ w.array = u.array /\ w.isreal = u.isreal
         /\ HashInv(w, live) /\ Inserted(u, w, k, v)
<1>1. TableInv(w) /\ w.array = u.array /\ w.isreal = u.isreal
  BY NewKeyInv
<1>2. k \in Key /\ (k \in Collectable \/ k \in Nat) /\ k # Nil
  BY UseIs, KeysAre DEF UseOK
<1>3. PICK mp \in DOMAIN u.node : mp = MainPosition(u, k)
  BY <1>2, MainPositionIn DEF TableInv, HasRoom
<1>4. PICK c, r : Chained(u, c, r)
  BY DEF HashInv
<1>5. NoneMissed(u)
  BY DEF HashInv
<1>6. (\E c2, r2 : Chained(w, c2, r2)) /\ NoneMissed(w) /\ Inserted(u, w, k, v)
  <2>1. CASE u.node[mp].val = Nil
    <3>1. w = [u EXCEPT !.node = Fill(u.node, mp, k, v)]
      BY <1>3, <2>1 DEF NewKey
    <3>2. w.lastfree = u.lastfree /\ w.node = Fill(u.node, mp, k, v)
      BY <3>1 DEF TableInv, TableType
    <3> QED
      BY <1>2, <1>3, <1>4, <1>5, <2>1, <3>2, FillIs
  <2>2. CASE u.node[mp].val # Nil
    <3>1. FreeBelow(u) # {}
      BY <1>3, <2>2 DEF HasRoom
    <3>2. PICK f : f = Max(FreeBelow(u))
      OBVIOUS
    <3>3. PICK h : h = IF MainPosition(u, u.node[mp].key) # mp
                       THEN Relocate(u, mp, f, k, v)
                       ELSE Link(u, mp, f, k, v)
      OBVIOUS
    <3>4. w = Renewed(u, f, h)
      BY <1>3, <2>2, <3>2, <3>3 DEF NewKey, Renewed
    <3>5. w.lastfree = f /\ w.node = h
      BY <3>4 DEF TableInv, TableType, Renewed
    <3>6. CASE MainPosition(u, u.node[mp].key) = mp
      <4>1. w.node = Link(u, mp, f, k, v)
        BY <3>3, <3>5, <3>6
      <4> QED
        BY <1>2, <1>3, <1>4, <1>5, <2>2, <3>1, <3>2, <3>5, <3>6, <4>1, LinkIs
    <3>7. CASE MainPosition(u, u.node[mp].key) # mp
      <4>1. w.node = Relocate(u, mp, f, k, v)
        BY <3>3, <3>5, <3>7
      <4> QED
        BY <1>2, <1>3, <1>4, <1>5, <2>2, <3>1, <3>2, <3>5, <3>7, <4>1, RelocateMoves
    <3> QED
      BY <3>6, <3>7
  <2> QED
    BY <2>1, <2>2
<1>7. KeysLive(w, live)
  <2> SUFFICES ASSUME NEW i \in DOMAIN w.node
               PROVE  IF w.node[i].dead THEN w.node[i].key \in Collectable
                      ELSE w.node[i].key \in IntKey \cup live \cup {Nil}
    BY DEF KeysLive
  <2>1. CASE Same(w.node[i], NewNode(k, v, 0))
    <3>1. w.node[i].key = k /\ w.node[i].dead = FALSE
      BY <2>1 DEF Same, NewNode
    <3> QED
      BY <3>1
  <2>2. CASE \E j \in DOMAIN u.node : Same(w.node[i], u.node[j])
    BY <2>2 DEF Same, HashInv, KeysLive
  <2> QED
    BY <1>6, <2>1, <2>2 DEF Inserted
<1> QED
  BY <1>1, <1>6, <1>7 DEF HashInv

-----------------------------------------------------------------------------
(***************************************************************************)
(* What a step does to the map.                                            *)
(***************************************************************************)
\* Nodes that differ in their values alone are on the same chains.
Alike(u, w) ==
    /\ DOMAIN w.node = DOMAIN u.node
    /\ \A i \in DOMAIN u.node : /\ w.node[i].key = u.node[i].key
                                /\ w.node[i].dead = u.node[i].dead
                                /\ w.node[i].next = u.node[i].next
\* The invariant of the hash part is about the rest.
LEMMA AlikeChained ==
  ASSUME KeyAssumption, NEW u, TableInv(u), NEW c, NEW r, Chained(u, c, r), NEW w, Alike(u, w)
  PROVE  Chained(w, c, r)
<1>1. /\ DOMAIN w.node = DOMAIN u.node
      /\ \A i \in DOMAIN u.node : /\ w.node[i].key = u.node[i].key
                                  /\ w.node[i].dead = u.node[i].dead
                                  /\ w.node[i].next = u.node[i].next
  BY DEF Alike
<1>2. \A k : MainPosition(w, k) = MainPosition(u, k)
  BY <1>1, MainPositionSame
<1>3. Linked(w, c, r)
  BY SMTT(60), <1>1 DEF Chained, Linked
<1>4. ASSUME NEW i \in DOMAIN u.node, w.node[i].key # Nil PROVE HomeOK(w, c, r, i)
  <2>1. u.node[i].key = w.node[i].key /\ u.node[i].key # Nil
    BY <1>1, <1>4
  <2>2. PICK m \in DOMAIN u.node :
          /\ m = MainPosition(u, u.node[i].key) /\ On(c, r, m, i)
          /\ u.node[m].key # Nil /\ MainPosition(u, u.node[m].key) = m
    BY <2>1, HomeIs
  <2>3. w.node[m].key = u.node[m].key
    BY <1>1
  <2>4. MainPosition(w, w.node[i].key) = m /\ MainPosition(w, w.node[m].key) = m
    BY <1>2, <2>1, <2>2, <2>3
  <2> QED
    BY <2>2, <2>3, <2>4 DEF HomeOK
<1>5. ASSUME NEW i \in DOMAIN u.node, w.node[i].key # Nil, ~w.node[i].dead
      PROVE  FirstOK(w, c, r, w.node[i].key, i)
  <2>1. FirstOK(u, c, r, u.node[i].key, i)
    BY <1>1, <1>5 DEF Chained, Firsts
  <2> QED
    BY <1>1, <1>2, <2>1 DEF FirstOK, EqualKey
<1> QED
  BY <1>1, <1>3, <1>4, <1>5 DEF Chained, Homes, Firsts

\* A node has the key and the value.
Holds(u, x, y) == \E i \in DOMAIN u.node : u.node[i].key = x /\ u.node[i].val = y
\* A key that is not in the array part has the value that a node gives it.
LEMMA GetHolds ==
  ASSUME KeyAssumption, NEW u, TableInv(u), NEW c, NEW r, Chained(u, c, r),
         NEW x \in Key, ~InArray(u, x), NEW y, y # Nil
  PROVE  Get(u, x) = y <=> Holds(u, x, y)
<1>1. \A i \in DOMAIN u.node : u.node[i].key = x /\ u.node[i].val # Nil => Get(u, x) = u.node[i].val
  BY GetHash
<1>2. (\A i \in DOMAIN u.node : u.node[i].key = x => u.node[i].val = Nil) => Get(u, x) = Nil
  BY GetHash
<1> QED
  BY <1>1, <1>2 DEF Holds

\* The same for two tables: what they hold for a key decides.
LEMMA GetSame ==
  ASSUME KeyAssumption, NEW u, TableInv(u), NEW c, NEW r, Chained(u, c, r),
         NEW w, TableInv(w), NEW d, NEW s, Chained(w, d, s),
         NEW x \in Key, ~InArray(u, x), ~InArray(w, x),
         \A y \in Value : Holds(w, x, y) <=> Holds(u, x, y)
  PROVE  Get(w, x) = Get(u, x)
<1>1. \A y : y # Nil => (Get(u, x) = y <=> Holds(u, x, y))
  BY GetHolds
<1>2. \A y : y # Nil => (Get(w, x) = y <=> Holds(w, x, y))
  BY GetHolds
<1>3. ASSUME NEW y, y # Nil, Holds(u, x, y) \/ Holds(w, x, y) PROVE y \in Value
  <2>1. \A i \in DOMAIN u.node : u.node[i] \in NodeType
    BY TypeIs DEF TableInv
  <2>2. \A i \in DOMAIN w.node : w.node[i] \in NodeType
    BY TypeIs DEF TableInv
  <2> QED
    BY <1>3, <2>1, <2>2 DEF Holds, NodeType
<1>4. \A y : y # Nil => (Get(u, x) = y <=> Get(w, x) = y)
  BY <1>1, <1>2, <1>3
<1> QED
  BY <1>4

\* The rest of the invariant of the hash part.
LEMMA AlikeHash ==
  ASSUME KeyAssumption, NEW u, TableInv(u), NEW live, HashInv(u, live),
         NEW w, Alike(u, w), w.lastfree = u.lastfree
  PROVE  HashInv(w, live)
<1>1. PICK c, r : Chained(u, c, r)
  BY DEF HashInv
<1>2. Chained(w, c, r)
  BY <1>1, AlikeChained
<1>3. KeysLive(w, live)
  BY DEF Alike, HashInv, KeysLive
<1>4. NoneMissed(w)
  BY DEF Alike, HashInv, NoneMissed
<1> QED
  BY <1>2, <1>3, <1>4 DEF HashInv

\* What setting a key is: the other keys keep their values, and it has its own.
Sets(u, w, k, v) == \A x \in Key : Get(w, x) = IF x = k THEN v ELSE Get(u, x)
\* Nothing happens to the nodes but that one may have the key and the value now.
Changed(u, w, k, v) ==
    /\ DOMAIN w.node = DOMAIN u.node
    /\ \A i \in DOMAIN w.node : \/ w.node[i].key = k /\ w.node[i].val = v
                                \/ \E j \in DOMAIN u.node : Same(w.node[i], u.node[j])
\* In the array part.
LEMMA SetArrayIs ==
  ASSUME KeyAssumption, use \in Uses, NEW u, TableInv(u), NEW live, HashInv(u, live),
         NEW k \in use.keys, InArray(u, k), NEW v \in Value \cup {Nil},
         NEW w, w = SetInPlace(u, k, v)
  PROVE  HashInv(w, live) /\ Changed(u, w, k, v) /\ Sets(u, w, k, v) /\ Alike(u, w)
<1>1. k \in Key /\ (k \in Collectable \/ k \in Nat \ {0})
  BY UseIs, KeysAre DEF UseOK
<1>2. k \in 1..Len(u.array) /\ DOMAIN u.array = 1..Len(u.array) /\ Len(u.array) \in Nat
  BY <1>1, InArrayExactly, TypeIs DEF TableInv
<1>3. PICK a : a = Touch(u, k)
  OBVIOUS
<1>4. /\ a.array = u.array /\ a.node = u.node /\ a.lastfree = u.lastfree
      /\ TableInv(a)
  <2>1. a.array = u.array /\ a.node = u.node /\ TableInv(a)
    BY <1>1, <1>3, TouchInv
  <2>2. a.lastfree = u.lastfree
    BY <1>3 DEF Touch, TableInv, TableType
  <2> QED
    BY <2>1, <2>2
<1>5. w = [a EXCEPT !.array[k] = v]
  BY <1>3 DEF SetInPlace
<1>6. /\ w.array = [u.array EXCEPT ![k] = v] /\ w.node = u.node /\ w.lastfree = u.lastfree
  BY <1>4, <1>5 DEF TableInv, TableType
<1>7. TableInv(w) /\ Len(w.array) = Len(u.array)
  BY SetInPlaceInv
<1>8. HashInv(w, live)
  <2>1. Alike(u, w)
    BY <1>6 DEF Alike
  <2> QED
    BY <1>6, <2>1, AlikeHash
<1>9. ASSUME NEW x \in Key PROVE Get(w, x) = IF x = k THEN v ELSE Get(u, x)
  <2>1. InArray(w, x) <=> InArray(u, x)
    BY <1>7, InArrayExactly
  <2>2. CASE InArray(u, x)
    <3>1. x \in 1..Len(u.array) /\ Get(u, x) = u.array[x] /\ Get(w, x) = w.array[x]
      BY <1>7, <2>1, <2>2, InArrayExactly
    <3> QED
      BY <1>2, <1>6, <3>1
  <2>3. CASE ~InArray(u, x)
    <3>1. PICK c, r : Chained(u, c, r)
      BY DEF HashInv
    <3>2. PICK d, s : Chained(w, d, s)
      BY <1>8 DEF HashInv
    <3>3. \A y \in Value : Holds(w, x, y) <=> Holds(u, x, y)
      BY <1>6 DEF Holds
    <3>4. Get(w, x) = Get(u, x)
      BY <1>7, <2>1, <2>3, <3>1, <3>2, <3>3, GetSame
    <3> QED
      BY <2>3, <3>4
  <2> QED
    BY <2>2, <2>3
<1>10. Changed(u, w, k, v)
  BY <1>6 DEF Changed, Same
<1>11. Alike(u, w)
  BY <1>6 DEF Alike
<1> QED
  BY <1>8, <1>9, <1>10, <1>11 DEF Sets

\* In the node that has the key.
LEMMA SetNodeIs ==
  ASSUME KeyAssumption, use \in Uses, NEW u, TableInv(u), NEW live, HashInv(u, live),
         NEW k \in use.keys, ~InArray(u, k), Found(u, k) # {}, NEW v \in Value \cup {Nil},
         NEW w, w = SetInPlace(u, k, v)
  PROVE  HashInv(w, live) /\ Changed(u, w, k, v) /\ Sets(u, w, k, v) /\ Alike(u, w)
<1>1. k \in Key /\ (k \in Collectable \/ k \in Nat) /\ (k \in Collectable \/ k \in Nat \ {0}) /\ k # Nil
  BY UseIs, KeysAre DEF UseOK
<1>2. PICK i : i = CHOOSE j \in Found(u, k) : TRUE
  OBVIOUS
<1>3. i \in Found(u, k)
  BY <1>2
<1>4. i \in DOMAIN u.node /\ u.node[i].key = k /\ ~u.node[i].dead
  BY <1>1, <1>3, FoundIs DEF TableInv
<1>5. w = [u EXCEPT !.node[i].val = v]
  <2>1. Touch(u, k) = u
    BY <1>1, TouchInv
  <2> QED
    BY <1>2, <2>1 DEF SetInPlace
<1>6. \A j \in DOMAIN u.node : u.node[j] \in NodeType
  BY TypeIs DEF TableInv
<1>7. /\ DOMAIN w.node = DOMAIN u.node /\ w.lastfree = u.lastfree
      /\ \A j \in DOMAIN u.node : w.node[j] = IF j = i THEN [u.node[i] EXCEPT !.val = v] ELSE u.node[j]
  <2>1. PICK n : n = [u.node[i] EXCEPT !.val = v]
    OBVIOUS
  <2>2. PICK h : h = [u.node EXCEPT ![i] = n]
    OBVIOUS
  <2>3. w = [u EXCEPT !.node = h]
    BY <1>5, <2>1, <2>2
  <2>4. w.node = h /\ w.lastfree = u.lastfree
    BY <2>3 DEF TableInv, TableType
  <2>5. DOMAIN h = DOMAIN u.node /\ \A j \in DOMAIN u.node : h[j] = IF j = i THEN n ELSE u.node[j]
    BY <1>4, <1>6, <2>2
  <2> QED
    BY <2>1, <2>4, <2>5
<1>8. ASSUME NEW j \in DOMAIN u.node
      PROVE  /\ w.node[j].key = u.node[j].key /\ w.node[j].dead = u.node[j].dead
             /\ w.node[j].next = u.node[j].next
             /\ w.node[j].val = IF j = i THEN v ELSE u.node[j].val
  BY <1>6, <1>7 DEF NodeType
<1>9. TableInv(w) /\ Len(w.array) = Len(u.array) /\ w.array = u.array
  <2>1. w.array = u.array
    BY <1>5 DEF TableInv, TableType
  <2> QED
    BY <2>1, SetInPlaceInv
<1>10. HashInv(w, live)
  <2>1. Alike(u, w)
    BY <1>7, <1>8 DEF Alike
  <2> QED
    BY <1>7, <2>1, AlikeHash
<1>11. PICK c, r : Chained(u, c, r)
  BY DEF HashInv
<1>12. PICK d, s : Chained(w, d, s)
  BY <1>10 DEF HashInv
<1>13. ASSUME NEW x \in Key PROVE Get(w, x) = IF x = k THEN v ELSE Get(u, x)
  <2>1. InArray(w, x) <=> InArray(u, x)
    BY <1>9, InArrayExactly
  <2>2. CASE InArray(u, x)
    <3>1. Get(u, x) = u.array[x] /\ Get(w, x) = w.array[x]
      BY <1>9, <2>1, <2>2, InArrayExactly
    <3>2. x # k
      BY <2>2
    <3> QED
      BY <1>9, <3>1, <3>2
  <2>3. CASE ~InArray(u, x) /\ x # k
    <3>1. \A y \in Value : Holds(w, x, y) <=> Holds(u, x, y)
      BY <1>4, <1>7, <1>8, <2>3 DEF Holds
    <3>2. Get(w, x) = Get(u, x)
      BY <1>9, <1>11, <1>12, <2>1, <2>3, <3>1, GetSame
    <3> QED
      BY <2>3, <3>2
  <2>4. CASE x = k /\ v # Nil
    <3>1. Holds(w, k, v)
      BY <1>4, <1>7, <1>8 DEF Holds
    <3>2. ~InArray(w, k)
      BY <2>1, <2>4
    <3>3. Get(w, k) = v
      BY <1>1, <1>9, <1>12, <2>4, <3>1, <3>2, GetHolds
    <3> QED
      BY <2>4, <3>3
  <2>5. CASE x = k /\ v = Nil
    <3>1. ASSUME NEW j \in DOMAIN w.node, w.node[j].key = k PROVE w.node[j].val = Nil
      <4>1. j \in DOMAIN u.node /\ u.node[j].key = k
        BY <1>7, <1>8, <3>1
      <4>2. CASE u.node[j].dead
        <5>1. u.node[j].val = Nil
          BY <4>1, <4>2 DEF TableInv, KeysOK
        <5> QED
          BY <1>8, <2>5, <4>1, <5>1
      <4>3. CASE ~u.node[j].dead
        <5>1. j = i
          BY <1>1, <1>4, <1>11, <4>1, <4>3, OneNode
        <5> QED
          BY <1>8, <2>5, <4>1, <5>1
      <4> QED
        BY <4>2, <4>3
    <3>2. ~InArray(w, k)
      BY <2>1, <2>5
    <3>3. Get(w, k) = Nil
      BY <1>1, <1>9, <1>12, <3>1, <3>2, GetHash
    <3> QED
      BY <2>5, <3>3
  <2> QED
    BY <2>2, <2>3, <2>4, <2>5
<1>14. Changed(u, w, k, v)
  BY <1>4, <1>7, <1>8 DEF Changed, Same
<1>15. Alike(u, w)
  BY <1>7, <1>8 DEF Alike
<1> QED
  BY <1>10, <1>13, <1>14, <1>15 DEF Sets

\* A key that is not found is not there.
LEMMA NotFound ==
  ASSUME KeyAssumption, NEW u, TableInv(u), NEW c, NEW r, Chained(u, c, r),
         NEW k \in Key, Found(u, k) = {}
  PROVE  Absent(u, k)
<1> SUFFICES ASSUME NEW i \in DOMAIN u.node, u.node[i].key = k, ~u.node[i].dead PROVE FALSE
  BY DEF Absent
<1>1. Found(u, k) = {i}
  BY FoundExactly
<1>2. i \in {i}
  OBVIOUS
<1> QED
  BY <1>1, <1>2

\* In a node that is new to the key.
LEMMA SetNewIs ==
  ASSUME KeyAssumption, use \in Uses, NEW u, TableInv(u), NEW live, HashInv(u, live),
         NEW k \in use.keys, k \in IntKey \cup live, ~InArray(u, k), Found(u, k) = {},
         NEW v \in Value, HasRoom(u, k), NEW w, w = SetInPlace(u, k, v)
  PROVE  HashInv(w, live) /\ Changed(u, w, k, v) /\ Sets(u, w, k, v)
<1>1. k \in Key /\ (k \in Collectable \/ k \in Nat) /\ (k \in Collectable \/ k \in Nat \ {0}) /\ k # Nil
      /\ v # Nil
  BY UseIs, KeysAre DEF UseOK
<1>2. PICK c, r : Chained(u, c, r)
  BY DEF HashInv
<1>3. Absent(u, k)
  BY <1>1, <1>2, NotFound
<1>4. k \in IntKey => k > Len(u.array)
  <2>1. Len(u.array) \in Nat
    BY TypeIs DEF TableInv
  <2> QED
    BY <1>1, <2>1, InArrayExactly, KeysAre
<1>5. w = NewKey(u, k, v)
  BY <1>1 DEF SetInPlace
<1>6. TableInv(w) /\ w.array = u.array /\ HashInv(w, live) /\ Inserted(u, w, k, v)
  BY <1>3, <1>4, <1>5, NewKeyIs
<1>7. PICK d, s : Chained(w, d, s)
  BY <1>6 DEF HashInv
<1>8. ASSUME NEW x \in Key PROVE Get(w, x) = IF x = k THEN v ELSE Get(u, x)
  <2>1. InArray(w, x) <=> InArray(u, x)
    BY <1>6, InArrayExactly
  <2>2. CASE InArray(u, x)
    <3>1. Get(u, x) = u.array[x] /\ Get(w, x) = w.array[x]
      BY <1>6, <2>1, <2>2, InArrayExactly
    <3>2. x # k
      BY <2>2
    <3> QED
      BY <1>6, <3>1, <3>2
  <2>3. CASE ~InArray(u, x) /\ x # k
    <3>1. ASSUME NEW y \in Value PROVE Holds(w, x, y) <=> Holds(u, x, y)
      <4>1. ASSUME NEW i \in DOMAIN w.node, w.node[i].key = x, w.node[i].val = y PROVE Holds(u, x, y)
        <5>1. ~Same(w.node[i], NewNode(k, v, 0))
          BY <2>3, <4>1 DEF Same, NewNode
        <5>2. PICK j \in DOMAIN u.node : Same(w.node[i], u.node[j])
          BY <1>6, <5>1 DEF Inserted
        <5> QED
          BY <4>1, <5>2 DEF Same, Holds
      <4>2. ASSUME NEW j \in DOMAIN u.node, u.node[j].key = x, u.node[j].val = y PROVE Holds(w, x, y)
        <5>1. y # Nil
          BY UseIs DEF UseOK
        <5>2. PICK i \in DOMAIN w.node : Same(w.node[i], u.node[j])
          BY <1>6, <4>2, <5>1 DEF Inserted
        <5> QED
          BY <4>2, <5>2 DEF Same, Holds
      <4> QED
        BY <4>1, <4>2 DEF Holds
    <3>2. Get(w, x) = Get(u, x)
      BY <1>2, <1>6, <1>7, <2>1, <2>3, <3>1, GetSame
    <3> QED
      BY <2>3, <3>2
  <2>4. CASE x = k
    <3>1. Holds(w, k, v)
      BY <1>6 DEF Inserted, Same, NewNode, Holds
    <3>2. ~InArray(w, k)
      BY <2>1, <2>4
    <3>3. Get(w, k) = v
      BY <1>1, <1>6, <1>7, <3>1, <3>2, GetHolds
    <3> QED
      BY <2>4, <3>3
  <2> QED
    BY <2>2, <2>3, <2>4
<1>9. Changed(u, w, k, v)
  BY <1>6 DEF Inserted, Changed, Same, NewNode
<1> QED
  BY <1>6, <1>8, <1>9 DEF Sets

\* luaH_set: the key has the value when it had a place or gets one.
LEMMA SetInPlaceIs ==
  ASSUME KeyAssumption, use \in Uses, NEW u, TableInv(u), NEW live, HashInv(u, live),
         NEW k \in use.keys, k \in IntKey \cup live, NEW v \in Value \cup {Nil},
         NEW w, w = SetInPlace(u, k, v), NeedsNewKey(u, k, v) => HasRoom(u, k)
  PROVE  /\ TableInv(w) /\ Len(w.array) = Len(u.array)
         /\ HashInv(w, live) /\ Changed(u, w, k, v) /\ Sets(u, w, k, v)
         /\ ~NeedsNewKey(u, k, v) => Alike(u, w)
<1>1. TableInv(w) /\ Len(w.array) = Len(u.array)
  BY SetInPlaceInv
<1>2. CASE InArray(u, k)
  BY <1>1, <1>2, SetArrayIs
<1>3. CASE ~InArray(u, k) /\ Found(u, k) # {}
  BY <1>1, <1>3, SetNodeIs
<1>4. CASE ~InArray(u, k) /\ Found(u, k) = {} /\ v # Nil
  <2>1. v \in Value /\ HasRoom(u, k)
    BY <1>4 DEF NeedsNewKey
  <2> QED
    BY <1>1, <1>4, <2>1, SetNewIs DEF NeedsNewKey
<1>5. CASE ~InArray(u, k) /\ Found(u, k) = {} /\ v = Nil
  <2>1. k \in Key
    BY UseIs DEF UseOK
  <2>2. PICK c, r : Chained(u, c, r)
    BY DEF HashInv
  <2>3. w = u
    BY <1>5 DEF SetInPlace
  <2>4. Get(u, k) = Nil
    <3>1. ASSUME NEW i \in DOMAIN u.node, u.node[i].key = k PROVE u.node[i].val = Nil
      <4>1. u.node[i].dead
        BY <1>5, <2>1, <2>2, <3>1, NotFound DEF Absent
      <4> QED
        BY <4>1 DEF TableInv, KeysOK
    <3> QED
      BY <1>5, <2>1, <2>2, <3>1, GetHash
  <2>5. Changed(u, w, k, v)
    BY <2>3 DEF Changed, Same
  <2> QED
    BY <1>1, <1>5, <2>3, <2>4, <2>5 DEF Sets, Alike
<1> QED
  BY <1>2, <1>3, <1>4, <1>5

-----------------------------------------------------------------------------
(***************************************************************************)
(* Growing: the new parts have room for everything that moves.             *)
(***************************************************************************)
\* A node vector that is being filled with keys of a set.
Filling(u, due) ==
    \A i \in DOMAIN u.node :
        u.node[i].key # Nil => u.node[i].key \in due /\ u.node[i].val # Nil

\* It has room for each of them while there are no more than nodes.
LEMMA RoomIs ==
  ASSUME KeyAssumption, NEW u, TableInv(u), NEW live, HashInv(u, live),
         NEW due, IsFiniteSet(due), Cardinality(due) <= SizeNode(u), Filling(u, due),
         NEW k \in due, k \in Key, Absent(u, k)
  PROVE  HasRoom(u, k)
<1>1. PICK n \in Nat : n = SizeNode(u) /\ DOMAIN u.node = 0..(n - 1) /\ (IsDummy(u) <=> n = 0)
  BY SizeIs DEF TableInv
<1>2. IsFiniteSet(due \ {k}) /\ Cardinality(due \ {k}) = Cardinality(due) - 1 /\ Cardinality(due) \in Nat
  BY FS_RemoveElement, FS_CardinalityType
<1>3. Cardinality(due \ {k}) \in Nat
  BY <1>2, FS_CardinalityType
<1>4. n # 0
  BY <1>1, <1>2, <1>3
<1>5. PICK c, r : Chained(u, c, r)
  BY DEF HashInv
<1>6. ASSUME \A i \in DOMAIN u.node : u.node[i].key # Nil PROVE FALSE
  <2> DEFINE f == [i \in DOMAIN u.node |-> u.node[i].key]
  <2>1. ASSUME NEW i \in DOMAIN u.node PROVE f[i] \in due \ {k} /\ ~u.node[i].dead
    <3>1. u.node[i].key \in due /\ u.node[i].val # Nil
      BY <1>6 DEF Filling
    <3>2. ~u.node[i].dead
      BY <3>1 DEF TableInv, KeysOK
    <3> QED
      BY <3>1, <3>2 DEF Absent
  <2>2. ASSUME NEW i \in DOMAIN u.node, NEW j \in DOMAIN u.node, f[i] = f[j] PROVE i = j
    BY <1>5, <1>6, <2>1, <2>2, OneNode
  <2>3. f \in Injection(DOMAIN u.node, due \ {k})
    BY <2>1, <2>2 DEF Injection, IsInjective
  <2>4. Cardinality(DOMAIN u.node) <= Cardinality(due \ {k})
    BY <1>2, <2>3, FS_Injection
  <2> QED
    BY <1>1, <1>2, <2>4 DEF SizeNode
<1>7. FreeBelow(u) # {}
  <2>1. PICK i \in DOMAIN u.node : u.node[i].key = Nil
    BY <1>6
  <2>2. u.lastfree \in Nat /\ i \in Nat
    BY <1>1, TypeIs DEF TableInv
  <2>3. i < u.lastfree
    BY <2>1, <2>2 DEF HashInv, NoneMissed
  <2> QED
    BY <2>1, <2>3 DEF FreeBelow
<1> QED
  BY <1>1, <1>4, <1>7 DEF HasRoom

\* A node vector without keys.
LEMMA NewTableIs ==
  ASSUME KeyAssumption, NEW a, NEW size \in Nat, size <= Pow2[Bits],
         NEW w, w = NewTable(a, size), TableInv(w), NEW live, NEW due
  PROVE  HashInv(w, live) /\ Filling(w, due) /\ SizeNode(w) >= size
<1>1. w.node = NodeVector(size) /\ w.lastfree = Cardinality(DOMAIN NodeVector(size))
  BY DEF NewTable
<1>2. PICK n \in Nat : n >= size /\ NodeVector(size) = [i \in 0..(n - 1) |-> FreeNode]
  <2>1. CASE size = 0
    <3>1. 0..(0 - 1) = {}
      OBVIOUS
    <3>2. NodeVector(size) = [i \in 0..(0 - 1) |-> FreeNode]
      BY <2>1, <3>1 DEF NodeVector
    <3>3. 0 \in Nat /\ 0 >= size
      BY <2>1
    <3> QED
      BY <3>2, <3>3, Zenon
  <2>2. CASE size # 0
    <3> DEFINE A == {p \in PowersOf2 : p >= size}
    <3>1. A \subseteq Nat /\ A # {}
      BY PowersBounded, PowersType
    <3>2. Min(A) \in A /\ Min(A) \in Nat
      BY <3>1, MinOf
    <3>3. NodeVector(size) = [i \in 0..(Min(A) - 1) |-> FreeNode]
      BY <2>2 DEF NodeVector
    <3> QED
      BY <3>2, <3>3
  <2> QED
    BY <2>1, <2>2
<1>3. /\ DOMAIN w.node = 0..(n - 1)
      /\ \A i \in DOMAIN w.node : /\ w.node[i].key = Nil /\ w.node[i].dead = FALSE
                                  /\ w.node[i].val = Nil /\ w.node[i].next = 0
  <2>1. DOMAIN w.node = 0..(n - 1) /\ \A i \in DOMAIN w.node : w.node[i] = FreeNode
    BY <1>1, <1>2
  <2> QED
    BY <2>1 DEF FreeNode
<1>4. SizeNode(w) = n /\ w.lastfree = n
  <2>1. Cardinality(0..(n - 1)) = n
    BY FS_Interval
  <2> QED
    BY <1>1, <1>3, <2>1 DEF SizeNode
<1> DEFINE c == [i \in DOMAIN w.node |-> i]
           r == [i \in DOMAIN w.node |-> 0]
<1>5. Chained(w, c, r)
  <2>1. \A i \in DOMAIN w.node : c[i] = i /\ r[i] = 0
    OBVIOUS
  <2>2. c \in [DOMAIN w.node -> DOMAIN w.node] /\ r \in [DOMAIN w.node -> Nat]
    OBVIOUS
  <2> HIDE DEF c, r
  <2> QED
    BY <1>3, <2>1, <2>2 DEF Chained, Linked, Homes, Firsts
<1>6. KeysLive(w, live) /\ Filling(w, due)
  BY <1>3 DEF KeysLive, Filling
<1>7. NoneMissed(w)
  BY <1>3, <1>4 DEF NoneMissed
<1> HIDE DEF c, r
<1> QED
  BY <1>2, <1>4, <1>5, <1>6, <1>7 DEF HashInv

\* A table that is being filled: it has len array slots, and nodes for the keys in due.
Ready(u, live, len, due) ==
    /\ TableInv(u) /\ HashInv(u, live)
    /\ Len(u.array) = len /\ Cardinality(due) <= SizeNode(u) /\ Filling(u, due)
\* An entry without value, or one that the map G has and for which there is a place.
Movable(G, live, len, due, e) ==
    e[2] # Nil => /\ e[1] \in IntKey \cup live /\ G[e[1]] = e[2]
                  /\ e[1] \in 1..len \/ e[1] \in due
\* Setting a key for which there is a place.
LEMMA SetReady ==
  ASSUME KeyAssumption, use \in Uses, NEW len \in Nat, NEW due, IsFiniteSet(due),
         NEW live, NEW u, Ready(u, live, len, due), NEW k \in use.keys, k \in IntKey \cup live,
         k \in 1..len \/ k \in due, NEW v \in Value \cup {Nil}, NEW w, w = SetInPlace(u, k, v)
  PROVE  /\ TableInv(w) /\ HashInv(w, live) /\ Sets(u, w, k, v)
         /\ v # Nil => Ready(w, live, len, due)
<1>1. k \in Key
  BY UseIs DEF UseOK
<1>2. TableInv(u) /\ HashInv(u, live) /\ Len(u.array) = len /\ Cardinality(due) <= SizeNode(u)
      /\ Filling(u, due)
  BY DEF Ready
<1>3. ~InArray(u, k) => k \in due
  <2>1. k \in 1..len => k \in IntKey
    BY <1>1, KeyAssumption DEF Key, Collectable
  <2> QED
    BY <1>1, <1>2, <2>1, InArrayExactly
<1>4. NeedsNewKey(u, k, v) => HasRoom(u, k)
  <2> SUFFICES ASSUME NeedsNewKey(u, k, v) PROVE HasRoom(u, k)
    OBVIOUS
  <2>1. ~InArray(u, k) /\ Found(u, k) = {}
    BY DEF NeedsNewKey
  <2>2. PICK c, r : Chained(u, c, r)
    BY <1>2 DEF HashInv
  <2>3. Absent(u, k)
    BY <1>1, <1>2, <2>1, <2>2, NotFound
  <2> QED
    BY <1>1, <1>2, <1>3, <2>1, <2>3, RoomIs
<1>5. /\ TableInv(w) /\ Len(w.array) = Len(u.array)
      /\ HashInv(w, live) /\ Changed(u, w, k, v) /\ Sets(u, w, k, v)
  BY <1>2, <1>4, SetInPlaceIs
<1>6. SizeNode(w) = SizeNode(u)
  BY <1>5 DEF Changed, SizeNode
<1>7. ASSUME v # Nil PROVE Filling(w, due)
  <2> SUFFICES ASSUME NEW i \in DOMAIN w.node, w.node[i].key # Nil
               PROVE  w.node[i].key \in due /\ w.node[i].val # Nil
    BY DEF Filling
  <2>1. CASE w.node[i].key = k /\ w.node[i].val = v
    <3>1. k \in IntKey => k > Len(w.array)
      BY <1>5, <1>7, <2>1 DEF TableInv, ShadowOK
    <3>2. ~InArray(u, k)
      BY <1>1, <1>2, <1>5, <3>1, InArrayExactly, KeysAre
    <3> QED
      BY <1>3, <1>7, <2>1, <3>2
  <2>2. CASE \E j \in DOMAIN u.node : Same(w.node[i], u.node[j])
    BY <1>2, <2>2 DEF Filling, Same
  <2> QED
    BY <1>5, <2>1, <2>2 DEF Changed
<1> QED
  BY <1>2, <1>5, <1>6, <1>7 DEF Ready

\* What moving an entry of G changes.
MovesOne(u, w, G, e) ==
    \A x \in Key : Get(w, x) = IF e[1] = x /\ e[2] # Nil THEN G[x] ELSE Get(u, x)
\* reinsert of such an entry.
LEMMA ReinsertIs ==
  ASSUME KeyAssumption, use \in Uses, NEW len \in Nat, NEW due, IsFiniteSet(due), NEW G,
         NEW live, NEW u, Ready(u, live, len, due), NEW e \in MovedEntry,
         Movable(G, live, len, due, e), NEW w, w = Reinsert(u, e)
  PROVE  Ready(w, live, len, due) /\ MovesOne(u, w, G, e)
<1>1. CASE e[2] = Nil
  BY <1>1 DEF Reinsert, MovesOne
<1>2. CASE e[2] # Nil
  <2>1. PICK k \in use.keys : k = e[1]
    BY <1>2 DEF MovedEntry
  <2>2. PICK v \in Value \cup {Nil} : v = e[2]
    BY DEF MovedEntry
  <2>3. w = SetInPlace(u, k, v)
    BY <1>2, <2>1, <2>2 DEF Reinsert
  <2>4. /\ k \in IntKey \cup live /\ G[k] = v /\ v # Nil
        /\ k \in 1..len \/ k \in due
    BY <1>2, <2>1, <2>2 DEF Movable
  <2>5. Ready(w, live, len, due) /\ Sets(u, w, k, v)
    BY <2>3, <2>4, SetReady
  <2> QED
    BY <1>2, <2>1, <2>2, <2>4, <2>5 DEF Sets, MovesOne
<1> QED
  BY <1>1, <1>2

\* What a table has of a map when n entries are moved.
Moves(table, w, G, entries, n) ==
    \A x \in Key :
        Get(w, x) = IF \E i \in 1..n : entries[i][1] = x /\ entries[i][2] # Nil
                    THEN G[x] ELSE Get(table, x)
\* All entries, one after the other.
LEMMA ReinsertAllMoves ==
  ASSUME KeyAssumption, use \in Uses, NEW len \in Nat, NEW due, IsFiniteSet(due), NEW G,
         NEW live, NEW table, Ready(table, live, len, due),
         NEW entries \in Seq(MovedEntry), NEW m \in Nat, m = Len(entries),
         \A i \in 1..m : Movable(G, live, len, due, entries[i]),
         NEW w, w = ReinsertAll(table, entries)
  PROVE  Ready(w, live, len, due) /\ Moves(table, w, G, entries, m)
<1>1. PICK g : IsReinsertion(g, table, entries, m) /\ w = g[m]
  BY ReinsertAllIs
<1>2. \A n \in 1..m : entries[n] \in MovedEntry
  BY ElementOfSeq
<1> DEFINE S == {n \in Nat : n <= m => Ready(g[n], live, len, due) /\ Moves(table, g[n], G, entries, n)}
<1>3. 0 \in S
  <2>1. g[0] = table
    BY <1>1 DEF IsReinsertion
  <2>2. Moves(table, table, G, entries, 0)
    BY DEF Moves
  <2> QED
    BY <2>1, <2>2
<1>4. ASSUME NEW n \in Nat, n \in S PROVE n + 1 \in S
  <2> SUFFICES ASSUME n + 1 <= m
               PROVE  Ready(g[n + 1], live, len, due) /\ Moves(table, g[n + 1], G, entries, n + 1)
    OBVIOUS
  <2>1. g[n + 1] = Reinsert(g[n], entries[n + 1])
    <3>1. n + 1 \in 0..m /\ n + 1 # 0 /\ (n + 1) - 1 = n
      OBVIOUS
    <3> QED
      BY <1>1, <3>1 DEF IsReinsertion
  <2>2. Ready(g[n], live, len, due) /\ Moves(table, g[n], G, entries, n)
    BY <1>4
  <2>3. PICK u : u = g[n]
    OBVIOUS
  <2>4. PICK z : z = g[n + 1]
    OBVIOUS
  <2>5. PICK e \in MovedEntry : e = entries[n + 1] /\ Movable(G, live, len, due, e)
    BY <1>2
  <2>6. Ready(z, live, len, due) /\ MovesOne(u, z, G, e)
    <3>1. z = Reinsert(u, e)
      BY <2>1, <2>3, <2>4, <2>5
    <3>2. Ready(u, live, len, due)
      BY <2>2, <2>3
    <3>3. Movable(G, live, len, due, e)
      BY <2>5
    <3> HIDE DEF S
    <3> QED
      BY <3>1, <3>2, <3>3, ReinsertIs
  <2>7. Moves(table, z, G, entries, n + 1)
    <3> SUFFICES ASSUME NEW x \in Key
                 PROVE  Get(z, x) = IF \E i \in 1..(n + 1) : entries[i][1] = x /\ entries[i][2] # Nil
                                    THEN G[x] ELSE Get(table, x)
      BY DEF Moves
    <3>1. Get(u, x) = IF \E i \in 1..n : entries[i][1] = x /\ entries[i][2] # Nil
                      THEN G[x] ELSE Get(table, x)
      BY <2>2, <2>3 DEF Moves
    <3>2. 1..(n + 1) = 1..n \cup {n + 1}
      OBVIOUS
    <3>3. (\E i \in 1..(n + 1) : entries[i][1] = x /\ entries[i][2] # Nil)
             <=> \/ \E i \in 1..n : entries[i][1] = x /\ entries[i][2] # Nil
                 \/ e[1] = x /\ e[2] # Nil
      BY <2>5, <3>2
    <3> QED
      BY <2>6, <3>1, <3>3 DEF MovesOne
  <2> QED
    BY <2>4, <2>6, <2>7
<1> HIDE DEF S
<1>5. m \in S
  BY <1>3, <1>4, Induction
<1> QED
  BY <1>1, <1>5 DEF S

\* The entries that luaH_resize moves, one by one.
MovedAre(u, asize, entries, cut, s) ==
    /\ Len(entries) = cut + s
    /\ cut = IF asize < Len(u.array) THEN Len(u.array) - asize ELSE 0
    /\ DOMAIN u.node = 0..(s - 1)
    /\ \A i \in 1..cut : entries[i] = <<asize + i, u.array[asize + i]>>
    /\ \A i \in 1..s : entries[cut + i] = <<u.node[i - 1].key, u.node[i - 1].val>>
\* They are what Moved says.
LEMMA MovedExactly ==
  ASSUME KeyAssumption, use \in Uses, NEW u, TableInv(u), NEW asize \in Nat,
         NEW entries, entries = Moved(u, asize)
  PROVE  \E cut, s \in Nat : MovedAre(u, asize, entries, cut, s)
<1>1. PICK len \in Nat : len = Len(u.array)
  BY TypeIs DEF TableInv
<1>2. PICK s \in Nat : s = SizeNode(u) /\ DOMAIN u.node = 0..(s - 1)
  BY SizeIs DEF TableInv
<1>3. PICK cut \in Nat : /\ cut = Vanishing(u, asize)
                         /\ cut = IF asize < len THEN len - asize ELSE 0
  <2>1. Len(u.array) \in Int /\ asize + 1 \in Int
    BY <1>1
  <2>2. Cardinality((asize + 1)..Len(u.array))
          = IF asize + 1 > Len(u.array) THEN 0 ELSE Len(u.array) - (asize + 1) + 1
    BY <2>1, FS_Interval
  <2> QED
    BY <1>1, <2>2 DEF Vanishing
<1> DEFINE slice == [i \in 1..Vanishing(u, asize) |-> <<asize + i, u.array[asize + i]>>]
           nodes == [i \in 1..SizeNode(u) |-> <<u.node[i - 1].key, u.node[i - 1].val>>]
           Entries == {slice[i] : i \in 1..cut} \cup {nodes[i] : i \in 1..s}
<1>4. entries = slice \o nodes
  BY DEF Moved, VanishingSlice
<1>5. DOMAIN slice = 1..cut /\ \A i \in 1..cut : slice[i] = <<asize + i, u.array[asize + i]>>
  BY <1>3
<1>6. DOMAIN nodes = 1..s /\ \A i \in 1..s : nodes[i] = <<u.node[i - 1].key, u.node[i - 1].val>>
  BY <1>2
<1>7. slice = [i \in DOMAIN slice |-> slice[i]] /\ nodes = [i \in DOMAIN nodes |-> nodes[i]]
  OBVIOUS
<1> HIDE DEF slice, nodes
<1>8. slice \in Seq(Entries) /\ nodes \in Seq(Entries)
  <2>1. slice \in [1..cut -> Entries] /\ nodes \in [1..s -> Entries]
    BY <1>5, <1>6, <1>7
  <2> HIDE DEF Entries
  <2> QED
    BY <2>1, FunctionSeq
<1> HIDE DEF Entries
<1>9. Len(slice) = cut /\ Len(nodes) = s
  <2>1. Len(slice) \in Nat /\ 1..Len(slice) = 1..cut /\ Len(nodes) \in Nat /\ 1..Len(nodes) = 1..s
    BY <1>5, <1>6, <1>8, LenProperties
  <2> QED
    BY <2>1
<1>10. /\ Len(entries) = cut + s
       /\ \A i \in 1..(cut + s) : entries[i] = IF i <= cut THEN slice[i] ELSE nodes[i - cut]
  <2>1. Len(slice \o nodes) = Len(slice) + Len(nodes)
    BY <1>8, ConcatProperties
  <2>2. \A i \in 1..(Len(slice) + Len(nodes)) :
           (slice \o nodes)[i] = IF i <= Len(slice) THEN slice[i] ELSE nodes[i - Len(slice)]
    BY <1>8, ConcatProperties
  <2>3. PICK both : both = slice \o nodes
    OBVIOUS
  <2> QED
    BY <1>4, <1>9, <2>1, <2>2, <2>3
<1>11. ASSUME NEW i \in 1..cut PROVE entries[i] = <<asize + i, u.array[asize + i]>>
  BY <1>5, <1>10
<1>12. ASSUME NEW i \in 1..s PROVE entries[cut + i] = <<u.node[i - 1].key, u.node[i - 1].val>>
  <2>1. cut + i \in 1..(cut + s) /\ ~(cut + i <= cut) /\ (cut + i) - cut = i
    OBVIOUS
  <2>2. entries[cut + i] = nodes[i]
    BY <1>10, <2>1
  <2> QED
    BY <1>6, <2>2
<1>13. MovedAre(u, asize, entries, cut, s)
  BY <1>1, <1>2, <1>3, <1>10, <1>11, <1>12 DEF MovedAre
<1> QED
  BY <1>13

\* Each is an entry of the map, and they are all that is not in the array part that stays.
MovesMap(u, live, asize, entries, m) ==
    /\ \A i \in 1..m : entries[i][2] # Nil =>
          /\ entries[i][1] \in Key /\ entries[i][1] \in IntKey \cup live
          /\ entries[i][1] \in ArrayKeys(u) \cup HashKeys(u)
          /\ Get(u, entries[i][1]) = entries[i][2]
    /\ \A x \in Key : Get(u, x) # Nil =>
          \/ x \in 1..asize /\ x \in 1..Len(u.array)
          \/ \E i \in 1..m : entries[i][1] = x /\ entries[i][2] # Nil
\* Of a well-formed table.
LEMMA MovedMap ==
  ASSUME KeyAssumption, use \in Uses, NEW live, NEW u, TableInv(u), HashInv(u, live),
         NEW asize \in Nat, NEW entries, entries = Moved(u, asize), NEW m \in Nat, m = Len(entries)
  PROVE  MovesMap(u, live, asize, entries, m)
<1>1. PICK cut \in Nat, s \in Nat : MovedAre(u, asize, entries, cut, s)
  BY MovedExactly
<1>2. PICK len \in Nat : len = Len(u.array) /\ DOMAIN u.array = 1..len
  BY TypeIs DEF TableInv
<1>3. m = cut + s /\ cut = (IF asize < len THEN len - asize ELSE 0) /\ DOMAIN u.node = 0..(s - 1)
  BY <1>1, <1>2 DEF MovedAre
<1>4. PICK c, r : Chained(u, c, r)
  BY DEF HashInv
<1>5. ASSUME NEW i \in 1..m, entries[i][2] # Nil
      PROVE  /\ entries[i][1] \in Key /\ entries[i][1] \in IntKey \cup live
             /\ entries[i][1] \in ArrayKeys(u) \cup HashKeys(u)
             /\ Get(u, entries[i][1]) = entries[i][2]
  <2>1. CASE i \in 1..cut
    <3>1. PICK x \in Nat : x = asize + i /\ x \in 1..len
      BY <1>3, <2>1
    <3>2. entries[i] = <<x, u.array[x]>>
      BY <1>1, <2>1, <3>1 DEF MovedAre
    <3>3. entries[i][1] = x /\ entries[i][2] = u.array[x] /\ u.array[x] # Nil
      BY <1>5, <3>2
    <3>4. x \in use.keys /\ x \in Key
      BY <1>2, <3>1, <3>3, UseIs DEF TableInv, KeysOK, UseOK
    <3>5. x \in IntKey
      BY <3>4, UseIs DEF Key, UseOK
    <3>6. Get(u, x) = u.array[x]
      BY <1>2, <3>1, <3>4, <3>5, InArrayExactly
    <3>7. x \in ArrayKeys(u)
      BY <1>2, <3>1, <3>3 DEF ArrayKeys
    <3> QED
      BY <3>3, <3>4, <3>5, <3>6, <3>7
  <2>2. CASE i \notin 1..cut
    <3>1. PICK j \in 1..s : i = cut + j
      <4>1. i - cut \in 1..s /\ i = cut + (i - cut)
        BY <1>3, <2>2
      <4> QED
        BY <4>1
    <3>2. PICK n \in DOMAIN u.node : n = j - 1
      BY <1>3
    <3>3. entries[i] = <<u.node[n].key, u.node[n].val>>
      BY <1>1, <3>1, <3>2 DEF MovedAre
    <3>4. entries[i][1] = u.node[n].key /\ entries[i][2] = u.node[n].val /\ u.node[n].val # Nil
      BY <1>5, <3>3
    <3>5. u.node[n].key \in use.keys /\ u.node[n].key \in Key /\ ~u.node[n].dead /\ u.node[n].key # Nil
      BY <3>4, UseIs DEF TableInv, KeysOK, UseOK
    <3>6. u.node[n].key \in IntKey \cup live
      BY <3>5 DEF HashInv, KeysLive
    <3>7. ~InArray(u, u.node[n].key)
      BY SMTT(60), <1>2, <3>4, <3>5, InArrayExactly, KeysAre DEF TableInv, ShadowOK
    <3>8. Get(u, u.node[n].key) = u.node[n].val
      BY <1>4, <3>4, <3>5, <3>7, GetHash
    <3>9. u.node[n].key \in HashKeys(u)
      BY <3>4 DEF HashKeys
    <3> QED
      BY <3>4, <3>5, <3>6, <3>8, <3>9
  <2> QED
    BY <2>1, <2>2
<1>6. ASSUME NEW x \in Key, Get(u, x) # Nil, ~(x \in 1..asize /\ x \in 1..Len(u.array))
      PROVE  \E i \in 1..m : entries[i][1] = x /\ entries[i][2] # Nil
  <2>1. CASE InArray(u, x)
    <3>1. x \in 1..len /\ Get(u, x) = u.array[x]
      BY <1>2, <2>1, InArrayExactly
    <3>2. PICK i \in 1..cut : x = asize + i
      <4>1. x - asize \in 1..cut /\ x = asize + (x - asize)
        BY SMTT(60), <1>2, <1>3, <1>6, <3>1
      <4> QED
        BY <4>1
    <3>3. entries[i] = <<x, u.array[x]>> /\ i \in 1..m
      BY <1>1, <1>3, <3>2 DEF MovedAre
    <3>4. entries[i][1] = x /\ entries[i][2] # Nil
      BY <1>6, <3>1, <3>3
    <3> QED
      BY <3>3, <3>4
  <2>2. CASE ~InArray(u, x)
    <3>1. PICK n \in DOMAIN u.node : u.node[n].key = x /\ u.node[n].val # Nil
      BY <1>4, <1>6, <2>2, GetHash
    <3>2. PICK j \in 1..s : n = j - 1
      <4>1. n + 1 \in 1..s /\ n = (n + 1) - 1
        BY <1>3
      <4> QED
        BY <4>1
    <3>3. PICK i \in 1..m : i = cut + j
      <4>1. cut + j \in 1..m
        BY <1>3
      <4> QED
        BY <4>1
    <3>4. entries[i] = <<u.node[n].key, u.node[n].val>>
      BY <1>1, <3>2, <3>3 DEF MovedAre
    <3>5. entries[i][1] = x /\ entries[i][2] # Nil
      BY <3>1, <3>4
    <3> QED
      BY <3>5
  <2> QED
    BY <2>1, <2>2
<1> QED
  BY <1>5, <1>6 DEF MovesMap

\* luaH_resize leaves the map alone when the node vector has room for the keys that are
\* not in the array part any more.
LEMMA ResizedIs ==
  ASSUME KeyAssumption, use \in Uses, NEW live, NEW u, TableInv(u), HashInv(u, live),
         NEW asize \in Nat, NEW hsize \in Nat, hsize <= Pow2[Bits],
         NEW due, IsFiniteSet(due), Cardinality(due) <= hsize,
         \A x \in ArrayKeys(u) \cup HashKeys(u) : x \in 1..asize \/ x \in due,
         NEW w, w = Resized(u, asize, hsize)
  PROVE  Ready(w, live, asize, due) /\ \A x \in Key : Get(w, x) = Get(u, x)
<1>1. PICK len \in Nat : len = Len(u.array)
  BY TypeIs DEF TableInv
<1>2. PICK a : a = [i \in 1..asize |-> IF i <= len THEN u.array[i] ELSE Nil]
  OBVIOUS
<1>3. a \in [1..asize -> Value \cup {Nil}]
  <2>1. \A i \in 1..asize : i <= len => u.array[i] \in Value \cup {Nil}
    BY <1>1, TypeIs DEF TableInv
  <2> QED
    BY <1>2, <2>1
<1>4. a \in Seq(Value \cup {Nil}) /\ Len(a) = asize
  <2>1. a \in Seq(Value \cup {Nil})
    BY <1>3, FunctionSeq
  <2>2. DOMAIN a = 1..asize /\ DOMAIN a = 1..Len(a) /\ Len(a) \in Nat
    BY <1>3, <2>1, LenProperties
  <2> QED
    BY <2>1, <2>2
<1>5. \A i \in 1..Len(a) : a[i] # Nil => i \in use.keys
  BY <1>1, <1>2, <1>4 DEF TableInv, KeysOK
<1>6. PICK fresh : fresh = NewTable(a, hsize)
  OBVIOUS
<1>7. TableInv(fresh) /\ fresh.array = a
  BY <1>4, <1>5, <1>6, NewTableInv
<1>8. /\ HashInv(fresh, live) /\ Filling(fresh, due) /\ Filling(fresh, {})
      /\ SizeNode(fresh) >= hsize
  BY <1>6, <1>7, NewTableIs
<1>9. Ready(fresh, live, asize, due)
  <2>1. Cardinality(due) \in Nat /\ SizeNode(fresh) \in Nat
    BY <1>7, FS_CardinalityType, SizeIs DEF TableInv
  <2> QED
    BY <1>4, <1>7, <1>8, <2>1 DEF Ready
<1>10. PICK entries : entries = Moved(u, asize)
  OBVIOUS
<1>11. entries \in Seq(MovedEntry)
  BY <1>10, MovedIs
<1>12. PICK m \in Nat : m = Len(entries)
  BY <1>11, LenProperties
<1>13. PICK G : G = [x \in Key |-> Get(u, x)]
  OBVIOUS
<1>14. MovesMap(u, live, asize, entries, m)
  BY <1>10, <1>12, MovedMap
<1>15. \A i \in 1..m : Movable(G, live, asize, due, entries[i])
  BY <1>13, <1>14 DEF Movable, MovesMap
<1>16. w = ReinsertAll(fresh, entries)
  BY <1>1, <1>2, <1>6, <1>10 DEF Resized
<1>17. Ready(w, live, asize, due) /\ Moves(fresh, w, G, entries, m)
  BY <1>9, <1>11, <1>12, <1>15, <1>16, ReinsertAllMoves
<1>18. PICK c, r : Chained(fresh, c, r)
  BY <1>8 DEF HashInv
<1>19. ASSUME NEW x \in Key
       PROVE  Get(fresh, x) = IF x \in 1..asize /\ x \in 1..len THEN u.array[x] ELSE Nil
  <2>1. CASE InArray(fresh, x)
    <3>1. x \in 1..asize /\ Get(fresh, x) = a[x]
      BY <1>4, <1>7, <2>1, InArrayExactly
    <3> QED
      BY <1>2, <3>1
  <2>2. CASE ~InArray(fresh, x)
    <3>1. x \notin 1..asize
      <4>1. x \in 1..asize => x \in IntKey
        BY KeyAssumption DEF Key, Collectable
      <4> QED
        BY <1>4, <1>7, <2>2, <4>1, InArrayExactly
    <3>2. \A i \in DOMAIN fresh.node : fresh.node[i].key = x => fresh.node[i].val = Nil
      BY <1>8, KeysAre DEF Filling
    <3>3. Get(fresh, x) = Nil
      BY <1>7, <1>18, <2>2, <3>2, GetHash
    <3> QED
      BY <3>1, <3>3
  <2> QED
    BY <2>1, <2>2
<1>20. ASSUME NEW x \in Key PROVE Get(w, x) = Get(u, x)
  <2>1. x \in 1..len => Get(u, x) = u.array[x]
    <3>1. x \in 1..len => x \in IntKey
      BY KeyAssumption DEF Key, Collectable
    <3> QED
      BY <1>1, <3>1, InArrayExactly
  <2>2. CASE \E i \in 1..m : entries[i][1] = x /\ entries[i][2] # Nil
    BY <1>13, <1>17, <2>2 DEF Moves
  <2>3. CASE ~\E i \in 1..m : entries[i][1] = x /\ entries[i][2] # Nil
    <3>1. Get(w, x) = Get(fresh, x)
      BY <1>17, <2>3 DEF Moves
    <3>2. Get(u, x) # Nil => x \in 1..asize /\ x \in 1..len
      BY <1>1, <1>14, <2>3 DEF MovesMap
    <3> QED
      BY <1>19, <2>1, <3>1, <3>2
  <2> QED
    BY <2>2, <2>3
<1> QED
  BY <1>17, <1>20

\* There is a place for a key.
HasPlace(u, live, k) ==
    \E len \in Nat : \E due :
        IsFiniteSet(due) /\ Ready(u, live, len, due) /\ (k \in 1..len \/ k \in due)
\* rehash leaves the map alone, and it makes a place for the key to come.
LEMMA RehashIs ==
  ASSUME KeyAssumption, use \in Uses, NEW live, NEW u, TableInv(u), HashInv(u, live),
         NEW k \in use.keys, NEW w, w = Rehash(u, k)
  PROVE  HasPlace(w, live, k) /\ \A x \in Key : Get(w, x) = Get(u, x)
<1> DEFINE keys  == ArrayKeys(u) \cup HashKeys(u) \cup {k}
           ints  == {i \in keys \cap IntKey : i <= MAXASIZE}
           sizes == {0} \cup {p \in PowersOf2 : Cardinality({i \in ints : i <= p}) > p \div 2}
           asize == ArraySize(ints)
           slots == {i \in ints : i <= asize}
           hsize == Cardinality(keys) - Cardinality(slots)
           due == keys \ slots
<1>1. keys \subseteq use.keys
  <2>1. ArrayKeys(u) \subseteq use.keys
    BY TypeIs DEF ArrayKeys, TableInv, KeysOK
  <2>2. HashKeys(u) \subseteq use.keys
    BY DEF HashKeys, TableInv, KeysOK
  <2> QED
    BY <2>1, <2>2
<1>2. asize \in Nat
  <2>1. Pow2[Bits] \in Nat /\ sizes \subseteq 0..Pow2[Bits] /\ sizes # {}
    <3>1. Pow2[Bits] \in Nat
      BY Pow2Def DEF KeyAssumption
    <3> QED
      BY <3>1, PowersBounded
  <2>2. asize = Max(sizes)
    BY DEF ArraySize
  <2> HIDE DEF sizes
  <2>3. Max(sizes) \in sizes
    BY <2>1, MaxOf
  <2>4. \A x \in sizes : x \in Nat
    BY <2>1
  <2> QED
    BY <2>2, <2>3, <2>4
<1>3. w = Resized(u, asize, hsize)
  BY DEF Rehash, Sizes
<1> HIDE DEF asize
<1>4. slots \subseteq keys /\ slots \subseteq 1..asize
  <2>1. slots \subseteq keys
    OBVIOUS
  <2>2. ASSUME NEW i \in slots PROVE i \in 1..asize
    <3>1. i \in IntKey /\ i <= asize
      OBVIOUS
    <3>2. i \in Nat /\ i # 0
      BY <3>1, KeyAssumption
    <3> HIDE DEF slots
    <3> QED
      BY <1>2, <3>1, <3>2
  <2> QED
    BY <2>1, <2>2
<1> HIDE DEF slots, ints
<1>5. ArrayKeys(u) \cup HashKeys(u) \subseteq keys /\ k \in keys
  OBVIOUS
<1> HIDE DEF keys
<1>6. /\ IsFiniteSet(due) /\ Cardinality(due) = hsize /\ hsize \in Nat /\ hsize <= Pow2[Bits]
  <2>1. IsFiniteSet(use.keys) /\ Cardinality(use.keys) <= Pow2[Bits] /\ Pow2[Bits] \in Nat
    BY UseIs, Pow2Def DEF UseOK
  <2>2. IsFiniteSet(keys) /\ Cardinality(keys) <= Cardinality(use.keys)
    BY <1>1, <2>1, FS_Subset
  <2>3. IsFiniteSet(slots)
    BY <1>4, <2>2, FS_Subset
  <2>4. IsFiniteSet(due) /\ Cardinality(due) = Cardinality(keys) - Cardinality(keys \cap slots)
    BY <2>2, <2>3, FS_Difference
  <2>5. keys \cap slots = slots
    BY <1>4
  <2>6. /\ Cardinality(use.keys) \in Nat /\ Cardinality(keys) \in Nat
        /\ Cardinality(slots) \in Nat /\ Cardinality(due) \in Nat
    BY <2>1, <2>2, <2>3, <2>4, FS_CardinalityType
  <2>7. Cardinality(due) = hsize
    BY <2>4, <2>5
  <2>8. hsize \in Int /\ hsize <= Cardinality(keys)
    BY <2>6
  <2>9. hsize \in Nat
    BY <2>6, <2>7
  <2> HIDE DEF hsize, due
  <2>10. hsize <= Pow2[Bits]
    BY <2>1, <2>2, <2>6, <2>8
  <2> QED
    BY <2>4, <2>7, <2>9, <2>10
<1>7. \A x \in ArrayKeys(u) \cup HashKeys(u) \cup {k} : x \in 1..asize \/ x \in due
  BY <1>4, <1>5
<1> HIDE DEF due, hsize
<1>8. Ready(w, live, asize, due) /\ \A x \in Key : Get(w, x) = Get(u, x)
  BY <1>2, <1>3, <1>6, <1>7, ResizedIs
<1>9. HasPlace(w, live, k)
  BY <1>2, <1>6, <1>7, <1>8 DEF HasPlace
<1> QED
  BY <1>8, <1>9

-----------------------------------------------------------------------------
(***************************************************************************)
(* The steps of the table's users and of the collector.                    *)
(***************************************************************************)
\* A table with the same parts has the same map, wherever its limit is.
LEMMA PartsSame ==
  ASSUME KeyAssumption, NEW live, NEW u, TableInv(u), HashInv(u, live), NEW w, TableInv(w),
         w.array = u.array, w.node = u.node
  PROVE  \A x \in Key : Get(w, x) = Get(u, x)
<1> SUFFICES ASSUME NEW x \in Key PROVE Get(w, x) = Get(u, x)
  OBVIOUS
<1>1. PICK c, r : Chained(u, c, r)
  BY DEF HashInv
<1>2. Chained(w, c, r)
  <2>1. Alike(u, w)
    BY DEF Alike
  <2> QED
    BY <1>1, <2>1, AlikeChained
<1>3. InArray(w, x) <=> InArray(u, x)
  BY InArrayExactly
<1>4. CASE InArray(u, x)
  BY <1>3, <1>4, InArrayExactly
<1>5. CASE ~InArray(u, x)
  <2>1. \A y \in Value : Holds(w, x, y) <=> Holds(u, x, y)
    BY DEF Holds
  <2> QED
    BY <1>1, <1>2, <1>3, <1>5, <2>1, GetSame
<1> QED
  BY <1>4, <1>5

\* luaH_getn leaves the parts alone.
LEMMA GetnParts ==
  ASSUME NEW u, TableInv(u)
  PROVE  /\ Getn(u)[2].array = u.array /\ Getn(u)[2].node = u.node
         /\ Getn(u)[2].lastfree = u.lastfree
<1>1. \A l : /\ SetHint(u, l).array = u.array /\ SetHint(u, l).node = u.node
              /\ SetHint(u, l).lastfree = u.lastfree
  BY DEF SetHint, TableInv, TableType
<1>2. \A l : /\ [u EXCEPT !.alimit = l].array = u.array /\ [u EXCEPT !.alimit = l].node = u.node
              /\ [u EXCEPT !.alimit = l].lastfree = u.lastfree
  BY DEF TableInv, TableType
<1>3. \/ GetnBefore(u)[2] = u
      \/ \E l : GetnBefore(u)[2] = SetHint(u, l)
  BY DEF GetnBefore
<1>4. GetnHash(u)[2] = u
  BY DEF GetnHash
<1>5. \/ GetnAfter(u)[2] = u
      \/ \E l : GetnAfter(u)[2] = [u EXCEPT !.alimit = l]
  BY <1>4 DEF GetnAfter
<1> QED
  BY ZenonT(60), <1>1, <1>2, <1>3, <1>4, <1>5 DEF Getn

\* A key with a value needs no new node.
LEMMA HasValue ==
  ASSUME KeyAssumption, NEW live, NEW u, TableInv(u), HashInv(u, live),
         NEW k \in Key, NEW v, Get(u, k) # Nil \/ v = Nil
  PROVE  ~NeedsNewKey(u, k, v)
<1> SUFFICES ASSUME NeedsNewKey(u, k, v) PROVE FALSE
  OBVIOUS
<1>1. ~InArray(u, k) /\ Found(u, k) = {} /\ Get(u, k) # Nil
  BY DEF NeedsNewKey
<1>2. PICK c, r : Chained(u, c, r)
  BY DEF HashInv
<1>3. Absent(u, k)
  BY <1>1, <1>2, NotFound
<1>4. \A i \in DOMAIN u.node : u.node[i].key = k => u.node[i].val = Nil
  BY <1>3 DEF Absent, TableInv, KeysOK
<1> QED
  BY <1>1, <1>2, <1>4, GetHash

\* A table whose limit is moved to the end of its array part.
LEMMA LimitToSizeIs ==
  ASSUME NEW live, NEW u, TableInv(u), HashInv(u, live), NEW w, w = SetLimitToSize(u)
  PROVE  TableInv(w) /\ HashInv(w, live) /\ \A x \in Key : Get(w, x) = Get(u, x)
<1>1. TableInv(w) /\ w.array = u.array /\ w.node = u.node
  BY LimitToSizeInv
<1>2. w.lastfree = u.lastfree
  BY DEF SetLimitToSize, TableInv, TableType
<1>3. HashInv(w, live)
  <2>1. Alike(u, w)
    BY <1>1 DEF Alike
  <2> QED
    BY <1>2, <2>1, KeyAssumption, AlikeHash
<1> QED
  BY <1>1, <1>3, KeyAssumption, PartsSame

\* t[k] = v, with a rehash and without one: k has the value and no other key changes.
LEMMA AssignedIs ==
  ASSUME KeyAssumption, use \in Uses, NEW live, NEW o, TableInv(o), HashInv(o, live),
         NEW k \in use.keys, k \in IntKey \cup live, NEW v \in Value \cup {Nil},
         NEW y, y = Assigned(o, k, v)
  PROVE  /\ TableInv(y) /\ HashInv(y, live) /\ Sets(o, y, k, v)
         /\ Get(o, k) # Nil \/ v = Nil => Alike(o, y) /\ Len(y.array) = Len(o.array)
<1>1. k \in Key
  BY UseIs DEF UseOK
<1>2. CASE Grows(o, k, v)
  <2>1. PICK u : u = SetLimitToSize(o)
    OBVIOUS
  <2>2. TableInv(u) /\ HashInv(u, live) /\ \A x \in Key : Get(u, x) = Get(o, x)
    BY <1>1, <2>1, LimitToSizeIs
  <2>3. PICK w : w = Rehash(u, k)
    OBVIOUS
  <2>4. \A x \in Key : Get(w, x) = Get(u, x)
    BY <1>1, <2>2, <2>3, KeyAssumption, RehashIs
  <2>5. HasPlace(w, live, k)
    BY <1>1, <2>2, <2>3, KeyAssumption, RehashIs
  <2>6. PICK z : z = SetInPlace(w, k, v)
    OBVIOUS
  <2>7. z = y
    BY <1>2, <2>1, <2>3, <2>6 DEF Assigned
  <2>8. TableInv(z) /\ HashInv(z, live) /\ Sets(w, z, k, v)
    <3>1. PICK len \in Nat : \E due :
              IsFiniteSet(due) /\ Ready(w, live, len, due) /\ (k \in 1..len \/ k \in due)
      BY <2>5 DEF HasPlace
    <3>2. PICK due : IsFiniteSet(due) /\ Ready(w, live, len, due) /\ (k \in 1..len \/ k \in due)
      BY <3>1
    <3> QED
      BY <1>1, <2>6, <3>2, KeyAssumption, SetReady
  <2>9. Sets(o, z, k, v)
    BY <2>2, <2>4, <2>8 DEF Sets
  <2>10. ~(Get(o, k) # Nil \/ v = Nil)
    BY <1>1, <1>2, KeyAssumption, HasValue DEF Grows
  <2> QED
    BY <1>1, <2>7, <2>8, <2>9, <2>10
<1>3. CASE ~Grows(o, k, v)
  <2>1. PICK z : z = SetInPlace(o, k, v)
    OBVIOUS
  <2>2. z = y
    BY <1>3, <2>1 DEF Assigned
  <2>3. NeedsNewKey(o, k, v) => HasRoom(o, k)
    BY <1>3 DEF Grows
  <2>4. /\ TableInv(z) /\ Len(z.array) = Len(o.array) /\ HashInv(z, live) /\ Sets(o, z, k, v)
        /\ ~NeedsNewKey(o, k, v) => Alike(o, z)
    <3>1. PICK u : u = o
      OBVIOUS
    <3> QED
      BY <1>1, <2>1, <2>3, <3>1, KeyAssumption, SetInPlaceIs
  <2>5. Get(o, k) # Nil \/ v = Nil => ~NeedsNewKey(o, k, v)
    BY <1>1, KeyAssumption, HasValue
  <2> QED
    BY <1>1, <2>2, <2>4, <2>5
<1> QED
  BY <1>2, <1>3

\* The action.
LEMMA PutIs ==
  ASSUME IInv, HashInv(t, alive), NEW k, NEW v, Put(k, v)
  PROVE  /\ k \in Key /\ v \in Value \cup {Nil}
         /\ TableInv(t') /\ HashInv(t', alive) /\ Sets(t, t', k, v)
         /\ Get(t, k) # Nil \/ v = Nil => Alike(t, t') /\ Len(t'.array) = Len(t.array)
<1>1. /\ k \in use.keys /\ k \in IntKey \cup alive /\ v \in use.values \cup {Nil}
      /\ use \in Uses /\ TableInv(t) /\ t' = Assigned(t, k, v)
  BY DEF Put, IInv
<1>2. v \in Value \cup {Nil} /\ k \in Key
  BY <1>1, KeyAssumption, UseIs DEF UseOK
<1> QED
  BY <1>1, <1>2, KeyAssumption, AssignedIs

\* A rehash that fails: every node has had a key, so that none is missed by a 'lastfree'
\* that has gone down to 0.
LEMMA FailedKeeps ==
  ASSUME KeyAssumption, use \in Uses, NEW live, NEW o, TableInv(o), HashInv(o, live),
         NEW k \in use.keys, ~HasRoom(o, k), NEW w \in RehashFails(BeforeResize(o), k)
  PROVE  /\ TableInv(w) /\ HashInv(w, live) /\ w.array = o.array /\ w.node = o.node
         /\ \A x \in Key : Get(w, x) = Get(o, x)
<1>1. k \in Key
  BY UseIs DEF UseOK
<1>2. TableInv(w) /\ w.array = o.array /\ w.node = o.node /\ w.lastfree = 0
  BY FailedIs
<1>3. ASSUME NEW i \in DOMAIN o.node PROVE o.node[i].key # Nil
  <2>1. ~IsDummy(o) /\ i \in Nat /\ o.lastfree \in Nat
    BY SizeIs, TypeIs DEF TableInv
  <2>2. FreeBelow(o) = {}
    BY <2>1 DEF HasRoom
  <2>3. NoneMissed(o)
    BY DEF HashInv
  <2> QED
    BY <2>1, <2>2, <2>3 DEF FreeBelow, NoneMissed
<1>4. HashInv(w, live)
  <2>1. PICK c, r : Chained(o, c, r)
    BY DEF HashInv
  <2>2. Alike(o, w)
    BY <1>2 DEF Alike
  <2>3. Chained(w, c, r)
    BY <2>1, <2>2, AlikeChained
  <2>4. KeysLive(w, live) /\ NoneMissed(w)
    BY <1>2, <1>3 DEF HashInv, KeysLive, NoneMissed
  <2> QED
    BY <2>3, <2>4 DEF HashInv
<1>5. \A x \in Key : Get(w, x) = Get(o, x)
  BY <1>2, PartsSame
<1> QED
  BY <1>2, <1>4, <1>5

\* The action.
LEMMA PutFailsIs ==
  ASSUME IInv, HashInv(t, alive), NEW k, NEW v, PutFails(k, v)
  PROVE  /\ TableInv(t') /\ HashInv(t', alive) /\ t'.array = t.array /\ t'.node = t.node
         /\ \A x \in Key : Get(t', x) = Get(t, x)
<1>1. /\ k \in use.keys /\ use \in Uses /\ TableInv(t) /\ ~HasRoom(t, k)
      /\ t' \in RehashFails(BeforeResize(t), k)
  BY DEF PutFails, IInv, Grows
<1>2. PICK w : w = t'
  OBVIOUS
<1>3. /\ TableInv(w) /\ HashInv(w, alive) /\ w.array = t.array /\ w.node = t.node
      /\ \A x \in Key : Get(w, x) = Get(t, x)
  BY <1>1, <1>2, KeyAssumption, FailedKeeps
<1> QED
  BY <1>2, <1>3

-----------------------------------------------------------------------------
(***************************************************************************)
(* The traversal: next() finds its key, and what it has returned are the   *)
(* entries up to there.                                                    *)
(***************************************************************************)
\* Keys that exist have addresses of their own.
AddrOK == \A a, b \in alive : Addr[a] = Addr[b] => a = b
\* Where next() finds a key.
NextNodes(u, k) == Nodes(u, k, TRUE)
\* Key k is at index p of the traversal; its entry may have died.
InArrayPartOf(u, k) == k \in IntKey /\ k <= Len(u.array)
At(u, live, k, p) ==
    \/ k = Nil /\ p = 0
    \/ InArrayPartOf(u, k) /\ p = k
    \/ /\ k \in IntKey \cup live /\ ~InArrayPartOf(u, k)
       /\ \E i \in DOMAIN u.node : /\ p = Len(u.array) + i + 1
                                   /\ u.node[i].key = k /\ NextNodes(u, k) = {i}
\* The keys up to there, of those that have values, have been returned.
Passed(u, p, seen) ==
    /\ \A j \in 1..Len(u.array) : u.array[j] # Nil => (j \in seen <=> j <= p)
    /\ \A i \in DOMAIN u.node : u.node[i].val # Nil =>
           (u.node[i].key \in seen <=> Len(u.array) + i + 1 <= p)
\* A traversal has a place, and it has returned the entries before it.
TravOK ==
    Traversing => Nil \notin visited /\ \E p \in Nat : At(t, alive, cursor, p) /\ Passed(t, p, visited)
\* The inductive invariant.
ChainInv == IInv /\ HashInv(t, alive) /\ AddrOK /\ TravOK

\* findindex finds the key.
LEMMA AtIs ==
  ASSUME KeyAssumption, NEW u, TableInv(u), NEW live, live \subseteq Collectable,
         NEW k, NEW p, At(u, live, k, p)
  PROVE  FindIndex(u, k) = {p}
<1>1. RealSize(u) = Len(u.array)
  BY RealSizeIs DEF TableInv
<1>2. Nil \notin IntKey \cup live
  BY KeyAssumption DEF Collectable
<1>3. CASE k = Nil /\ p = 0
  BY <1>3 DEF FindIndex
<1>4. CASE InArrayPartOf(u, k) /\ p = k
  BY <1>1, <1>2, <1>4 DEF FindIndex, InArrayPartOf
<1>5. CASE /\ k \in IntKey \cup live /\ ~InArrayPartOf(u, k)
           /\ \E i \in DOMAIN u.node : /\ p = Len(u.array) + i + 1
                                       /\ u.node[i].key = k /\ NextNodes(u, k) = {i}
  <2>1. PICK i \in DOMAIN u.node : p = Len(u.array) + i + 1 /\ NextNodes(u, k) = {i}
    BY <1>5
  <2>2. FindIndex(u, k) = {RealSize(u) + n + 1 : n \in NextNodes(u, k)}
    BY <1>1, <1>2, <1>5 DEF FindIndex, InArrayPartOf, NextNodes
  <2>3. {RealSize(u) + n + 1 : n \in {i}} = {RealSize(u) + i + 1}
    OBVIOUS
  <2> QED
    BY <1>1, <2>1, <2>2, <2>3
<1> QED
  BY <1>3, <1>4, <1>5 DEF At

\* The nodes that next() can take for a key are the same.
SameSearch(u, w, k) ==
    \A j \in DOMAIN u.node : EqualKey(k, w.node[j], TRUE) <=> EqualKey(k, u.node[j], TRUE)
\* A search ends at the same node when it can take the same nodes for the key.
LEMMA NodesSame ==
  ASSUME KeyAssumption, NEW u, TableInv(u), NEW c, NEW r, Chained(u, c, r),
         NEW w, TableInv(w), Chained(w, c, r), DOMAIN w.node = DOMAIN u.node,
         NEW k, k \in Collectable \/ k \in Nat,
         SameSearch(u, w, k), NEW i \in DOMAIN u.node, NextNodes(u, k) = {i}
  PROVE  NextNodes(w, k) = {i}
<1>1. ~IsDummy(u) /\ ~IsDummy(w)
  <2>1. DOMAIN u.node # {} /\ DOMAIN w.node # {}
    OBVIOUS
  <2>2. ASSUME NEW x, TableInv(x), DOMAIN x.node # {} PROVE ~IsDummy(x)
    <3>1. SizeNode(x) \in Nat /\ DOMAIN x.node = 0..(SizeNode(x) - 1) /\ (IsDummy(x) <=> SizeNode(x) = 0)
      BY <2>2, SizeIs DEF TableInv
    <3>2. 0..(0 - 1) = {}
      OBVIOUS
    <3> QED
      BY <2>2, <3>1, <3>2
  <2> QED
    BY <2>1, <2>2
<1>2. Linked(u, c, r) /\ Linked(w, c, r) /\ TableType(u) /\ TableType(w)
  BY DEF Chained, TableInv
<1>3. i \in NextNodes(u, k)
  OBVIOUS
<1>4. Hit(u, c, r, k, TRUE, i)
  BY <1>1, <1>2, <1>3, NodesAre DEF NextNodes
<1>5. MainPosition(w, k) = MainPosition(u, k)
  BY MainPositionSame
<1>6. Hit(w, c, r, k, TRUE, i)
  BY <1>4, <1>5 DEF Hit, SameSearch
<1>7. PICK b : b = TRUE
  OBVIOUS
<1>8. \A x : Hit(w, c, r, k, b, x) => Nodes(w, k, b) = {x}
  BY <1>1, <1>2, NodesAre
<1> QED
  BY <1>6, <1>7, <1>8 DEF NextNodes

\* Entries may have lost their values.
ValuedKept(u, w) ==
    /\ \A j \in 1..Len(w.array) : w.array[j] # Nil => u.array[j] # Nil
    /\ \A i \in DOMAIN w.node : w.node[i].val # Nil => u.node[i].val # Nil
\* The traversal goes on.
LEMMA TravKept ==
  ASSUME KeyAssumption, NEW u, TableInv(u), NEW c, NEW r, Chained(u, c, r),
         NEW w, TableInv(w), Chained(w, c, r), Len(w.array) = Len(u.array),
         DOMAIN w.node = DOMAIN u.node,
         \A i \in DOMAIN u.node : w.node[i].key = u.node[i].key, ValuedKept(u, w),
         NEW live, live \subseteq Collectable, NEW k, NEW p, NEW seen,
         At(u, live, k, p), Passed(u, p, seen),
         k \in IntKey \cup live => SameSearch(u, w, k)
  PROVE  At(w, live, k, p) /\ Passed(w, p, seen)
<1>1. Passed(w, p, seen)
  BY DEF Passed, ValuedKept
<1>2. InArrayPartOf(w, k) <=> InArrayPartOf(u, k)
  BY DEF InArrayPartOf
<1>3. CASE k \in IntKey \cup live /\ ~InArrayPartOf(u, k)
  <2>1. Nil \notin IntKey \cup live
    BY KeyAssumption DEF Collectable
  <2>2. PICK i \in DOMAIN u.node : p = Len(u.array) + i + 1 /\ u.node[i].key = k /\ NextNodes(u, k) = {i}
    BY <1>3, <2>1 DEF At
  <2>3. k \in Collectable \/ k \in Nat
    BY <1>3, KeysAre
  <2>4. NextNodes(w, k) = {i}
    <3>1. SameSearch(u, w, k) /\ NextNodes(u, k) = {i}
      BY <1>3, <2>2
    <3> QED
      BY <2>3, <3>1, NodesSame
  <2>5. w.node[i].key = k /\ p = Len(w.array) + i + 1 /\ i \in DOMAIN w.node
    BY <2>2
  <2>6. ~InArrayPartOf(w, k)
    BY <1>2, <1>3
  <2> QED
    BY <1>1, <1>3, <2>4, <2>5, <2>6 DEF At
<1>4. CASE ~(k \in IntKey \cup live /\ ~InArrayPartOf(u, k))
  BY <1>1, <1>2, <1>4 DEF At
<1> QED
  BY <1>3, <1>4

\* Setting a key that has a value, or removing one, gives no other entry a value.
LEMMA SetKeeps ==
  ASSUME KeyAssumption, use \in Uses, NEW live, NEW u, TableInv(u), HashInv(u, live),
         NEW w, TableInv(w), HashInv(w, live), Alike(u, w), Len(w.array) = Len(u.array),
         NEW k \in Key, NEW v, Sets(u, w, k, v), Get(u, k) # Nil \/ v = Nil
  PROVE  ValuedKept(u, w)
<1>1. \A x \in Key : Get(w, x) # Nil => Get(u, x) # Nil
  BY DEF Sets
<1>2. ASSUME NEW j \in 1..Len(w.array), w.array[j] # Nil PROVE u.array[j] # Nil
  <2>1. j \in use.keys /\ j \in Key
    BY <1>2, UseIs DEF TableInv, KeysOK, UseOK
  <2>2. Len(u.array) \in Nat /\ j \in Nat /\ j <= Len(u.array)
    BY TypeIs DEF TableInv
  <2>3. j \in IntKey
    BY <2>1, <2>2, KeyAssumption DEF Key, Collectable
  <2>4. Get(w, j) = w.array[j] /\ Get(u, j) = u.array[j]
    BY <2>1, <2>2, <2>3, InArrayExactly
  <2> QED
    BY <1>1, <1>2, <2>1, <2>4
<1>3. ASSUME NEW i \in DOMAIN w.node, w.node[i].val # Nil PROVE u.node[i].val # Nil
  <2>1. PICK x : x = w.node[i].key
    OBVIOUS
  <2>2. x \in use.keys /\ x \in Key /\ x # Nil /\ ~w.node[i].dead
    BY <1>3, <2>1, UseIs DEF TableInv, KeysOK, UseOK
  <2>3. ~InArray(w, x) /\ ~InArray(u, x)
    <3>1. x \in IntKey => x > Len(w.array)
      BY <1>3, <2>1 DEF TableInv, ShadowOK
    <3>2. PICK len \in Nat : len = Len(w.array)
      BY TypeIs DEF TableInv
    <3>3. ~(x \in IntKey /\ x <= Len(w.array))
      <4>1. x \in IntKey => x \in Nat
        BY KeysAre
      <4> QED
        BY <3>1, <3>2, <4>1
    <3> QED
      BY <2>2, <3>3, InArrayExactly
  <2>4. PICK d, s : Chained(w, d, s)
    BY DEF HashInv
  <2>5. PICK c, r : Chained(u, c, r)
    BY DEF HashInv
  <2>6. Get(w, x) = w.node[i].val
    BY <1>3, <2>1, <2>2, <2>3, <2>4, GetHash
  <2>7. Get(u, x) # Nil
    BY <1>1, <1>3, <2>2, <2>6
  <2>8. PICK j \in DOMAIN u.node : u.node[j].key = x /\ u.node[j].val # Nil
    BY <2>2, <2>3, <2>5, <2>7, GetHash
  <2>9. ~u.node[j].dead /\ i \in DOMAIN u.node
    BY <2>8 DEF TableInv, KeysOK, Alike
  <2>10. u.node[i].key = x /\ ~u.node[i].dead
    BY <2>1, <2>2, <2>9 DEF Alike
  <2>11. i = j
    BY <2>2, <2>5, <2>8, <2>9, <2>10, OneNode
  <2> QED
    BY <2>8, <2>11
<1> QED
  BY <1>2, <1>3 DEF ValuedKept

\* The nodes of cleared entries: their keys are dead.
Cleared(u, h) ==
    /\ DOMAIN h = DOMAIN u.node
    /\ \A i \in DOMAIN u.node :
           /\ h[i].key = u.node[i].key /\ h[i].val = u.node[i].val /\ h[i].next = u.node[i].next
           /\ h[i].dead <=> u.node[i].dead \/ (u.node[i].val = Nil /\ u.node[i].key \in Collectable)
\* What the collector does to the nodes.
LEMMA ClearedIs ==
  ASSUME NEW u, TableInv(u), NEW w, w = KeysCleared(u)
  PROVE  Cleared(u, w.node) /\ w.array = u.array /\ w.lastfree = u.lastfree
<1>1. TableInv(u)
  OBVIOUS
<1>2. PICK h : h = [i \in DOMAIN u.node |->
                       [u.node[i] EXCEPT !.dead = \/ u.node[i].dead
                                                  \/ /\ u.node[i].val = Nil
                                                     /\ u.node[i].key \in Collectable]]
  OBVIOUS
<1>3. w = [u EXCEPT !.node = h]
  BY <1>2 DEF KeysCleared
<1>4. w.node = h /\ w.array = u.array /\ w.lastfree = u.lastfree
  BY <1>1, <1>3 DEF TableInv, TableType
<1>5. ASSUME NEW i \in DOMAIN u.node
      PROVE  /\ h[i].key = u.node[i].key /\ h[i].val = u.node[i].val /\ h[i].next = u.node[i].next
             /\ h[i].dead <=> u.node[i].dead \/ (u.node[i].val = Nil /\ u.node[i].key \in Collectable)
  <2>1. u.node[i] \in NodeType
    BY <1>1, TypeIs DEF TableInv
  <2>2. PICK b \in BOOLEAN : b = (\/ u.node[i].dead
                                 \/ /\ u.node[i].val = Nil
                                    /\ u.node[i].key \in Collectable)
    OBVIOUS
  <2>3. h[i] = [u.node[i] EXCEPT !.dead = b]
    BY <1>2, <2>2
  <2>4. h[i].key = u.node[i].key /\ h[i].val = u.node[i].val /\ h[i].next = u.node[i].next /\ h[i].dead = b
    BY <2>1, <2>3 DEF NodeType
  <2>5. h[i].dead <=> u.node[i].dead \/ (u.node[i].val = Nil /\ u.node[i].key \in Collectable)
    BY <2>2, <2>4
  <2> QED
    BY <2>4, <2>5
<1>6. DOMAIN h = DOMAIN u.node
  BY <1>2
<1> QED
  BY <1>1, <1>4, <1>5, <1>6 DEF Cleared

\* A key that exists is still told from all others: none has its address.
LEMMA ClearedSearch ==
  ASSUME KeyAssumption, AddrOK, NEW u, TableInv(u), KeysLive(u, alive), NEW w, Cleared(u, w.node),
         NEW k \in IntKey \cup alive, alive \subseteq Collectable
  PROVE  SameSearch(u, w, k)
<1> SUFFICES ASSUME NEW j \in DOMAIN u.node
             PROVE  EqualKey(k, w.node[j], TRUE) <=> EqualKey(k, u.node[j], TRUE)
  BY DEF SameSearch
<1>1. w.node[j].key = u.node[j].key
  BY DEF Cleared
<1>2. CASE w.node[j].dead <=> u.node[j].dead
  BY <1>1, <1>2 DEF EqualKey
<1>3. CASE ~(w.node[j].dead <=> u.node[j].dead)
  <2>1. ~u.node[j].dead /\ w.node[j].dead /\ u.node[j].key \in Collectable
    BY <1>3 DEF Cleared
  <2>2. u.node[j].key \in alive
    BY <2>1, KeysAre, KeyAssumption DEF KeysLive, Key
  <2>3. EqualKey(k, u.node[j], TRUE) <=> u.node[j].key = k
    BY <2>1 DEF EqualKey
  <2>4. EqualKey(k, w.node[j], TRUE) <=> k \in Collectable /\ Addr[k] = Addr[u.node[j].key]
    BY <1>1, <2>1 DEF EqualKey
  <2>5. CASE k \in IntKey
    BY <2>1, <2>3, <2>4, <2>5, KeysAre
  <2>6. CASE k \in alive
    BY <2>2, <2>3, <2>4, <2>6 DEF AddrOK
  <2> QED
    BY <2>5, <2>6
<1> QED
  BY <1>2, <1>3

\* The chains are what they were.
LEMMA ClearedChained ==
  ASSUME KeyAssumption, AddrOK, alive \subseteq Collectable, NEW u, TableInv(u),
         NEW c, NEW r, Chained(u, c, r), KeysLive(u, alive), NoneMissed(u),
         NEW w, Cleared(u, w.node), w.lastfree = u.lastfree
  PROVE  Chained(w, c, r) /\ KeysLive(w, alive) /\ NoneMissed(w)
<1>1. /\ DOMAIN w.node = DOMAIN u.node
      /\ \A i \in DOMAIN u.node : w.node[i].key = u.node[i].key /\ w.node[i].next = u.node[i].next
  BY DEF Cleared
<1>2. \A k : MainPosition(w, k) = MainPosition(u, k)
  BY <1>1, MainPositionSame
<1>3. Linked(w, c, r)
  BY <1>1 DEF Chained, Linked
<1>4. ASSUME NEW i \in DOMAIN u.node, w.node[i].key # Nil PROVE HomeOK(w, c, r, i)
  <2>1. u.node[i].key = w.node[i].key /\ u.node[i].key # Nil
    BY <1>1, <1>4
  <2>2. PICK m \in DOMAIN u.node :
          /\ m = MainPosition(u, u.node[i].key) /\ On(c, r, m, i)
          /\ u.node[m].key # Nil /\ MainPosition(u, u.node[m].key) = m
    BY <2>1, HomeIs
  <2>3. w.node[m].key = u.node[m].key
    BY <1>1
  <2>4. MainPosition(w, w.node[i].key) = m /\ MainPosition(w, w.node[m].key) = m
    BY <1>2, <2>1, <2>2, <2>3
  <2> QED
    BY <2>2, <2>3, <2>4 DEF HomeOK
<1>5. ASSUME NEW i \in DOMAIN u.node, w.node[i].key # Nil, ~w.node[i].dead
      PROVE  FirstOK(w, c, r, w.node[i].key, i)
  <2>1. u.node[i].key = w.node[i].key /\ u.node[i].key # Nil /\ ~u.node[i].dead
    BY <1>5 DEF Cleared
  <2>2. PICK k : k = u.node[i].key
    OBVIOUS
  <2>3. k \in IntKey \cup alive
    BY <2>1, <2>2 DEF KeysLive
  <2>4. SameSearch(u, w, k)
    BY <2>3, ClearedSearch
  <2>5. FirstOK(u, c, r, k, i)
    BY <2>1, <2>2 DEF Chained, Firsts
  <2>6. FirstOK(w, c, r, k, i)
    BY <1>1, <1>2, <2>4, <2>5 DEF FirstOK, SameSearch
  <2> QED
    BY <2>1, <2>2, <2>6
<1>6. KeysLive(w, alive)
  BY DEF KeysLive, Cleared
<1>7. NoneMissed(w)
  BY <1>1 DEF NoneMissed
<1> QED
  BY <1>1, <1>3, <1>4, <1>5, <1>6, <1>7 DEF Chained, Homes, Firsts

\* The collector leaves the map and the traversal alone.
LEMMA KeysClearedIs ==
  ASSUME KeyAssumption, AddrOK, alive \subseteq Collectable, NEW u, TableInv(u),
         HashInv(u, alive), NEW w, w = KeysCleared(u)
  PROVE  /\ HashInv(w, alive) /\ ValuedKept(u, w) /\ \A x \in Key : Get(w, x) = Get(u, x)
         /\ \E c, r : Chained(u, c, r) /\ Chained(w, c, r)
<1>1. TableInv(u) /\ TableInv(w) /\ HashInv(u, alive) /\ alive \subseteq Collectable
  BY ClearKeysInv
<1>2. Cleared(u, w.node) /\ w.array = u.array /\ w.lastfree = u.lastfree
  BY ClearedIs
<1>3. PICK c, r : Chained(u, c, r)
  BY <1>1 DEF HashInv
<1>4. KeysLive(u, alive) /\ NoneMissed(u)
  BY <1>1 DEF HashInv
<1>5. Chained(w, c, r) /\ KeysLive(w, alive) /\ NoneMissed(w)
  BY <1>1, <1>2, <1>3, <1>4, KeyAssumption, ClearedChained
<1>6. HashInv(w, alive)
  BY <1>5 DEF HashInv
<1>7. ValuedKept(u, w)
  BY <1>2 DEF ValuedKept, Cleared
<1>8. ASSUME NEW x \in Key PROVE Get(w, x) = Get(u, x)
  <2>1. InArray(w, x) <=> InArray(u, x)
    BY <1>1, <1>2, KeyAssumption, InArrayExactly
  <2>2. CASE InArray(u, x)
    BY <1>1, <1>2, <2>1, <2>2, KeyAssumption, InArrayExactly
  <2>3. CASE ~InArray(u, x)
    <3>1. \A y \in Value : Holds(w, x, y) <=> Holds(u, x, y)
      BY <1>2 DEF Holds, Cleared
    <3> QED
      BY <1>1, <1>3, <1>5, <2>1, <2>3, <3>1, KeyAssumption, GetSame
  <2> QED
    BY <2>2, <2>3
<1> QED
  BY <1>3, <1>5, <1>6, <1>7, <1>8

\* The action.
LEMMA ClearKeysIs ==
  ASSUME IInv, AddrOK, HashInv(t, alive), ClearKeys
  PROVE  /\ HashInv(t', alive) /\ ValuedKept(t, t') /\ \A x \in Key : Get(t', x) = Get(t, x)
         /\ \E c, r : Chained(t, c, r) /\ Chained(t', c, r)
<1>1. TableInv(t) /\ alive \subseteq Collectable /\ t' = KeysCleared(t)
  BY DEF IInv, TypeOK, ClearKeys
<1> QED
  BY <1>1, KeyAssumption, KeysClearedIs

\* The entries of a table in the order of next().
LEMMA EntryIs ==
  ASSUME KeyAssumption, NEW u, TableInv(u)
  PROVE  /\ EntryCount(u) \in Nat
         /\ \A j \in 1..Len(u.array) : j \in 1..EntryCount(u) /\ Entry(u, j) = <<j, u.array[j]>>
         /\ \A i \in DOMAIN u.node : /\ Len(u.array) + i + 1 \in 1..EntryCount(u)
                                     /\ Entry(u, Len(u.array) + i + 1) = <<u.node[i].key, u.node[i].val>>
         /\ \A j \in 1..EntryCount(u) : \/ j \in 1..Len(u.array)
                                        \/ \E i \in DOMAIN u.node : j = Len(u.array) + i + 1
<1>1. PICK len \in Nat : len = Len(u.array) /\ RealSize(u) = len
  BY TypeIs, RealSizeIs DEF TableInv
<1>2. PICK s \in Nat : s = SizeNode(u) /\ DOMAIN u.node = 0..(s - 1)
  BY SizeIs DEF TableInv
<1>3. EntryCount(u) = len + s
  BY <1>1, <1>2 DEF EntryCount
<1>4. ASSUME NEW j \in 1..len PROVE j \in 1..EntryCount(u) /\ Entry(u, j) = <<j, u.array[j]>>
  BY <1>1, <1>3 DEF Entry
<1>5. ASSUME NEW i \in DOMAIN u.node
      PROVE  /\ len + i + 1 \in 1..EntryCount(u)
             /\ Entry(u, len + i + 1) = <<u.node[i].key, u.node[i].val>>
  <2>1. i \in Nat /\ i <= s - 1
    BY <1>2
  <2>2. ~(len + i + 1 <= len) /\ (len + i + 1) - len - 1 = i
    BY <2>1
  <2>3. Entry(u, len + i + 1) = <<u.node[i].key, u.node[i].val>>
    BY <1>1, <2>2 DEF Entry
  <2> QED
    BY <1>3, <2>1, <2>3
<1>6. ASSUME NEW j \in 1..EntryCount(u), j \notin 1..len PROVE \E i \in DOMAIN u.node : j = len + i + 1
  <2>1. j - len - 1 \in 0..(s - 1) /\ j = len + (j - len - 1) + 1
    BY <1>3, <1>6
  <2> QED
    BY <1>2, <2>1
<1> QED
  BY <1>1, <1>3, <1>4, <1>5, <1>6

\* Passed in terms of them.
LEMMA PassedIs ==
  ASSUME KeyAssumption, NEW u, TableInv(u), NEW p, NEW seen
  PROVE  Passed(u, p, seen) <=> \A j \in 1..EntryCount(u) :
                                   Entry(u, j)[2] # Nil => (Entry(u, j)[1] \in seen <=> j <= p)
<1>1. /\ \A j \in 1..Len(u.array) : /\ j \in 1..EntryCount(u) /\ Entry(u, j)[1] = j
                                   /\ Entry(u, j)[2] = u.array[j]
      /\ \A i \in DOMAIN u.node : /\ Len(u.array) + i + 1 \in 1..EntryCount(u)
                                  /\ Entry(u, Len(u.array) + i + 1)[1] = u.node[i].key
                                  /\ Entry(u, Len(u.array) + i + 1)[2] = u.node[i].val
      /\ \A j \in 1..EntryCount(u) : \/ j \in 1..Len(u.array)
                                     \/ \E i \in DOMAIN u.node : j = Len(u.array) + i + 1
  BY EntryIs
<1>2. ASSUME Passed(u, p, seen), NEW j \in 1..EntryCount(u), Entry(u, j)[2] # Nil
      PROVE  Entry(u, j)[1] \in seen <=> j <= p
  <2>1. CASE j \in 1..Len(u.array)
    BY <1>1, <1>2, <2>1 DEF Passed
  <2>2. CASE \E i \in DOMAIN u.node : j = Len(u.array) + i + 1
    BY <1>1, <1>2, <2>2 DEF Passed
  <2> QED
    BY <1>1, <2>1, <2>2
<1>3. ASSUME \A j \in 1..EntryCount(u) : Entry(u, j)[2] # Nil => (Entry(u, j)[1] \in seen <=> j <= p)
      PROVE  Passed(u, p, seen)
  BY <1>1, <1>3 DEF Passed
<1> QED
  BY <1>2, <1>3

\* An entry with a value, and where it is.
LEMMA EntryHas ==
  ASSUME KeyAssumption, use \in Uses, NEW live, live \subseteq Collectable,
         NEW u, TableInv(u), HashInv(u, live),
         NEW j \in 1..EntryCount(u), Entry(u, j)[2] # Nil, NEW x, x = Entry(u, j)[1]
  PROVE  x \in Key /\ x # Nil /\ At(u, live, x, j) /\ Get(u, x) = Entry(u, j)[2]
<1>1. PICK len \in Nat : len = Len(u.array)
  BY TypeIs DEF TableInv
<1>2. CASE j \in 1..len
  <2>1. Entry(u, j) = <<j, u.array[j]>>
    BY <1>1, <1>2, EntryIs
  <2>2. x = j /\ u.array[j] # Nil
    BY <2>1
  <2>3. x \in use.keys /\ x \in Key /\ x # Nil
    BY <1>1, <1>2, <2>2, UseIs DEF TableInv, KeysOK, UseOK
  <2>4. x \in IntKey
    BY <1>2, <2>2, <2>3, KeyAssumption DEF Key, Collectable
  <2>5. At(u, live, x, j)
    BY <1>1, <1>2, <2>2, <2>4 DEF At, InArrayPartOf
  <2>6. Get(u, x) = u.array[x]
    BY <1>1, <1>2, <2>2, <2>3, <2>4, InArrayExactly
  <2> QED
    BY <2>1, <2>2, <2>3, <2>5, <2>6
<1>3. CASE j \notin 1..len
  <2>1. PICK i \in DOMAIN u.node : j = Len(u.array) + i + 1
    BY <1>1, <1>3, EntryIs
  <2>2. Entry(u, j) = <<u.node[i].key, u.node[i].val>>
    BY <2>1, EntryIs
  <2>3. x = u.node[i].key /\ u.node[i].val # Nil /\ Entry(u, j)[2] = u.node[i].val
    BY <2>2
  <2>4. x \in use.keys /\ x \in Key /\ x # Nil /\ ~u.node[i].dead
    BY <2>3, UseIs DEF TableInv, KeysOK, UseOK
  <2>5. x \in IntKey \cup live
    BY <2>3, <2>4 DEF HashInv, KeysLive
  <2>6. ~InArrayPartOf(u, x)
    <3>1. x \in IntKey => x \in Nat /\ x > len
      BY <1>1, <2>3, KeysAre DEF TableInv, ShadowOK
    <3> QED
      BY <1>1, <3>1 DEF InArrayPartOf
  <2>7. PICK c, r : Chained(u, c, r)
    BY DEF HashInv
  <2>8. NextNodes(u, x) = {i}
    BY <2>3, <2>4, <2>7, FoundExactly DEF NextNodes
  <2>9. At(u, live, x, j)
    BY <2>1, <2>3, <2>5, <2>6, <2>8 DEF At
  <2>10. ~InArray(u, x)
    BY <2>4, <2>6, InArrayExactly DEF InArrayPartOf
  <2>11. Get(u, x) = u.node[i].val
    BY <2>3, <2>4, <2>7, <2>10, GetHash
  <2> QED
    BY <2>3, <2>4, <2>9, <2>11
<1> QED
  BY <1>2, <1>3

\* A key is at one index.
LEMMA AtOnce ==
  ASSUME KeyAssumption, NEW u, TableInv(u), NEW live, live \subseteq Collectable,
         NEW k, NEW p, At(u, live, k, p), NEW q, At(u, live, k, q)
  PROVE  p = q
<1>1. FindIndex(u, k) = {p} /\ FindIndex(u, k) = {q}
  BY AtIs
<1>2. p \in {q}
  BY <1>1
<1> QED
  BY <1>2

\* A value is in an entry.
LEMMA ValueEntry ==
  ASSUME KeyAssumption, NEW live, NEW u, TableInv(u), HashInv(u, live), NEW x \in Key, Get(u, x) # Nil
  PROVE  \E j \in 1..EntryCount(u) : Entry(u, j)[1] = x /\ Entry(u, j)[2] # Nil
<1>1. CASE InArray(u, x)
  <2>1. x \in 1..Len(u.array) /\ Get(u, x) = u.array[x]
    BY <1>1, InArrayExactly
  <2>2. x \in 1..EntryCount(u) /\ Entry(u, x) = <<x, u.array[x]>>
    BY <2>1, EntryIs
  <2> QED
    BY <2>1, <2>2
<1>2. CASE ~InArray(u, x)
  <2>1. PICK c, r : Chained(u, c, r)
    BY DEF HashInv
  <2>2. PICK i \in DOMAIN u.node : u.node[i].key = x /\ u.node[i].val # Nil
    BY <1>2, <2>1, GetHash
  <2>3. PICK j \in 1..EntryCount(u) : Entry(u, j) = <<u.node[i].key, u.node[i].val>>
    BY EntryIs
  <2> QED
    BY <2>2, <2>3
<1> QED
  BY <1>1, <1>2

\* What luaH_next returns: an entry that the traversal has not returned before.
Advances(k) ==
    /\ k \in Key /\ k # Nil /\ k \notin visited /\ Get(t, k) # Nil
    /\ cursor' = k /\ visited' = visited \cup {k} /\ UNCHANGED <<use, t, alive>>
    /\ \E q \in Nat : At(t, alive, k, q) /\ Passed(t, q, visited \cup {k})
\* The next one after its key.
LEMMA NextEntryIs ==
  ASSUME ChainInv, NextEntry
  PROVE  \E k : Advances(k)
<1>1. /\ use \in Uses /\ TableInv(t) /\ HashInv(t, alive) /\ alive \subseteq Collectable
  BY DEF ChainInv, IInv, TypeOK
<1>2. PICK p \in Nat : At(t, alive, cursor, p) /\ Passed(t, p, visited)
  BY DEF ChainInv, TravOK, NextEntry
<1>3. FindIndex(t, cursor) = {p}
  BY <1>1, <1>2, KeyAssumption, AtIs
<1>4. PICK k : /\ After(t, p) # {} /\ k = Entry(t, Min(After(t, p)))[1]
               /\ cursor' = k /\ visited' = visited \cup {k}
  BY <1>3 DEF NextEntry
<1>5. PICK n \in Nat : n = EntryCount(t)
  BY <1>1, KeyAssumption, EntryIs
<1>6. After(t, p) \subseteq Nat
  BY <1>2, <1>5 DEF After
<1>7. PICK q : q = Min(After(t, p)) /\ q \in After(t, p) /\ \A x \in After(t, p) : q <= x
  BY <1>4, <1>6, MinOf
<1>8. q \in 1..n /\ q > p /\ Entry(t, q)[2] # Nil /\ q \in Nat /\ k = Entry(t, q)[1]
  BY <1>2, <1>4, <1>5, <1>7 DEF After
<1>9. \A j \in 1..n : Entry(t, j)[2] # Nil => j <= p \/ q <= j
  BY <1>2, <1>5, <1>7 DEF After
<1>10. k \in Key /\ k # Nil /\ At(t, alive, k, q) /\ Get(t, k) # Nil
  BY <1>1, <1>5, <1>8, KeyAssumption, EntryHas
<1>11. \A j \in 1..n : Entry(t, j)[2] # Nil => (Entry(t, j)[1] \in visited <=> j <= p)
  BY <1>1, <1>2, <1>5, KeyAssumption, PassedIs
<1>12. k \notin visited
  BY <1>2, <1>8, <1>11
<1>13. Passed(t, q, visited \cup {k})
  <2>1. ASSUME NEW j \in 1..n, Entry(t, j)[2] # Nil
        PROVE  Entry(t, j)[1] \in visited \cup {k} <=> j <= q
    <3>1. CASE Entry(t, j)[1] = k
      <4>1. At(t, alive, k, j)
        BY <1>1, <1>5, <2>1, <3>1, KeyAssumption, EntryHas
      <4>2. j = q
        BY <1>1, <1>10, <4>1, KeyAssumption, AtOnce
      <4> QED
        BY <1>8, <3>1, <4>2
    <3>2. CASE Entry(t, j)[1] # k
      <4>1. j # q
        BY <1>8, <3>2
      <4>2. j <= p \/ q <= j
        BY <1>9, <2>1
      <4>3. Entry(t, j)[1] \in visited <=> j <= p
        BY <1>11, <2>1
      <4> QED
        BY <1>2, <1>8, <3>2, <4>1, <4>2, <4>3
    <3> QED
      BY <3>1, <3>2
  <2> QED
    BY <1>1, <1>5, <2>1, KeyAssumption, PassedIs
<1>14. Advances(k)
  BY <1>4, <1>8, <1>10, <1>12, <1>13 DEF Advances, NextEntry
<1> QED
  BY <1>14

\* It ends when every entry was returned.
LEMMA NoMoreEntriesIs ==
  ASSUME ChainInv, NoMoreEntries
  PROVE  \A x \in Key : Get(t, x) # Nil => x \in visited
<1> SUFFICES ASSUME NEW x \in Key, Get(t, x) # Nil PROVE x \in visited
  OBVIOUS
<1>1. /\ use \in Uses /\ TableInv(t) /\ HashInv(t, alive) /\ alive \subseteq Collectable
  BY DEF ChainInv, IInv, TypeOK
<1>2. PICK p \in Nat : At(t, alive, cursor, p) /\ Passed(t, p, visited)
  BY DEF ChainInv, TravOK, NoMoreEntries
<1>3. FindIndex(t, cursor) = {p}
  BY <1>1, <1>2, KeyAssumption, AtIs
<1>4. After(t, p) = {}
  BY <1>3 DEF NoMoreEntries
<1>5. PICK n \in Nat : n = EntryCount(t)
  BY <1>1, KeyAssumption, EntryIs
<1>6. PICK j \in 1..n : Entry(t, j)[1] = x /\ Entry(t, j)[2] # Nil
  BY <1>1, <1>5, KeyAssumption, ValueEntry
<1>7. j <= p
  BY <1>2, <1>4, <1>5, <1>6 DEF After
<1> QED
  BY <1>1, <1>2, <1>5, <1>6, <1>7, KeyAssumption, PassedIs

-----------------------------------------------------------------------------
(***************************************************************************)
(* The invariant holds at first and every step keeps it.                   *)
(***************************************************************************)
LEMMA InitChains ==
  ASSUME Init
  PROVE  ChainInv /\ \A x \in Key : Get(t, x) = Nil
<1>1. use \in Uses /\ alive = {} /\ cursor = Nil /\ visited = {Nil} /\ IInv
  BY InitInv DEF Init, NoTraversal
<1>2. PICK s \in use.sizes : t = NewTable([i \in 1..s[1] |-> Nil], s[2])
  BY DEF Init
<1>3. PICK a : a = [i \in 1..s[1] |-> Nil]
  OBVIOUS
<1>4. PICK size \in Nat : size = s[2] /\ size <= Pow2[Bits]
  <2>1. s \in Nat \X (0..Pow2[Bits]) /\ Pow2[Bits] \in Nat
    BY <1>1, KeyAssumption, UseIs, Pow2Def DEF UseOK
  <2>2. s[2] \in Nat /\ s[2] <= Pow2[Bits]
    BY <2>1
  <2> QED
    BY <2>2
<1>5. PICK w : w = t
  OBVIOUS
<1>6. w = NewTable(a, size) /\ TableInv(w) /\ w.array = a
  BY <1>1, <1>2, <1>3, <1>4, <1>5 DEF IInv, NewTable
<1>7. HashInv(w, alive) /\ Filling(w, {})
  BY <1>4, <1>6, KeyAssumption, NewTableIs
<1>8. AddrOK /\ TravOK
  BY <1>1 DEF AddrOK, TravOK, Traversing, NoTraversal
<1>9. ASSUME NEW x \in Key PROVE Get(w, x) = Nil
  <2>1. PICK c, r : Chained(w, c, r)
    BY <1>7 DEF HashInv
  <2>2. CASE InArray(w, x)
    <3>1. x \in 1..Len(w.array) /\ Get(w, x) = a[x] /\ DOMAIN w.array = 1..Len(w.array)
      BY <1>6, <2>2, KeyAssumption, InArrayExactly, TypeIs DEF TableInv
    <3> QED
      BY <1>3, <1>6, <3>1
  <2>3. CASE ~InArray(w, x)
    <3>1. \A i \in DOMAIN w.node : w.node[i].key = x => w.node[i].val = Nil
      BY <1>7, KeyAssumption, KeysAre DEF Filling
    <3> QED
      BY <1>6, <2>1, <2>3, <3>1, KeyAssumption, GetHash
  <2> QED
    BY <2>2, <2>3
<1> QED
  BY <1>1, <1>5, <1>7, <1>8, <1>9 DEF ChainInv

\* A step that the traversal does not notice.
LEMMA TravStep ==
  ASSUME ChainInv, alive' = alive, cursor' = cursor, visited' = visited,
         TableInv(t'), NEW c, NEW r, Chained(t, c, r), Chained(t', c, r),
         Len(t'.array) = Len(t.array), DOMAIN t'.node = DOMAIN t.node,
         \A i \in DOMAIN t.node : t'.node[i].key = t.node[i].key, ValuedKept(t, t'),
         cursor \in IntKey \cup alive => SameSearch(t, t', cursor)
  PROVE  AddrOK' /\ TravOK'
<1>1. TableInv(t) /\ alive \subseteq Collectable /\ AddrOK /\ TravOK
  BY DEF ChainInv, IInv, TypeOK
<1>2. AddrOK'
  BY <1>1 DEF AddrOK
<1>3. ASSUME Traversing PROVE \E p \in Nat : At(t', alive, cursor, p) /\ Passed(t', p, visited)
  <2>1. PICK p \in Nat : At(t, alive, cursor, p) /\ Passed(t, p, visited)
    BY <1>1, <1>3 DEF TravOK
  <2>2. PICK u : u = t
    OBVIOUS
  <2>3. PICK w : w = t'
    OBVIOUS
  <2>4. At(w, alive, cursor, p) /\ Passed(w, p, visited)
    BY <1>1, <2>1, <2>2, <2>3, KeyAssumption, TravKept
  <2> QED
    BY <2>3, <2>4
<1>4. TravOK'
  BY <1>1, <1>3 DEF TravOK, Traversing, NoTraversal
<1> QED
  BY <1>2, <1>4

\* A step that leaves the parts alone.
LEMMA SamePartsStep ==
  ASSUME ChainInv, alive' = alive, cursor' = cursor, visited' = visited,
         TableInv(t'), t'.array = t.array, t'.node = t.node
  PROVE  AddrOK' /\ TravOK'
<1>1. PICK c, r : Chained(t, c, r)
  BY DEF ChainInv, HashInv
<1>2. Chained(t', c, r)
  <2>1. Alike(t, t') /\ TableInv(t)
    BY DEF Alike, ChainInv, IInv
  <2> QED
    BY <1>1, <2>1, KeyAssumption, AlikeChained
<1>3. ValuedKept(t, t')
  BY DEF ValuedKept
<1>4. SameSearch(t, t', cursor)
  BY DEF SameSearch
<1> QED
  BY <1>1, <1>2, <1>3, <1>4, TravStep

\* With 'lastfree' they are all that the invariant of the hash part is about.
LEMMA SameHash ==
  ASSUME ChainInv, TableInv(t'), t'.array = t.array, t'.node = t.node, t'.lastfree = t.lastfree
  PROVE  HashInv(t', alive) /\ \A x \in Key : Get(t', x) = Get(t, x)
<1>1. TableInv(t) /\ HashInv(t, alive)
  BY DEF ChainInv, IInv
<1>2. Alike(t, t')
  BY DEF Alike
<1>3. HashInv(t', alive)
  BY <1>1, <1>2, KeyAssumption, AlikeHash
<1> QED
  BY <1>1, <1>3, KeyAssumption, PartsSame

\* Reading a key.
LEMMA ReadIs ==
  ASSUME ChainInv, NEW k \in IntKey, Read(k)
  PROVE  /\ TableInv(t') /\ t'.array = t.array /\ t'.node = t.node /\ t'.lastfree = t.lastfree
         /\ alive' = alive /\ cursor' = cursor /\ visited' = visited
<1>1. TableInv(t) /\ k \in Nat \ {0} /\ t' = Touch(t, k)
  BY KeyAssumption DEF ChainInv, IInv, Read
<1>2. TableInv(t') /\ t'.array = t.array /\ t'.node = t.node
  BY <1>1, KeyAssumption, TouchInv
<1>3. t'.lastfree = t.lastfree
  BY <1>1 DEF Touch, TableInv, TableType
<1> QED
  BY <1>2, <1>3 DEF Read

\* The length operator.
LEMMA LengthIs ==
  ASSUME ChainInv, Length
  PROVE  /\ TableInv(t') /\ t'.array = t.array /\ t'.node = t.node /\ t'.lastfree = t.lastfree
         /\ alive' = alive /\ cursor' = cursor /\ visited' = visited
<1>1. TableInv(t) /\ use \in Uses /\ t' = Getn(t)[2]
  BY DEF ChainInv, IInv, Length
<1>2. TableInv(t')
  BY <1>1, KeyAssumption, GetnIs
<1>3. t'.array = t.array /\ t'.node = t.node /\ t'.lastfree = t.lastfree
  BY <1>1, GetnParts
<1> QED
  BY <1>2, <1>3 DEF Length

\* Every action of the table's users and of the collector.
LEMMA ChainNext == ChainInv /\ [Next]_vars => ChainInv'
<1> SUFFICES ASSUME ChainInv, [Next]_vars PROVE ChainInv'
  OBVIOUS
<1>1. /\ use \in Uses /\ TableInv(t) /\ HashInv(t, alive) /\ alive \subseteq Collectable
      /\ IInv /\ AddrOK /\ TravOK
  BY DEF ChainInv, IInv, TypeOK
<1>2. IInv'
  BY <1>1, NextInv
<1>3. ASSUME HashInv(t', alive'), AddrOK', TravOK' PROVE ChainInv'
  BY <1>2, <1>3 DEF ChainInv
<1>4. ASSUME NEW k \in Key, NEW v \in Value \cup {Nil}, Put(k, v) PROVE ChainInv'
  <2>1. /\ TableInv(t') /\ HashInv(t', alive) /\ Sets(t, t', k, v)
        /\ Get(t, k) # Nil \/ v = Nil => Alike(t, t') /\ Len(t'.array) = Len(t.array)
    BY <1>1, <1>4, PutIs
  <2>2. alive' = alive
    BY <1>4 DEF Put
  <2>3. AddrOK'
    BY <1>1, <2>2 DEF AddrOK
  <2>4. CASE Get(t, k) = Nil /\ v # Nil
    <3>1. TravOK'
      BY <1>4, <2>4 DEF Put, Disturb, TravOK, Traversing, NoTraversal
    <3> QED
      BY <1>3, <2>1, <2>2, <2>3, <3>1
  <2>5. CASE Get(t, k) # Nil \/ v = Nil
    <3>1. cursor' = cursor /\ visited' = visited
      BY <1>4, <2>5 DEF Put, Disturb
    <3>2. PICK c, r : Chained(t, c, r)
      BY <1>1 DEF HashInv
    <3>3. Chained(t', c, r)
      BY <1>1, <2>1, <2>5, <3>2, KeyAssumption, AlikeChained
    <3>4. ValuedKept(t, t')
      <4>1. PICK u : u = t
        OBVIOUS
      <4>2. PICK w : w = t'
        OBVIOUS
      <4>3. ValuedKept(u, w)
        BY <1>1, <2>1, <2>5, <4>1, <4>2, KeyAssumption, SetKeeps
      <4> QED
        BY <4>1, <4>2, <4>3
    <3>5. SameSearch(t, t', cursor)
      BY <2>1, <2>5 DEF SameSearch, Alike, EqualKey
    <3>6. DOMAIN t'.node = DOMAIN t.node /\ \A i \in DOMAIN t.node : t'.node[i].key = t.node[i].key
      BY <2>1, <2>5 DEF Alike
    <3>7. TravOK'
      BY <2>1, <2>2, <2>5, <3>1, <3>2, <3>3, <3>4, <3>5, <3>6, TravStep
    <3> QED
      BY <1>3, <2>1, <2>2, <2>3, <3>7
  <2> QED
    BY <2>4, <2>5
<1>5. ASSUME NEW k \in Key, NEW v \in Value \cup {Nil}, PutFails(k, v) PROVE ChainInv'
  <2>1. TableInv(t') /\ HashInv(t', alive) /\ t'.array = t.array /\ t'.node = t.node
    BY <1>1, <1>5, PutFailsIs
  <2>2. alive' = alive /\ cursor' = cursor /\ visited' = visited
    BY <1>5 DEF PutFails
  <2>3. AddrOK' /\ TravOK'
    BY <2>1, <2>2, SamePartsStep
  <2> QED
    BY <1>3, <2>1, <2>2, <2>3
<1>6. ASSUME NEW k \in IntKey, Read(k) PROVE ChainInv'
  <2>1. /\ TableInv(t') /\ t'.array = t.array /\ t'.node = t.node /\ t'.lastfree = t.lastfree
        /\ alive' = alive /\ cursor' = cursor /\ visited' = visited
    BY <1>6, ReadIs
  <2>2. AddrOK' /\ TravOK' /\ HashInv(t', alive)
    BY <2>1, SamePartsStep, SameHash
  <2> QED
    BY <1>3, <2>1, <2>2
<1>7. ASSUME NEW k \in Key, Collect(k) PROVE ChainInv'
  <2>1. /\ alive' = alive \ {k} /\ k # cursor /\ t' = t /\ cursor' = cursor /\ visited' = visited
        /\ \A i \in DOMAIN t.node : t.node[i].key = k => t.node[i].dead
    BY <1>7 DEF Collect
  <2>2. AddrOK'
    BY <1>1, <2>1 DEF AddrOK
  <2>3. HashInv(t, alive \ {k})
    BY <1>1, <2>1 DEF HashInv, KeysLive
  <2>4. \A p : At(t, alive, cursor, p) => At(t, alive \ {k}, cursor, p)
    BY <2>1 DEF At
  <2>5. TravOK'
    BY <1>1, <2>1, <2>4 DEF TravOK, Traversing, NoTraversal
  <2> QED
    BY <1>3, <2>1, <2>2, <2>3, <2>5
<1>8. ASSUME NEW k \in Key, Create(k) PROVE ChainInv'
  <2>1. /\ alive' = alive \cup {k} /\ t' = t /\ cursor' = cursor /\ visited' = visited
        /\ \A o \in alive : Addr[o] # Addr[k]
    BY <1>8 DEF Create
  <2>2. AddrOK'
    BY <1>1, <2>1 DEF AddrOK
  <2>3. HashInv(t, alive \cup {k})
    BY <1>1 DEF HashInv, KeysLive
  <2>4. \A p : At(t, alive, cursor, p) => At(t, alive \cup {k}, cursor, p)
    BY DEF At
  <2>5. TravOK'
    BY <1>1, <2>1, <2>4 DEF TravOK, Traversing, NoTraversal
  <2> QED
    BY <1>3, <2>1, <2>2, <2>3, <2>5
<1>9. CASE Length
  <2>1. /\ TableInv(t') /\ t'.array = t.array /\ t'.node = t.node /\ t'.lastfree = t.lastfree
        /\ alive' = alive /\ cursor' = cursor /\ visited' = visited
    BY <1>9, LengthIs
  <2>2. AddrOK' /\ TravOK' /\ HashInv(t', alive)
    BY <2>1, SamePartsStep, SameHash
  <2> QED
    BY <1>3, <2>1, <2>2
<1>10. CASE StartTraversal
  <2>1. cursor' = Nil /\ visited' = {} /\ t' = t /\ alive' = alive
    BY <1>10 DEF StartTraversal
  <2>2. PICK len \in Nat : len = Len(t.array)
    BY <1>1, TypeIs DEF TableInv
  <2>3. PICK s \in Nat : DOMAIN t.node = 0..(s - 1)
    BY <1>1, KeyAssumption, SizeIs DEF TableInv
  <2>4. At(t, alive, Nil, 0) /\ Passed(t, 0, {})
    BY <2>2, <2>3 DEF At, Passed
  <2>5. TravOK'
    BY <2>1, <2>4 DEF TravOK
  <2>6. AddrOK'
    BY <1>1, <2>1 DEF AddrOK
  <2> QED
    BY <1>1, <1>3, <2>1, <2>5, <2>6
<1>11. CASE NextEntry
  <2>1. PICK k : Advances(k)
    BY <1>11, NextEntryIs
  <2>2. t' = t /\ alive' = alive /\ cursor' = k /\ visited' = visited \cup {k} /\ k # Nil
    BY <2>1 DEF Advances
  <2>3. PICK q \in Nat : At(t, alive, k, q) /\ Passed(t, q, visited \cup {k})
    BY <2>1 DEF Advances
  <2>4. Nil \notin visited
    BY <1>1, <1>11 DEF TravOK, NextEntry
  <2>5. TravOK'
    BY <2>2, <2>3, <2>4 DEF TravOK
  <2>6. AddrOK'
    BY <1>1, <2>2 DEF AddrOK
  <2> QED
    BY <1>1, <1>3, <2>2, <2>5, <2>6
<1>12. CASE NoMoreEntries
  <2>1. visited' = {Nil} /\ t' = t /\ alive' = alive
    BY <1>12 DEF NoMoreEntries, NoTraversal
  <2>2. TravOK'
    BY <2>1 DEF TravOK, Traversing, NoTraversal
  <2>3. AddrOK'
    BY <1>1, <2>1 DEF AddrOK
  <2> QED
    BY <1>1, <1>3, <2>1, <2>2, <2>3
<1>13. CASE ClearKeys
  <2>1. PICK c, r : Chained(t, c, r) /\ Chained(t', c, r)
    BY <1>1, <1>13, ClearKeysIs
  <2>2. HashInv(t', alive) /\ ValuedKept(t, t')
    BY <1>1, <1>13, ClearKeysIs
  <2>3. alive' = alive /\ cursor' = cursor /\ visited' = visited
    BY <1>13 DEF ClearKeys
  <2>4. TableInv(t')
    BY <1>1, <1>13, KeyAssumption, ClearKeysInv DEF IInv, ClearKeys
  <2>5. Cleared(t, t'.node) /\ t'.array = t.array
    BY <1>1, <1>13, ClearedIs DEF ClearKeys
  <2>6. cursor \in IntKey \cup alive => SameSearch(t, t', cursor)
    BY <1>1, <2>5, KeyAssumption, ClearedSearch DEF HashInv
  <2>7. DOMAIN t'.node = DOMAIN t.node /\ \A i \in DOMAIN t.node : t'.node[i].key = t.node[i].key
    BY <2>5 DEF Cleared
  <2>8. AddrOK' /\ TravOK'
    BY <2>1, <2>2, <2>3, <2>4, <2>5, <2>6, <2>7, TravStep
  <2> QED
    BY <1>3, <2>2, <2>3, <2>8
<1>14. CASE UNCHANGED vars
  <2>1. t' = t /\ alive' = alive /\ cursor' = cursor /\ visited' = visited
    BY <1>14 DEF vars
  <2>2. AddrOK' /\ TravOK'
    BY <1>1, <2>1 DEF AddrOK, TravOK, Traversing, NoTraversal
  <2> QED
    BY <1>1, <1>3, <2>1, <2>2
<1> QED
  BY <1>4, <1>5, <1>6, <1>7, <1>8, <1>9, <1>10, <1>11, <1>12, <1>13, <1>14 DEF Next

\* Every reachable state satisfies the invariant.
LEMMA ChainsHold == Spec => []ChainInv
<1>1. Init => ChainInv
  BY InitChains
<1>2. ChainInv /\ [Next]_vars => ChainInv'
  BY ChainNext
<1> QED
  BY <1>1, <1>2, PTL DEF Spec

\* In every state each chain ends, a key that is not dead is found where it is and nowhere
\* else, also by next(), and no node without key has been passed by: whatever mix of
\* insertions, collisions, relocations, reuse of cleared nodes, rehashes and failed
\* allocations came before, and wherever the collector frees keys and reuses addresses.
THEOREM NodesStaySound == Spec => []NodesSound
<1>1. ASSUME ChainInv PROVE NodesSound
  <2>1. TypeOK /\ TableInv(t) /\ HashInv(t, alive)
    BY <1>1 DEF ChainInv, IInv
  <2>2. PICK c, r : Chained(t, c, r) /\ KeysLive(t, alive) /\ NoneMissed(t)
    BY <2>1 DEF HashInv
  <2>3. ASSUME NEW i \in DOMAIN t.node PROVE t.node[Chain(t, i)[SizeNode(t)]].next = 0
    BY <2>1, <2>2, KeyAssumption, ChainEnds DEF TableInv, Chained
  <2>4. ASSUME NEW i \in DOMAIN t.node, t.node[i].key # Nil, ~t.node[i].dead
        PROVE  Found(t, t.node[i].key) = {i} /\ Nodes(t, t.node[i].key, TRUE) = {i}
    <3>1. t.node[i].key \in Key
      BY <2>1, <2>2, <2>4, KeyAssumption, HomeIs
    <3> QED
      BY <2>1, <2>2, <2>4, <3>1, KeyAssumption, FoundExactly
  <2>5. ASSUME NEW i \in DOMAIN t.node, t.node[i].val # Nil
        PROVE  ~t.node[i].dead /\ t.node[i].key # Nil /\ t.node[i].key \in IntKey \cup alive
    BY <2>1, <2>2, <2>5 DEF TableInv, KeysOK, KeysLive
  <2>6. Chains
    BY <2>3, <2>4, <2>5 DEF Chains
  <2>7. NoFreeNodeMissed
    BY <2>2 DEF NoneMissed, NoFreeNodeMissed
  <2>8. LiveEntryFirst
    BY <2>4, <2>5 DEF LiveEntryFirst
  <2> QED
    BY <2>1, <2>6, <2>7, <2>8 DEF NodesSound
<1>2. ChainInv => NodesSound
  BY <1>1
<1> QED
  BY <1>2, ChainsHold, PTL

\* A traversal never loses its place: next() finds the key it returned last, although the
\* program may have removed the entry and the collector may have killed its key.
THEOREM CursorNeverLost == Spec => []CursorFound
<1>1. ASSUME ChainInv, Traversing PROVE FindIndex(t, cursor) # {}
  <2>1. PICK p \in Nat : At(t, alive, cursor, p)
    BY <1>1 DEF ChainInv, TravOK
  <2>2. TableInv(t) /\ alive \subseteq Collectable
    BY <1>1 DEF ChainInv, IInv, TypeOK
  <2>3. FindIndex(t, cursor) = {p}
    BY <2>1, <2>2, KeyAssumption, AtIs
  <2> QED
    BY <2>3
<1>2. ChainInv => CursorFound
  BY <1>1 DEF CursorFound
<1> QED
  BY <1>2, ChainsHold, PTL

-----------------------------------------------------------------------------
(***************************************************************************)
(* A table is a dictionary: every step of LuaTable, seen through the map   *)
(* from keys to what luaH_get returns, is a step of Dict or changes        *)
(* nothing.                                                                *)
(***************************************************************************)
\* The values of the map.
LEMMA GetType ==
  ASSUME KeyAssumption, NEW live, NEW u, TableInv(u), HashInv(u, live), NEW x \in Key
  PROVE  Get(u, x) \in Value \cup {Nil}
<1>1. CASE InArray(u, x)
  <2>1. x \in 1..Len(u.array) /\ Get(u, x) = u.array[x]
    BY <1>1, InArrayExactly
  <2>2. u.array \in Seq(Value \cup {Nil})
    BY TypeIs DEF TableInv
  <2> QED
    BY <2>1, <2>2
<1>2. CASE ~InArray(u, x)
  <2>1. PICK c, r : Chained(u, c, r)
    BY DEF HashInv
  <2>2. Get(u, x) # Nil => \E i \in DOMAIN u.node : Get(u, x) = u.node[i].val
    BY <1>2, <2>1, GetHash
  <2>3. \A i \in DOMAIN u.node : u.node[i].val \in Value \cup {Nil}
    BY TypeIs DEF TableInv, NodeType
  <2> QED
    BY <2>2, <2>3
<1> QED
  BY <1>1, <1>2

\* A step that every lookup and the traversal survive is a stutter of the dictionary.
LEMMA SameMap ==
  ASSUME \A x \in Key : Get(t', x) = Get(t, x), visited' = visited
  PROVE  UNCHANGED <<MapOf(t), visited>>
BY DEF MapOf

\* Init gives every key Nil.
LEMMA InitIsDict == Init => D!Init
<1> SUFFICES ASSUME Init PROVE D!Init
  OBVIOUS
<1>1. \A x \in Key : Get(t, x) = Nil
  BY InitChains
<1>2. visited = {Nil}
  BY DEF Init, NoTraversal
<1> QED
  BY <1>1, <1>2 DEF D!Init, D!NoTraversal, MapOf

\* A table in which k has v, and the others what they had.
LEMMA SetsAssigns ==
  ASSUME NEW o, NEW y, NEW k \in Key, NEW v, Sets(o, y, k, v)
  PROVE  MapOf(y) = D!Assign(MapOf(o), k, v)
<1>1. \A x \in Key : Get(y, x) = IF x = k THEN v ELSE Get(o, x)
  BY DEF Sets
<1> QED
  BY <1>1 DEF MapOf, D!Assign

\* An assignment.
LEMMA PutIsDict ==
  ASSUME ChainInv, NEW k \in Key, NEW v \in Value \cup {Nil}, Put(k, v)
  PROVE  D!Put
<1>1. IInv /\ HashInv(t, alive)
  BY DEF ChainInv
<1>2. PICK old : old = MapOf(t)
  OBVIOUS
<1>3. PICK new : new = MapOf(t')
  OBVIOUS
<1>4. new = D!Assign(old, k, v)
  <2>1. PICK y : y = t' /\ Sets(t, y, k, v)
    BY <1>1, PutIs
  <2> QED
    BY <1>2, <1>3, <2>1, SetsAssigns
<1>5. visited' = IF old[k] = Nil /\ v # Nil THEN {Nil} ELSE visited
  BY <1>2 DEF MapOf, Put, Disturb, NoTraversal
<1>6. new = MapOf(t)'
  BY <1>3 DEF MapOf
<1> QED
  BY <1>2, <1>4, <1>5, <1>6 DEF D!Put, D!NoTraversal

\* next() returns an entry.
LEMMA NextEntryIsDict ==
  ASSUME ChainInv, NextEntry
  PROVE  \E k \in Key : D!Advance(k)
<1>1. PICK k : Advances(k)
  BY NextEntryIs
<1>2. k \in Key /\ k \notin visited /\ visited' = visited \cup {k} /\ Get(t, k) # Nil /\ t' = t
  BY <1>1 DEF Advances
<1>3. visited # {Nil}
  BY DEF NextEntry, Traversing, NoTraversal
<1>4. D!Advance(k)
  BY <1>2, <1>3 DEF D!Advance, D!Traversing, D!NoTraversal, D!Present, MapOf
<1> QED
  BY <1>2, <1>4

\* next() returns nil.
LEMMA NoMoreEntriesIsDict ==
  ASSUME ChainInv, NoMoreEntries
  PROVE  D!EndTraversal
<1>1. \A x \in Key : Get(t, x) # Nil => x \in visited
  BY NoMoreEntriesIs
<1>2. visited # {Nil} /\ visited' = {Nil} /\ t' = t
  BY DEF NoMoreEntries, Traversing, NoTraversal
<1> QED
  BY <1>1, <1>2 DEF D!EndTraversal, D!Traversing, D!NoTraversal, D!Present, MapOf

\* Every step.
LEMMA NextIsDict == ChainInv /\ [Next]_vars => [D!Next]_D!contents
<1> SUFFICES ASSUME ChainInv, [Next]_vars
             PROVE  [D!Next]_D!contents
  OBVIOUS
<1>1. IInv /\ HashInv(t, alive) /\ AddrOK
  BY DEF ChainInv
<1>2. ASSUME NEW k \in Key, NEW v \in Value \cup {Nil}, Put(k, v) PROVE D!Next
  BY <1>2, PutIsDict DEF D!Next
<1>3. CASE NextEntry
  BY <1>3, NextEntryIsDict DEF D!Next
<1>4. CASE NoMoreEntries
  BY <1>4, NoMoreEntriesIsDict DEF D!Next
<1>5. CASE StartTraversal
  BY <1>5 DEF StartTraversal, D!StartTraversal, D!Next
<1>6. ASSUME \/ \E k \in Key, v \in Value \cup {Nil} : PutFails(k, v)
             \/ \E k \in IntKey : Read(k)
             \/ \E k \in Key : Collect(k) \/ Create(k)
             \/ Length \/ ClearKeys \/ UNCHANGED vars
      PROVE  (\A x \in Key : Get(t', x) = Get(t, x)) /\ visited' = visited
  <2>1. ASSUME NEW k \in Key, NEW v \in Value \cup {Nil}, PutFails(k, v)
        PROVE  (\A x \in Key : Get(t', x) = Get(t, x)) /\ visited' = visited
    <3>1. \A x \in Key : Get(t', x) = Get(t, x)
      BY <1>1, <2>1, PutFailsIs
    <3> QED
      BY <2>1, <3>1 DEF PutFails
  <2>2. ASSUME NEW k \in IntKey, Read(k)
        PROVE  (\A x \in Key : Get(t', x) = Get(t, x)) /\ visited' = visited
    BY <2>2, ReadIs, SameHash
  <2>3. ASSUME NEW k \in Key, Collect(k) \/ Create(k)
        PROVE  (\A x \in Key : Get(t', x) = Get(t, x)) /\ visited' = visited
    BY <2>3 DEF Collect, Create
  <2>4. CASE Length
    BY <2>4, LengthIs, SameHash
  <2>5. CASE ClearKeys
    <3>1. \A x \in Key : Get(t', x) = Get(t, x)
      BY <1>1, <2>5, ClearKeysIs
    <3> QED
      BY <2>5, <3>1 DEF ClearKeys
  <2>6. CASE UNCHANGED vars
    BY <2>6 DEF vars
  <2> QED
    BY <1>6, <2>1, <2>2, <2>3, <2>4, <2>5, <2>6
<1>7. ASSUME \/ \E k \in Key, v \in Value \cup {Nil} : PutFails(k, v)
             \/ \E k \in IntKey : Read(k)
             \/ \E k \in Key : Collect(k) \/ Create(k)
             \/ Length \/ ClearKeys \/ UNCHANGED vars
      PROVE  UNCHANGED D!contents
  BY <1>6, <1>7, SameMap DEF D!contents
<1> QED
  BY <1>2, <1>3, <1>4, <1>5, <1>7 DEF Next

\* An assignment, and one that fails, do what they were asked.
LEMMA AssignmentsHold == ChainInv => AssignmentsAsAsked(MapOf(t))
<1> SUFFICES ASSUME ChainInv, NEW k \in use.keys \cap (IntKey \cup alive),
                    NEW v \in use.values \cup {Nil}
             PROVE  /\ MapOf(Assigned(t, k, v)) = D!Assign(MapOf(t), k, v)
                    /\ Grows(t, k, v) =>
                           \A u \in RehashFails(BeforeResize(t), k) : MapOf(u) = MapOf(t)
  BY DEF AssignmentsAsAsked
<1>1. use \in Uses /\ TableInv(t) /\ HashInv(t, alive)
  BY DEF ChainInv, IInv
<1>2. v \in Value \cup {Nil} /\ k \in Key
  BY <1>1, KeyAssumption, UseIs DEF UseOK
<1>3. PICK y : y = Assigned(t, k, v)
  OBVIOUS
<1>4. Sets(t, y, k, v)
  BY <1>1, <1>2, <1>3, KeyAssumption, AssignedIs
<1>5. MapOf(y) = D!Assign(MapOf(t), k, v)
  BY <1>2, <1>4, SetsAssigns
<1>6. ASSUME Grows(t, k, v), NEW u \in RehashFails(BeforeResize(t), k) PROVE MapOf(u) = MapOf(t)
  <2>1. ~HasRoom(t, k)
    BY <1>6 DEF Grows
  <2>2. \A x \in Key : Get(u, x) = Get(t, x)
    BY <1>1, <1>6, <2>1, KeyAssumption, FailedKeeps
  <2> QED
    BY <2>2 DEF MapOf
<1> QED
  BY <1>3, <1>5, <1>6

\* A read, a length, and what the collector does to keys do nothing.
LEMMA OthersHold == ChainInv => OthersAsAsked(MapOf(t))
<1> SUFFICES ASSUME ChainInv PROVE OthersAsAsked(MapOf(t))
  OBVIOUS
<1>1. /\ use \in Uses /\ TableInv(t) /\ HashInv(t, alive) /\ AddrOK
      /\ alive \subseteq Collectable
  BY DEF ChainInv, IInv, TypeOK
<1>2. ASSUME NEW k \in use.keys PROVE MapOf(Touch(t, k)) = MapOf(t)
  <2>1. k \in Collectable \/ k \in Nat \ {0}
    BY <1>1, KeyAssumption, UseIs DEF UseOK, Key
  <2>2. PICK w : w = Touch(t, k)
    OBVIOUS
  <2>3. TableInv(w) /\ w.array = t.array /\ w.node = t.node
    BY <1>1, <2>1, <2>2, KeyAssumption, TouchInv
  <2>4. \A x \in Key : Get(w, x) = Get(t, x)
    BY <1>1, <2>3, KeyAssumption, PartsSame
  <2> QED
    BY <2>2, <2>4 DEF MapOf
<1>3. MapOf(Getn(t)[2]) = MapOf(t)
  <2>1. PICK w : w = Getn(t)[2]
    OBVIOUS
  <2>2. TableInv(w) /\ w.array = t.array /\ w.node = t.node
    BY <1>1, <2>1, KeyAssumption, GetnIs, GetnParts
  <2>3. \A x \in Key : Get(w, x) = Get(t, x)
    BY <1>1, <2>2, KeyAssumption, PartsSame
  <2> QED
    BY <2>1, <2>3 DEF MapOf
<1>4. MapOf(KeysCleared(t)) = MapOf(t)
  <2>1. PICK w : w = KeysCleared(t)
    OBVIOUS
  <2>2. \A x \in Key : Get(w, x) = Get(t, x)
    BY <1>1, <2>1, KeyAssumption, KeysClearedIs
  <2> QED
    BY <2>1, <2>2 DEF MapOf
<1> QED
  BY <1>2, <1>3, <1>4 DEF OthersAsAsked

\* next() returns what it has not returned, and ends when nothing is left.
LEMMA NextHolds == ChainInv => NextAsAsked
<1> SUFFICES ASSUME ChainInv, Traversing, NEW i \in FindIndex(t, cursor)
             PROVE  IF After(t, i) = {} THEN D!Present \subseteq visited
                    ELSE Entry(t, Min(After(t, i)))[1] \in D!Present \ visited
  BY DEF NextAsAsked
<1>1. /\ use \in Uses /\ TableInv(t) /\ HashInv(t, alive) /\ alive \subseteq Collectable
  BY DEF ChainInv, IInv, TypeOK
<1>2. PICK p \in Nat : At(t, alive, cursor, p) /\ Passed(t, p, visited)
  BY DEF ChainInv, TravOK
<1>3. i = p
  <2>1. FindIndex(t, cursor) = {p}
    BY <1>1, <1>2, KeyAssumption, AtIs
  <2> QED
    BY <2>1
<1>4. PICK n \in Nat : n = EntryCount(t)
  BY <1>1, KeyAssumption, EntryIs
<1>5. \A j \in 1..n : Entry(t, j)[2] # Nil => (Entry(t, j)[1] \in visited <=> j <= p)
  BY <1>1, <1>2, <1>4, KeyAssumption, PassedIs
<1>6. \A k : k \in D!Present <=> k \in Key /\ Get(t, k) # Nil
  BY DEF D!Present, MapOf
<1>7. CASE After(t, i) = {}
  <2>1. ASSUME NEW x \in Key, Get(t, x) # Nil PROVE x \in visited
    <3>1. PICK j \in 1..n : Entry(t, j)[1] = x /\ Entry(t, j)[2] # Nil
      BY <1>1, <1>4, <2>1, KeyAssumption, ValueEntry
    <3>2. j <= p
      BY <1>2, <1>3, <1>4, <1>7, <3>1 DEF After
    <3> QED
      BY <1>5, <3>1, <3>2
  <2> QED
    BY <1>6, <1>7, <2>1
<1>8. CASE After(t, i) # {}
  <2>1. After(t, i) \subseteq Nat
    BY <1>2, <1>3, <1>4 DEF After
  <2>2. PICK q : q = Min(After(t, i)) /\ q \in After(t, i)
    BY <1>8, <2>1, MinOf
  <2>3. q \in 1..n /\ q > p /\ Entry(t, q)[2] # Nil
    BY <1>2, <1>3, <1>4, <2>2 DEF After
  <2>4. PICK k : k = Entry(t, q)[1]
    OBVIOUS
  <2>5. k \in Key /\ Get(t, k) # Nil
    BY <1>1, <1>4, <2>3, <2>4, KeyAssumption, EntryHas
  <2>6. k \notin visited
    BY <1>2, <1>5, <2>3, <2>4
  <2> QED
    BY <1>6, <1>8, <2>2, <2>4, <2>5, <2>6
<1> QED
  BY <1>7, <1>8

\* A table is a dictionary for its program.  In every state that it can reach, whatever
\* chains, sizes, limits and dead keys it has inside: t[k] = v, also one that rehashes, gives
\* k the value v and leaves every other key alone; one that fails, whichever allocation of
\* luaH_resize it is, a read, the length operator and the collector change no key; next()
\* returns an entry with a value that the traversal has not returned, although fields are
\* cleared, and their keys collected, while it runs, and nil only when there is none left.
\* And every step is one of a dictionary.
THEOREM TablesAreDictionaries == Spec => IsDict
<1>1. Init => D!Init
  BY InitIsDict
<1>2. ChainInv /\ [Next]_vars => [D!Next]_D!contents
  BY NextIsDict
<1>3. ChainInv => MapAsAsked /\ NextAsAsked
  BY AssignmentsHold, OthersHold, NextHolds DEF MapAsAsked
<1> QED
  BY <1>1, <1>2, <1>3, ChainsHold, PTL DEF Spec, IsDict, D!Spec
=============================================================================
