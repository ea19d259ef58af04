--------------------------- MODULE MemTableProofs ---------------------------
(***************************************************************************)
(* What the memtable owes its readers, for any keys, heights, block sizes  *)
(* and numbers of operations.                                              *)
(*                                                                         *)
(* A reader's search is a walk over links that an insertion changes under  *)
(* it.  The induction keeps, level by level, the set of nodes that are     *)
(* linked there and that their links lead to the next of them; the node an *)
(* insertion is about to link is not one of them, although its own link    *)
(* may be set already.                                                     *)
(***************************************************************************)
EXTENDS MemTable, WellFoundedInduction, TLAPS

-----------------------------------------------------------------------------
(* The invariant of the skip list. *)
Nodes == SkipKeys \cup {Head0}
Links == SkipKeys \cup {Nil, Wild}
Insertions == [key : SkipKeys, height : 1 .. MaxHeight, level : SkLevels, set : BOOLEAN,
               prev : [SkLevels -> Nodes]]

SkTypeOK ==
    /\ skNext \in [Nodes -> [SkLevels -> Links]]
    /\ skMax \in 1 .. MaxHeight /\ skIn \subseteq SkipKeys
    /\ skIns = NoInsert \/ skIns \in Insertions

(* The nodes a search at level l can come to, but for the head. *)
Linked(l) == {n \in skIn : skNext[n][l] # Wild /\ (n = skIns.key => l < skIns.level)}

(* y is the next of the nodes S after n, or there is none. *)
IsNextIn(S, n, y) ==
    \/ y = Nil /\ \A m \in S : m <= n
    \/ y \in S /\ n < y /\ \A m \in S : m <= n \/ y <= m

(* The links of every level lead from each node to the next, a node linked *)
(* on a level is linked on the one below, and every node is on the lowest. *)
LevelsLinked ==
    /\ \A l \in SkLevels : \A n \in Linked(l) \cup {Head0} : IsNextIn(Linked(l), n, skNext[n][l])
    /\ \A l \in SkLevels : l > 0 => Linked(l) \subseteq Linked(l - 1)
    /\ \A l \in SkLevels : l >= skMax => Linked(l) = {}
    /\ Linked(0) = skIn
    /\ \A n \in SkipKeys \ skIn : n # skIns.key => skNext[n] = [l \in SkLevels |-> Wild]

(* prev[l] of an insertion is the node before the key, on the levels that  *)
(* are still to be linked.                                                 *)
InsertionOK(i) ==
    /\ i.level < i.height /\ i.height <= skMax
    /\ i.key \in skIn <=> i.level > 0
    /\ \A l \in SkLevels : skNext[i.key][l] # Wild <=> l < i.level \/ (l = i.level /\ i.set)
    /\ \A l \in SkLevels : l >= i.level =>
         /\ i.prev[l] \in Linked(l) \cup {Head0} /\ i.prev[l] < i.key
         /\ \A m \in Linked(l) : m <= i.prev[l] \/ i.key < m
    /\ i.set => skNext[i.key][i.level] = skNext[i.prev[i.level]][i.level]

ListInvariant == SkTypeOK /\ LevelsLinked /\ (skIns # NoInsert => InsertionOK(skIns))

(* A search stands on a node of its level, before its target. *)
Searches == {"ge", "lt", "last"}
Reads == [op : Searches, target : SkipKeys, node : SkipKeys \cup {Nil}, x : Nodes, level : SkLevels,
          must : SUBSET SkipKeys]

SearchOK ==
    /\ skRd \in Reads
    /\ skRd.x \in Linked(skRd.level) \cup {Head0}
    /\ skRd.must \subseteq skIn
    /\ skRd.op # "last" => skRd.x < skRd.target

ReadInvariant ==
    /\ skRd.op \in Searches \cup {"idle", "done:ge", "done:lt", "done:last", "done:first", "done:next"}
    /\ skRd.node \in skIn \cup {Nil}
    /\ skRd.op \in Searches => SearchOK
    /\ ReadersMissNothing

SkipInvariant == ListInvariant /\ ReadInvariant

-----------------------------------------------------------------------------
(* Sets of naturals and changed functions. *)
LEMMA HasLeast ==
  ASSUME NEW T, T \subseteq Nat, T # {}
  PROVE  \E x \in T : \A y \in T : x <= y
<1>1. IsWellFoundedOn(OpToRel(<, Nat), Nat)
  BY NatLessThanWellFounded, Zenon
<1>2. PICK x \in T : \A y \in T : ~(<<y, x>> \in OpToRel(<, Nat))
  BY <1>1, WFMin, Zenon
<1>3. \A y \in T : ~(y < x)
  BY <1>2, Zenon DEF OpToRel
<1> QED
  BY <1>3

(* Max of a bounded set of naturals is its greatest element. *)
LEMMA MaxIsGreatest ==
  ASSUME NEW T, T \subseteq Nat, T # {}, NEW b \in Nat, \A n \in T : n <= b
  PROVE  Max(T) \in T /\ \A n \in T : n <= Max(T)
<1> DEFINE U == {b - n : n \in T}
<1>1. U \subseteq Nat
  OBVIOUS
<1>2. U # {}
  BY Zenon
<1>3. PICK x \in U : \A y \in U : x <= y
  <2> HIDE DEF U
  <2> QED
    BY <1>1, <1>2, HasLeast, Zenon
<1>4. PICK m \in T : x = b - m
  BY <1>3, Zenon
<1>5. \A n \in T : m >= n
  <2> TAKE n \in T
  <2>1. b - m <= b - n
    BY <1>3, <1>4, Zenon
  <2> QED
    BY <2>1
<1> QED
  BY <1>5, Zenon DEF Max

LEMMA LinkChanged ==
  ASSUME NEW f \in [Nodes -> [SkLevels -> Links]], NEW a \in Nodes, NEW b \in SkLevels, NEW v \in Links,
         NEW g, g = [f EXCEPT ![a][b] = v]
  PROVE  /\ g \in [Nodes -> [SkLevels -> Links]]
         /\ g[a][b] = v
         /\ \A l \in SkLevels : l # b => g[a][l] = f[a][l]
         /\ \A n \in Nodes : n # a => g[n] = f[n]
  OBVIOUS

(* Constants *)
LEMMA SkipConstants ==
  /\ SkipKeys \subseteq Nat \ {0} /\ MaxHeight \in Nat \ {0}
  /\ Nil \notin SkipKeys /\ Wild \notin SkipKeys /\ Head0 \notin SkipKeys /\ Nil # Wild
  /\ 0 \in SkLevels /\ Nodes \subseteq Nat /\ SkLevels \subseteq Nat
  BY MemTableAssumption DEF Nil, Wild, Head0, SkLevels, Nodes

-----------------------------------------------------------------------------
(* What a link found on a level says. *)
LEMMA FollowLink ==
  ASSUME ListInvariant, NEW l \in SkLevels, NEW n \in Linked(l) \cup {Head0}
  PROVE  /\ IsNextIn(Linked(l), n, skNext[n][l])
         /\ skNext[n][l] \in Linked(l) \cup {Nil} /\ skNext[n][l] # Wild
         /\ n \in Nodes /\ Linked(l) \subseteq skIn /\ skIn \subseteq SkipKeys
<1>1. IsNextIn(Linked(l), n, skNext[n][l])
  BY Zenon DEF ListInvariant, LevelsLinked
<1>2. Linked(l) \subseteq skIn /\ skIn \subseteq SkipKeys
  BY Zenon DEF Linked, ListInvariant, SkTypeOK
<1>3. skNext[n][l] \in Linked(l) \cup {Nil}
  BY <1>1, Zenon DEF IsNextIn
<1> QED
  BY <1>1, <1>2, <1>3, SkipConstants, Zenon DEF Nodes

(* A key put between p and what follows it. *)
LEMMA InsertBetween ==
  ASSUME NEW S, S \subseteq SkipKeys, NEW k \in SkipKeys, NEW p \in S \cup {Head0}, p < k,
         \A m \in S : m <= p \/ k < m,
         NEW n \in S \cup {Head0}, NEW y, IsNextIn(S, n, y)
  PROVE  /\ n # p => IsNextIn(S \cup {k}, n, y)
         /\ n = p => IsNextIn(S \cup {k}, k, y)
         /\ IsNextIn(S \cup {k}, p, k)
<1>1. S \subseteq Nat \ {0} /\ k \in Nat /\ p \in Nat /\ n \in Nat
  BY SkipConstants, Zenon DEF Head0
<1>2. y = Nil \/ y \in Nat
  BY <1>1, Zenon DEF IsNextIn
<1>3. IsNextIn(S \cup {k}, p, k)
  BY <1>1 DEF IsNextIn
<1>4. ASSUME n = p, y = Nil PROVE IsNextIn(S \cup {k}, k, y)
  <2>1. \A m \in S : m <= n
    BY <1>1, <1>4, SkipConstants, Zenon DEF IsNextIn
  <2>2. \A m \in S \cup {k} : m <= k
    BY <1>1, <1>4, <2>1
  <2> QED
    BY <1>4, <2>2, Zenon DEF IsNextIn
<1>5. ASSUME n = p, y # Nil PROVE IsNextIn(S \cup {k}, k, y)
  BY <1>1, <1>2, <1>5 DEF IsNextIn
<1>6. ASSUME n # p PROVE k < n \/ (n < p /\ p \in S)
  BY <1>1, <1>6 DEF Head0
<1>7. ASSUME n # p, y = Nil PROVE IsNextIn(S \cup {k}, n, y)
  <2>1. \A m \in S : m <= n
    BY <1>1, <1>7, SkipConstants, Zenon DEF IsNextIn
  <2> QED
    BY <1>1, <1>6, <1>7, <2>1 DEF IsNextIn
<1>8. ASSUME n # p, y # Nil PROVE IsNextIn(S \cup {k}, n, y)
  <2>1. y \in S /\ n < y /\ \A m \in S : m <= n \/ y <= m
    BY <1>8, Zenon DEF IsNextIn
  <2>2. k <= n \/ y <= k
    BY <1>1, <1>6, <1>8, <2>1
  <2> QED
    BY <1>1, <2>1, <2>2, Zenon DEF IsNextIn
<1> QED
  BY <1>3, <1>4, <1>5, <1>7, <1>8, Zenon

-----------------------------------------------------------------------------
(* Insert. *)
(* Nothing is being inserted: the nodes of a level are those whose link is *)
(* set, and Prev is the last of them before the key.                       *)
LEMMA PrevIsLast ==
  ASSUME ListInvariant, skIns = NoInsert, NEW key \in SkipKeys, key \notin skIn, NEW l \in SkLevels
  PROVE  /\ Prev(key, l) \in Linked(l) \cup {Head0} /\ Prev(key, l) < key
         /\ \A m \in Linked(l) : m <= Prev(key, l) \/ key < m
<1> DEFINE on == {n \in skIn : skNext[n][l] # Wild /\ n < key}
<1>1. skIn \subseteq SkipKeys /\ key \in Nat \ {0} /\ skIn \subseteq Nat \ {0}
  BY SkipConstants, Zenon DEF ListInvariant, SkTypeOK
<1>2. Linked(l) = {n \in skIn : skNext[n][l] # Wild}
  BY <1>1, SkipConstants, Zenon DEF Linked, NoInsert
<1>3. /\ \A n \in Linked(l) : n \in skIn /\ (n < key => n \in on)
      /\ \A n \in on : n \in Linked(l) /\ n < key
  BY <1>2, Zenon
<1>4. Prev(key, l) = IF on = {} THEN Head0 ELSE Max(on)
  BY Zenon DEF Prev
<1> HIDE DEF on
<1>5. CASE on = {}
  <2>1. ASSUME NEW m \in Linked(l) PROVE key < m
    <3>1. m \in Nat /\ m # key
      BY <1>1, <1>3, Zenon
    <3>2. ~(m < key)
      BY <1>3, <1>5, Zenon
    <3> QED
      BY <1>1, <3>1, <3>2
  <2> QED
    BY <1>1, <1>4, <1>5, <2>1 DEF Head0
<1>6. CASE on # {}
  <2>1. on \subseteq Nat /\ on # {} /\ key \in Nat
    BY <1>1, <1>3, <1>6, Zenon
  <2>4. ASSUME NEW n \in on PROVE n <= key
    <3>1. n \in Nat /\ n < key
      BY <1>3, <2>1, Zenon
    <3> QED
      BY <2>1, <3>1
  <2>2. Max(on) \in on /\ \A n \in on : n <= Max(on)
    BY <2>1, <2>4, MaxIsGreatest, Zenon
  <2>3. ASSUME NEW m \in Linked(l) PROVE m \in on \/ key < m
    <3>1. m \in Nat /\ m # key /\ (m < key => m \in on)
      BY <1>1, <1>3, Zenon
    <3> QED
      BY <2>1, <3>1
  <2> QED
    BY <1>3, <1>4, <1>6, <2>2, <2>3, Zenon
<1> QED
  BY <1>5, <1>6, Zenon

LEMMA InsertBegins ==
  ASSUME ListInvariant, NEW k \in SkipKeys, NEW h \in 1 .. MaxHeight, SkipInsert(k, h)
  PROVE  ListInvariant' /\ \A l \in SkLevels : Linked(l)' = Linked(l)
<1> USE DEF SkipInsert
<1>1. skIns = NoInsert /\ k \notin skIn /\ skIn \subseteq SkipKeys
  BY Zenon DEF ListInvariant, SkTypeOK
<1>2. ASSUME NEW l \in SkLevels PROVE Linked(l)' = Linked(l)
  <2>1. skIns.key = Nil
    BY <1>1 DEF NoInsert
  <2>1a. skIns'.key = k
    OBVIOUS
  <2>2. \A n \in skIn : n # Nil /\ n # k
    BY <1>1, SkipConstants, Zenon
  <2>3. skNext' = skNext /\ skIn' = skIn
    BY Zenon
  <2> QED
    BY <2>1, <2>1a, <2>2, <2>3, Zenon DEF Linked
<1>3. skMax' \in 1 .. MaxHeight /\ skMax' >= skMax /\ h <= skMax'
  <2>1. skMax \in 1 .. MaxHeight
    BY Zenon DEF ListInvariant, SkTypeOK
  <2> DEFINE T == {skMax, h}
  <2>2. T \subseteq Nat /\ T # {} /\ MaxHeight \in Nat /\ \A n \in T : n <= MaxHeight
    BY <2>1, SkipConstants
  <2>3. Max(T) \in T /\ \A n \in T : n <= Max(T)
    BY <2>2, MaxIsGreatest, Zenon
  <2> QED
    BY <2>1, <2>3, Zenon
<1> DEFINE prev == [l \in SkLevels |-> IF l < skMax THEN Prev(k, l) ELSE Head0]
<1>4. ASSUME NEW l \in SkLevels
      PROVE  /\ prev[l] \in Linked(l) \cup {Head0} /\ prev[l] < k
             /\ \A m \in Linked(l) : m <= prev[l] \/ k < m
  <2>1. CASE l < skMax
    <3>1. prev[l] = Prev(k, l)
      BY <2>1, Zenon
    <3> QED
      BY <1>1, <3>1, PrevIsLast, Zenon
  <2>2. CASE ~(l < skMax)
    <3>1. Linked(l) = {}
      BY <2>2, SkipConstants DEF ListInvariant, LevelsLinked, SkTypeOK
    <3>2. prev[l] = Head0
      BY <2>2, Zenon
    <3> QED
      BY <3>1, <3>2, SkipConstants DEF Head0
  <2> QED
    BY <2>1, <2>2, Zenon
<1>5. prev \in [SkLevels -> Nodes]
  <2>1. \A l \in SkLevels : prev[l] \in Nodes
    BY <1>1, <1>4, Zenon DEF Nodes, Linked
  <2> QED
    BY <2>1, Zenon
<1>6. skIns' = [key |-> k, height |-> h, level |-> 0, set |-> FALSE, prev |-> prev]
  OBVIOUS
<1> HIDE DEF prev
<1>7. SkTypeOK'
  BY <1>3, <1>5, <1>6, SkipConstants DEF ListInvariant, SkTypeOK, Insertions
<1>8. LevelsLinked'
  <2>1. \A l \in SkLevels : l > 0 => l - 1 \in SkLevels
    BY SkipConstants DEF SkLevels
  <2>2. LevelsLinked
    BY Zenon DEF ListInvariant
  <2>3. \A l \in SkLevels : \A n \in Linked(l)' \cup {Head0} : IsNextIn(Linked(l), n, skNext[n][l])'
    BY <1>2, <2>2 DEF LevelsLinked, IsNextIn
  <2>4. \A l \in SkLevels : l > 0 => Linked(l)' \subseteq Linked(l - 1)'
    BY <1>2, <2>1, <2>2 DEF LevelsLinked
  <2>5. \A l \in SkLevels : l >= skMax' => Linked(l)' = {}
    BY <1>2, <1>3, <2>2, SkipConstants DEF LevelsLinked, ListInvariant, SkTypeOK
  <2>6. Linked(0)' = skIn'
    BY <1>2, <2>2, SkipConstants, Zenon DEF LevelsLinked
  <2>7. \A n \in SkipKeys \ skIn' : n # skIns'.key => skNext'[n] = [l \in SkLevels |-> Wild]
    <3> SUFFICES ASSUME NEW n \in SkipKeys \ skIn PROVE skNext[n] = [l \in SkLevels |-> Wild]
      OBVIOUS
    <3>1. n # skIns.key
      BY <1>1, SkipConstants DEF NoInsert
    <3> QED
      BY <3>1, <2>2, Zenon DEF LevelsLinked
  <2> QED
    BY <2>3, <2>4, <2>5, <2>6, <2>7, Zenon DEF LevelsLinked
<1>9. InsertionOK(skIns)'
  <2>1. k # skIns.key
    BY <1>1, SkipConstants DEF NoInsert
  <2>2. skNext[k] = [l \in SkLevels |-> Wild]
    BY <1>1, <2>1, Zenon DEF ListInvariant, LevelsLinked
  <2>3. \A l \in SkLevels : skNext[k][l] = Wild
    BY <2>2, Zenon
  <2> QED
    <3> HIDE DEF SkipInsert
    <3>1. /\ skIns'.key = k /\ skIns'.height = h /\ skIns'.level = 0 /\ ~skIns'.set
          /\ skIns'.prev = prev
      BY <1>6, Zenon
    <3>2. skNext' = skNext /\ k \notin skIn'
      BY <1>1, Zenon DEF SkipInsert
    <3>3. 0 < h /\ ~(0 > 0) /\ \A l \in SkLevels : ~(l < 0)
      BY SkipConstants
    <3> QED
      BY <3>1, <3>2, <3>3, <1>2, <1>3, <1>4, <2>3, ZenonT(60) DEF InsertionOK
<1> QED
  BY <1>2, <1>7, <1>8, <1>9, Zenon DEF ListInvariant

(* What an insertion in progress says of the level it is at. *)
LEMMA AtLevel ==
  ASSUME ListInvariant, skIns # NoInsert
  PROVE  /\ skIns \in Insertions /\ skIns.key \in SkipKeys /\ skIns.level \in SkLevels
         /\ skIns.key \notin Linked(skIns.level) /\ InsertionOK(skIns)
         /\ skIns.prev[skIns.level] \in Linked(skIns.level) \cup {Head0}
         /\ skIns.prev[skIns.level] \in Nodes /\ skIns.prev[skIns.level] < skIns.key
         /\ skIns.prev[skIns.level] # skIns.key
<1>1. skIns \in Insertions /\ InsertionOK(skIns)
  BY Zenon DEF ListInvariant, SkTypeOK
<1>2. skIns.key \in SkipKeys /\ skIns.level \in SkLevels
  BY <1>1, Zenon DEF Insertions
<1>3. skIns.level \in Nat /\ ~(skIns.level < skIns.level) /\ skIns.level >= skIns.level
  <2>1. skIns.level \in Nat
    BY <1>2 DEF SkLevels
  <2> QED
    BY <2>1
<1>4. skIns.key \notin Linked(skIns.level)
  BY <1>3, Zenon DEF Linked
<1>5. skIns.prev[skIns.level] \in Linked(skIns.level) \cup {Head0} /\ skIns.prev[skIns.level] < skIns.key
  BY <1>1, <1>2, <1>3, Zenon DEF InsertionOK
<1>6. skIns.prev[skIns.level] \in Nodes /\ skIns.prev[skIns.level] # skIns.key
  <2>1. Linked(skIns.level) \subseteq SkipKeys
    BY Zenon DEF Linked, ListInvariant, SkTypeOK
  <2>2. skIns.key \in Nat
    BY <1>2, SkipConstants, Zenon
  <2> QED
    BY <1>4, <1>5, <2>1, <2>2 DEF Nodes, Head0
<1> QED
  BY <1>1, <1>2, <1>4, <1>5, <1>6, Zenon

(* The first store sets a link of a node that is not yet on the level. *)
LEMMA NewNodePointsOn ==
  ASSUME ListInvariant, InsertStep, ~skIns.set
  PROVE  ListInvariant' /\ \A l \in SkLevels : Linked(l)' = Linked(l)
<1> DEFINE k == skIns.key
           lev == skIns.level
           v == skNext[skIns.prev[lev]][lev]
<1>0. skIns # NoInsert /\ skIn' = skIn /\ skMax' = skMax
      /\ skNext' = [skNext EXCEPT ![k][lev] = v] /\ skIns' = [skIns EXCEPT !.set = TRUE]
  BY Zenon DEF InsertStep, FirstStore, SetNextOfNew
<1>1. /\ skIns \in Insertions /\ k \in SkipKeys /\ lev \in SkLevels /\ k \notin Linked(lev)
      /\ InsertionOK(skIns) /\ skIns.prev[lev] \in Linked(lev) \cup {Head0} /\ k # Head0
  BY <1>0, AtLevel, SkipConstants, Zenon
<1>2. v \in Linked(lev) \cup {Nil} /\ v # Wild /\ skIn \subseteq SkipKeys /\ Linked(lev) \subseteq skIn
  BY <1>1, FollowLink, Zenon
<1>3. /\ skNext' \in [Nodes -> [SkLevels -> Links]]
      /\ skNext'[k][lev] = v
      /\ \A l \in SkLevels : l # lev => skNext'[k][l] = skNext[k][l]
      /\ \A n \in Nodes : n # k => skNext'[n] = skNext[n]
  <2>1. skNext \in [Nodes -> [SkLevels -> Links]] /\ k \in Nodes /\ v \in Links
    BY <1>1, <1>2, Zenon DEF ListInvariant, SkTypeOK, Nodes, Links
  <2> QED
    BY <1>0, <1>1, <2>1, LinkChanged
<1>4. /\ skIns' \in Insertions /\ skIns'.key = k /\ skIns'.level = lev /\ skIns'.set = TRUE
      /\ skIns'.height = skIns.height /\ skIns'.prev = skIns.prev
  BY <1>0, <1>1, Zenon DEF Insertions
<1> HIDE DEF k, lev, v
<1>5. ASSUME NEW l \in SkLevels PROVE Linked(l)' = Linked(l)
  <2>1. ~(lev < lev)
    BY <1>1 DEF SkLevels
  <2>2. ASSUME NEW n \in skIn
        PROVE  (n \in Linked(l)) <=> (n \in Linked(l)')
    <3>1. n \in Nodes /\ n \in skIn'
      BY <1>0, <1>2, Zenon DEF Nodes
    <3>2. CASE n # k
      BY <1>3, <1>4, <3>1, <3>2, Zenon DEF Linked, k
    <3>3. CASE n = k /\ l # lev
      BY <1>3, <1>4, <3>1, <3>3, Zenon DEF Linked, k, lev
    <3>4. CASE n = k /\ l = lev
      BY <1>4, <2>1, <3>4, Zenon DEF Linked, k, lev
    <3> QED
      BY <3>2, <3>3, <3>4, Zenon
  <2>3. Linked(l) \subseteq skIn /\ Linked(l)' \subseteq skIn
    BY <1>0, Zenon DEF Linked
  <2> QED
    BY <2>2, <2>3, Zenon
<1>6. ASSUME NEW l \in SkLevels, NEW n \in Linked(l) \cup {Head0}
      PROVE  skNext'[n][l] = skNext[n][l]
  <2>1. n \in Nodes
    BY <1>2, Zenon DEF Nodes, Linked
  <2>2. n = k => l # lev
    BY <1>1, Zenon
  <2> QED
    BY <1>3, <2>1, <2>2, Zenon
<1>7. SkTypeOK'
  BY <1>0, <1>3, <1>4, Zenon DEF ListInvariant, SkTypeOK
<1>8. LevelsLinked'
  <2>1. \A l \in SkLevels : l > 0 => l - 1 \in SkLevels
    BY SkipConstants DEF SkLevels
  <2>2. LevelsLinked
    BY Zenon DEF ListInvariant
  <2>3. ASSUME NEW l \in SkLevels, NEW n \in Linked(l)' \cup {Head0}
        PROVE  IsNextIn(Linked(l)', n, skNext'[n][l])
    BY <1>5, <1>6, <2>2, Zenon DEF LevelsLinked
  <2>4. \A l \in SkLevels : l > 0 => Linked(l)' \subseteq Linked(l - 1)'
    BY <1>5, <2>1, <2>2, Zenon DEF LevelsLinked
  <2>5. \A l \in SkLevels : l >= skMax' => Linked(l)' = {}
    BY <1>0, <1>5, <2>2, Zenon DEF LevelsLinked
  <2>6. Linked(0)' = skIn'
    BY <1>0, <1>5, <2>2, SkipConstants, Zenon DEF LevelsLinked
  <2>7. ASSUME NEW n \in SkipKeys \ skIn', n # skIns'.key
        PROVE  skNext'[n] = [l \in SkLevels |-> Wild]
    <3>1. n \in Nodes /\ n \notin skIn /\ n # k /\ n # skIns.key
      BY <1>0, <1>4, <2>7, Zenon DEF Nodes, k
    <3> QED
      BY <1>3, <2>2, <3>1, Zenon DEF LevelsLinked
  <2> QED
    BY <2>3, <2>4, <2>5, <2>6, <2>7, Zenon DEF LevelsLinked, IsNextIn
<1>9. InsertionOK(skIns)'
  <2>0. lev \in Nat
    BY <1>1 DEF SkLevels
  <2>1. lev < skIns.height /\ skIns.height <= skMax' /\ (k \in skIn' <=> lev > 0)
    BY <1>0, <1>1, Zenon DEF InsertionOK, k, lev
  <2>2. ASSUME NEW l \in SkLevels PROVE skNext'[k][l] # Wild <=> l < lev \/ (l = lev /\ TRUE)
    <3>1. CASE l # lev
      BY <1>1, <1>3, <3>1, Zenon DEF InsertionOK, k, lev
    <3>2. CASE l = lev
      BY <1>2, <1>3, <3>2, Zenon
    <3> QED
      BY <3>1, <3>2, Zenon
  <2>3. ASSUME NEW l \in SkLevels, l >= lev
        PROVE  /\ skIns.prev[l] \in Linked(l)' \cup {Head0} /\ skIns.prev[l] < k
               /\ \A m \in Linked(l)' : m <= skIns.prev[l] \/ k < m
    BY <1>1, <1>5, <2>3 DEF InsertionOK, k, lev
  <2>4. skNext'[k][lev] = skNext'[skIns.prev[lev]][lev]
    BY <1>1, <1>3, <1>6, Zenon DEF v
  <2> QED
    BY <1>4, <2>1, <2>2, <2>3, <2>4, Zenon DEF InsertionOK
<1> QED
  BY <1>5, <1>7, <1>8, <1>9, Zenon DEF ListInvariant

(* The second store puts the node on the level, between two of its nodes. *)
LEMMA NodeIsLinked ==
  ASSUME ListInvariant, InsertStep, skIns.set
  PROVE  ListInvariant' /\ \A l \in SkLevels : Linked(l) \subseteq Linked(l)'
<1> DEFINE k == skIns.key
           lev == skIns.level
           p == skIns.prev[lev]
<1>0. /\ skIns # NoInsert /\ skIn' = skIn \cup {k} /\ skMax' = skMax
      /\ skNext' = [skNext EXCEPT ![p][lev] = k]
      /\ skIns' = IF lev + 1 = skIns.height THEN NoInsert
                  ELSE [skIns EXCEPT !.level = @ + 1, !.set = FALSE]
  BY Zenon DEF InsertStep, LinkNew
<1>1. /\ skIns \in Insertions /\ k \in SkipKeys /\ lev \in SkLevels /\ k \notin Linked(lev)
      /\ InsertionOK(skIns) /\ p \in Linked(lev) \cup {Head0} /\ p \in Nodes /\ p < k
      /\ k # Head0 /\ p # k
  BY <1>0, AtLevel, SkipConstants, Zenon
<1>2. skIn \subseteq SkipKeys /\ skIn' \subseteq SkipKeys /\ LevelsLinked
  BY <1>0, <1>1, Zenon DEF ListInvariant, SkTypeOK
<1>3. /\ skNext' \in [Nodes -> [SkLevels -> Links]]
      /\ skNext'[p][lev] = k
      /\ \A l \in SkLevels : l # lev => skNext'[p][l] = skNext[p][l]
      /\ \A n \in Nodes : n # p => skNext'[n] = skNext[n]
  <2>1. skNext \in [Nodes -> [SkLevels -> Links]] /\ k \in Links
    BY <1>1, Zenon DEF ListInvariant, SkTypeOK, Links
  <2> QED
    BY <1>0, <1>1, <2>1, LinkChanged, SMTT(60)
<1>4. lev \in Nat /\ skIns.height \in 1 .. MaxHeight /\ lev < skIns.height /\ skIns.height <= skMax
  BY <1>1 DEF SkLevels, InsertionOK, Insertions
<1>5. \/ skIns' = NoInsert /\ lev + 1 = skIns.height
      \/ /\ skIns' \in Insertions /\ skIns'.key = k /\ skIns'.level = lev + 1 /\ skIns'.set = FALSE
         /\ skIns'.height = skIns.height /\ skIns'.prev = skIns.prev /\ lev + 1 < skIns.height
  <2>1. CASE lev + 1 = skIns.height
    BY <1>0, <2>1, Zenon
  <2>2. CASE lev + 1 # skIns.height
    <3>1. lev + 1 < skIns.height
      BY <1>4, <2>2
    <3>2. lev + 1 \in SkLevels
      BY <1>4, <3>1, SkipConstants DEF SkLevels
    <3> QED
      BY <1>0, <1>1, <2>2, <3>1, <3>2, Zenon DEF Insertions
  <2> QED
    BY <2>1, <2>2, Zenon
<1>6. \A l \in SkLevels : skNext[k][l] # Wild <=> l < lev \/ l = lev
  BY <1>1, Zenon DEF InsertionOK
<1>7. skNext'[k] = skNext[k] /\ k \in Nodes
  BY <1>1, <1>3, Zenon DEF Nodes
<1> HIDE DEF k, lev, p
<1>8. ASSUME NEW l \in SkLevels
      PROVE  Linked(l)' = IF l = lev THEN Linked(l) \cup {k} ELSE Linked(l)
  <2>1. l \in Nat
    BY DEF SkLevels
  <2>2. Linked(l) \subseteq skIn /\ Linked(l)' \subseteq skIn \cup {k}
    BY <1>0, Zenon DEF Linked
  <2>3. ASSUME NEW n \in skIn, n # k PROVE (n \in Linked(l)) <=> (n \in Linked(l)')
    <3>1. n \in Nodes /\ n \in skIn' /\ n # Nil
      BY <1>0, <1>2, SkipConstants, Zenon DEF Nodes
    <3>2. n # skIns'.key /\ n # skIns.key
      BY <1>5, <2>3, <3>1 DEF NoInsert, k
    <3>3. skNext'[n][l] # Wild <=> skNext[n][l] # Wild
      <4>1. CASE n = p /\ l = lev
        <5>1. skNext'[n][l] # Wild
          BY <1>1, <1>3, <4>1, SkipConstants, Zenon
        <5>2. n \in Linked(l)
          BY <1>1, <1>2, <4>1, SkipConstants, Zenon
        <5> QED
          BY <5>1, <5>2, Zenon DEF Linked
      <4>2. CASE ~(n = p /\ l = lev)
        BY <1>3, <3>1, <4>2, Zenon
      <4> QED
        BY <4>1, <4>2, Zenon
    <3> QED
      BY <3>1, <3>2, <3>3, Zenon DEF Linked
  <2>4. k \in Linked(l)' <=> l <= lev
    <3>1. k \in skIn' /\ k # Nil
      BY <1>0, <1>1, SkipConstants, Zenon
    <3>2. skNext'[k][l] # Wild <=> l <= lev
      BY <1>4, <1>6, <1>7, <2>1
    <3>3. skIns'.key = k => (l < skIns'.level <=> l <= lev)
      BY <1>4, <1>5, <2>1, <3>1 DEF NoInsert
    <3> QED
      BY <3>1, <3>2, <3>3, Zenon DEF Linked
  <2>5. k \in Linked(l) <=> l < lev
    <3>1. l < lev => k \in skIn
      BY <1>1, <1>4, <2>1 DEF InsertionOK, k, lev
    <3>2. k \in skIn => (k \in Linked(l) <=> skNext[k][l] # Wild /\ l < lev)
      BY Zenon DEF Linked, k, lev
    <3> QED
      BY <1>6, <2>2, <3>1, <3>2, Zenon
  <2>6. CASE l = lev
    BY <1>4, <2>1, <2>2, <2>3, <2>4, <2>6
  <2>7. CASE l # lev
    <3>1. k \in Linked(l) <=> k \in Linked(l)'
      BY <1>4, <2>1, <2>4, <2>5, <2>7
    <3> QED
      BY <2>2, <2>3, <2>7, <3>1
  <2> QED
    BY <2>6, <2>7, Zenon
<1>9. SkTypeOK'
  BY <1>0, <1>2, <1>3, <1>5, Zenon DEF ListInvariant, SkTypeOK
<1>10. LevelsLinked'
  <2>1. ASSUME NEW l \in SkLevels, NEW n \in Linked(l)' \cup {Head0}
        PROVE  IsNextIn(Linked(l)', n, skNext'[n][l])
    <3>0. Linked(l) \subseteq SkipKeys
      BY <1>2, Zenon DEF Linked
    <3>1. CASE l # lev
      <4>1. n \in Linked(l) \cup {Head0} /\ Linked(l)' = Linked(l)
        BY <1>8, <3>1, Zenon
      <4>2. n \in Nodes
        BY <3>0, <4>1, Zenon DEF Nodes
      <4>3. skNext'[n][l] = skNext[n][l]
        BY <1>3, <3>1, <4>2, Zenon
      <4> QED
        BY <1>2, <4>1, <4>3, Zenon DEF LevelsLinked
    <3>2. CASE l = lev
      <4>1. Linked(l)' = Linked(l) \cup {k}
        BY <1>8, <3>2, Zenon
      <4>2. \A m \in Linked(l) : m <= p \/ k < m
        <5>1. l >= lev
          BY <1>4, <3>2
        <5> QED
          BY <1>1, <3>2, <5>1, Zenon DEF InsertionOK, k, lev, p
      <4>3. ASSUME NEW x \in Linked(l) \cup {Head0}
            PROVE  /\ x # p => IsNextIn(Linked(l)', x, skNext[x][l])
                   /\ x = p => IsNextIn(Linked(l)', k, skNext[x][l])
                   /\ IsNextIn(Linked(l)', p, k)
        <5>1. IsNextIn(Linked(l), x, skNext[x][l])
          BY <1>2, Zenon DEF LevelsLinked
        <5>2. p \in Linked(l) \cup {Head0} /\ p < k /\ k \in SkipKeys
          BY <1>1, <3>2, Zenon
        <5>3. /\ x # p => IsNextIn(Linked(l) \cup {k}, x, skNext[x][l])
              /\ x = p => IsNextIn(Linked(l) \cup {k}, k, skNext[x][l])
              /\ IsNextIn(Linked(l) \cup {k}, p, k)
          BY <3>0, <4>2, <5>1, <5>2, InsertBetween, ZenonT(60)
        <5> QED
          BY <4>1, <5>3, Zenon
      <4>4. CASE n = p
        BY <1>1, <1>3, <3>2, <4>3, <4>4, Zenon
      <4>5. CASE n = k
        <5>1. skNext'[k][l] = skNext[p][l]
          BY <1>1, <1>7, <3>2, Zenon DEF InsertionOK, k, lev, p
        <5> QED
          BY <1>1, <3>2, <4>3, <4>5, <5>1, Zenon
      <4>6. CASE n # p /\ n # k
        <5>1. n \in Linked(l) \cup {Head0}
          BY <4>1, <4>6, Zenon
        <5>2. n \in Nodes
          BY <3>0, <5>1, Zenon DEF Nodes
        <5>3. skNext'[n] = skNext[n]
          BY <1>3, <4>6, <5>2, Zenon
        <5> QED
          BY <4>3, <4>6, <5>1, <5>3, Zenon
      <4> QED
        BY <4>4, <4>5, <4>6, Zenon
    <3> QED
      BY <3>1, <3>2, Zenon
  <2>2. ASSUME NEW l \in SkLevels, l > 0 PROVE Linked(l)' \subseteq Linked(l - 1)'
    <3>1. l - 1 \in SkLevels /\ l \in Nat
      BY <2>2, SkipConstants DEF SkLevels
    <3>2. Linked(l) \subseteq Linked(l - 1) /\ Linked(l - 1) \subseteq Linked(l - 1)'
      BY <1>2, <1>8, <2>2, <3>1, Zenon DEF LevelsLinked
    <3>3. l = lev => k \in Linked(l - 1)
      <4> SUFFICES ASSUME l = lev PROVE k \in Linked(l - 1)
        OBVIOUS
      <4>1. l - 1 < lev /\ skNext[k][l - 1] # Wild
        BY <1>4, <1>6, <3>1
      <4>2. k \in skIn
        BY <1>1, <2>2, Zenon DEF InsertionOK, k, lev
      <4> QED
        BY <4>1, <4>2, Zenon DEF Linked, k, lev
    <3> QED
      BY <1>8, <3>2, <3>3, Zenon
  <2>3. ASSUME NEW l \in SkLevels, l >= skMax' PROVE Linked(l)' = {}
    <3>1. l # lev
      <4>1. l \in Nat /\ skMax \in Nat
        BY DEF SkLevels, ListInvariant, SkTypeOK
      <4> QED
        BY <1>0, <1>4, <2>3, <4>1
    <3> QED
      BY <1>0, <1>2, <1>8, <2>3, <3>1, Zenon DEF LevelsLinked
  <2>4. Linked(0)' = skIn'
    <3>1. Linked(0) = skIn
      BY <1>2, Zenon DEF LevelsLinked
    <3>2. lev # 0 => k \in skIn
      BY <1>1, <1>4 DEF InsertionOK, k, lev
    <3>3. Linked(0)' = IF 0 = lev THEN Linked(0) \cup {k} ELSE Linked(0)
      BY <1>8, SkipConstants, Zenon
    <3> QED
      BY <1>0, <3>1, <3>2, <3>3, Zenon
  <2>5. ASSUME NEW n \in SkipKeys \ skIn', n # skIns'.key
        PROVE  skNext'[n] = [l \in SkLevels |-> Wild]
    <3>1. n \in Nodes /\ n \notin skIn /\ n # k /\ n # Head0
      BY <1>0, <2>5, SkipConstants, Zenon DEF Nodes
    <3>2. n # p
      BY <1>1, <3>1, Zenon DEF Linked
    <3>3. n # skIns.key
      BY <3>1, Zenon DEF k
    <3> QED
      BY <1>2, <1>3, <3>1, <3>2, <3>3, Zenon DEF LevelsLinked
  <2> QED
    BY <2>1, <2>2, <2>3, <2>4, <2>5, Zenon DEF LevelsLinked, IsNextIn
<1>11. ASSUME skIns' # NoInsert PROVE InsertionOK(skIns)'
  <2>1. /\ skIns' \in Insertions /\ skIns'.key = k /\ skIns'.level = lev + 1 /\ skIns'.set = FALSE
        /\ skIns'.height = skIns.height /\ skIns'.prev = skIns.prev /\ lev + 1 < skIns.height
    BY <1>5, <1>11, Zenon
  <2>2. k \in skIn' /\ lev + 1 > 0 /\ skIns.height <= skMax'
    BY <1>0, <1>4
  <2>3. ASSUME NEW l \in SkLevels PROVE skNext'[k][l] # Wild <=> l < lev + 1
    <3>1. l \in Nat
      BY DEF SkLevels
    <3> QED
      BY <1>4, <1>6, <1>7, <3>1
  <2>4. ASSUME NEW l \in SkLevels, l >= lev + 1
        PROVE  /\ skIns.prev[l] \in Linked(l)' \cup {Head0} /\ skIns.prev[l] < k
               /\ \A m \in Linked(l)' : m <= skIns.prev[l] \/ k < m
    <3>1. l # lev /\ l >= lev
      <4>1. l \in Nat
        BY DEF SkLevels
      <4> QED
        BY <1>4, <2>4, <4>1
    <3>2. Linked(l)' = Linked(l)
      BY <1>8, <3>1, Zenon
    <3> QED
      BY <1>1, <3>1, <3>2, Zenon DEF InsertionOK, k, lev
  <2> QED
    BY <2>1, <2>2, <2>3, <2>4, Zenon DEF InsertionOK
<1> QED
  BY <1>8, <1>9, <1>10, <1>11, Zenon DEF ListInvariant

-----------------------------------------------------------------------------
(* Readers. *)
(* A level only gains nodes, which takes nothing from a search under way. *)
LEMMA ReaderUndisturbed ==
  ASSUME ReadInvariant, skRd' = skRd, skIn \subseteq skIn',
         \A l \in SkLevels : Linked(l) \subseteq Linked(l)'
  PROVE  ReadInvariant'
<1>1. ReadersMissNothing'
  BY Zenon DEF ReadInvariant, ReadersMissNothing, Found, UserKey
<1>2. ASSUME skRd.op \in Searches PROVE SearchOK'
  <2>1. SearchOK
    BY <1>2, Zenon DEF ReadInvariant
  <2>2. skRd.level \in SkLevels
    BY <2>1, Zenon DEF SearchOK, Reads
  <2>3. Linked(skRd.level) \subseteq Linked(skRd.level)'
    BY <2>2, Zenon
  <2>4. skRd.x \in Linked(skRd.level)' \cup {Head0}
    BY <2>1, <2>3, Zenon DEF SearchOK
  <2> QED
    BY <2>1, <2>4, Zenon DEF SearchOK
<1>3. skRd'.node \in skIn' \cup {Nil}
  BY Zenon DEF ReadInvariant
<1> QED
  BY <1>1, <1>2, <1>3, Zenon DEF ReadInvariant

LEMMA ListUntouched ==
  ASSUME ListInvariant, UNCHANGED <<skNext, skMax, skIns, skIn>>
  PROVE  ListInvariant' /\ \A l : Linked(l)' = Linked(l)
<1>1. \A l : Linked(l)' = Linked(l)
  BY Zenon DEF Linked
<1> QED
  BY <1>1, SMTT(60) DEF ListInvariant, SkTypeOK, LevelsLinked, InsertionOK, IsNextIn, Linked

(* The node after n on the lowest level: nothing of the list lies between. *)
LEMMA NextOnLowest ==
  ASSUME ListInvariant, NEW n \in skIn \cup {Head0}, NEW y, y = skNext[n][0]
  PROVE  /\ y \in skIn \cup {Nil} /\ y # Wild
         /\ \A m \in skIn : ~(n < m /\ (y = Nil \/ m < y))
         /\ y # Nil => y > n
<1>1. Linked(0) = skIn /\ 0 \in SkLevels
  BY SkipConstants, Zenon DEF ListInvariant, LevelsLinked
<1>2. IsNextIn(skIn, n, y) /\ y \in skIn \cup {Nil} /\ y # Wild /\ skIn \subseteq SkipKeys
  BY <1>1, FollowLink, Zenon
<1>3. skIn \subseteq Nat /\ n \in Nat
  BY <1>2, SkipConstants, Zenon DEF Head0
<1>4. ASSUME NEW m \in skIn PROVE ~(n < m /\ (y = Nil \/ m < y))
  <2>1. CASE y = Nil
    <3>1. m <= n
      BY <1>2, <1>3, <2>1, SkipConstants, Zenon DEF IsNextIn
    <3> QED
      BY <1>3, <2>1, <3>1
  <2>2. CASE y # Nil
    <3>1. y \in Nat /\ (m <= n \/ y <= m)
      BY <1>2, <1>3, <2>2, Zenon DEF IsNextIn
    <3> QED
      BY <1>3, <2>2, <3>1
  <2> QED
    BY <2>1, <2>2, Zenon
<1>5. y # Nil => y > n
  BY <1>2, <1>3, Zenon DEF IsNextIn
<1> QED
  BY <1>2, <1>4, <1>5, Zenon

LEMMA ReadBegins ==
  ASSUME ListInvariant, ReadInvariant, NEW op \in {"ge", "lt", "last", "first", "next"},
         NEW t \in SkipKeys, BeginRead(op, t)
  PROVE  ReadInvariant'
<1>1. skIn' = skIn /\ skIn \subseteq SkipKeys
  BY Zenon DEF BeginRead, ListInvariant, SkTypeOK
<1>2. skRd.node \in skIn \cup {Nil}
  BY Zenon DEF ReadInvariant
<1>3. ASSUME NEW o \in Searches, NEW u \in SkipKeys, StartSearch(o, u)
      PROVE  ReadInvariant'
  <2>1. PICK h \in 1 .. skMax : skRd' = [op |-> o, target |-> u, node |-> skRd.node, x |-> Head0,
                                         level |-> h - 1, must |-> skIn]
    BY <1>3, Zenon DEF StartSearch
  <2>2. h - 1 \in SkLevels
    BY SkipConstants DEF ListInvariant, SkTypeOK, SkLevels
  <2>3. Head0 < u /\ Head0 \in Nodes
    BY SkipConstants DEF Head0, Nodes
  <2>4. SearchOK'
    BY <1>1, <1>2, <2>1, <2>2, <2>3, Zenon DEF SearchOK, Reads
  <2>5. ReadersMissNothing'
    BY <2>1, Zenon DEF ReadersMissNothing, Searches
  <2> QED
    BY <1>1, <1>2, <2>1, <2>4, <2>5, Zenon DEF ReadInvariant
<1>4. ASSUME NEW n \in skIn \cup {Head0}, NEW o \in {"done:first", "done:next"},
             skRd' = [op |-> o, target |-> n, must |-> skIn, node |-> skNext[n][0]]
      PROVE  ReadInvariant'
  <2> DEFINE y == skNext[n][0]
  <2>1. /\ y \in skIn \cup {Nil} /\ y # Wild
        /\ \A m \in skIn : ~(n < m /\ (y = Nil \/ m < y))
        /\ y # Nil => y > n
    BY NextOnLowest, Zenon
  <2>2. skRd'.op = o /\ skRd'.target = n /\ skRd'.must = skIn /\ skRd'.node = y
    BY <1>4, Zenon
  <2> HIDE DEF y
  <2>3. {m \in skIn : n < m /\ (y = Nil \/ m < y)} = {}
    BY <2>1, Zenon
  <2>4. ReadersMissNothing'
    BY <2>1, <2>2, <2>3, Zenon DEF ReadersMissNothing
  <2> QED
    BY <1>1, <2>1, <2>2, <2>4, Zenon DEF ReadInvariant, Searches
<1>5. CASE op \in {"ge", "last"}
  BY <1>3, <1>5, Zenon DEF BeginRead, Searches
<1>6. CASE op = "lt"
  <2>1. skRd.node \in SkipKeys /\ StartSearch("lt", skRd.node)
    BY <1>1, <1>2, <1>6, Zenon DEF BeginRead
  <2> QED
    BY <1>3, <2>1, Zenon DEF Searches
<1>7. CASE op = "first"
  <2>1. skRd' = [op |-> "done:first", target |-> Head0, must |-> skIn, node |-> skNext[Head0][0]]
    BY <1>7, Zenon DEF BeginRead
  <2> QED
    BY <1>4, <2>1, Zenon
<1>8. CASE op = "next"
  <2>1. /\ skRd.node \in skIn
        /\ skRd' = [op |-> "done:next", target |-> skRd.node, must |-> skIn, node |-> skNext[skRd.node][0]]
    BY <1>2, <1>8, Zenon DEF BeginRead
  <2> QED
    BY <1>4, <2>1, Zenon
<1> QED
  BY <1>5, <1>6, <1>7, <1>8, Zenon

(* A key between two of the same user key has that user key. *)
LEMMA SameUserKey ==
  ASSUME NEW a \in Nat, NEW b \in Nat, NEW c \in Nat, a <= b, b <= c, UserKey(a) = UserKey(c)
  PROVE  UserKey(b) = UserKey(a)
  BY DEF UserKey

(* The search is over: on the lowest level, with nothing of the list       *)
(* between where it stands and where it stops.                             *)
LEMMA SearchEnds ==
  ASSUME ListInvariant, ReadInvariant, skRd.op \in Searches, skRd.level = 0, skIn' = skIn,
         NEW next, next = skNext[skRd.x][0], StopsAt(next),
         NEW r, r = (IF skRd.op = "ge" THEN next ELSE IF skRd.x = Head0 THEN Nil ELSE skRd.x),
         skRd' = [op |-> DoneOf[skRd.op], target |-> skRd.target, must |-> skRd.must, node |-> r]
  PROVE  ReadInvariant'
<1> DEFINE x == skRd.x
           t == skRd.target
           must == skRd.must
<1>1. SearchOK /\ skRd \in Reads /\ x \in Linked(0) \cup {Head0} /\ must \subseteq skIn
      /\ (skRd.op # "last" => x < t)
  BY Zenon DEF ReadInvariant, SearchOK
<1>2. x \in skIn \cup {Head0} /\ skIn \subseteq SkipKeys /\ t \in SkipKeys
  BY <1>1, Zenon DEF Linked, Reads, ListInvariant, SkTypeOK
<1>3. /\ next \in skIn \cup {Nil} /\ next # Wild
      /\ \A m \in skIn : ~(x < m /\ (next = Nil \/ m < next))
      /\ next # Nil => next > x
  BY <1>2, NextOnLowest, Zenon
<1>4. x \in Nat /\ t \in Nat \ {0} /\ skIn \subseteq Nat \ {0} /\ must \subseteq Nat \ {0}
  BY <1>1, <1>2, SkipConstants, ZenonT(40) DEF Head0
<1>5. skRd'.op = DoneOf[skRd.op] /\ skRd'.target = t /\ skRd'.must = must /\ skRd'.node = r
  OBVIOUS
<1>6. next = Nil \/ (skRd.op # "last" /\ next >= t)
  BY Zenon DEF StopsAt
<1> HIDE DEF x, t, must
<1>7. CASE skRd.op = "ge"
  <2>1. r = next /\ x < t /\ (next # Nil => next >= t) /\ skRd'.op = "done:ge"
    BY <1>1, <1>5, <1>6, <1>7, SMTT(60) DEF DoneOf
  <2>2. ASSUME NEW m \in must, m >= t PROVE next # Nil /\ next \in Nat /\ next <= m
    <3>1. m \in skIn /\ m \in Nat /\ x < m
      BY <1>1, <1>4, <2>1, <2>2, SMTT(60)
    <3>2. next # Nil /\ ~(m < next)
      BY <1>3, <3>1, Zenon
    <3>3. next \in Nat
      BY <1>3, <1>4, <3>2, ZenonT(60)
    <3> QED
      BY <3>1, <3>2, <3>3, SMTT(20)
  <2>3. ASSUME NEW m \in must, t - 1 < m PROVE ~(next = Nil \/ m < next)
    <3>1. m \in Nat /\ m >= t
      BY <1>4, <2>3
    <3> QED
      BY <2>2, <3>1, SMTT(60)
  <2>4. {m \in must : t - 1 < m /\ (r = Nil \/ m < r)} = {}
    BY <2>1, <2>3, Zenon
  <2>5. ASSUME NEW m \in must, m >= t, UserKey(m) = UserKey(t)
        PROVE  r # Nil /\ UserKey(r) = UserKey(t)
    <3>1. next # Nil /\ next \in Nat /\ next <= m /\ next >= t /\ m \in Nat
      BY <1>4, <2>1, <2>2, <2>5, ZenonT(60)
    <3>2. t <= next
      BY <1>4, <3>1, Zenon
    <3> QED
      BY <1>4, <2>1, <2>5, <3>1, <3>2, SameUserKey, SMTT(60)
  <2>6. ReadersMissNothing'
    <3>1. /\ skRd'.op # "done:wild" /\ skRd'.op \notin {"done:next", "done:first", "done:lt", "done:last"}
      BY <2>1, Zenon
    <3>2. skRd'.node # Wild /\ (skRd'.node # Nil => skRd'.node >= skRd'.target)
      BY <1>3, <1>5, <2>1, ZenonT(60)
    <3>3. {m \in skRd'.must : skRd'.target - 1 < m /\ (skRd'.node = Nil \/ m < skRd'.node)} = {}
      BY <1>5, <2>4, Zenon
    <3>4. (\E m \in skRd'.must : m >= skRd'.target /\ UserKey(m) = UserKey(skRd'.target)) => Found'
      BY <1>5, <2>5, ZenonT(60) DEF Found, UserKey
    <3> QED
      BY <2>1, <3>1, <3>2, <3>3, <3>4, Zenon DEF ReadersMissNothing, UserKey
  <2> QED
    BY <1>3, <1>5, <2>1, <2>6, Zenon DEF ReadInvariant, Searches
<1>8. CASE skRd.op = "lt"
  <2>1. r = (IF x = Head0 THEN Nil ELSE x) /\ x < t /\ skRd'.op = "done:lt"
    BY <1>1, <1>5, <1>8, SMTT(60) DEF DoneOf, x
  <2>2. (IF r = Nil THEN Head0 ELSE r) = x /\ r < t /\ t # Nil /\ r \in skIn \cup {Nil}
    BY <1>2, <1>4, <2>1, SMTT(60) DEF Head0, Nil
  <2>3. ASSUME NEW m \in must, x < m PROVE ~(m < t)
    <3>1. m \in skIn /\ m \in Nat
      BY <1>1, <1>4, Zenon
    <3>2. next # Nil /\ ~(m < next) /\ next >= t /\ next \in Nat
      BY <1>3, <1>4, <1>6, <2>3, <3>1, ZenonT(60)
    <3> QED
      BY <1>4, <3>1, <3>2, SMTT(60)
  <2>4. {m \in must : x < m /\ (t = Nil \/ m < t)} = {}
    BY <2>2, <2>3, Zenon
  <2>5. ReadersMissNothing'
    BY <1>5, <2>1, <2>2, <2>4, ZenonT(40) DEF ReadersMissNothing
  <2> QED
    BY <1>5, <2>1, <2>2, <2>5, Zenon DEF ReadInvariant, Searches
<1>9. CASE skRd.op = "last"
  <2>1. r = (IF x = Head0 THEN Nil ELSE x) /\ next = Nil /\ skRd'.op = "done:last"
    BY <1>5, <1>6, <1>9 DEF DoneOf, x
  <2>2. (IF r = Nil THEN Head0 ELSE r) = x /\ r \in skIn \cup {Nil}
    BY <1>2, <1>4, <2>1, SMTT(60) DEF Head0, Nil
  <2>3. {m \in must : x < m /\ (Nil = Nil \/ m < Nil)} = {}
    BY <1>1, <1>3, <2>1, Zenon
  <2>4. ReadersMissNothing'
    BY <1>5, <2>1, <2>2, <2>3, Zenon DEF ReadersMissNothing
  <2> QED
    BY <1>5, <2>1, <2>2, <2>4, Zenon DEF ReadInvariant, Searches
<1> QED
  BY <1>7, <1>8, <1>9, Zenon DEF Searches

LEMMA SearchMoves ==
  ASSUME ListInvariant, ReadInvariant, SearchStep
  PROVE  ReadInvariant'
<1> DEFINE x == skRd.x
           lev == skRd.level
           next == skNext[x][lev]
<1>1. skRd.op \in Searches /\ skIn' = skIn /\ \A l : Linked(l)' = Linked(l)
  BY Zenon DEF SearchStep, Searches, Linked
<1>2. SearchOK /\ skRd \in Reads /\ x \in Linked(lev) \cup {Head0} /\ lev \in SkLevels
  BY <1>1, Zenon DEF ReadInvariant, SearchOK, Reads
<1>3. next \in Linked(lev) \cup {Nil} /\ next # Wild /\ Linked(lev) \subseteq SkipKeys
  BY <1>2, FollowLink, Zenon
<1>4. CASE ~StopsAt(next)
  <2>1. skRd' = [skRd EXCEPT !.x = next]
    BY <1>3, <1>4, Zenon DEF SearchStep
  <2>2. next \in Linked(lev) /\ next \in SkipKeys /\ (skRd.op # "last" => ~(next >= skRd.target))
    BY <1>3, <1>4, Zenon DEF StopsAt
  <2>3. skRd.op # "last" => next < skRd.target
    <3>1. next \in Nat /\ skRd.target \in Nat
      BY <1>2, <2>2, SkipConstants, Zenon DEF Reads
    <3> QED
      BY <2>2, <3>1
  <2>4. /\ skRd' \in Reads /\ skRd'.op = skRd.op /\ skRd'.x = next /\ skRd'.level = lev
        /\ skRd'.must = skRd.must /\ skRd'.target = skRd.target /\ skRd'.node = skRd.node
    BY <1>2, <2>1, <2>2, Zenon DEF Reads, Nodes
  <2> HIDE DEF x, lev, next
  <2>5. SearchOK'
    BY <1>1, <1>2, <2>2, <2>3, <2>4, Zenon DEF SearchOK
  <2>6. ReadersMissNothing'
    BY <1>1, <2>4, Zenon DEF ReadersMissNothing, Searches
  <2> QED
    BY <1>1, <2>4, <2>5, <2>6, Zenon DEF ReadInvariant
<1>5. CASE StopsAt(next) /\ lev > 0
  <2>1. skRd' = [skRd EXCEPT !.level = @ - 1]
    BY <1>3, <1>5, Zenon DEF SearchStep
  <2>2. lev - 1 \in SkLevels
    BY <1>2, <1>5, SkipConstants DEF SkLevels
  <2>3. Linked(lev) \subseteq Linked(lev - 1)
    BY <1>2, <1>5, Zenon DEF ListInvariant, LevelsLinked
  <2>4. /\ skRd' \in Reads /\ skRd'.op = skRd.op /\ skRd'.x = x /\ skRd'.level = lev - 1
        /\ skRd'.must = skRd.must /\ skRd'.target = skRd.target /\ skRd'.node = skRd.node
    BY <1>2, <2>1, <2>2, Zenon DEF Reads
  <2>5. SearchOK'
    <3>1. x \in Linked(lev - 1) \cup {Head0}
      BY <1>2, <2>3, Zenon
    <3>2. skRd.must \subseteq skIn /\ (skRd.op # "last" => x < skRd.target)
      BY <1>2, Zenon DEF SearchOK
    <3> HIDE DEF x, lev
    <3> QED
      BY <1>1, <2>4, <3>1, <3>2, Zenon DEF SearchOK
  <2> HIDE DEF x, lev, next
  <2>6. ReadersMissNothing'
    BY <1>1, <2>4, Zenon DEF ReadersMissNothing, Searches
  <2> QED
    BY <1>1, <2>4, <2>5, <2>6, Zenon DEF ReadInvariant
<1>6. CASE StopsAt(next) /\ ~(lev > 0)
  <2> DEFINE r == IF skRd.op = "ge" THEN next ELSE IF skRd.x = Head0 THEN Nil ELSE skRd.x
  <2>1. skRd' = [op |-> DoneOf[skRd.op], target |-> skRd.target, must |-> skRd.must, node |-> r]
    BY <1>3, <1>6, Zenon DEF SearchStep
  <2>2. lev = 0
    BY <1>2, <1>6 DEF SkLevels
  <2>3. next = skNext[skRd.x][0]
    BY <2>2, Zenon
  <2> QED
    BY <1>1, <1>6, <2>1, <2>2, <2>3, SearchEnds, Zenon
<1> QED
  BY <1>4, <1>5, <1>6, Zenon

-----------------------------------------------------------------------------
LEMMA SkipBegins == skInit => SkipInvariant
<1> SUFFICES ASSUME skInit PROVE SkipInvariant
  OBVIOUS
<1> USE DEF skInit
<1>1. \A l : Linked(l) = {}
  BY Zenon DEF Linked
<1>2. SkTypeOK
  BY SkipConstants DEF SkTypeOK, Nodes, Links
<1>3. LevelsLinked
  <2>1. \A l \in SkLevels : skNext[Head0][l] = Nil
    BY Zenon DEF Head0
  <2>2. \A n \in SkipKeys : skNext[n] = [l \in SkLevels |-> Wild]
    BY SkipConstants, Zenon
  <2> QED
    BY <1>1, <2>1, <2>2, Zenon DEF LevelsLinked, IsNextIn
<1>4. ReadInvariant
  BY Zenon DEF ReadInvariant, ReadersMissNothing, Searches
<1> QED
  BY <1>2, <1>3, <1>4, Zenon DEF SkipInvariant, ListInvariant

LEMMA SkipSteps == SkipInvariant /\ [skNextStep]_skVars => SkipInvariant'
<1> SUFFICES ASSUME SkipInvariant, [skNextStep]_skVars PROVE SkipInvariant'
  OBVIOUS
<1>1. ListInvariant /\ ReadInvariant
  BY Zenon DEF SkipInvariant
<1>2. ASSUME NEW k \in SkipKeys, NEW h \in 1 .. MaxHeight, SkipInsert(k, h) PROVE SkipInvariant'
  <2>1. ListInvariant' /\ \A l \in SkLevels : Linked(l)' = Linked(l)
    BY <1>1, <1>2, InsertBegins, Zenon
  <2>2. skRd' = skRd /\ skIn \subseteq skIn'
    BY <1>2, Zenon DEF SkipInsert
  <2> QED
    BY <1>1, <2>1, <2>2, ReaderUndisturbed, Zenon DEF SkipInvariant
<1>3. ASSUME InsertStep PROVE SkipInvariant'
  <2>1. ListInvariant' /\ \A l \in SkLevels : Linked(l) \subseteq Linked(l)'
    BY <1>1, <1>3, NewNodePointsOn, NodeIsLinked, Zenon
  <2>2. skRd' = skRd /\ skIn \subseteq skIn'
    BY <1>3, Zenon DEF InsertStep, FirstStore, SetNextOfNew, LinkNew
  <2> QED
    BY <1>1, <2>1, <2>2, ReaderUndisturbed, Zenon DEF SkipInvariant
<1>4. ASSUME NEW op \in {"ge", "lt", "last", "first", "next"}, NEW t \in SkipKeys, BeginRead(op, t)
      PROVE  SkipInvariant'
  <2>1. UNCHANGED <<skNext, skMax, skIns, skIn>>
    BY <1>4, Zenon DEF BeginRead
  <2> QED
    BY <1>1, <1>4, <2>1, ListUntouched, ReadBegins, Zenon DEF SkipInvariant
<1>5. ASSUME SearchStep PROVE SkipInvariant'
  <2>1. UNCHANGED <<skNext, skMax, skIns, skIn>>
    BY <1>5, Zenon DEF SearchStep
  <2> QED
    BY <1>1, <1>5, <2>1, ListUntouched, SearchMoves, Zenon DEF SkipInvariant
<1>6. ASSUME UNCHANGED skVars PROVE SkipInvariant'
  <2>1. UNCHANGED <<skNext, skMax, skIns, skIn>> /\ skRd' = skRd
    BY <1>6, Zenon DEF skVars
  <2> QED
    BY <1>1, <2>1, ListUntouched, ReaderUndisturbed, Zenon DEF SkipInvariant
<1> QED
  BY <1>2, <1>3, <1>4, <1>5, <1>6, Zenon DEF skNextStep

-----------------------------------------------------------------------------
(* The arena.  Every piece lies in its block, and those of the current     *)
(* block lie before alloc_ptr_, behind which the rest of the block is free. *)
Pieces == [at : Nat \X Nat, len : Nat]
Arenas == [ptr : Nat \X Nat, remaining : Nat, blocks : Seq(Nat), given : Seq(Pieces)]

PieceOK(a, g) ==
    /\ g.at[1] \in 1 .. Len(a.blocks)
    /\ g.at[2] + g.len <= a.blocks[g.at[1]]
    /\ g.at[1] = a.ptr[1] => g.at[2] + g.len <= a.ptr[2]

Apart(g, h) ==
    \/ g.at[1] # h.at[1]
    \/ g.at[2] + g.len <= h.at[2]
    \/ h.at[2] + h.len <= g.at[2]

RestIsFree(a) ==
    /\ a.ptr[1] <= Len(a.blocks)
    /\ a.remaining > 0 => a.ptr[1] > 0 /\ a.ptr[2] + a.remaining <= a.blocks[a.ptr[1]]

ArenaOK(a) ==
    /\ a \in Arenas /\ RestIsFree(a)
    /\ \A i \in 1 .. Len(a.given) :
         PieceOK(a, a.given[i]) /\ \A j \in 1 .. i - 1 : Apart(a.given[i], a.given[j])

(* One more piece, apart from those there were. *)
LEMMA OneMore ==
  ASSUME NEW a, ArenaOK(a), NEW c \in Arenas, RestIsFree(c), NEW g \in Pieces,
         c.given = Append(a.given, g), PieceOK(c, g),
         \A i \in 1 .. Len(a.given) : PieceOK(c, a.given[i]) /\ Apart(g, a.given[i])
  PROVE  ArenaOK(c)
<1> DEFINE n == Len(a.given)
<1>1. a.given \in Seq(Pieces) /\ n \in Nat
  BY DEF ArenaOK, Arenas
<1>2. Len(c.given) = n + 1 /\ c.given[n + 1] = g /\ \A i \in 1 .. n : c.given[i] = a.given[i]
  BY <1>1, SMTT(60)
<1> HIDE DEF n
<1>3. ASSUME NEW i \in 1 .. Len(c.given)
      PROVE  PieceOK(c, c.given[i]) /\ \A j \in 1 .. i - 1 : Apart(c.given[i], c.given[j])
  <2>1. CASE i = n + 1
    <3>1. \A j \in 1 .. i - 1 : j \in 1 .. n
      BY <1>1, <2>1
    <3> QED
      BY <1>2, <2>1, <3>1, Zenon DEF n
  <2>2. CASE i \in 1 .. n
    <3>1. \A j \in 1 .. i - 1 : j \in 1 .. n
      BY <1>1, <2>2
    <3>2. \A j \in 1 .. i - 1 : Apart(a.given[i], a.given[j])
      BY <2>2, Zenon DEF n, ArenaOK
    <3> QED
      BY <1>2, <2>2, <3>1, <3>2, Zenon DEF n
  <2> QED
    BY <1>1, <1>2, <2>1, <2>2, SMTT(60)
<1> QED
  BY <1>3, Zenon DEF ArenaOK

LEMMA ArenaStep ==
  ASSUME ArenaOK(arena), NEW bytes \in AllocSizes, NEW aligned \in BOOLEAN, Allocate(bytes, aligned)
  PROVE  ArenaOK(arena')
<1> DEFINE a == arena
           b == a.ptr[1]
           o == a.ptr[2]
           size == a.blocks
           rem == a.remaining
           blockOf(i) == a.given[i].at[1]
           endOf(i) == a.given[i].at[2] + a.given[i].len
           slop == IF aligned THEN (Align - (o % Align)) % Align ELSE 0
<1>1. /\ a \in Arenas /\ b \in Nat /\ o \in Nat /\ a.ptr = <<b, o>> /\ rem \in Nat
      /\ size \in Seq(Nat) /\ Len(size) \in Nat /\ a.given \in Seq(Pieces)
  BY DEF ArenaOK, Arenas
<1>2. b <= Len(size) /\ (rem > 0 => b > 0 /\ o + rem <= size[b])
  BY Zenon DEF ArenaOK, RestIsFree
<1>3. bytes \in Nat \ {0} /\ slop \in Nat /\ BlockSize \in Nat
  BY <1>1, MemTableAssumption, SMTT(20)
<1>4. ASSUME NEW i \in 1 .. Len(a.given)
      PROVE  /\ blockOf(i) \in 1 .. Len(size) /\ endOf(i) \in Nat /\ size[blockOf(i)] \in Nat
             /\ endOf(i) <= size[blockOf(i)] /\ (blockOf(i) = b => endOf(i) <= o)
  <2>1. PieceOK(a, a.given[i])
    BY Zenon DEF ArenaOK
  <2>2. a.given[i] \in Pieces
    BY <1>1
  <2>3. endOf(i) \in Nat
    BY <2>2 DEF Pieces
  <2>4. blockOf(i) \in 1 .. Len(size)
    BY <2>1, Zenon DEF PieceOK
  <2>5. size[blockOf(i)] \in Nat
    <3> HIDE DEF blockOf, size
    <3> QED
      BY <1>1, <2>4
  <2> QED
    BY <2>1, <2>3, <2>4, <2>5, Zenon DEF PieceOK
<1> HIDE DEF b, o, size, rem, slop, blockOf, endOf
<1>5. CASE bytes + slop <= rem
  <2> DEFINE g == [at |-> <<b, o + slop>>, len |-> bytes]
             c == [ptr |-> <<b, o + slop + bytes>>, remaining |-> rem - (slop + bytes),
                   blocks |-> size, given |-> Append(a.given, g)]
  <2>1. arena' = c
    BY <1>1, <1>5, Zenon DEF Allocate, Given, slop, Arenas, b, o, rem, size
  <2>2. b \in 1 .. Len(size) /\ size[b] \in Nat /\ o + rem <= size[b]
    <3>1. rem > 0
      BY <1>1, <1>3, <1>5
    <3>2. b \in 1 .. Len(size)
      BY <1>2, <1>1, <3>1
    <3> QED
      BY <1>2, <1>1, <3>1, <3>2
  <2>3. g \in Pieces
    BY <1>1, <1>3, SMTT(20) DEF Pieces
  <2>4. c \in Arenas /\ RestIsFree(c)
    <3>1. rem - (slop + bytes) \in Nat /\ o + slop + bytes \in Nat
          /\ o + slop + bytes + (rem - (slop + bytes)) <= size[b]
      <4> DEFINE z == size[b]
      <4>1. z \in Nat /\ o + rem <= z
        BY <2>2, Zenon
      <4> HIDE DEF z
      <4>2. rem - (slop + bytes) \in Nat /\ o + slop + bytes \in Nat
            /\ o + slop + bytes + (rem - (slop + bytes)) <= z
        BY <1>1, <1>3, <1>5, <4>1
      <4> QED
        BY <4>2, Zenon DEF z
    <3>2. Append(a.given, g) \in Seq(Pieces)
      BY <1>1, <2>3
    <3> QED
      BY <1>1, <2>2, <3>1, <3>2, SMTT(60) DEF Arenas, RestIsFree
  <2>5. PieceOK(c, g)
    <3> DEFINE z == size[b]
    <3>1. z \in Nat /\ o + rem <= z
      BY <2>2, Zenon
    <3> HIDE DEF z
    <3>2. o + slop + bytes <= z /\ o + slop + bytes <= o + slop + bytes
      BY <1>1, <1>3, <1>5, <3>1
    <3> QED
      BY <2>2, <3>2, Zenon DEF PieceOK, z
  <2>6. ASSUME NEW i \in 1 .. Len(a.given) PROVE PieceOK(c, a.given[i]) /\ Apart(g, a.given[i])
    <3>1. blockOf(i) = b => endOf(i) <= o + slop + bytes /\ endOf(i) <= o + slop
      BY <1>1, <1>3, <1>4
    <3> QED
      BY <1>4, <3>1, Zenon DEF PieceOK, Apart, blockOf, endOf
  <2> HIDE DEF g
  <2> QED
    BY <2>1, <2>3, <2>4, <2>5, <2>6, OneMore, Zenon
<1>6. CASE ~(bytes + slop <= rem)
  <2> DEFINE large == bytes > BlockSize \div 4
             s == IF large THEN bytes ELSE BlockSize
             n == Len(size) + 1
             g == [at |-> <<n, 0>>, len |-> bytes]
             c == [ptr |-> IF large THEN a.ptr ELSE <<n, bytes>>,
                   remaining |-> IF large THEN rem ELSE BlockSize - bytes,
                   blocks |-> Append(size, s), given |-> Append(a.given, g)]
  <2>0. s \in Nat /\ bytes <= s /\ n \in Nat
    BY <1>1, <1>3
  <2>1. /\ Append(size, s) \in Seq(Nat) /\ Len(Append(size, s)) = n /\ Append(size, s)[n] = s
        /\ \A i \in 1 .. Len(size) : Append(size, s)[i] = size[i]
    BY <1>1, <2>0
  <2>2. arena' = c
    <3>1. arena' = AllocateFallback(a, bytes)
      BY <1>6, Zenon DEF Allocate, slop, rem, o
    <3> QED
      BY <1>1, <2>1, <3>1, Zenon DEF AllocateFallback, AllocateNewBlock, Given, Arenas, size, rem
  <2>3. g \in Pieces
    BY <1>3, <2>0, Zenon DEF Pieces
  <2>4. c \in Arenas /\ RestIsFree(c)
    <3>1. Append(a.given, g) \in Seq(Pieces)
      BY <1>1, <2>3
    <3>2. CASE large
      <4>1. c = [ptr |-> a.ptr, remaining |-> rem, blocks |-> Append(size, s), given |-> Append(a.given, g)]
        BY <3>2, Zenon
      <4>2. a.ptr \in Nat \X Nat /\ a.ptr[1] = b /\ a.ptr[2] = o
        BY <1>1
      <4>3. rem > 0 => b \in 1 .. Len(size)
        BY <1>1, <1>2
      <4> HIDE DEF s, c
      <4>4. b <= n /\ (rem > 0 => b > 0 /\ o + rem <= Append(size, s)[b])
        BY <1>1, <1>2, <2>1, <4>3, SMTT(20)
      <4>5. c \in Arenas
        BY <1>1, <2>1, <3>1, <4>1, <4>2, Zenon DEF Arenas
      <4> QED
        BY <2>1, <4>1, <4>2, <4>4, <4>5, Zenon DEF RestIsFree
    <3>3. CASE ~large
      <4>1. /\ s = BlockSize
            /\ c = [ptr |-> <<n, bytes>>, remaining |-> BlockSize - bytes, blocks |-> Append(size, s),
                    given |-> Append(a.given, g)]
        BY <3>3, Zenon
      <4>2. BlockSize - bytes \in Nat /\ bytes + (BlockSize - bytes) <= s /\ n > 0 /\ n <= n
        BY <1>1, <1>3, <2>0, <4>1, SMTT(60)
      <4> HIDE DEF s, c, n
      <4>3. c \in Arenas
        BY <1>3, <2>0, <2>1, <3>1, <4>1, <4>2, Zenon DEF Arenas
      <4> QED
        BY <2>1, <4>1, <4>2, <4>3, Zenon DEF RestIsFree
    <3> QED
      BY <3>2, <3>3, Zenon
  <2>5. c.blocks = Append(size, s) /\ (c.ptr = <<b, o>> \/ c.ptr = <<n, bytes>>) /\ b < n
    BY <1>2, <1>1, SMTT(60)
  <2>6. c.given = Append(a.given, g)
    OBVIOUS
  <2> HIDE DEF c, s
  <2>7. PieceOK(c, g)
    BY <1>1, <1>3, <2>0, <2>1, <2>5, SMTT(20) DEF PieceOK
  <2>8. ASSUME NEW i \in 1 .. Len(a.given) PROVE PieceOK(c, a.given[i]) /\ Apart(g, a.given[i])
    <3>1. /\ blockOf(i) \in 1 .. n /\ blockOf(i) # n /\ endOf(i) <= Append(size, s)[blockOf(i)]
      BY <1>1, <1>4, <2>1, SMTT(60)
    <3>2. blockOf(i) = c.ptr[1] => endOf(i) <= c.ptr[2]
      <4>1. CASE c.ptr = <<b, o>>
        BY <1>4, <4>1
      <4>2. CASE c.ptr = <<n, bytes>>
        BY <3>1, <4>2
      <4> QED
        BY <2>5, <4>1, <4>2, Zenon
    <3> QED
      BY <2>1, <2>5, <3>1, <3>2, ZenonT(60) DEF PieceOK, Apart, blockOf, endOf
  <2> HIDE DEF g
  <2> QED
    BY <2>2, <2>3, <2>4, <2>6, <2>7, <2>8, OneMore, Zenon
<1> QED
  BY <1>5, <1>6, Zenon

-----------------------------------------------------------------------------
(* MemTableServesReaders, for every key space, node height, block size,    *)
(* alignment and sequence of operations: a Get or an iterator that walks   *)
(* the list while an entry is linked level by level (skiplist.h Insert)    *)
(* misses nothing that was there when it began, and the memory the arena   *)
(* gave to an entry is given to no other (Arena::Allocate).                *)
THEOREM MemTableServes == skSpec /\ arenaSpec => []MemTableServesReaders
<1>1. skSpec => []ReadersMissNothing
  <2>1. SkipInvariant => ReadersMissNothing
    BY Zenon DEF SkipInvariant, ReadInvariant
  <2> QED
    BY SkipBegins, SkipSteps, <2>1, PTL DEF skSpec
<1>2. arenaSpec => []ArenaKeepsApart
  <2>1. arenaInit => ArenaOK(arena)
    BY SMTT(60) DEF arenaInit, ArenaOK, Arenas, RestIsFree
  <2>2. ArenaOK(arena) /\ [arenaNext]_arena => ArenaOK(arena)'
    BY ArenaStep, ZenonT(60) DEF arenaNext, ArenaOK
  <2>3. ArenaOK(arena) => ArenaKeepsApart
    <3> SUFFICES ASSUME ArenaOK(arena) PROVE ArenaKeepsApart
      OBVIOUS
    <3>1. DOMAIN arena.given = 1 .. Len(arena.given)
      BY DEF ArenaOK, Arenas
    <3> QED
      BY <3>1, Zenon DEF ArenaOK, PieceOK, Apart, ArenaKeepsApart
  <2> QED
    BY <2>1, <2>2, <2>3, PTL DEF arenaSpec
<1> QED
  BY <1>1, <1>2, PTL DEF MemTableServesReaders
=============================================================================
