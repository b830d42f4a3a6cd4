------------------------ MODULE IntrusiveListProofs -------------------------
(***************************************************************************)
(* The links of IntrusiveList are rings and its operations do to sequences *)
(* what their names say, for any number of lists and items.  Nothing is    *)
(* proved about following links directly: the invariant says which         *)
(* sequence the links of a list spell out, each operation is shown to      *)
(* spell out another one, and only then is the walk from begin() to end()  *)
(* shown to visit it.                                                      *)
(***************************************************************************)
EXTENDS IntrusiveList, DataLemmas

(* The node at position i of the ring of l with items s, 0 and Len(s) + 1
   being the sentinel *)
Node(l, s, i) == IF i \in 1 .. Len(s) THEN s[i] ELSE l

(* The links k spell out the ring of l with items s. *)
Linked(k, l, s) ==
    \A i \in 0 .. Len(s) :
        /\ k.next[Node(l, s, i)] = Node(l, s, i + 1)
        /\ k.prev[Node(l, s, i + 1)] = Node(l, s, i)

LinkFields(k) ==
    /\ k.next \in [Nodes -> Nodes \cup {Null}]
    /\ k.prev \in [Nodes -> Nodes \cup {Null}]
    /\ \A n \in Nodes : (k.next[n] = Null) = (k.prev[n] = Null)

(* The links k are those of the lists U with contents c, and of no other. *)
Rings(k, c, U) ==
    /\ LinkFields(k)
    /\ U \subseteq Lists
    /\ c \in [Lists -> Seq(Items)]
    /\ \A l \in Lists \ U : k.next[l] = Null /\ c[l] = <<>>
    /\ \A l \in U : IsInjective(c[l]) /\ Linked(k, l, c[l])
    /\ \A l, m \in U : l # m => ToSet(c[l]) \cap ToSet(c[m]) = {}

----------------------------------------------------------------------------
(* Positions of a ring *)

LEMMA NodeCases ==
    ASSUME NEW l \in Lists, NEW s \in Seq(Items)
    PROVE  /\ Len(s) \in Nat
           /\ \A i \in 1 .. Len(s) : Node(l, s, i) = s[i] /\ s[i] \in Items
           /\ Node(l, s, 0) = l /\ Node(l, s, Len(s) + 1) = l
           /\ \A i \in Int : Node(l, s, i) \in ToSet(s) \cup {l}
           /\ \A i \in Int : Node(l, s, i) \in Nodes
           /\ ToSet(s) \subseteq Items /\ l \notin ToSet(s)
           /\ \A n \in ToSet(s) : \E i \in 1 .. Len(s) : s[i] = n
<1>1. /\ Len(s) \in Nat /\ ToSet(s) = {s[i] : i \in 1 .. Len(s)}
      /\ ToSet(s) \subseteq Items
  BY SetOfSeq
<1>2. \A i \in 1 .. Len(s) : Node(l, s, i) = s[i] /\ s[i] \in Items
  BY <1>1 DEF Node
<1>3. Node(l, s, 0) = l /\ Node(l, s, Len(s) + 1) = l
  BY <1>1 DEF Node
<1>4. \A i \in Int : Node(l, s, i) \in ToSet(s) \cup {l}
  BY <1>1 DEF Node
<1>5. l \notin ToSet(s)
  BY <1>1, ListAssumption
<1>6. \A i \in Int : Node(l, s, i) \in Nodes
  BY <1>1, <1>4 DEF Nodes
<1> QED
  BY <1>1, <1>2, <1>3, <1>4, <1>5, <1>6

(* No node is at two positions, the sentinel counted once. *)
LEMMA NodeDistinct ==
    ASSUME NEW l \in Lists, NEW s \in Seq(Items), IsInjective(s)
    PROVE  /\ \A i, j \in 0 .. Len(s) :
                 Node(l, s, i) = Node(l, s, j) => i = j
           /\ \A i, j \in 1 .. Len(s) + 1 :
                 Node(l, s, i) = Node(l, s, j) => i = j
<1>1. /\ Len(s) \in Nat /\ l \notin Items
      /\ \A i \in 1 .. Len(s) : s[i] \in Items
      /\ \A i, j \in 1 .. Len(s) : s[i] = s[j] => i = j
  BY SetOfSeq, NodeCases, ListAssumption
<1>2. ASSUME NEW i \in 0 .. Len(s), NEW j \in 0 .. Len(s),
             Node(l, s, i) = Node(l, s, j)
      PROVE  i = j
  BY <1>1, <1>2 DEF Node
<1>3. ASSUME NEW i \in 1 .. Len(s) + 1, NEW j \in 1 .. Len(s) + 1,
             Node(l, s, i) = Node(l, s, j)
      PROVE  i = j
  BY <1>1, <1>3 DEF Node
<1> QED
  BY <1>2, <1>3

(* A sequence without repetition is not longer than its items are many. *)
LEMMA RingLength ==
    ASSUME NEW s \in Seq(Items), IsInjective(s)
    PROVE  Len(s) \in Nat /\ Len(s) <= Cardinality(Items)
           /\ Cardinality(Items) \in Nat
<1>1. /\ Len(s) \in Nat /\ DOMAIN s = 1 .. Len(s)
      /\ \A i \in 1 .. Len(s) : s[i] \in Items
      /\ \A i, j \in 1 .. Len(s) : s[i] = s[j] => i = j
  BY SetOfSeq, ElementOfSeq
<1>2. s \in [1 .. Len(s) -> Items]
  BY LenProperties
<1>3. IsFiniteSet(Items) /\ Cardinality(Items) \in Nat
  BY ListAssumption, FS_CardinalityType
<1>4. IsFiniteSet(1 .. Len(s)) /\ Cardinality(1 .. Len(s)) = Len(s)
  <2>1. 1 \in Int /\ Len(s) \in Int
    BY <1>1
  <2>2. IsFiniteSet(1 .. Len(s)) /\ Cardinality(1 .. Len(s)) =
           (IF 1 > Len(s) THEN 0 ELSE Len(s) - 1 + 1)
    BY <2>1, FS_Interval
  <2> QED
    BY <1>1, <2>2
<1>5. s \in Injection(1 .. Len(s), Items)
  BY <1>1, <1>2 DEF Injection, IsInjective
<1>6. Cardinality(1 .. Len(s)) <= Cardinality(Items)
  BY <1>3, <1>5, FS_Injection
<1> QED
  BY <1>1, <1>3, <1>4, <1>6

----------------------------------------------------------------------------
(* What the walk visits *)

(* Walk and Contents as functions of the links *)
Walking(at, nx, l) ==
    at = [i \in 0 .. Cardinality(Items) + 1 |->
            IF i = 0 THEN l
            ELSE IF i > 1 /\ at[i - 1] \in {l, Null} THEN at[i - 1]
            ELSE nx[at[i - 1]]]

WalkOf(nx, l) == CHOOSE at : Walking(at, nx, l)

ContentsOf(nx, U, l) ==
    LET at  == WalkOf(nx, l)
        end == {i \in 1 .. Cardinality(Items) + 1 : at[i] = l}
        len == IF l \notin U \/ end = {} THEN 0
               ELSE (CHOOSE i \in end : \A j \in end : i <= j) - 1
    IN  [i \in 1 .. len |-> at[i]]

LEMMA WalkIsWalkOf ==
    ASSUME NEW l
    PROVE  /\ Walk(l) = WalkOf(next, l) /\ Walk(l)' = WalkOf(next', l)
           /\ Contents(l) = ContentsOf(next, Usable, l)
           /\ Contents(l)' = ContentsOf(next', Usable', l)
<1>1. Walk(l) = WalkOf(next, l) /\ Walk(l)' = WalkOf(next', l)
  BY DEF Walk, WalkOf, Walking
<1> QED
  BY <1>1 DEF Contents, ContentsOf

(* The walk from a sentinel goes around its ring and stops. *)
LEMMA WalkIsRing ==
    ASSUME NEW nx, NEW l \in Lists, NEW s \in Seq(Items), IsInjective(s),
           \A i \in 0 .. Len(s) : nx[Node(l, s, i)] = Node(l, s, i + 1)
    PROVE  \A i \in 0 .. Cardinality(Items) + 1 :
              WalkOf(nx, l)[i] = Node(l, s, i)
<1> DEFINE N  == Cardinality(Items) + 1
           g  == [i \in 0 .. N |-> Node(l, s, i)]
           at == WalkOf(nx, l)
<1>n. /\ Len(s) \in Nat /\ N \in Nat /\ Len(s) + 1 <= N
      /\ l \notin Items /\ Null \notin Items /\ l # Null
      /\ \A i \in 1 .. Len(s) : s[i] \in Items
  BY RingLength, NodeCases, ListAssumption DEF Nodes
<1>g. /\ \A i \in 0 .. Len(s) : nx[Node(l, s, i)] = Node(l, s, i + 1)
      /\ \A i \in 1 .. Len(s) : Node(l, s, i) \notin {l, Null}
      /\ \A i \in Int : i \notin 1 .. Len(s) => Node(l, s, i) = l
  BY <1>n DEF Node
<1> HIDE DEF N
<1>1. ASSUME NEW i \in 0 .. N
      PROVE  Node(l, s, i) = IF i = 0 THEN l
                             ELSE IF i > 1 /\ Node(l, s, i - 1) \in {l, Null}
                             THEN Node(l, s, i - 1)
                             ELSE nx[Node(l, s, i - 1)]
  <2>1. CASE i = 0
    BY <1>g, <2>1
  <2>2. CASE i \in 1 .. Len(s) + 1
    <3>1. i - 1 \in 0 .. Len(s) /\ (i - 1) + 1 = i
      BY <1>n, <2>2
    <3>2. nx[Node(l, s, i - 1)] = Node(l, s, i)
      BY <1>g, <3>1
    <3>3. i > 1 => Node(l, s, i - 1) \notin {l, Null}
      BY <1>g, <1>n, <3>1
    <3> QED
      BY <1>n, <2>2, <3>2, <3>3
  <2>3. CASE i > Len(s) + 1
    <3>1. i > 1 /\ i \notin 1 .. Len(s) /\ i - 1 \notin 1 .. Len(s)
          /\ i \in Int /\ i - 1 \in Int
      BY <1>n, <2>3
    <3> QED
      BY <1>g, <3>1
  <2> QED
    BY <1>n, <2>1, <2>2, <2>3
<1>2. Walking(g, nx, l)
  <2>1. \A i \in 0 .. N : i # 0 => i - 1 \in 0 .. N
    BY <1>n
  <2>2. \A i \in 0 .. N : g[i] = Node(l, s, i)
    OBVIOUS
  <2>3. \A i \in 0 .. N : g[i] = IF i = 0 THEN l
                                 ELSE IF i > 1 /\ g[i - 1] \in {l, Null}
                                 THEN g[i - 1] ELSE nx[g[i - 1]]
    BY <1>1, <2>1, <2>2
  <2>4. g = [i \in 0 .. N |-> g[i]]
    OBVIOUS
  <2> HIDE DEF g
  <2> QED
    BY <2>3, <2>4 DEF Walking, N
<1>3. Walking(at, nx, l)
  BY <1>2 DEF WalkOf
<1> HIDE DEF at
<1>4. \A i \in 0 .. N : at[i] = IF i = 0 THEN l
                                ELSE IF i > 1 /\ at[i - 1] \in {l, Null}
                                THEN at[i - 1] ELSE nx[at[i - 1]]
  BY <1>3 DEF Walking, N
<1> DEFINE Bad == {i \in 0 .. N : at[i] # Node(l, s, i)}
<1>5. Bad = {}
  <2> SUFFICES ASSUME Bad # {} PROVE FALSE
    OBVIOUS
  <2>1. Bad \in SUBSET Nat
    BY <1>n
  <2>2. Min(Bad) \in Bad /\ \A n \in Bad : Min(Bad) <= n
    BY <2>1, MinIsMember
  <2>3. PICK i \in 0 .. N : /\ at[i] # Node(l, s, i)
                            /\ \A j \in Bad : i <= j
    BY <2>2
  <2>4. CASE i = 0
    BY <1>1, <1>4, <2>3, <2>4
  <2>5. CASE i # 0
    <3>1. i - 1 \in 0 .. N
      BY <1>n, <2>5
    <3>2. at[i - 1] = Node(l, s, i - 1)
      <4>1. ~ (i <= i - 1)
        BY <1>n
      <4> QED
        BY <2>3, <3>1, <4>1
    <3> QED
      BY <1>1, <1>4, <2>3, <3>2
  <2> QED
    BY <2>4, <2>5
<1> QED
  BY <1>5 DEF N, at

(* A loop from begin() to end() visits the items of the ring. *)
LEMMA RingContents ==
    ASSUME NEW k, NEW c, NEW U, Rings(k, c, U), NEW l \in Lists
    PROVE  ContentsOf(k.next, U, l) = c[l]
<1> DEFINE N   == Cardinality(Items) + 1
           at  == WalkOf(k.next, l)
           s   == c[l]
           end == {i \in 1 .. N : at[i] = l}
           len == IF l \notin U \/ end = {} THEN 0
                  ELSE (CHOOSE i \in end : \A j \in end : i <= j) - 1
<1>c. ContentsOf(k.next, U, l) = [i \in 1 .. len |-> at[i]]
  BY DEF ContentsOf
<1>s. s \in Seq(Items) /\ s = [i \in 1 .. Len(s) |-> s[i]]
  <2>1. s \in Seq(Items)
    BY DEF Rings
  <2> QED
    BY <2>1, LenProperties
<1>1. CASE l \notin U
  <2>1. len = 0 /\ s = <<>>
    BY <1>1 DEF Rings
  <2>2. [i \in 1 .. 0 |-> at[i]] = <<>>
    <3> DEFINE f == [i \in 1 .. 0 |-> at[i]]
    <3>1. f \in Seq(Items) /\ Len(f) = 0
      OBVIOUS
    <3> QED
      BY <3>1, EmptySeq
  <2> QED
    BY <1>c, <2>1, <2>2
<1>2. CASE l \in U
  <2>1. /\ IsInjective(s)
        /\ \A i \in 0 .. Len(s) : k.next[Node(l, s, i)] = Node(l, s, i + 1)
    BY <1>2 DEF Rings, Linked
  <2>2. \A i \in 0 .. N : at[i] = Node(l, s, i)
    BY <1>s, <2>1, WalkIsRing
  <2>n. /\ Len(s) \in Nat /\ N \in Nat /\ Len(s) + 1 <= N
        /\ Len(s) + 1 \in 1 .. N
        /\ l \notin Items
        /\ \A i \in 1 .. Len(s) : s[i] \in Items
    BY <1>s, <2>1, RingLength, NodeCases, ListAssumption
  <2> HIDE DEF N, at, s
  <2>3. \A i \in 1 .. Len(s) : at[i] = s[i] /\ at[i] # l
    <3> SUFFICES ASSUME NEW i \in 1 .. Len(s) PROVE at[i] = s[i] /\ at[i] # l
      OBVIOUS
    <3>1. i \in 0 .. N
      BY <2>n
    <3> QED
      BY <2>2, <2>n, <3>1 DEF Node
  <2>4. at[Len(s) + 1] = l
    <3>1. Len(s) + 1 \in 0 .. N /\ Len(s) + 1 \notin 1 .. Len(s)
      BY <2>n
    <3> QED
      BY <2>2, <3>1 DEF Node
  <2>5. Len(s) + 1 \in end /\ \A j \in end : Len(s) + 1 <= j
    BY <2>n, <2>3, <2>4
  <2>6. \A i \in end : (\A j \in end : i <= j) => i = Len(s) + 1
    BY <2>n, <2>5
  <2>7. (CHOOSE i \in end : \A j \in end : i <= j) = Len(s) + 1
    BY <2>5, <2>6
  <2>8. len = Len(s)
    <3>1. end # {}
      BY <2>5
    <3> HIDE DEF end
    <3>2. len = (Len(s) + 1) - 1
      BY <1>2, <2>7, <3>1
    <3> QED
      BY <2>n, <3>2
  <2>9. [i \in 1 .. len |-> at[i]] = [i \in 1 .. Len(s) |-> s[i]]
    <3> HIDE DEF len
    <3> QED
      BY <2>3, <2>8
  <2> QED
    BY <1>c, <1>s, <2>9 DEF at, s
<1> QED
  BY <1>1, <1>2

----------------------------------------------------------------------------
(* What the operations do to the rings *)

(* A ring may be replaced by another as long as the links of all nodes
   outside both stay as they are. *)
LEMMA ReplaceRing ==
    ASSUME NEW k, NEW c, NEW U, Rings(k, c, U),
           NEW j, LinkFields(j),
           NEW l \in U, NEW s \in Seq(Items), IsInjective(s), Linked(j, l, s),
           \A n \in Nodes : n \notin ToSet(c[l]) \cup ToSet(s) \cup {l} =>
              j.next[n] = k.next[n] /\ j.prev[n] = k.prev[n],
           \A m \in U : m # l => ToSet(s) \cap ToSet(c[m]) = {}
    PROVE  Rings(j, [c EXCEPT ![l] = s], U)
<1> DEFINE d == [c EXCEPT ![l] = s]
<1>1. /\ U \subseteq Lists /\ l \in Lists /\ c \in [Lists -> Seq(Items)]
      /\ \A m \in U : IsInjective(c[m]) /\ Linked(k, m, c[m])
      /\ \A m, n \in U : m # n => ToSet(c[m]) \cap ToSet(c[n]) = {}
  BY DEF Rings
<1>2. /\ d \in [Lists -> Seq(Items)] /\ d[l] = s
      /\ \A m \in Lists : m # l => d[m] = c[m]
  BY <1>1
<1>3. ASSUME NEW m \in Lists, m # l,
             NEW n \in ToSet(c[m]) \cup {m}, m \in U \/ n = m
      PROVE  n \in Nodes /\ j.next[n] = k.next[n] /\ j.prev[n] = k.prev[n]
  <2>1. /\ c[m] \in Seq(Items) /\ c[l] \in Seq(Items)
    BY <1>1
  <2>2. ToSet(c[m]) \subseteq Items /\ ToSet(c[l]) \subseteq Items
        /\ ToSet(s) \subseteq Items
    BY <2>1, SetOfSeq
  <2>3. n \in Nodes
    BY <1>3, <2>2 DEF Nodes
  <2>4. n \notin ToSet(c[l]) \cup ToSet(s) \cup {l}
    <3>1. CASE n = m
      BY <1>1, <1>3, <2>2, <3>1, ListAssumption
    <3>2. CASE n # m
      <4>1. n \in ToSet(c[m]) /\ m \in U
        BY <1>3, <3>2
      <4> QED
        BY <1>1, <1>3, <2>2, <4>1, ListAssumption
    <3> QED
      BY <3>1, <3>2
  <2> QED
    BY <2>3, <2>4
<1>4. ASSUME NEW m \in Lists \ U
      PROVE  j.next[m] = Null /\ d[m] = <<>>
  <2>1. m # l /\ k.next[m] = Null /\ c[m] = <<>>
    BY DEF Rings
  <2>2. j.next[m] = k.next[m]
    BY <1>3, <2>1
  <2> QED
    BY <1>2, <2>1, <2>2
<1>5. ASSUME NEW m \in U
      PROVE  IsInjective(d[m]) /\ Linked(j, m, d[m])
  <2>1. CASE m = l
    BY <1>2, <2>1
  <2>2. CASE m # l
    <3> DEFINE t == c[m]
    <3>1. /\ m \in Lists /\ t \in Seq(Items) /\ d[m] = t
          /\ IsInjective(t) /\ Linked(k, m, t)
      BY <1>1, <1>2, <2>2
    <3> HIDE DEF t
    <3>2. ASSUME NEW i \in 0 .. Len(t)
          PROVE  /\ j.next[Node(m, t, i)] = Node(m, t, i + 1)
                 /\ j.prev[Node(m, t, i + 1)] = Node(m, t, i)
      <4>1. i \in Int /\ i + 1 \in Int
        BY <3>1, LenProperties
      <4>2. /\ Node(m, t, i) \in ToSet(t) \cup {m}
            /\ Node(m, t, i + 1) \in ToSet(t) \cup {m}
        BY <3>1, <4>1, NodeCases
      <4>3. /\ j.next[Node(m, t, i)] = k.next[Node(m, t, i)]
            /\ j.prev[Node(m, t, i + 1)] = k.prev[Node(m, t, i + 1)]
        BY <1>3, <2>2, <3>1, <4>2 DEF t
      <4> QED
        BY <3>1, <4>3 DEF Linked
    <3> QED
      BY <3>1, <3>2 DEF Linked
  <2> QED
    BY <2>1, <2>2
<1>6. ASSUME NEW m \in U, NEW n \in U, m # n
      PROVE  ToSet(d[m]) \cap ToSet(d[n]) = {}
  BY <1>1, <1>2, <1>6
<1> HIDE DEF d
<1>7. Rings(j, d, U)
  BY <1>1, <1>2, <1>4, <1>5, <1>6 DEF Rings
<1> QED
  BY <1>7 DEF d

(* The neighbours of position i of a ring *)
LEMMA RingAt ==
    ASSUME NEW k, NEW c, NEW U, Rings(k, c, U), NEW l \in U
    PROVE  /\ l \in Lists /\ c[l] \in Seq(Items) /\ IsInjective(c[l])
           /\ Linked(k, l, c[l])
           /\ \A i \in 1 .. Len(c[l]) + 1 :
                 k.prev[Node(l, c[l], i)] = Node(l, c[l], i - 1)
           /\ \A n \in ToSet(c[l]) \cup {l} : k.next[n] # Null
<1> DEFINE s == c[l]
<1>1. /\ l \in Lists /\ s \in Seq(Items) /\ IsInjective(s) /\ Linked(k, l, s)
  BY DEF Rings
<1> HIDE DEF s
<1>2. Len(s) \in Nat
  BY <1>1, LenProperties
<1>3. ASSUME NEW i \in 1 .. Len(s) + 1
      PROVE  k.prev[Node(l, s, i)] = Node(l, s, i - 1)
  <2>1. i - 1 \in 0 .. Len(s) /\ (i - 1) + 1 = i
    BY <1>2
  <2> QED
    BY <1>1, <2>1 DEF Linked
<1>4. ASSUME NEW n \in ToSet(s) \cup {l}
      PROVE  k.next[n] # Null
  <2>1. PICK i \in 0 .. Len(s) : n = Node(l, s, i)
    <3>1. CASE n = l
      BY <1>1, <1>2, <3>1, NodeCases
    <3>2. CASE n \in ToSet(s)
      <4>1. PICK i \in 1 .. Len(s) : s[i] = n
        BY <1>1, <3>2, NodeCases
      <4> QED
        BY <1>1, <1>2, <4>1, NodeCases
    <3> QED
      BY <3>1, <3>2
  <2>2. k.next[n] = Node(l, s, i + 1) /\ i + 1 \in Int
    BY <1>1, <1>2, <2>1 DEF Linked
  <2> QED
    BY <1>1, <2>2, NodeCases, ListAssumption
<1> QED
  BY <1>1, <1>3, <1>4 DEF s

(* erase() takes the item at position i out of its ring. *)
LEMMA EraseRing ==
    ASSUME NEW k, NEW c, NEW U, Rings(k, c, U), NEW l \in U,
           NEW i \in 1 .. Len(c[l])
    PROVE  Rings(Erased(k, c[l][i]), [c EXCEPT ![l] = RemoveAt(@, i)], U)
<1> DEFINE s == c[l]
           t == RemoveAt(s, i)
           x == s[i]
           j == Erased(k, x)
           N(p) == Node(l, s, p)
<1>1. /\ l \in Lists /\ s \in Seq(Items) /\ IsInjective(s) /\ Linked(k, l, s)
      /\ \A p \in 1 .. Len(s) + 1 : k.prev[N(p)] = N(p - 1)
      /\ \A n \in ToSet(s) \cup {l} : k.next[n] # Null
  BY RingAt
<1>k. LinkFields(k) /\ c \in [Lists -> Seq(Items)]
  BY DEF Rings
<1>i. i \in 1 .. Len(s)
  OBVIOUS
<1> HIDE DEF s
<1>2. /\ t \in Seq(Items) /\ Len(t) = Len(s) - 1 /\ Len(s) \in Nat
      /\ \A p \in 1 .. Len(s) - 1 : t[p] = IF p < i THEN s[p] ELSE s[p + 1]
      /\ ToSet(t) = ToSet(s) \ {x} /\ IsInjective(t)
  BY <1>1, <1>i, RemoveAtElements, RemoveAtSet, LenProperties
<1>3. /\ \A p \in Int : N(p) \in ToSet(s) \cup {l} /\ N(p) \in Nodes
      /\ \A p, q \in 0 .. Len(s) : N(p) = N(q) => p = q
      /\ \A p, q \in 1 .. Len(s) + 1 : N(p) = N(q) => p = q
      /\ N(i) = x
  BY <1>1, <1>i, NodeCases, NodeDistinct
<1>4. /\ k.prev[x] = N(i - 1) /\ k.next[x] = N(i + 1)
      /\ i - 1 \in 0 .. Len(s) /\ i + 1 \in 1 .. Len(s) + 1
  <2>1. i \in 0 .. Len(s) /\ i \in 1 .. Len(s) + 1
        /\ i - 1 \in 0 .. Len(s) /\ i + 1 \in 1 .. Len(s) + 1
    BY <1>2, <1>i
  <2> QED
    BY <1>1, <1>3, <2>1 DEF Linked
<1>5. \A p \in 0 .. Len(t) + 1 :
         Node(l, t, p) = IF p < i THEN N(p) ELSE N(p + 1)
  <2> HIDE DEF t
  <2> QED
    BY <1>2, <1>i DEF Node
<1>6. /\ j.next = [k.next EXCEPT ![N(i - 1)] = N(i + 1)]
      /\ j.prev = [k.prev EXCEPT ![N(i + 1)] = N(i - 1)]
  BY <1>4 DEF Erased
<1> HIDE DEF t, x, j, N
<1>7. LinkFields(j)
  <2>1. /\ N(i - 1) \in ToSet(s) \cup {l} /\ N(i - 1) \in Nodes
        /\ N(i + 1) \in ToSet(s) \cup {l} /\ N(i + 1) \in Nodes
    BY <1>2, <1>3, <1>i
  <2>2. /\ k.next[N(i - 1)] # Null /\ k.prev[N(i + 1)] # Null
        /\ k.prev[N(i - 1)] # Null /\ k.next[N(i + 1)] # Null
        /\ N(i - 1) # Null /\ N(i + 1) # Null
    BY <1>1, <1>k, <2>1, ListAssumption DEF LinkFields
  <2> QED
    BY <1>6, <1>k, <2>1, <2>2 DEF LinkFields
<1>8. Linked(j, l, t)
  <2> SUFFICES ASSUME NEW p \in 0 .. Len(t)
               PROVE  /\ j.next[Node(l, t, p)] = Node(l, t, p + 1)
                      /\ j.prev[Node(l, t, p + 1)] = Node(l, t, p)
    BY DEF Linked
  <2>1. /\ p \in Nat /\ p <= Len(s) - 1 /\ i \in Nat
        /\ p \in 0 .. Len(t) + 1 /\ p + 1 \in 0 .. Len(t) + 1
        /\ p \in 0 .. Len(s) /\ p + 1 \in 0 .. Len(s)
        /\ p + 1 \in 1 .. Len(s) + 1 /\ p + 2 \in 1 .. Len(s) + 1
        /\ (p + 1) + 1 = p + 2
    BY <1>2, <1>i
  <2>2. /\ Node(l, t, p) = IF p < i THEN N(p) ELSE N(p + 1)
        /\ Node(l, t, p + 1) = IF p + 1 < i THEN N(p + 1) ELSE N(p + 2)
    BY <1>5, <2>1
  <2>3. /\ k.next[N(p)] = N(p + 1) /\ k.next[N(p + 1)] = N(p + 2)
        /\ k.prev[N(p + 1)] = N(p) /\ k.prev[N(p + 2)] = N(p + 1)
    BY <1>1, <2>1 DEF Linked, N
  <2>4. /\ j.next \in [Nodes -> Nodes \cup {Null}]
        /\ j.prev \in [Nodes -> Nodes \cup {Null}]
        /\ \A n \in Nodes :
             /\ j.next[n] = IF n = N(i - 1) THEN N(i + 1) ELSE k.next[n]
             /\ j.prev[n] = IF n = N(i + 1) THEN N(i - 1) ELSE k.prev[n]
    BY <1>6, <1>7, <1>k DEF LinkFields
  <2>5. N(p) \in Nodes /\ N(p + 1) \in Nodes /\ N(p + 2) \in Nodes
    BY <1>3, <2>1
  <2>6. CASE p + 1 < i
    <3>1. N(p) # N(i - 1) /\ N(p + 1) # N(i + 1)
      <4>1. p # i - 1 /\ p + 1 # i + 1
        BY <2>1, <2>6
      <4> QED
        BY <1>3, <1>4, <2>1, <4>1
    <3>2. Node(l, t, p) = N(p) /\ Node(l, t, p + 1) = N(p + 1)
      BY <2>1, <2>2, <2>6
    <3> QED
      BY <2>3, <2>4, <2>5, <3>1, <3>2
  <2>7. CASE p + 1 = i
    <3>1. N(p) = N(i - 1) /\ N(p + 2) = N(i + 1)
      <4>1. p = i - 1 /\ p + 2 = i + 1
        BY <2>1, <2>7
      <4> QED
        BY <4>1
    <3>2. Node(l, t, p) = N(p) /\ Node(l, t, p + 1) = N(p + 2)
      BY <2>1, <2>2, <2>7
    <3> QED
      BY <2>4, <2>5, <3>1, <3>2
  <2>8. CASE p + 1 > i
    <3>1. N(p + 1) # N(i - 1) /\ N(p + 2) # N(i + 1)
      <4>1. p + 1 # i - 1 /\ p + 2 # i + 1
        BY <2>1, <2>8
      <4> QED
        BY <1>3, <1>4, <2>1, <4>1
    <3>2. Node(l, t, p) = N(p + 1) /\ Node(l, t, p + 1) = N(p + 2)
      BY <2>1, <2>2, <2>8
    <3> QED
      BY <2>3, <2>4, <2>5, <3>1, <3>2
  <2> QED
    BY <2>1, <2>6, <2>7, <2>8
<1>9. \A n \in Nodes : n \notin ToSet(c[l]) \cup ToSet(t) \cup {l} =>
         j.next[n] = k.next[n] /\ j.prev[n] = k.prev[n]
  <2>1. N(i - 1) \in ToSet(s) \cup {l} /\ N(i + 1) \in ToSet(s) \cup {l}
    BY <1>2, <1>3, <1>i
  <2> QED
    BY <1>6, <1>k, <2>1 DEF LinkFields, s
<1>10. \A m \in U : m # l => ToSet(t) \cap ToSet(c[m]) = {}
  BY <1>2, ZenonT(60) DEF Rings, s
<1>11. Rings(j, [c EXCEPT ![l] = t], U)
  BY <1>2, <1>7, <1>8, <1>9, <1>10, ReplaceRing
<1>12. [c EXCEPT ![l] = t] = [c EXCEPT ![l] = RemoveAt(@, i)]
  BY DEF t, s
<1> QED
  BY <1>11, <1>12 DEF j, x, s

(* insert() puts an item that is in no ring in front of position i. *)
LEMMA InsertRing ==
    ASSUME NEW k, NEW c, NEW U, Rings(k, c, U), NEW l \in U,
           NEW i \in 1 .. Len(c[l]) + 1,
           NEW x \in Items, \A m \in U : x \notin ToSet(c[m])
    PROVE  Rings(Inserted(k, x, Node(l, c[l], i)),
                 [c EXCEPT ![l] = InsertAt(@, i, x)], U)
<1> DEFINE s == c[l]
           t == InsertAt(s, i, x)
           N(p) == Node(l, s, p)
           j == Inserted(k, x, N(i))
<1>1. /\ l \in Lists /\ s \in Seq(Items) /\ IsInjective(s) /\ Linked(k, l, s)
      /\ \A p \in 1 .. Len(s) + 1 : k.prev[N(p)] = N(p - 1)
      /\ \A n \in ToSet(s) \cup {l} : k.next[n] # Null
  BY RingAt
<1>k. LinkFields(k) /\ c \in [Lists -> Seq(Items)]
  BY DEF Rings
<1>i. i \in 1 .. Len(s) + 1 /\ x \notin ToSet(s)
  OBVIOUS
<1> HIDE DEF s
<1>2. /\ t \in Seq(Items) /\ Len(t) = Len(s) + 1 /\ Len(s) \in Nat
      /\ \A p \in 1 .. Len(s) + 1 :
            t[p] = IF p < i THEN s[p] ELSE IF p = i THEN x ELSE s[p - 1]
      /\ ToSet(t) = ToSet(s) \cup {x} /\ IsInjective(t)
  BY <1>1, <1>i, InsertAtElements, InsertAtSet, LenProperties
<1>3. /\ \A p \in Int : N(p) \in ToSet(s) \cup {l} /\ N(p) \in Nodes
      /\ \A p, q \in 0 .. Len(s) : N(p) = N(q) => p = q
      /\ \A p, q \in 1 .. Len(s) + 1 : N(p) = N(q) => p = q
  <2>1. \A p \in Int : N(p) \in ToSet(s) \cup {l} /\ N(p) \in Nodes
    BY <1>1, NodeCases
  <2>2. /\ \A p, q \in 0 .. Len(s) : N(p) = N(q) => p = q
        /\ \A p, q \in 1 .. Len(s) + 1 : N(p) = N(q) => p = q
    BY <1>1, NodeDistinct
  <2> QED
    BY <2>1, <2>2
<1>x. x \in Nodes /\ x # l /\ x # Null /\ \A p \in Int : N(p) # x
  <2>1. x \in Nodes /\ x # l /\ x # Null
    BY <1>1, ListAssumption DEF Nodes
  <2> QED
    BY <1>3, <1>i, <2>1
<1>4. k.prev[N(i)] = N(i - 1) /\ i - 1 \in 0 .. Len(s) /\ i \in Int
  BY <1>1, <1>2, <1>i
<1>5. \A p \in 0 .. Len(t) + 1 :
         Node(l, t, p) = IF p < i THEN N(p)
                         ELSE IF p = i THEN x ELSE N(p - 1)
  <2> HIDE DEF t
  <2> QED
    BY <1>2, <1>i DEF Node
<1>6. /\ j.next = [k.next EXCEPT ![N(i - 1)] = x, ![x] = N(i)]
      /\ j.prev = [k.prev EXCEPT ![x] = N(i - 1), ![N(i)] = x]
  BY <1>4 DEF Inserted
<1> HIDE DEF t, j, N
<1>n. /\ N(i - 1) \in ToSet(s) \cup {l} /\ N(i - 1) \in Nodes
      /\ N(i) \in ToSet(s) \cup {l} /\ N(i) \in Nodes
      /\ N(i - 1) # x /\ N(i) # x
  BY <1>3, <1>4, <1>x
<1>j. /\ j.next \in [Nodes -> Nodes \cup {Null}]
      /\ j.prev \in [Nodes -> Nodes \cup {Null}]
      /\ \A n \in Nodes :
           /\ j.next[n] = IF n = x THEN N(i)
                          ELSE IF n = N(i - 1) THEN x ELSE k.next[n]
           /\ j.prev[n] = IF n = N(i) THEN x
                          ELSE IF n = x THEN N(i - 1) ELSE k.prev[n]
  BY <1>6, <1>k, <1>x, <1>n, ZenonT(60) DEF LinkFields
<1>7. LinkFields(j)
  <2>1. /\ k.next[N(i - 1)] # Null /\ k.prev[N(i)] # Null
        /\ k.prev[N(i - 1)] # Null /\ k.next[N(i)] # Null
        /\ N(i - 1) # Null /\ N(i) # Null
    BY <1>1, <1>k, <1>n, ListAssumption DEF LinkFields
  <2>2. \A n \in Nodes : (j.next[n] = Null) = (j.prev[n] = Null)
    BY <1>j, <1>k, <1>x, <1>n, <2>1 DEF LinkFields
  <2> QED
    BY <1>j, <2>2 DEF LinkFields
<1>8. Linked(j, l, t)
  <2> SUFFICES ASSUME NEW p \in 0 .. Len(t)
               PROVE  /\ j.next[Node(l, t, p)] = Node(l, t, p + 1)
                      /\ j.prev[Node(l, t, p + 1)] = Node(l, t, p)
    BY DEF Linked
  <2>1. /\ p \in Nat /\ p <= Len(s) + 1 /\ i \in Nat
        /\ p \in 0 .. Len(t) + 1 /\ p + 1 \in 0 .. Len(t) + 1
        /\ (p + 1) - 1 = p
    BY <1>2, <1>i
  <2>2. /\ Node(l, t, p) = IF p < i THEN N(p)
                           ELSE IF p = i THEN x ELSE N(p - 1)
        /\ Node(l, t, p + 1) = IF p + 1 < i THEN N(p + 1)
                               ELSE IF p + 1 = i THEN x ELSE N(p)
    BY <1>5, <2>1
  <2>5. N(p) \in Nodes /\ N(p + 1) \in Nodes /\ N(p - 1) \in Nodes
        /\ N(p) # x /\ N(p + 1) # x /\ N(p - 1) # x
    BY <1>3, <1>x, <2>1
  <2>6. CASE p + 1 < i
    <3>0. /\ p \in 0 .. Len(s) /\ p + 1 \in 1 .. Len(s) + 1
          /\ p # i - 1 /\ p + 1 # i
      BY <1>2, <1>i, <2>1, <2>6
    <3>1. N(p) # N(i - 1) /\ N(p + 1) # N(i)
      BY <1>3, <1>4, <1>i, <3>0
    <3>2. Node(l, t, p) = N(p) /\ Node(l, t, p + 1) = N(p + 1)
      BY <2>1, <2>2, <2>6
    <3>3. k.next[N(p)] = N(p + 1) /\ k.prev[N(p + 1)] = N(p)
      BY <1>1, <3>0 DEF Linked, N
    <3> QED
      BY <1>j, <2>5, <3>1, <3>2, <3>3
  <2>7. CASE p + 1 = i
    <3>1. N(p) = N(i - 1)
      <4>1. p = i - 1
        BY <2>1, <2>7
      <4> QED
        BY <4>1
    <3>2. Node(l, t, p) = N(p) /\ Node(l, t, p + 1) = x
      BY <2>1, <2>2, <2>7
    <3> QED
      BY <1>j, <1>x, <1>n, <2>5, <3>1, <3>2
  <2>8. CASE p = i
    <3>1. Node(l, t, p) = x /\ Node(l, t, p + 1) = N(i)
      BY <2>1, <2>2, <2>8
    <3> QED
      BY <1>j, <1>x, <1>n, <3>1
  <2>9. CASE p > i
    <3>0. /\ p - 1 \in 0 .. Len(s) /\ p \in 1 .. Len(s) + 1
          /\ p - 1 # i - 1 /\ p # i /\ (p - 1) + 1 = p
      BY <1>2, <1>i, <2>1, <2>9
    <3>1. N(p - 1) # N(i - 1) /\ N(p) # N(i)
      BY <1>3, <1>4, <1>i, <3>0
    <3>2. Node(l, t, p) = N(p - 1) /\ Node(l, t, p + 1) = N(p)
      BY <2>1, <2>2, <2>9
    <3>3. k.next[N(p - 1)] = N(p) /\ k.prev[N(p)] = N(p - 1)
      BY <1>1, <3>0 DEF Linked, N
    <3> QED
      BY <1>j, <2>5, <3>1, <3>2, <3>3
  <2> QED
    BY <2>1, <2>6, <2>7, <2>8, <2>9
<1>9. \A n \in Nodes : n \notin ToSet(c[l]) \cup ToSet(t) \cup {l} =>
         j.next[n] = k.next[n] /\ j.prev[n] = k.prev[n]
  BY <1>2, <1>j, <1>n DEF s
<1>10. \A m \in U : m # l => ToSet(t) \cap ToSet(c[m]) = {}
  BY <1>2, ZenonT(60) DEF Rings, s
<1>11. Rings(j, [c EXCEPT ![l] = t], U)
  BY <1>2, <1>7, <1>8, <1>9, <1>10, ReplaceRing
<1>12. [c EXCEPT ![l] = t] = [c EXCEPT ![l] = InsertAt(@, i, x)]
  BY DEF t, s
<1> QED
  BY <1>11, <1>12 DEF j, N, s

(* A new list is an empty ring. *)
LEMMA NewRing ==
    ASSUME NEW k, NEW c, NEW U, Rings(k, c, U), NEW l \in Lists \ U,
           NEW j, j.next = [k.next EXCEPT ![l] = l],
           j.prev = [k.prev EXCEPT ![l] = l]
    PROVE  Rings(j, c, U \cup {l})
<1>1. LinkFields(k) /\ c \in [Lists -> Seq(Items)] /\ c[l] = <<>>
      /\ U \subseteq Lists
  BY DEF Rings
<1>2. l \in Nodes /\ l # Null
  BY ListAssumption DEF Nodes
<1>3. LinkFields(j)
  BY <1>1, <1>2 DEF LinkFields
<1>4. \A n \in Nodes : n # l =>
         j.next[n] = k.next[n] /\ j.prev[n] = k.prev[n]
  BY <1>1 DEF LinkFields
<1>5. IsInjective(c[l]) /\ ToSet(c[l]) = {} /\ Linked(j, l, c[l])
  <2>1. Len(<<>>) = 0 /\ IsInjective(<<>>) /\ ToSet(<<>>) = {}
    BY DEF IsInjective, ToSet
  <2>2. j.next[l] = l /\ j.prev[l] = l
    BY <1>1, <1>2 DEF LinkFields
  <2> QED
    BY <1>1, <2>1, <2>2 DEF Linked, Node
<1>6. ASSUME NEW m \in U
      PROVE  IsInjective(c[m]) /\ Linked(j, m, c[m])
  <2>1. /\ m \in Lists /\ c[m] \in Seq(Items) /\ m # l
        /\ IsInjective(c[m]) /\ Linked(k, m, c[m])
    BY DEF Rings
  <2>2. ASSUME NEW i \in 0 .. Len(c[m])
        PROVE  /\ j.next[Node(m, c[m], i)] = Node(m, c[m], i + 1)
               /\ j.prev[Node(m, c[m], i + 1)] = Node(m, c[m], i)
    <3>1. i \in Int /\ i + 1 \in Int
      BY <2>1, LenProperties
    <3>2. /\ Node(m, c[m], i) \in ToSet(c[m]) \cup {m}
          /\ Node(m, c[m], i) \in Nodes
          /\ Node(m, c[m], i + 1) \in ToSet(c[m]) \cup {m}
          /\ Node(m, c[m], i + 1) \in Nodes
          /\ ToSet(c[m]) \subseteq Items
      BY <2>1, <3>1, NodeCases
    <3>3. Node(m, c[m], i) # l /\ Node(m, c[m], i + 1) # l
      BY <2>1, <3>2, ListAssumption
    <3> QED
      BY <1>4, <2>1, <3>2, <3>3 DEF Linked
  <2> QED
    BY <2>1, <2>2 DEF Linked
<1>7. \A m \in Lists \ (U \cup {l}) : j.next[m] = Null /\ c[m] = <<>>
  BY <1>4 DEF Rings, Nodes
<1>8. \A m, n \in U \cup {l} : m # n => ToSet(c[m]) \cap ToSet(c[n]) = {}
  BY <1>5 DEF Rings
<1>9. \A m \in U \cup {l} : IsInjective(c[m]) /\ Linked(j, m, c[m])
  BY <1>5, <1>6
<1> QED
  BY <1>1, <1>3, <1>7, <1>8, <1>9 DEF Rings

----------------------------------------------------------------------------
(* The state: every list that can be used is a ring, and no other is. *)
RingState == live \subseteq Lists /\ Rings(Links, AllContents, Usable)

LEMMA RingFacts ==
    ASSUME RingState
    PROVE  /\ Usable \subseteq Lists
           /\ \A l \in Lists : /\ AllContents[l] = Contents(l)
                               /\ Contents(l) \in Seq(Items)
           /\ \A l \in Usable :
                 /\ IsInjective(Contents(l))
                 /\ Linked(Links, l, Contents(l))
                 /\ Len(Contents(l)) \in Nat
                 /\ next[l] = Node(l, Contents(l), 1)
                 /\ prev[l] = Node(l, Contents(l), Len(Contents(l)))
                 /\ empty(l) <=> Contents(l) = <<>>
           /\ \A x \in Free : x \in Items /\ \A m \in Usable :
                 x \notin ToSet(AllContents[m])
<1>1. /\ Usable \subseteq Lists
      /\ \A l \in Lists : /\ AllContents[l] = Contents(l)
                          /\ Contents(l) \in Seq(Items)
      /\ \A l \in Usable : /\ IsInjective(Contents(l))
                           /\ Linked(Links, l, Contents(l))
  BY DEF RingState, Rings, AllContents
<1>2. ASSUME NEW l \in Usable
      PROVE  /\ Len(Contents(l)) \in Nat
             /\ next[l] = Node(l, Contents(l), 1)
             /\ prev[l] = Node(l, Contents(l), Len(Contents(l)))
             /\ empty(l) <=> Contents(l) = <<>>
  <2> DEFINE s == Contents(l)
  <2>1. l \in Lists /\ s \in Seq(Items) /\ Linked(Links, l, s)
    BY <1>1
  <2> HIDE DEF s
  <2>2. /\ Len(s) \in Nat /\ Node(l, s, 0) = l /\ Node(l, s, Len(s) + 1) = l
        /\ \A i \in 1 .. Len(s) : Node(l, s, i) = s[i] /\ s[i] \in Items
        /\ Links.next = next /\ Links.prev = prev
    BY <2>1, NodeCases DEF Links
  <2>3. next[l] = Node(l, s, 1)
    <3>1. 0 \in 0 .. Len(s) /\ 0 + 1 = 1
      BY <2>2
    <3> QED
      BY <2>1, <2>2, <3>1 DEF Linked
  <2>4. prev[l] = Node(l, s, Len(s))
    <3>1. Len(s) \in 0 .. Len(s)
      BY <2>2
    <3> QED
      BY <2>1, <2>2, <3>1 DEF Linked
  <2>5. empty(l) <=> s = <<>>
    <3>1. CASE s = <<>>
      BY <2>2, <2>3, <3>1 DEF empty
    <3>2. CASE s # <<>>
      <4>1. 1 \in 1 .. Len(s)
        BY <2>1, <3>2, EmptySeq
      <4> QED
        BY <2>1, <2>2, <2>3, <3>2, <4>1, ListAssumption DEF empty
    <3> QED
      BY <3>1, <3>2
  <2> QED
    BY <2>2, <2>3, <2>4, <2>5 DEF s
<1>3. \A x \in Free : x \in Items /\ \A m \in Usable :
                 x \notin ToSet(AllContents[m])
  BY <1>1 DEF Free
<1> QED
  BY <1>1, <1>2, <1>3

(* Rings that are linked after a step are what is visited after it. *)
LEMMA RingsAfter ==
    ASSUME NEW c, NEW U, Rings(Links', c, U), U \subseteq live',
           live' \subseteq Lists
    PROVE  RingState' /\ Usable' = U /\ AllContents' = c
<1>1. /\ LinkFields(Links') /\ U \subseteq Lists
      /\ c \in [Lists -> Seq(Items)]
      /\ \A l \in Lists \ U : Links'.next[l] = Null
      /\ Links'.next = next' /\ Links'.prev = prev'
  BY DEF Rings, Links
<1>2. \A l \in U : next'[l] # Null /\ prev'[l] # Null
  <2>1. \A l \in U : Links'.next[l] # Null
    BY RingAt
  <2> QED
    BY <1>1, <2>1 DEF LinkFields, Nodes
<1>3. Usable' = U
  BY <1>1, <1>2 DEF Usable
<1>4. \A l \in Lists : Contents(l)' = c[l]
  BY <1>1, <1>3, WalkIsWalkOf, RingContents
<1>5. AllContents' = c
  <2>1. AllContents' = [l \in Lists |-> Contents(l)']
    BY DEF AllContents
  <2>2. \A l \in Lists : AllContents'[l] = c[l]
    BY <1>4, <2>1
  <2> QED
    BY <1>1, <2>1, <2>2
<1>6. RingState'
  BY <1>3, <1>5 DEF RingState
<1> QED
  BY <1>3, <1>5, <1>6

LEMMA LinksAfter ==
    ASSUME NEW k, k = [next |-> k.next, prev |-> k.prev], Relink(k)
    PROVE  Links' = k
  BY DEF Links, Relink

(* A step that leaves the links alone leaves the rings alone. *)
LEMMA SameRings ==
    ASSUME RingState, UNCHANGED <<next, prev, live>>
    PROVE  RingState' /\ Usable' = Usable /\ AllContents' = AllContents
<1>1. Links' = Links /\ Usable \subseteq live'
  BY DEF Links, Usable
<1> QED
  BY <1>1, RingsAfter DEF RingState

(* The position of the iterators of a list *)
LEMMA IndexOfNode ==
    ASSUME RingState, NEW l \in Usable, NEW i \in 1 .. Len(Contents(l)) + 1
    PROVE  IndexIn(l, Node(l, Contents(l), i)) = i
<1> DEFINE s == Contents(l)
<1>1. /\ l \in Lists /\ s \in Seq(Items) /\ IsInjective(s) /\ Len(s) \in Nat
  BY RingFacts
<1>2. /\ \A p, q \in 1 .. Len(s) + 1 : Node(l, s, p) = Node(l, s, q) => p = q
      /\ \A p \in 1 .. Len(s) : Node(l, s, p) = s[p]
      /\ Node(l, s, Len(s) + 1) = l
  BY <1>1, NodeDistinct, NodeCases
<1>i. i \in 1 .. Len(s) + 1
  OBVIOUS
<1> HIDE DEF s
<1>3. CASE i = Len(s) + 1
  BY <1>2, <1>3 DEF IndexIn, s
<1>4. CASE i \in 1 .. Len(s)
  <2>1. Node(l, s, i) # l
    <3>1. i # Len(s) + 1 /\ Len(s) + 1 \in 1 .. Len(s) + 1
      BY <1>1, <1>4
    <3> QED
      BY <1>2, <1>i, <3>1
  <2>2. \A p \in 1 .. Len(s) : s[p] = Node(l, s, i) <=> p = i
    <3>1. \A p \in 1 .. Len(s) : p \in 1 .. Len(s) + 1
      BY <1>1
    <3> QED
      BY <1>2, <1>4, <1>i, <3>1
  <2>3. (CHOOSE p \in 1 .. Len(s) : s[p] = Node(l, s, i)) = i
    BY <1>4, <2>2
  <2> QED
    BY <2>1, <2>3 DEF IndexIn, s
<1> QED
  BY <1>1, <1>3, <1>4, <1>i DEF s

(* An iterator of l is at some position of its ring. *)
LEMMA NodeOfIndex ==
    ASSUME RingState, NEW l \in Usable, NEW n \in ToSet(Contents(l)) \cup {l}
    PROVE  /\ IndexIn(l, n) \in 1 .. Len(Contents(l)) + 1
           /\ n = Node(l, Contents(l), IndexIn(l, n))
           /\ n # l => IndexIn(l, n) \in 1 .. Len(Contents(l))
<1> DEFINE s == Contents(l)
<1>1. /\ l \in Lists /\ s \in Seq(Items) /\ Len(s) \in Nat
  BY RingFacts
<1>2. PICK i \in 1 .. Len(s) + 1 : /\ n = Node(l, s, i)
                                   /\ n # l => i \in 1 .. Len(s)
  <2>1. CASE n = l
    <3>1. Node(l, s, Len(s) + 1) = l /\ Len(s) + 1 \in 1 .. Len(s) + 1
      BY <1>1, NodeCases
    <3> QED
      BY <2>1, <3>1
  <2>2. CASE n \in ToSet(s)
    <3>1. PICK i \in 1 .. Len(s) : s[i] = n
      BY <1>1, <2>2, NodeCases
    <3>2. i \in 1 .. Len(s) + 1 /\ Node(l, s, i) = n
      BY <1>1, <3>1, NodeCases
    <3> QED
      BY <3>1, <3>2
  <2> QED
    BY <2>1, <2>2
<1>3. IndexIn(l, n) = i
  BY <1>2, IndexOfNode
<1> QED
  BY <1>2, <1>3

----------------------------------------------------------------------------
(* The operations *)

(* insert() in front of the node at position i *)
LEMMA InsertEffect ==
    ASSUME RingState, NEW l \in Usable, NEW x \in Free,
           NEW i \in 1 .. Len(Contents(l)) + 1, UNCHANGED live,
           Links' = Inserted(Links, x, Node(l, Contents(l), i))
    PROVE  /\ RingState' /\ Usable' = Usable
           /\ AllContents' = [AllContents EXCEPT
                                ![l] = InsertAt(Contents(l), i, x)]
<1>1. /\ l \in Lists /\ AllContents[l] = Contents(l) /\ x \in Items
      /\ \A m \in Usable : x \notin ToSet(AllContents[m])
  BY RingFacts
<1>2. Rings(Links', [AllContents EXCEPT ![l] = InsertAt(@, i, x)], Usable)
  BY <1>1, InsertRing DEF RingState
<1>3. [AllContents EXCEPT ![l] = InsertAt(@, i, x)]
         = [AllContents EXCEPT ![l] = InsertAt(Contents(l), i, x)]
  BY <1>1
<1>4. Usable \subseteq live' /\ live' \subseteq Lists
  BY DEF Usable, RingState
<1> QED
  BY <1>2, <1>3, <1>4, RingsAfter

(* erase() of the node at position i *)
LEMMA EraseEffect ==
    ASSUME RingState, NEW l \in Usable, NEW i \in 1 .. Len(Contents(l)),
           UNCHANGED live,
           Links' = Erased(Links, Contents(l)[i])
    PROVE  /\ RingState' /\ Usable' = Usable
           /\ AllContents' = [AllContents EXCEPT
                                ![l] = RemoveAt(Contents(l), i)]
<1>1. l \in Lists /\ AllContents[l] = Contents(l)
  BY RingFacts
<1>2. Rings(Links', [AllContents EXCEPT ![l] = RemoveAt(@, i)], Usable)
  BY <1>1, EraseRing DEF RingState
<1>3. [AllContents EXCEPT ![l] = RemoveAt(@, i)]
         = [AllContents EXCEPT ![l] = RemoveAt(Contents(l), i)]
  BY <1>1
<1>4. Usable \subseteq live' /\ live' \subseteq Lists
  BY DEF Usable, RingState
<1> QED
  BY <1>2, <1>3, <1>4, RingsAfter

(* Pushes and pops insert and erase at the ends. *)
LEMMA EndsOfSeq ==
    ASSUME NEW s \in Seq(Items), NEW x \in Items
    PROVE  /\ InsertAt(s, 1, x) = <<x>> \o s
           /\ InsertAt(s, Len(s) + 1, x) = Append(s, x)
           /\ s # <<>> => /\ RemoveAt(s, 1) = Tail(s)
                          /\ RemoveAt(s, Len(s)) = Front(s)
<1>1. /\ Len(s) \in Nat /\ SubSeq(s, 1, Len(s)) = s
      /\ SubSeq(s, 1, 0) = <<>> /\ <<x>> \in Seq(Items)
      /\ SubSeq(s, Len(s) + 1, Len(s)) = <<>>
      /\ <<>> \in Seq(Items)
  BY LenProperties, SubSeqFull, SubSeqEmpty, EmptySeq
<1>2. InsertAt(s, 1, x) = <<x>> \o s
  <2>1. <<>> \o <<x>> = <<x>>
    BY <1>1, ConcatEmptySeq
  <2> QED
    BY <1>1, <2>1 DEF InsertAt
<1>3. InsertAt(s, Len(s) + 1, x) = Append(s, x)
  <2>1. /\ Append(s, x) = s \o <<x>> /\ s \o <<x>> \in Seq(Items)
    BY <1>1, AppendIsConcat, ConcatProperties
  <2>2. (s \o <<x>>) \o <<>> = s \o <<x>>
    BY <2>1, ConcatEmptySeq
  <2>3. InsertAt(s, Len(s) + 1, x)
           = SubSeq(s, 1, (Len(s) + 1) - 1) \o <<x>>
                \o SubSeq(s, Len(s) + 1, Len(s))
    BY DEF InsertAt
  <2>4. (Len(s) + 1) - 1 = Len(s)
    BY <1>1
  <2> QED
    BY <1>1, <2>1, <2>2, <2>3, <2>4
<1>4. ASSUME s # <<>>
      PROVE  RemoveAt(s, 1) = Tail(s) /\ RemoveAt(s, Len(s)) = Front(s)
  <2>1. Tail(s) = SubSeq(s, 2, Len(s)) /\ Tail(s) \in Seq(Items)
    BY <1>4, TailIsSubSeq, HeadTailProperties
  <2>2. RemoveAt(s, 1) = <<>> \o Tail(s)
    BY <1>1, <2>1 DEF RemoveAt
  <2>3. RemoveAt(s, Len(s)) = SubSeq(s, 1, Len(s) - 1) \o <<>>
    BY <1>1 DEF RemoveAt
  <2>4. SubSeq(s, 1, Len(s) - 1) \in Seq(Items)
    <3>1. 1 \in Int /\ Len(s) - 1 \in Int
          /\ \A i \in 1 .. Len(s) - 1 : s[i] \in Items
      BY <1>1, ElementOfSeq
    <3> QED
      BY <3>1, SubSeqProperties
  <2> QED
    BY <2>1, <2>2, <2>3, <2>4, ConcatEmptySeq DEF Front
<1> QED
  BY <1>2, <1>3, <1>4

LEMMA PushFront ==
    ASSUME RingState, NEW l \in Usable, NEW x \in Items, push_front(l, x)
    PROVE  /\ RingState' /\ Usable' = Usable
           /\ AllContents' = [AllContents EXCEPT ![l] = <<x>> \o Contents(l)]
<1> DEFINE s == Contents(l)
           b == Node(l, s, 1)
<1>1. /\ l \in Lists /\ s \in Seq(Items) /\ Len(s) \in Nat
      /\ next[l] = b /\ 1 \in 1 .. Len(s) + 1 /\ x \in Free
      /\ UNCHANGED live
  BY RingFacts DEF push_front, At
<1>2. prev[b] = l /\ b \in ToSet(s) \cup {l} /\ b \in Nodes
  <2>1. 0 \in 0 .. Len(s) /\ 0 + 1 = 1 /\ Node(l, s, 0) = l
    BY <1>1, NodeCases
  <2>2. prev[b] = l
    BY <2>1, RingFacts DEF Linked, Links
  <2>3. b \in ToSet(s) \cup {l} /\ b \in Nodes
    BY <1>1, NodeCases
  <2> QED
    BY <2>2, <2>3
<1>3. x \notin ToSet(s) /\ x # l /\ x \in Nodes /\ l \in Nodes
  BY <1>1, RingFacts, ListAssumption DEF Nodes
<1> HIDE DEF b
<1>4. Links' = Inserted(Links, x, b)
  <2>1. /\ next \in [Nodes -> Nodes \cup {Null}]
        /\ prev \in [Nodes -> Nodes \cup {Null}]
    BY DEF RingState, Rings, LinkFields, Links
  <2>2. /\ next' = [next EXCEPT ![x] = b, ![l] = x]
        /\ prev' = [prev EXCEPT ![b] = x, ![x] = l]
    BY <1>1 DEF push_front, Relink
  <2>3. x # b
    BY <1>2, <1>3
  <2>4. /\ next' = [next EXCEPT ![l] = x, ![x] = b]
        /\ prev' = [prev EXCEPT ![x] = l, ![b] = x]
    BY <1>2, <1>3, <2>1, <2>2, <2>3
  <2> QED
    BY <1>2, <2>4 DEF Inserted, Links
<1>5. InsertAt(s, 1, x) = <<x>> \o s
  BY <1>1, EndsOfSeq
<1> QED
  BY <1>1, <1>4, <1>5, InsertEffect DEF b

LEMMA PushBack ==
    ASSUME RingState, NEW l \in Usable, NEW x \in Items, push_back(l, x)
    PROVE  /\ RingState' /\ Usable' = Usable
           /\ AllContents' = [AllContents EXCEPT
                                ![l] = Append(Contents(l), x)]
<1> DEFINE s == Contents(l)
<1>1. /\ l \in Lists /\ s \in Seq(Items) /\ Len(s) \in Nat
      /\ Len(s) + 1 \in 1 .. Len(s) + 1 /\ x \in Free /\ x \in Items
      /\ UNCHANGED live
  BY RingFacts DEF push_back, At
<1>2. Node(l, s, Len(s) + 1) = l
  BY <1>1, NodeCases
<1>3. Links' = Inserted(Links, x, l)
  BY DEF push_back, Relink, Inserted, Links
<1>4. InsertAt(s, Len(s) + 1, x) = Append(s, x)
  BY <1>1, EndsOfSeq
<1> QED
  BY <1>1, <1>2, <1>3, <1>4, InsertEffect

LEMMA PopFront ==
    ASSUME RingState, NEW l \in Usable, pop_front(l)
    PROVE  /\ RingState' /\ Usable' = Usable
           /\ AllContents' = [AllContents EXCEPT ![l] = Tail(Contents(l))]
<1> DEFINE s == Contents(l)
           x == s[1]
<1>1. /\ l \in Lists /\ s \in Seq(Items) /\ Len(s) \in Nat /\ s # <<>>
      /\ UNCHANGED live
  BY RingFacts DEF pop_front, At
<1>2. 1 \in 1 .. Len(s) /\ x \in Items
  BY <1>1, EmptySeq, ElementOfSeq
<1>3. next[l] = x /\ prev[x] = l
  <2>1. 0 \in 0 .. Len(s) /\ 0 + 1 = 1 /\ Node(l, s, 0) = l
        /\ Node(l, s, 1) = x
    BY <1>1, <1>2, NodeCases
  <2> QED
    BY <2>1, RingFacts DEF Linked, Links
<1>4. Links' = Erased(Links, x)
  BY <1>3 DEF pop_front, Relink, Erased, Links
<1>5. RemoveAt(s, 1) = Tail(s)
  BY <1>1, <1>2, EndsOfSeq
<1> QED
  BY <1>1, <1>2, <1>4, <1>5, EraseEffect

LEMMA PopBack ==
    ASSUME RingState, NEW l \in Usable, pop_back(l)
    PROVE  /\ RingState' /\ Usable' = Usable
           /\ AllContents' = [AllContents EXCEPT ![l] = Front(Contents(l))]
<1> DEFINE s == Contents(l)
           x == s[Len(s)]
<1>1. /\ l \in Lists /\ s \in Seq(Items) /\ Len(s) \in Nat /\ s # <<>>
      /\ UNCHANGED live
  BY RingFacts DEF pop_back, At
<1>2. Len(s) \in 1 .. Len(s) /\ x \in Items
  BY <1>1, EmptySeq, ElementOfSeq
<1>3. prev[l] = x /\ next[x] = l
  <2>1. Len(s) \in 0 .. Len(s) /\ Node(l, s, Len(s) + 1) = l
        /\ Node(l, s, Len(s)) = x
    BY <1>1, <1>2, NodeCases
  <2> QED
    BY <2>1, RingFacts DEF Linked, Links
<1>4. Links' = Erased(Links, x)
  BY <1>3 DEF pop_back, Relink, Erased, Links
<1>5. RemoveAt(s, Len(s)) = Front(s)
  BY <1>1, <1>2, EndsOfSeq
<1> QED
  BY <1>1, <1>2, <1>4, <1>5, EraseEffect

LEMMA Insert ==
    ASSUME RingState, NEW l \in Usable, NEW x \in Items, NEW b,
           insert(l, x, b)
    PROVE  /\ RingState' /\ Usable' = Usable
           /\ AllContents' = [AllContents EXCEPT
                                ![l] = InsertAt(Contents(l), IndexIn(l, b), x)]
<1>1. /\ x \in Free /\ b \in ToSet(Contents(l)) \cup {l} /\ UNCHANGED live
      /\ Links' = Inserted(Links, x, b)
  BY DEF insert, At, Relink, Inserted, Links
<1>2. /\ IndexIn(l, b) \in 1 .. Len(Contents(l)) + 1
      /\ b = Node(l, Contents(l), IndexIn(l, b))
  BY <1>1, NodeOfIndex
<1> QED
  BY <1>1, <1>2, InsertEffect

LEMMA Erase ==
    ASSUME RingState, NEW l \in Usable, NEW x \in Items, erase(l, x)
    PROVE  /\ RingState' /\ Usable' = Usable
           /\ AllContents' = [AllContents EXCEPT
                                ![l] = RemoveAt(Contents(l), IndexIn(l, x))]
<1>1. /\ x \in ToSet(Contents(l)) \cup {l} /\ UNCHANGED live
      /\ Links' = Erased(Links, x) /\ l \in Lists /\ x # l
      /\ Contents(l) \in Seq(Items)
  BY RingFacts, ListAssumption DEF erase, At, Relink, Erased, Links
<1>2. /\ IndexIn(l, x) \in 1 .. Len(Contents(l))
      /\ x = Node(l, Contents(l), IndexIn(l, x))
  BY <1>1, NodeOfIndex
<1>3. x = Contents(l)[IndexIn(l, x)]
  BY <1>2 DEF Node
<1> QED
  BY <1>1, <1>2, <1>3, EraseEffect

(* Constructors *)
LEMMA Constructed ==
    ASSUME RingState, NEW l \in Lists,
           Construct(l) \/ \E other \in Lists : MoveConstruct(l, other)
    PROVE  RingState'
<1>l. /\ l \notin live /\ live' = live \cup {l} /\ l \notin Usable
      /\ Usable \subseteq Lists /\ live' \subseteq Lists
      /\ Usable \subseteq live'
  BY DEF Construct, MoveConstruct, Usable, RingState
<1>1. CASE Links' = [next |-> [next EXCEPT ![l] = l],
                     prev |-> [prev EXCEPT ![l] = l]]
  <2>1. Links'.next = [Links.next EXCEPT ![l] = l]
        /\ Links'.prev = [Links.prev EXCEPT ![l] = l]
    BY <1>1 DEF Links
  <2>2. Rings(Links', AllContents, Usable \cup {l})
    BY <1>l, <2>1, NewRing DEF RingState
  <2>3. Usable \cup {l} \subseteq live'
    BY <1>l
  <2> QED
    BY <1>l, <2>2, <2>3, RingsAfter
<1>2. ASSUME NEW other \in Usable, ~empty(other),
             Links' = [next |-> [next EXCEPT ![prev[other]] = l,
                                             ![other] = other],
                       prev |-> [prev EXCEPT ![next[other]] = l,
                                             ![other] = other]]
      PROVE  RingState'
  <2> DEFINE s == Contents(other)
             j == Links'
  <2>1. /\ other \in Lists /\ s \in Seq(Items) /\ Len(s) \in Nat
        /\ AllContents[other] = s
        /\ next[other] = Node(other, s, 1)
        /\ prev[other] = Node(other, s, Len(s))
        /\ Rings(Links, AllContents, Usable)
    BY RingFacts DEF RingState
  <2>2. /\ next[other] \in ToSet(s) \cup {other} /\ next[other] \in Nodes
        /\ prev[other] \in ToSet(s) \cup {other} /\ prev[other] \in Nodes
        /\ ToSet(s) \subseteq Items
    BY <2>1, NodeCases
  <2>3. /\ LinkFields(Links) /\ Links.next = next /\ Links.prev = prev
        /\ other \in Nodes /\ l \in Nodes /\ l # Null /\ other # Null
    BY ListAssumption, <2>1 DEF RingState, Rings, Links, Nodes
  <2>4. \A n \in ToSet(s) \cup {other} : next[n] # Null /\ prev[n] # Null
    <3>1. \A n \in ToSet(s) \cup {other} : Links.next[n] # Null
      BY <2>1, RingAt
    <3> QED
      BY <2>2, <2>3, <3>1 DEF LinkFields, Nodes
  <2>5. /\ j.next = [next EXCEPT ![prev[other]] = l, ![other] = other]
        /\ j.prev = [prev EXCEPT ![next[other]] = l, ![other] = other]
    BY <1>2
  <2> HIDE DEF j, s
  <2>6. /\ j.next \in [Nodes -> Nodes \cup {Null}]
        /\ j.prev \in [Nodes -> Nodes \cup {Null}]
        /\ \A n \in Nodes :
             /\ j.next[n] = IF n = other THEN other
                            ELSE IF n = prev[other] THEN l ELSE next[n]
             /\ j.prev[n] = IF n = other THEN other
                            ELSE IF n = next[other] THEN l ELSE prev[n]
    BY <2>2, <2>3, <2>5 DEF LinkFields
  <2>7. LinkFields(j)
    <3>1. \A n \in Nodes : (j.next[n] = Null) = (j.prev[n] = Null)
      BY <2>2, <2>3, <2>4, <2>6 DEF LinkFields
    <3> QED
      BY <2>6, <3>1 DEF LinkFields
  <2>8. /\ <<>> \in Seq(Items) /\ IsInjective(<<>>) /\ ToSet(<<>>) = {}
        /\ Linked(j, other, <<>>)
    <3>1. /\ Len(<<>>) = 0 /\ <<>> \in Seq(Items) /\ IsInjective(<<>>)
          /\ ToSet(<<>>) = {}
      BY EmptySeq DEF IsInjective, ToSet
    <3>2. j.next[other] = other /\ j.prev[other] = other
      BY <2>3, <2>6
    <3> QED
      BY <3>1, <3>2 DEF Linked, Node
  <2>9. \A n \in Nodes :
           n \notin ToSet(AllContents[other]) \cup ToSet(<<>>) \cup {other} =>
              j.next[n] = Links.next[n] /\ j.prev[n] = Links.prev[n]
    BY <2>1, <2>2, <2>3, <2>6
  <2>10. Rings(j, [AllContents EXCEPT ![other] = <<>>], Usable)
    BY <2>1, <2>7, <2>8, <2>9, ReplaceRing
  <2> QED
    BY <1>l, <2>10, RingsAfter DEF j
<1>3. \/ Links' = [next |-> [next EXCEPT ![l] = l],
                   prev |-> [prev EXCEPT ![l] = l]]
      \/ \E other \in Usable :
            /\ ~empty(other)
            /\ Links' = [next |-> [next EXCEPT ![prev[other]] = l,
                                               ![other] = other],
                         prev |-> [prev EXCEPT ![next[other]] = l,
                                               ![other] = other]]
  BY DEF Construct, MoveConstruct, Relink, Links
<1> QED
  BY <1>1, <1>2, <1>3

----------------------------------------------------------------------------
(* What splice() should do, element by element *)

Part(s, from, to) == SubSeq(s, from, to - 1)
Cut(s, from, to)  == SubSeq(s, 1, from - 1) \o SubSeq(s, to, Len(s))
Paste(s, i, r)    == SubSeq(s, 1, i - 1) \o r \o SubSeq(s, i, Len(s))

(* The part from .. to - 1 of s is moved in front of `at' of s itself. *)
Moved(s, at, from, to) ==
    Paste(Cut(s, from, to), IF at > from THEN at - (to - from) ELSE at,
          Part(s, from, to))

LEMMA PartElements ==
    ASSUME NEW S, NEW s \in Seq(S), NEW from \in 1 .. Len(s) + 1,
           NEW to \in from .. Len(s) + 1
    PROVE  /\ Part(s, from, to) \in Seq(S)
           /\ Len(Part(s, from, to)) = to - from
           /\ \A p \in 1 .. to - from : Part(s, from, to)[p] = s[from + p - 1]
<1>1. Len(s) \in Nat /\ \A p \in 1 .. Len(s) : s[p] \in S
  BY LenProperties, ElementOfSeq
<1>2. /\ from \in Int /\ to - 1 \in Int
      /\ \A p \in from .. to - 1 : s[p] \in S
      /\ (to - 1) - from + 1 = to - from
  BY <1>1
<1>3. /\ SubSeq(s, from, to - 1) \in Seq(S)
      /\ Len(SubSeq(s, from, to - 1)) =
           (IF from <= to - 1 THEN (to - 1) - from + 1 ELSE 0)
      /\ \A p \in 1 .. (to - 1) - from + 1 :
            SubSeq(s, from, to - 1)[p] = s[from + p - 1]
  BY <1>2, SubSeqProperties
<1>4. (IF from <= to - 1 THEN (to - 1) - from + 1 ELSE 0) = to - from
  BY <1>1
<1> QED
  BY <1>2, <1>3, <1>4 DEF Part

LEMMA PasteElements ==
    ASSUME NEW S, NEW s \in Seq(S), NEW r \in Seq(S),
           NEW i \in 1 .. Len(s) + 1
    PROVE  /\ Paste(s, i, r) \in Seq(S)
           /\ Len(Paste(s, i, r)) = Len(s) + Len(r)
           /\ \A p \in 1 .. Len(s) + Len(r) :
                 Paste(s, i, r)[p] =
                    IF p < i THEN s[p]
                    ELSE IF p < i + Len(r) THEN r[p - i + 1]
                    ELSE s[p - Len(r)]
<1> DEFINE a == SubSeq(s, 1, i - 1)
           b == SubSeq(s, i, Len(s))
           ar == a \o r
           w == ar \o b
<1>1. /\ Len(s) \in Nat /\ Len(r) \in Nat
      /\ \A p \in 1 .. Len(s) : s[p] \in S
  BY LenProperties, ElementOfSeq
<1>2. a \in Seq(S) /\ Len(a) = i - 1 /\ \A p \in 1 .. i - 1 : a[p] = s[p]
  <2>1. 1 \in Int /\ i - 1 \in Int /\ \A p \in 1 .. i - 1 : s[p] \in S
    BY <1>1
  <2>2. /\ a \in Seq(S)
        /\ Len(a) = (IF 1 <= i - 1 THEN (i - 1) - 1 + 1 ELSE 0)
        /\ \A p \in 1 .. (i - 1) - 1 + 1 : a[p] = s[1 + p - 1]
    BY <2>1, SubSeqProperties
  <2> HIDE DEF a
  <2> QED
    BY <1>1, <2>2
<1>3. /\ b \in Seq(S) /\ Len(b) = Len(s) - i + 1
      /\ \A p \in 1 .. Len(s) - i + 1 : b[p] = s[i + p - 1]
  <2>1. i \in Int /\ Len(s) \in Int /\ \A p \in i .. Len(s) : s[p] \in S
    BY <1>1
  <2>2. /\ b \in Seq(S)
        /\ Len(b) = (IF i <= Len(s) THEN Len(s) - i + 1 ELSE 0)
        /\ \A p \in 1 .. Len(s) - i + 1 : b[p] = s[i + p - 1]
    BY <2>1, SubSeqProperties
  <2> HIDE DEF b
  <2> QED
    BY <1>1, <2>2
<1> HIDE DEF a, b
<1>4. /\ ar \in Seq(S) /\ Len(ar) = Len(a) + Len(r)
      /\ \A p \in 1 .. Len(a) + Len(r) :
            ar[p] = IF p <= Len(a) THEN a[p] ELSE r[p - Len(a)]
  BY <1>2, ConcatProperties
<1> HIDE DEF ar
<1>5. /\ w \in Seq(S) /\ Len(w) = Len(ar) + Len(b)
      /\ \A p \in 1 .. Len(ar) + Len(b) :
            w[p] = IF p <= Len(ar) THEN ar[p] ELSE b[p - Len(ar)]
  <2>1. ar \in Seq(S) /\ b \in Seq(S)
    BY <1>3, <1>4
  <2> QED
    BY <2>1, ConcatProperties
<1>6. Paste(s, i, r) = w
  BY DEF Paste, w, ar, a, b
<1> HIDE DEF w
<1>7. Len(ar) + Len(b) = Len(s) + Len(r) /\ Len(ar) = (i - 1) + Len(r)
  BY <1>1, <1>2, <1>3, <1>4
<1>8. ASSUME NEW p \in 1 .. Len(s) + Len(r)
      PROVE  w[p] = IF p < i THEN s[p]
                            ELSE IF p < i + Len(r) THEN r[p - i + 1]
                            ELSE s[p - Len(r)]
  <2>1. w[p] = IF p <= (i - 1) + Len(r) THEN ar[p]
                       ELSE b[p - ((i - 1) + Len(r))]
    BY <1>5, <1>7
  <2>2. CASE p < i
    <3>1. /\ p <= (i - 1) + Len(r) /\ p \in 1 .. Len(a) + Len(r)
          /\ p <= Len(a) /\ p \in 1 .. i - 1
      BY <1>1, <1>2, <2>2
    <3> QED
      BY <1>2, <1>4, <2>1, <2>2, <3>1
  <2>3. CASE p >= i /\ p < i + Len(r)
    <3>1. /\ p <= (i - 1) + Len(r) /\ p \in 1 .. Len(a) + Len(r)
          /\ ~ (p <= Len(a)) /\ p - Len(a) = p - i + 1 /\ ~ (p < i)
      BY <1>1, <1>2, <2>3
    <3> QED
      BY <1>4, <2>1, <2>3, <3>1
  <2>4. CASE p >= i + Len(r)
    <3>1. /\ ~ (p <= (i - 1) + Len(r)) /\ ~ (p < i) /\ ~ (p < i + Len(r))
          /\ p - ((i - 1) + Len(r)) \in 1 .. Len(s) - i + 1
          /\ i + (p - ((i - 1) + Len(r))) - 1 = p - Len(r)
      BY <1>1, <2>4
    <3> QED
      BY <1>3, <2>1, <3>1
  <2>5. p < i \/ (p >= i /\ p < i + Len(r)) \/ p >= i + Len(r)
    BY <1>1
  <2> QED
    BY <2>2, <2>3, <2>4, <2>5
<1> QED
  BY <1>5, <1>6, <1>7, <1>8

LEMMA CutParts ==
    ASSUME NEW S, NEW s \in Seq(S), NEW from \in 1 .. Len(s) + 1,
           NEW to \in from .. Len(s) + 1
    PROVE  /\ Cut(s, from, to) \in Seq(S)
           /\ Len(Cut(s, from, to)) = Len(s) - (to - from)
           /\ \A p \in 1 .. Len(s) - (to - from) :
                 Cut(s, from, to)[p] = IF p < from THEN s[p]
                                       ELSE s[p + (to - from)]
  BY CutElements DEF Cut

(* The item that is then at position p *)
MovedItem(s, at, from, to, p) ==
    IF at <= from
    THEN IF p < at THEN s[p]
         ELSE IF p < at + (to - from) THEN s[from + (p - at)]
         ELSE IF p < to THEN s[p - (to - from)] ELSE s[p]
    ELSE IF p < from THEN s[p]
         ELSE IF p < at - (to - from) THEN s[p + (to - from)]
         ELSE IF p < at THEN s[from + (p - (at - (to - from)))] ELSE s[p]

(* The position is before the part, or not before its end. *)
LEMMA MovedElements ==
    ASSUME NEW S, NEW s \in Seq(S), NEW from \in 1 .. Len(s) + 1,
           NEW to \in from .. Len(s) + 1, NEW at \in 1 .. Len(s) + 1,
           at <= from \/ at >= to
    PROVE  /\ Moved(s, at, from, to) \in Seq(S)
           /\ Len(Moved(s, at, from, to)) = Len(s)
           /\ \A p \in 1 .. Len(s) :
                 Moved(s, at, from, to)[p] = MovedItem(s, at, from, to, p)
<1> DEFINE m == to - from
           i == IF at > from THEN at - m ELSE at
           r == Part(s, from, to)
           d == Cut(s, from, to)
           w == Paste(d, i, r)
<1>1. Len(s) \in Nat /\ m \in Nat /\ from \in Nat /\ to \in Nat /\ at \in Nat
      /\ to = from + m /\ m <= Len(s)
  BY LenProperties
<1>2. /\ r \in Seq(S) /\ Len(r) = m
      /\ \A p \in 1 .. m : r[p] = s[from + p - 1]
  BY PartElements
<1>3. /\ d \in Seq(S) /\ Len(d) = Len(s) - m
      /\ \A p \in 1 .. Len(s) - m :
            d[p] = IF p < from THEN s[p] ELSE s[p + m]
  BY CutParts
<1> HIDE DEF r, d, m
<1>4. i \in 1 .. Len(d) + 1 /\ i \in Nat
  BY <1>1, <1>3
<1>5. /\ w \in Seq(S)
      /\ Len(w) = Len(d) + Len(r)
      /\ \A p \in 1 .. Len(d) + Len(r) :
            w[p] = IF p < i THEN d[p]
                                ELSE IF p < i + Len(r) THEN r[p - i + 1]
                                ELSE d[p - Len(r)]
  <2>1. d \in Seq(S) /\ r \in Seq(S) /\ i \in 1 .. Len(d) + 1
    BY <1>2, <1>3, <1>4
  <2> HIDE DEF i
  <2> QED
    BY <2>1, PasteElements
<1>6. Moved(s, at, from, to) = w
  BY DEF Moved, w, d, i, r, m
<1> HIDE DEF w
<1>7. Len(d) + Len(r) = Len(s)
  BY <1>1, <1>2, <1>3
<1>8. ASSUME NEW p \in 1 .. Len(s)
      PROVE  /\ p < i => w[p] =
                            IF p < from THEN s[p] ELSE s[p + m]
             /\ p >= i /\ p < i + m => w[p] = s[from + (p - i)]
             /\ p >= i + m => w[p] =
                            IF p - m < from THEN s[p - m] ELSE s[p]
  <2> HIDE DEF i
  <2>0. w[p] = IF p < i THEN d[p]
                                ELSE IF p < i + m THEN r[p - i + 1]
                                ELSE d[p - m]
    BY <1>2, <1>5, <1>7
  <2>1. ASSUME p < i
        PROVE  w[p] = IF p < from THEN s[p] ELSE s[p + m]
    <3>1. p \in 1 .. Len(s) - m
      BY <1>1, <1>3, <1>4, <2>1
    <3> QED
      BY <1>3, <2>0, <2>1, <3>1
  <2>2. ASSUME p >= i, p < i + m
        PROVE  w[p] = s[from + (p - i)]
    <3>1. p - i + 1 \in 1 .. m /\ from + (p - i + 1) - 1 = from + (p - i)
          /\ ~ (p < i)
      BY <1>1, <1>4, <2>2
    <3> QED
      BY <1>2, <2>0, <2>2, <3>1
  <2>3. ASSUME p >= i + m
        PROVE  w[p] = IF p - m < from THEN s[p - m] ELSE s[p]
    <3>1. p - m \in 1 .. Len(s) - m /\ (p - m) + m = p
          /\ ~ (p < i) /\ ~ (p < i + m)
      BY <1>1, <1>4, <2>3
    <3> QED
      BY <1>3, <2>0, <3>1
  <2> QED
    BY <2>1, <2>2, <2>3
<1>9. ASSUME NEW p \in 1 .. Len(s)
      PROVE  Moved(s, at, from, to)[p] =
                    IF at <= from
                    THEN IF p < at THEN s[p]
                         ELSE IF p < at + m THEN s[from + (p - at)]
                         ELSE IF p < to THEN s[p - m] ELSE s[p]
                    ELSE IF p < from THEN s[p]
                         ELSE IF p < at - m THEN s[p + m]
                         ELSE IF p < at THEN s[from + (p - (at - m))]
                         ELSE s[p]
  <2>1. CASE at <= from
    <3>1. i = at
      BY <1>1, <2>1
    <3>2. CASE p < at
      BY <1>1, <1>6, <1>8, <2>1, <3>1, <3>2
    <3>3. CASE p >= at /\ p < at + m
      BY <1>1, <1>6, <1>8, <2>1, <3>1, <3>3
    <3>4. CASE p >= at + m
      BY <1>1, <1>6, <1>8, <2>1, <3>1, <3>4
    <3> QED
      BY <1>1, <3>2, <3>3, <3>4
  <2>2. CASE ~ (at <= from)
    <3>1. i = at - m /\ at >= to /\ at > from
      BY <1>1, <2>2
    <3>2. CASE p < at - m
      BY <1>1, <1>6, <1>8, <2>2, <3>1, <3>2
    <3>3. CASE p >= at - m /\ p < at
      <4>1. ~ (p < from) /\ p < (at - m) + m
        BY <1>1, <3>1, <3>3
      <4> QED
        BY <1>1, <1>6, <1>8, <2>2, <3>1, <3>3, <4>1
    <3>4. CASE p >= at
      <4>1. ~ (p < from) /\ ~ (p - m < from) /\ p >= (at - m) + m
        BY <1>1, <3>1, <3>4
      <4> QED
        BY <1>1, <1>6, <1>8, <2>2, <3>1, <3>4, <4>1
    <3> QED
      BY <1>1, <3>2, <3>3, <3>4
  <2> QED
    BY <2>1, <2>2
<1> QED
  BY <1>5, <1>6, <1>7, <1>9 DEF m, MovedItem

(* Nothing is moved when the part is empty. *)
LEMMA EmptyPart ==
    ASSUME NEW S, NEW s \in Seq(S), NEW from \in 1 .. Len(s) + 1
    PROVE  /\ Cut(s, from, from) = s
           /\ \A d \in Seq(S) : \A at \in 1 .. Len(d) + 1 :
                 Paste(d, at, Part(s, from, from)) = d
           /\ \A at \in 1 .. Len(s) + 1 : Moved(s, at, from, from) = s
<1>0. Len(s) \in Nat /\ from \in from .. Len(s) + 1 /\ from - from = 0
      /\ Len(s) - 0 = Len(s)
  BY LenProperties
<1>1. Cut(s, from, from) = s
  <2> DEFINE w == Cut(s, from, from)
  <2>1. /\ w \in Seq(S) /\ Len(w) = Len(s) - (from - from)
        /\ \A p \in 1 .. Len(s) - (from - from) :
              w[p] = IF p < from THEN s[p] ELSE s[p + (from - from)]
    <3>1. from \in from .. Len(s) + 1
      BY <1>0
    <3> QED
      BY <3>1, CutParts
  <2> HIDE DEF w
  <2>2. Len(w) = Len(s) /\ \A p \in 1 .. Len(w) : w[p] = s[p]
    BY <1>0, <2>1
  <2> QED
    BY <2>1, <2>2, SeqEqual DEF w
<1>2. ASSUME NEW d \in Seq(S), NEW at \in 1 .. Len(d) + 1
      PROVE  Paste(d, at, Part(s, from, from)) = d
  <2> DEFINE r == Part(s, from, from)
             w == Paste(d, at, r)
  <2>1. r \in Seq(S) /\ Len(r) = 0
    BY <1>0, PartElements
  <2> HIDE DEF r
  <2>2. /\ w \in Seq(S) /\ Len(w) = Len(d) + Len(r)
        /\ \A p \in 1 .. Len(d) + Len(r) :
              w[p] = IF p < at THEN d[p]
                     ELSE IF p < at + Len(r) THEN r[p - at + 1]
                     ELSE d[p - Len(r)]
    <3>1. r \in Seq(S)
      BY <2>1
    <3> QED
      BY <3>1, PasteElements
  <2> HIDE DEF w
  <2>3. Len(d) \in Nat
    BY LenProperties
  <2>4. Len(w) = Len(d) /\ \A p \in 1 .. Len(w) : w[p] = d[p]
    BY <2>1, <2>2, <2>3
  <2> QED
    BY <2>2, <2>4, SeqEqual DEF w, r
<1>3. ASSUME NEW at \in 1 .. Len(s) + 1
      PROVE  Moved(s, at, from, from) = s
  <2>1. (IF at > from THEN at - (from - from) ELSE at) = at
    BY <1>0
  <2> QED
    BY <1>1, <1>2, <2>1 DEF Moved
<1> QED
  BY <1>1, <1>2, <1>3

(***************************************************************************)
(* Moving the first item of the part and then what is left of it is moving *)
(* the part: what one turn of the loop does, and what it leaves to do.     *)
(***************************************************************************)
LEMMA MoveForward ==
    ASSUME NEW S, NEW s \in Seq(S), NEW from \in 1 .. Len(s),
           NEW to \in from + 1 .. Len(s) + 1, NEW at \in 1 .. Len(s) + 1,
           at < from
    PROVE  Moved(Moved(s, at, from, from + 1), at + 1, from + 1, to)
              = Moved(s, at, from, to)
<1> DEFINE n == Len(s)
           m == to - from
           t == Moved(s, at, from, from + 1)
           u == Moved(t, at + 1, from + 1, to)
           w == Moved(s, at, from, to)
<1>1. /\ n \in Nat /\ m \in Nat /\ m >= 1 /\ to = from + m /\ at <= from
      /\ from \in Nat /\ at \in Nat /\ to \in Nat
      /\ (from + 1) - from = 1 /\ to - (from + 1) = m - 1
      /\ from \in 1 .. Len(s) + 1 /\ from + 1 \in from .. Len(s) + 1
      /\ to \in from .. Len(s) + 1
  BY LenProperties
<1>2. /\ t \in Seq(S) /\ Len(t) = n
      /\ \A p \in 1 .. n :
            t[p] = MovedItem(s, at, from, from + 1, p)
  BY <1>1, MovedElements
<1>3. /\ w \in Seq(S) /\ Len(w) = n
      /\ \A p \in 1 .. n :
            w[p] = MovedItem(s, at, from, to, p)
  <2>1. /\ from \in 1 .. Len(s) + 1 /\ to \in from .. Len(s) + 1
        /\ at <= from \/ at >= to
    BY <1>1
  <2> QED
    BY <2>1, MovedElements
<1> HIDE DEF n, t, w
<1>4. /\ t \in Seq(S) /\ at + 1 \in 1 .. Len(t) + 1
      /\ from + 1 \in 1 .. Len(t) + 1 /\ to \in from + 1 .. Len(t) + 1
      /\ at + 1 <= from + 1
  BY <1>1, <1>2 DEF n
<1>5. /\ u \in Seq(S) /\ Len(u) = Len(t)
      /\ \A p \in 1 .. Len(t) :
            u[p] = MovedItem(t, at + 1, from + 1, to, p)
  BY <1>4, MovedElements
<1> HIDE DEF u
<1>t. \A p \in 1 .. n :
         /\ p < at => t[p] = s[p]
         /\ p = at => t[p] = s[from]
         /\ p > at /\ p <= from => t[p] = s[p - 1]
         /\ p > from => t[p] = s[p]
  <2> SUFFICES ASSUME NEW p \in 1 .. n
               PROVE  /\ p < at => t[p] = s[p]
                      /\ p = at => t[p] = s[from]
                      /\ p > at /\ p <= from => t[p] = s[p - 1]
                      /\ p > from => t[p] = s[p]
    OBVIOUS
  <2>1. t[p] = IF p < at THEN s[p]
               ELSE IF p < at + 1 THEN s[from + (p - at)]
               ELSE IF p < from + 1 THEN s[p - 1] ELSE s[p]
    BY <1>1, <1>2 DEF MovedItem
  <2> QED
    BY <1>1, <2>1
<1>u. \A p \in 1 .. n :
         u[p] = IF p < at + 1 THEN t[p]
                ELSE IF p < at + m THEN t[from + (p - at)]
                ELSE IF p < to THEN t[p - (m - 1)] ELSE t[p]
  <2> SUFFICES ASSUME NEW p \in 1 .. n
               PROVE  u[p] = IF p < at + 1 THEN t[p]
                             ELSE IF p < at + m THEN t[from + (p - at)]
                             ELSE IF p < to THEN t[p - (m - 1)] ELSE t[p]
    OBVIOUS
  <2>1. p \in Int /\ p \in 1 .. Len(t) /\ at + 1 + (m - 1) = at + m
        /\ from + 1 + (p - (at + 1)) = from + (p - at)
    BY <1>1, <1>2
  <2> HIDE DEF m
  <2> QED
    BY <1>1, <1>4, <1>5, <2>1 DEF MovedItem
<1>6. ASSUME NEW p \in 1 .. n
      PROVE  u[p] = w[p]
  <2>w. w[p] = IF p < at THEN s[p]
               ELSE IF p < at + m THEN s[from + (p - at)]
               ELSE IF p < to THEN s[p - m] ELSE s[p]
    BY <1>1, <1>3 DEF MovedItem
  <2> HIDE DEF m
  <2>i. p \in Int
    BY <1>1
  <2>1. CASE p < at
    BY <1>1, <1>t, <1>u, <2>w, <2>i, <2>1
  <2>2. CASE p = at
    <3>1. p < at + 1 /\ ~ (p < at) /\ p < at + m /\ from + (p - at) = from
      BY <1>1, <2>2
    <3> QED
      BY <1>t, <1>u, <2>w, <2>2, <3>1
  <2>3. CASE p > at /\ p < at + m
    <3>1. /\ ~ (p < at + 1) /\ ~ (p < at)
          /\ from + (p - at) \in 1 .. n /\ from + (p - at) > from
      BY <1>1, <2>3, <2>i DEF n
    <3> QED
      BY <1>t, <1>u, <2>w, <2>3, <3>1
  <2>4. CASE p >= at + m /\ p < to
    <3>1. /\ ~ (p < at + 1) /\ ~ (p < at) /\ ~ (p < at + m)
          /\ p - (m - 1) \in 1 .. n /\ p - (m - 1) > at
          /\ p - (m - 1) <= from /\ (p - (m - 1)) - 1 = p - m
      BY <1>1, <2>4, <2>i
    <3> QED
      BY <1>t, <1>u, <2>w, <2>4, <3>1
  <2>5. CASE p >= to
    <3>1. /\ ~ (p < at + 1) /\ ~ (p < at) /\ ~ (p < at + m) /\ ~ (p < to)
          /\ p > from
      BY <1>1, <2>5, <2>i
    <3> QED
      BY <1>t, <1>u, <2>w, <3>1
  <2>6. p < at \/ p = at \/ (p > at /\ p < at + m)
        \/ (p >= at + m /\ p < to) \/ p >= to
    BY <1>1, <2>i
  <2> QED
    BY <2>1, <2>2, <2>3, <2>4, <2>5, <2>6
<1>7. u = w
  BY <1>2, <1>3, <1>5, <1>6, SeqEqual
<1> QED
  BY <1>7 DEF u, t, w

LEMMA MoveBackward ==
    ASSUME NEW S, NEW s \in Seq(S), NEW from \in 1 .. Len(s),
           NEW to \in from + 1 .. Len(s) + 1, NEW at \in 1 .. Len(s) + 1,
           at > to
    PROVE  Moved(Moved(s, at, from, from + 1), at, from, to - 1)
              = Moved(s, at, from, to)
<1> DEFINE n == Len(s)
           m == to - from
           t == Moved(s, at, from, from + 1)
           u == Moved(t, at, from, to - 1)
           w == Moved(s, at, from, to)
<1>1. /\ n \in Nat /\ m \in Nat /\ m >= 1 /\ to = from + m
      /\ ~ (at <= from) /\ at >= from + 1
      /\ from \in Nat /\ at \in Nat /\ to \in Nat /\ from >= 1 /\ at <= n + 1
      /\ (from + 1) - from = 1 /\ (to - 1) - from = m - 1
      /\ from \in 1 .. Len(s) + 1 /\ from + 1 \in from .. Len(s) + 1
      /\ to \in from .. Len(s) + 1
  BY LenProperties
<1>2. /\ t \in Seq(S) /\ Len(t) = n
      /\ \A p \in 1 .. n :
            t[p] = MovedItem(s, at, from, from + 1, p)
  <2>1. /\ from \in 1 .. Len(s) + 1 /\ from + 1 \in from .. Len(s) + 1
        /\ at <= from \/ at >= from + 1
    BY <1>1
  <2> QED
    BY <2>1, MovedElements
<1>3. /\ w \in Seq(S) /\ Len(w) = n
      /\ \A p \in 1 .. n :
            w[p] = MovedItem(s, at, from, to, p)
  <2>1. /\ from \in 1 .. Len(s) + 1 /\ to \in from .. Len(s) + 1
        /\ at <= from \/ at >= to
    BY <1>1
  <2> QED
    BY <2>1, MovedElements
<1> HIDE DEF n, t, w
<1>5. /\ u \in Seq(S) /\ Len(u) = Len(t)
      /\ \A p \in 1 .. Len(t) :
            u[p] = MovedItem(t, at, from, to - 1, p)
  <2>1. /\ t \in Seq(S) /\ at \in 1 .. Len(t) + 1
        /\ from \in 1 .. Len(t) + 1 /\ to - 1 \in from .. Len(t) + 1
        /\ at <= from \/ at >= to - 1
    BY <1>1, <1>2 DEF n
  <2> QED
    BY <2>1, MovedElements
<1> HIDE DEF u
<1>t. \A p \in 1 .. n :
         /\ p < from => t[p] = s[p]
         /\ p >= from /\ p < at - 1 => t[p] = s[p + 1]
         /\ p = at - 1 => t[p] = s[from]
         /\ p >= at => t[p] = s[p]
  <2> SUFFICES ASSUME NEW p \in 1 .. n
               PROVE  /\ p < from => t[p] = s[p]
                      /\ p >= from /\ p < at - 1 => t[p] = s[p + 1]
                      /\ p = at - 1 => t[p] = s[from]
                      /\ p >= at => t[p] = s[p]
    OBVIOUS
  <2>1. t[p] = IF p < from THEN s[p]
               ELSE IF p < at - 1 THEN s[p + 1]
               ELSE IF p < at THEN s[from + (p - (at - 1))] ELSE s[p]
    BY <1>1, <1>2 DEF MovedItem
  <2> HIDE DEF m
  <2> QED
    BY <1>1, <2>1
<1>u. \A p \in 1 .. n :
         u[p] = IF p < from THEN t[p]
                ELSE IF p < at - (m - 1) THEN t[p + (m - 1)]
                ELSE IF p < at THEN t[from + (p - (at - (m - 1)))]
                ELSE t[p]
  <2> SUFFICES ASSUME NEW p \in 1 .. n
               PROVE  u[p] = IF p < from THEN t[p]
                             ELSE IF p < at - (m - 1) THEN t[p + (m - 1)]
                             ELSE IF p < at
                             THEN t[from + (p - (at - (m - 1)))]
                             ELSE t[p]
    OBVIOUS
  <2>1. p \in Int /\ p \in 1 .. Len(t)
    BY <1>1, <1>2
  <2> HIDE DEF m
  <2> QED
    BY <1>1, <1>5, <2>1 DEF MovedItem
<1>6. ASSUME NEW p \in 1 .. n
      PROVE  u[p] = w[p]
  <2>w. w[p] = IF p < from THEN s[p]
               ELSE IF p < at - m THEN s[p + m]
               ELSE IF p < at THEN s[from + (p - (at - m))] ELSE s[p]
    BY <1>1, <1>3 DEF MovedItem
  <2> HIDE DEF m
  <2>i. p \in Int
    BY <1>1
  <2>1. CASE p < from
    BY <1>1, <1>t, <1>u, <2>w, <2>i, <2>1
  <2>2. CASE p >= from /\ p < at - m
    <3>1. /\ ~ (p < from) /\ p < at - (m - 1)
          /\ p + (m - 1) \in 1 .. n /\ p + (m - 1) >= from
          /\ p + (m - 1) < at - 1 /\ (p + (m - 1)) + 1 = p + m
      BY <1>1, <2>2, <2>i
    <3> QED
      BY <1>t, <1>u, <2>w, <2>2, <3>1
  <2>3. CASE p >= from /\ p = at - m
    <3>1. /\ ~ (p < from) /\ p < at - (m - 1) /\ ~ (p < at - m) /\ p < at
          /\ p + (m - 1) \in 1 .. n /\ p + (m - 1) = at - 1
          /\ from + (p - (at - m)) = from
      BY <1>1, <2>3, <2>i
    <3> QED
      BY <1>t, <1>u, <2>w, <3>1
  <2>4. CASE p > at - m /\ p < at
    <3> DEFINE q == from + (p - (at - (m - 1)))
    <3>1. /\ ~ (p < from) /\ ~ (p < at - (m - 1)) /\ ~ (p < at - m)
          /\ q \in 1 .. n /\ q >= from /\ q < at - 1
          /\ q + 1 = from + (p - (at - m))
      BY <1>1, <2>4, <2>i
    <3>2. u[p] = t[q]
      BY <1>u, <2>4, <3>1
    <3>3. w[p] = s[q + 1]
      BY <2>w, <2>4, <3>1
    <3> HIDE DEF q
    <3> QED
      BY <1>t, <3>1, <3>2, <3>3
  <2>5. CASE p >= at
    <3>1. /\ ~ (p < from) /\ ~ (p < at - (m - 1)) /\ ~ (p < at - m)
          /\ ~ (p < at)
      BY <1>1, <2>5, <2>i
    <3> QED
      BY <1>t, <1>u, <2>w, <2>5, <3>1
  <2>6. p < from \/ (p >= from /\ p < at - m) \/ (p >= from /\ p = at - m)
        \/ (p > at - m /\ p < at) \/ p >= at
    BY <1>1, <2>i
  <2> QED
    BY <2>1, <2>2, <2>3, <2>4, <2>5, <2>6
<1>7. u = w
  BY <1>2, <1>3, <1>5, <1>6, SeqEqual
<1> QED
  BY <1>7 DEF u, t, w

LEMMA CutOnce ==
    ASSUME NEW S, NEW s \in Seq(S), NEW from \in 1 .. Len(s),
           NEW to \in from + 1 .. Len(s) + 1
    PROVE  Cut(Cut(s, from, from + 1), from, to - 1) = Cut(s, from, to)
<1> DEFINE n == Len(s)
           t == Cut(s, from, from + 1)
           u == Cut(t, from, to - 1)
           w == Cut(s, from, to)
<1>1. /\ n \in Nat /\ from \in 1 .. Len(s) + 1 /\ to \in from .. Len(s) + 1
      /\ from + 1 \in from .. Len(s) + 1 /\ to \in Nat /\ from \in Nat
      /\ to >= from + 1 /\ to <= n + 1
  BY LenProperties
<1>2. /\ t \in Seq(S) /\ Len(t) = n - ((from + 1) - from)
      /\ \A p \in 1 .. n - ((from + 1) - from) :
            t[p] = IF p < from THEN s[p] ELSE s[p + ((from + 1) - from)]
  BY <1>1, CutParts
<1>3. /\ w \in Seq(S) /\ Len(w) = n - (to - from)
      /\ \A p \in 1 .. n - (to - from) :
            w[p] = IF p < from THEN s[p] ELSE s[p + (to - from)]
  BY <1>1, CutParts
<1> HIDE DEF n, t, w
<1>4. /\ u \in Seq(S) /\ Len(u) = Len(t) - ((to - 1) - from)
      /\ \A p \in 1 .. Len(t) - ((to - 1) - from) :
            u[p] = IF p < from THEN t[p] ELSE t[p + ((to - 1) - from)]
  <2>1. /\ t \in Seq(S) /\ from \in 1 .. Len(t) + 1
        /\ to - 1 \in from .. Len(t) + 1
    BY <1>1, <1>2
  <2> QED
    BY <2>1, CutParts
<1> HIDE DEF u
<1>5. Len(t) = n - 1 /\ Len(u) = n - (to - from)
  BY <1>1, <1>2, <1>4
<1>6. ASSUME NEW p \in 1 .. n - (to - from)
      PROVE  u[p] = w[p]
  <2>1. CASE p < from
    <3>1. /\ p \in 1 .. n - ((from + 1) - from)
          /\ p \in 1 .. Len(t) - ((to - 1) - from)
      BY <1>1, <1>5
    <3> QED
      BY <1>2, <1>3, <1>4, <2>1, <3>1
  <2>2. CASE p >= from
    <3> DEFINE q == p + ((to - 1) - from)
    <3>1. /\ q \in 1 .. n - ((from + 1) - from) /\ ~ (q < from)
          /\ q + ((from + 1) - from) = p + (to - from) /\ ~ (p < from)
          /\ p \in 1 .. Len(t) - ((to - 1) - from)
      BY <1>1, <1>5, <2>2
    <3>2. u[p] = t[q] /\ w[p] = s[p + (to - from)]
      BY <1>3, <1>4, <3>1
    <3> HIDE DEF q
    <3> QED
      BY <1>2, <3>1, <3>2
  <2>3. p < from \/ p >= from
    BY <1>1
  <2> QED
    BY <2>1, <2>2, <2>3
<1>7. u = w
  BY <1>3, <1>4, <1>5, <1>6, SeqEqual
<1> QED
  BY <1>7 DEF u, t, w

LEMMA PasteOnce ==
    ASSUME NEW S, NEW s \in Seq(S), NEW d \in Seq(S),
           NEW from \in 1 .. Len(s), NEW to \in from + 1 .. Len(s) + 1,
           NEW at \in 1 .. Len(d) + 1
    PROVE  Paste(Paste(d, at, Part(s, from, from + 1)), at + 1,
                 Part(Cut(s, from, from + 1), from, to - 1))
              = Paste(d, at, Part(s, from, to))
<1> DEFINE n == Len(s)
           m == to - from
           x == Part(s, from, from + 1)
           e == Paste(d, at, x)
           t == Cut(s, from, from + 1)
           y == Part(t, from, to - 1)
           z == Part(s, from, to)
           u == Paste(e, at + 1, y)
           w == Paste(d, at, z)
<1>1. /\ n \in Nat /\ from \in 1 .. Len(s) + 1 /\ to \in from .. Len(s) + 1
      /\ from + 1 \in from .. Len(s) + 1 /\ to \in Nat /\ from \in Nat
      /\ to >= from + 1 /\ to <= n + 1 /\ m \in Nat /\ m >= 1
      /\ to = from + m /\ Len(d) \in Nat /\ at \in Nat /\ from >= 1
      /\ at >= 1 /\ at <= Len(d) + 1
  BY LenProperties
<1>x. x \in Seq(S) /\ Len(x) = 1 /\ x[1] = s[from]
  <2>1. /\ x \in Seq(S) /\ Len(x) = (from + 1) - from
        /\ \A p \in 1 .. (from + 1) - from : x[p] = s[from + p - 1]
    BY <1>1, PartElements, ZenonT(60)
  <2> HIDE DEF x
  <2>2. (from + 1) - from = 1 /\ from + 1 - 1 = from
    BY <1>1
  <2> QED
    BY <2>1, <2>2
<1>z. /\ z \in Seq(S) /\ Len(z) = m
      /\ \A p \in 1 .. m : z[p] = s[from + p - 1]
  BY <1>1, PartElements
<1>t. /\ t \in Seq(S) /\ Len(t) = n - 1
      /\ \A p \in from .. n - 1 : t[p] = s[p + 1]
  <2>1. /\ t \in Seq(S) /\ Len(t) = n - ((from + 1) - from)
        /\ \A p \in 1 .. n - ((from + 1) - from) :
              t[p] = IF p < from THEN s[p] ELSE s[p + ((from + 1) - from)]
    BY <1>1, CutParts
  <2> HIDE DEF t, n
  <2> QED
    BY <1>1, <2>1
<1> HIDE DEF n, x, z, t
<1>y. /\ y \in Seq(S) /\ Len(y) = m - 1
      /\ \A p \in 1 .. m - 1 : y[p] = s[from + p]
  <2>1. /\ t \in Seq(S) /\ from \in 1 .. Len(t) + 1
        /\ to - 1 \in from .. Len(t) + 1
    <3>1. t \in Seq(S) /\ Len(t) = n - 1
      BY <1>t
    <3> HIDE DEF m
    <3> QED
      BY <1>1, <3>1
  <2>2. /\ y \in Seq(S) /\ Len(y) = (to - 1) - from
        /\ \A p \in 1 .. (to - 1) - from : y[p] = t[from + p - 1]
    BY <2>1, PartElements, ZenonT(60)
  <2> HIDE DEF y
  <2>3. ASSUME NEW p \in 1 .. m - 1
        PROVE  y[p] = s[from + p]
    <3>1. /\ p \in 1 .. (to - 1) - from /\ from + p - 1 \in from .. n - 1
          /\ (from + p - 1) + 1 = from + p
      BY <1>1
    <3> QED
      BY <1>t, <2>2, <3>1
  <2> QED
    BY <1>1, <2>2, <2>3
<1> HIDE DEF y
<1>e. /\ e \in Seq(S) /\ Len(e) = Len(d) + 1
      /\ \A p \in 1 .. Len(d) + 1 :
            e[p] = IF p < at THEN d[p]
                   ELSE IF p = at THEN s[from] ELSE d[p - 1]
  <2>1. x \in Seq(S)
    BY <1>x
  <2>2. /\ e \in Seq(S) /\ Len(e) = Len(d) + Len(x)
        /\ \A p \in 1 .. Len(d) + Len(x) :
              e[p] = IF p < at THEN d[p]
                     ELSE IF p < at + Len(x) THEN x[p - at + 1]
                     ELSE d[p - Len(x)]
    BY <2>1, PasteElements
  <2> HIDE DEF e
  <2>3. ASSUME NEW p \in 1 .. Len(d) + 1
        PROVE  e[p] = IF p < at THEN d[p]
                      ELSE IF p = at THEN s[from] ELSE d[p - 1]
    <3>1. p = at => p - at + 1 = 1
      BY <1>1
    <3> QED
      BY <1>1, <1>x, <2>2, <3>1
  <2> QED
    BY <1>x, <2>2, <2>3
<1> HIDE DEF e
<1>u. /\ u \in Seq(S) /\ Len(u) = Len(e) + Len(y)
      /\ \A p \in 1 .. Len(e) + Len(y) :
            u[p] = IF p < at + 1 THEN e[p]
                   ELSE IF p < at + 1 + Len(y) THEN y[p - (at + 1) + 1]
                   ELSE e[p - Len(y)]
  <2>1. e \in Seq(S) /\ y \in Seq(S) /\ at + 1 \in 1 .. Len(e) + 1
    BY <1>1, <1>e, <1>y
  <2> QED
    BY <2>1, PasteElements
<1>w. /\ w \in Seq(S) /\ Len(w) = Len(d) + Len(z)
      /\ \A p \in 1 .. Len(d) + Len(z) :
            w[p] = IF p < at THEN d[p]
                   ELSE IF p < at + Len(z) THEN z[p - at + 1]
                   ELSE d[p - Len(z)]
  <2>1. z \in Seq(S)
    BY <1>z
  <2> QED
    BY <2>1, PasteElements
<1> HIDE DEF u, w, m
<1>2. Len(u) = Len(d) + m /\ Len(w) = Len(d) + m
  BY <1>1, <1>e, <1>y, <1>z, <1>u, <1>w
<1>3. ASSUME NEW p \in 1 .. Len(d) + m
      PROVE  u[p] = w[p]
  <2>i. p \in Int /\ p >= 1 /\ p <= Len(d) + m
    BY <1>1
  <2>u. u[p] = IF p < at + 1 THEN e[p]
               ELSE IF p < at + m THEN y[p - at] ELSE e[p - (m - 1)]
    <3>1. /\ p \in 1 .. Len(e) + Len(y) /\ p - (at + 1) + 1 = p - at
          /\ at + 1 + Len(y) = at + m /\ Len(y) = m - 1
      BY <1>1, <1>e, <1>y, <2>i
    <3> QED
      BY <1>u, <3>1
  <2>w. w[p] = IF p < at THEN d[p]
               ELSE IF p < at + m THEN z[p - at + 1] ELSE d[p - m]
    BY <1>w, <1>z
  <2>1. CASE p < at
    <3>1. p \in 1 .. Len(d) + 1 /\ p < at + 1
      BY <1>1, <2>1, <2>i
    <3> QED
      BY <1>e, <2>u, <2>w, <2>1, <3>1
  <2>2. CASE p = at
    <3>1. /\ p \in 1 .. Len(d) + 1 /\ p < at + 1 /\ ~ (p < at) /\ p < at + m
          /\ p - at + 1 = 1 /\ 1 \in 1 .. m /\ from + 1 - 1 = from
      BY <1>1, <2>2, <2>i
    <3>2. z[1] = s[from]
      BY <1>z, <3>1
    <3> QED
      BY <1>e, <2>u, <2>w, <2>2, <3>1, <3>2
  <2>3. CASE p > at /\ p < at + m
    <3>1. /\ ~ (p < at + 1) /\ ~ (p < at) /\ p - at \in 1 .. m - 1
          /\ p - at + 1 \in 1 .. m
          /\ from + (p - at + 1) - 1 = from + (p - at)
      BY <1>1, <2>3, <2>i
    <3>2. y[p - at] = s[from + (p - at)] /\ z[p - at + 1] = s[from + (p - at)]
      BY <1>y, <1>z, <3>1
    <3> QED
      BY <2>u, <2>w, <2>3, <3>1, <3>2
  <2>4. CASE p >= at + m
    <3>1. /\ ~ (p < at + 1) /\ ~ (p < at) /\ ~ (p < at + m)
          /\ p - (m - 1) \in 1 .. Len(d) + 1 /\ ~ (p - (m - 1) < at)
          /\ p - (m - 1) # at /\ (p - (m - 1)) - 1 = p - m
      BY <1>1, <2>4, <2>i
    <3> QED
      BY <1>e, <2>u, <2>w, <3>1
  <2>5. p < at \/ p = at \/ (p > at /\ p < at + m) \/ p >= at + m
    BY <1>1, <2>i
  <2> QED
    BY <2>1, <2>2, <2>3, <2>4, <2>5
<1>4. u = w
  BY <1>u, <1>w, <1>2, <1>3, SeqEqual
<1> QED
  BY <1>4 DEF u, w, e, x, y, z, t

----------------------------------------------------------------------------
(***************************************************************************)
(* A splice() in progress: its three iterators stand at positions of two   *)
(* lists, which may be the same.                                           *)
(***************************************************************************)
Positions(l, at, other, from, to) ==
    /\ l \in Usable /\ other \in Usable
    /\ at \in 1 .. Len(Contents(l)) + 1
    /\ from \in 1 .. Len(Contents(other)) + 1
    /\ to \in from .. Len(Contents(other)) + 1

Iterators(l, at, other, from, to) ==
    /\ Positions(l, at, other, from, to)
    /\ call.it = Node(other, Contents(other), from)
    /\ call.last = Node(other, Contents(other), to)
    /\ call.before = Node(l, Contents(l), at)

(* The target is outside the range and not at either end of it, or the
   range has at most one item left and ends at the target. *)
Outside(at, from, to) == at < from \/ at > to \/ (at = to /\ to <= from + 1)

(* What is left to move leads to the goal. *)
Moves ==
    \E l, other \in Lists : \E at, from, to \in Nat :
        /\ Iterators(l, at, other, from, to)
        /\ other = l => Outside(at, from, to)
        /\ goal = Spliced(AllContents, l, at, other, from, to)

(* The loop turns a range of two items or more in front of its own end. *)
Rotates ==
    \E l \in Lists : \E from, to \in Nat :
        Iterators(l, to, l, from, to) /\ from + 1 < to

CallType == call \in [it : Nodes \cup {Null}, last : Nodes \cup {Null},
                      before : Nodes \cup {Null}, rotates : BOOLEAN]

CallInv == /\ CallType
           /\ \/ call = Idle
              \/ ~call.rotates /\ Moves
              \/ call.rotates /\ Rotates

ListInv == RingState /\ CallInv

----------------------------------------------------------------------------
(* Spliced in terms of Part, Cut, Paste and Moved *)

Put(c, l, s) == [c EXCEPT ![l] = s]

LEMMA SplicedAcross ==
    ASSUME NEW c \in [Lists -> Seq(Items)], NEW l \in Lists,
           NEW other \in Lists, other # l, NEW at, NEW from, NEW to
    PROVE  Spliced(c, l, at, other, from, to) =
              Put(Put(c, other, Cut(c[other], from, to)),
                  l, Paste(c[l], at, Part(c[other], from, to)))
<1> DEFINE rest == [c EXCEPT ![other] = Cut(c[other], from, to)]
<1>1. rest[l] = c[l]
  OBVIOUS
<1>2. Spliced(c, l, at, other, from, to) =
         [rest EXCEPT ![l] = Paste(rest[l], at, Part(c[other], from, to))]
  BY DEF Spliced, Cut, Paste, Part
<1>3. rest = Put(c, other, Cut(c[other], from, to))
  BY DEF Put
<1> HIDE DEF rest
<1> QED
  BY <1>1, <1>2, <1>3 DEF Put

LEMMA SplicedWithin ==
    ASSUME NEW c \in [Lists -> Seq(Items)], NEW l \in Lists,
           NEW at, NEW from, NEW to
    PROVE  Spliced(c, l, at, l, from, to) =
              Put(c, l, Moved(c[l], at, from, to))
<1> DEFINE rest == [c EXCEPT ![l] = Cut(c[l], from, to)]
           i    == IF at > from THEN at - (to - from) ELSE at
           w    == Moved(c[l], at, from, to)
<1>1. rest[l] = Cut(c[l], from, to)
  OBVIOUS
<1>2. Spliced(c, l, at, l, from, to) =
         [rest EXCEPT ![l] = Paste(rest[l], i, Part(c[l], from, to))]
  BY DEF Spliced, Cut, Paste, Part
<1>3. Paste(rest[l], i, Part(c[l], from, to)) = w
  BY <1>1 DEF Moved
<1> HIDE DEF w
<1>4. [rest EXCEPT ![l] = w] = [c EXCEPT ![l] = w]
  OBVIOUS
<1> HIDE DEF rest
<1> QED
  BY <1>2, <1>3, <1>4 DEF w, Put

LEMMA SplicedNothing ==
    ASSUME NEW c \in [Lists -> Seq(Items)], NEW l \in Lists,
           NEW other \in Lists, NEW at \in 1 .. Len(c[l]) + 1,
           NEW from \in 1 .. Len(c[other]) + 1
    PROVE  Spliced(c, l, at, other, from, from) = c
<1>1. c[l] \in Seq(Items) /\ c[other] \in Seq(Items)
  OBVIOUS
<1>2. CASE other = l
  <2>1. Moved(c[l], at, from, from) = c[l]
    BY <1>1, <1>2, EmptyPart
  <2> QED
    BY <1>2, <2>1, SplicedWithin DEF Put
<1>3. CASE other # l
  <2>1. /\ Cut(c[other], from, from) = c[other]
        /\ Paste(c[l], at, Part(c[other], from, from)) = c[l]
    BY <1>1, EmptyPart
  <2>2. Put(Put(c, other, c[other]), l, c[l]) = c
    BY DEF Put
  <2> QED
    BY <1>3, <2>1, <2>2, SplicedAcross
<1> QED
  BY <1>2, <1>3

(* After the first item: what is left to splice gives the same result. *)
LEMMA SplicedOnceAcross ==
    ASSUME NEW c \in [Lists -> Seq(Items)], NEW l \in Lists,
           NEW other \in Lists, other # l, NEW at \in 1 .. Len(c[l]) + 1,
           NEW from \in 1 .. Len(c[other]),
           NEW to \in from + 1 .. Len(c[other]) + 1
    PROVE  Spliced(Spliced(c, l, at, other, from, from + 1),
                   l, at + 1, other, from, to - 1)
              = Spliced(c, l, at, other, from, to)
<1> DEFINE s == c[other]
           d == c[l]
           s1 == Cut(s, from, from + 1)
           d1 == Paste(d, at, Part(s, from, from + 1))
           c1 == Spliced(c, l, at, other, from, from + 1)
<1>1. c1 = Put(Put(c, other, s1), l, d1)
  BY SplicedAcross
<1>2. s \in Seq(Items) /\ d \in Seq(Items)
  OBVIOUS
<1>3. s1 \in Seq(Items) /\ d1 \in Seq(Items)
  <2>1. Len(s) \in Nat /\ from \in 1 .. Len(s) + 1
        /\ from + 1 \in from .. Len(s) + 1
    BY <1>2, LenProperties
  <2>2. s1 \in Seq(Items)
    BY <1>2, <2>1, CutParts
  <2>3. Part(s, from, from + 1) \in Seq(Items)
    BY <1>2, <2>1, PartElements
  <2>4. d1 \in Seq(Items)
    BY <1>2, <2>3, PasteElements
  <2> QED
    BY <2>2, <2>4
<1>4. Cut(s1, from, to - 1) = Cut(s, from, to)
  BY <1>2, CutOnce
<1>5. Paste(d1, at + 1, Part(s1, from, to - 1))
         = Paste(d, at, Part(s, from, to))
  BY <1>2, PasteOnce
<1>6. Spliced(c, l, at, other, from, to) =
         Put(Put(c, other, Cut(s, from, to)),
             l, Paste(d, at, Part(s, from, to)))
  BY SplicedAcross
<1> HIDE DEF s1, d1, s, d
<1>7. c1 \in [Lists -> Seq(Items)] /\ c1[other] = s1 /\ c1[l] = d1
  BY <1>1, <1>3 DEF Put
<1> HIDE DEF c1
<1>8. Spliced(c1, l, at + 1, other, from, to - 1) =
         Put(Put(c1, other, Cut(c1[other], from, to - 1)),
             l, Paste(c1[l], at + 1, Part(c1[other], from, to - 1)))
  <2>1. c1 \in [Lists -> Seq(Items)]
    BY <1>7
  <2> QED
    BY <2>1, SplicedAcross
<1>9. Spliced(c1, l, at + 1, other, from, to - 1) =
         Put(Put(c1, other, Cut(s, from, to)),
             l, Paste(d, at, Part(s, from, to)))
  BY <1>4, <1>5, <1>7, <1>8
<1>10. \A v, w : Put(Put(c1, other, v), l, w) = Put(Put(c, other, v), l, w)
  BY <1>1 DEF Put
<1>11. Spliced(c1, l, at + 1, other, from, to - 1)
          = Spliced(c, l, at, other, from, to)
  BY <1>6, <1>9, <1>10
<1> QED
  BY <1>11 DEF c1

LEMMA SplicedOnceWithin ==
    ASSUME NEW c \in [Lists -> Seq(Items)], NEW l \in Lists,
           NEW at \in 1 .. Len(c[l]) + 1, NEW from \in 1 .. Len(c[l]),
           NEW to \in from + 1 .. Len(c[l]) + 1,
           at <= from \/ at >= from + 1,
           NEW at1 \in Nat, NEW from1 \in Nat, NEW to1 \in Nat,
           Moved(Moved(c[l], at, from, from + 1), at1, from1, to1)
              = Moved(c[l], at, from, to)
    PROVE  Spliced(Spliced(c, l, at, l, from, from + 1), l, at1, l, from1, to1)
              = Spliced(c, l, at, l, from, to)
<1> DEFINE s1 == Moved(c[l], at, from, from + 1)
           w  == Moved(c[l], at, from, to)
           c1 == Spliced(c, l, at, l, from, from + 1)
<1>1. /\ c1 = Put(c, l, s1)
      /\ Spliced(c, l, at, l, from, to) = Put(c, l, w)
  BY SplicedWithin
<1>2. s1 \in Seq(Items)
  <2>1. c[l] \in Seq(Items) /\ Len(c[l]) \in Nat
    BY LenProperties
  <2>2. /\ from \in 1 .. Len(c[l]) + 1 /\ from + 1 \in from .. Len(c[l]) + 1
        /\ at <= from \/ at >= from + 1
    BY <2>1
  <2> QED
    BY <2>1, <2>2, MovedElements
<1>3. Moved(s1, at1, from1, to1) = w
  OBVIOUS
<1> HIDE DEF s1, w
<1>4. c1 \in [Lists -> Seq(Items)] /\ c1[l] = s1
  BY <1>1, <1>2 DEF Put
<1> HIDE DEF c1
<1>5. Spliced(c1, l, at1, l, from1, to1) =
         Put(c1, l, Moved(c1[l], at1, from1, to1))
  <2>1. c1 \in [Lists -> Seq(Items)]
    BY <1>4
  <2> QED
    BY <2>1, SplicedWithin
<1>6. Put(c1, l, w) = Put(c, l, w)
  BY <1>1 DEF Put
<1>7. Spliced(c1, l, at1, l, from1, to1) = Spliced(c, l, at, l, from, to)
  BY <1>1, <1>3, <1>4, <1>5, <1>6
<1> QED
  BY <1>7 DEF c1

----------------------------------------------------------------------------
(* One turn of the loop, on link records *)

(* Where a node is found after one item was taken out or put in *)
LEMMA NodeAfterRemove ==
    ASSUME NEW l \in Lists, NEW s \in Seq(Items), NEW i \in 1 .. Len(s)
    PROVE  /\ \A p \in 1 .. i - 1 : Node(l, RemoveAt(s, i), p) = Node(l, s, p)
           /\ \A p \in i + 1 .. Len(s) + 1 :
                 Node(l, RemoveAt(s, i), p - 1) = Node(l, s, p)
<1> DEFINE t == RemoveAt(s, i)
<1>1. /\ t \in Seq(Items) /\ Len(t) = Len(s) - 1
      /\ \A p \in 1 .. Len(s) - 1 : t[p] = IF p < i THEN s[p] ELSE s[p + 1]
  BY RemoveAtElements
<1>2. Len(s) \in Nat
  BY LenProperties
<1> HIDE DEF t
<1>3. ASSUME NEW p \in 1 .. i - 1
      PROVE  Node(l, t, p) = Node(l, s, p)
  <2>1. p \in 1 .. Len(s) - 1 /\ p \in 1 .. Len(s) /\ p < i
    BY <1>2
  <2>2. t[p] = s[p] /\ p \in 1 .. Len(t)
    BY <1>1, <2>1
  <2> QED
    BY <2>1, <2>2 DEF Node
<1>4. ASSUME NEW p \in i + 1 .. Len(s) + 1
      PROVE  Node(l, t, p - 1) = Node(l, s, p)
  <2>1. p - 1 \in 1 .. Len(s) /\ (p - 1) + 1 = p /\ ~ (p - 1 < i)
        /\ (p - 1 \in 1 .. Len(s) - 1 <=> p \in 1 .. Len(s))
    BY <1>2
  <2> QED
    BY <1>1, <2>1 DEF Node
<1> QED
  BY <1>3, <1>4 DEF t

LEMMA NodeAfterInsert ==
    ASSUME NEW l \in Lists, NEW s \in Seq(Items), NEW i \in 1 .. Len(s) + 1,
           NEW x \in Items
    PROVE  /\ Len(InsertAt(s, i, x)) = Len(s) + 1
           /\ \A p \in 1 .. i - 1 :
                 Node(l, InsertAt(s, i, x), p) = Node(l, s, p)
           /\ \A p \in i .. Len(s) + 1 :
                 Node(l, InsertAt(s, i, x), p + 1) = Node(l, s, p)
<1> DEFINE t == InsertAt(s, i, x)
<1>1. /\ t \in Seq(Items) /\ Len(t) = Len(s) + 1
      /\ \A p \in 1 .. Len(s) + 1 :
            t[p] = IF p < i THEN s[p] ELSE IF p = i THEN x ELSE s[p - 1]
  BY InsertAtElements
<1>2. Len(s) \in Nat
  BY LenProperties
<1> HIDE DEF t
<1>3. ASSUME NEW p \in 1 .. i - 1
      PROVE  Node(l, t, p) = Node(l, s, p)
  <2>1. p \in 1 .. Len(s) + 1 /\ p \in 1 .. Len(s) /\ p < i
    BY <1>2
  <2>2. t[p] = s[p] /\ p \in 1 .. Len(t)
    BY <1>1, <2>1
  <2> QED
    BY <2>1, <2>2 DEF Node
<1>4. ASSUME NEW p \in i .. Len(s) + 1
      PROVE  Node(l, t, p + 1) = Node(l, s, p)
  <2>1. /\ (p + 1) - 1 = p /\ ~ (p + 1 < i) /\ p + 1 # i
        /\ (p + 1 \in 1 .. Len(s) + 1 <=> p \in 1 .. Len(s))
    BY <1>2
  <2> QED
    BY <1>1, <2>1 DEF Node
<1> QED
  BY <1>1, <1>3, <1>4 DEF t

(* A part of one item *)
LEMMA OneItem ==
    ASSUME NEW s \in Seq(Items), NEW from \in 1 .. Len(s)
    PROVE  /\ Cut(s, from, from + 1) = RemoveAt(s, from)
           /\ Part(s, from, from + 1) = <<s[from]>>
           /\ \A d, i : Paste(d, i, Part(s, from, from + 1))
                           = InsertAt(d, i, s[from])
           /\ \A at \in Nat : Moved(s, at, from, from + 1) =
                 InsertAt(RemoveAt(s, from), IF at > from THEN at - 1 ELSE at,
                          s[from])
<1>1. Len(s) \in Nat /\ s[from] \in Items /\ from \in Nat
      /\ from \in 1 .. Len(s) + 1 /\ from + 1 \in from .. Len(s) + 1
  BY LenProperties, ElementOfSeq
<1>2. Cut(s, from, from + 1) = RemoveAt(s, from)
  BY DEF Cut, RemoveAt
<1>3. Part(s, from, from + 1) = <<s[from]>>
  <2> DEFINE r == Part(s, from, from + 1)
             o == <<s[from]>>
  <2>1. /\ r \in Seq(Items) /\ Len(r) = (from + 1) - from
        /\ \A p \in 1 .. (from + 1) - from : r[p] = s[from + p - 1]
    BY <1>1, PartElements
  <2> HIDE DEF r
  <2>2. (from + 1) - from = 1 /\ from + 1 - 1 = from
    BY <1>1
  <2>3. o \in Seq(Items) /\ Len(o) = 1 /\ o[1] = s[from]
    BY <1>1
  <2> HIDE DEF o
  <2>4. Len(r) = Len(o) /\ \A p \in 1 .. Len(r) : r[p] = o[p]
    BY <2>1, <2>2, <2>3
  <2> QED
    BY <2>1, <2>3, <2>4, SeqEqual DEF r, o
<1>4. \A d, i : Paste(d, i, Part(s, from, from + 1)) = InsertAt(d, i, s[from])
  BY <1>3 DEF Paste, InsertAt
<1>5. ASSUME NEW at \in Nat
      PROVE  Moved(s, at, from, from + 1) =
                InsertAt(RemoveAt(s, from), IF at > from THEN at - 1 ELSE at,
                         s[from])
  <2>1. (from + 1) - from = 1
    BY <1>1
  <2> QED
    BY <1>2, <1>4, <2>1 DEF Moved
<1> QED
  BY <1>2, <1>3, <1>4, <1>5

(* erase() and insert() of one item do to the contents what splicing a     *)
(* range of one item should.                                               *)
LEMMA TurnRings ==
    ASSUME NEW k, NEW c, NEW U, Rings(k, c, U), NEW l \in U, NEW other \in U,
           NEW at \in 1 .. Len(c[l]) + 1, NEW from \in 1 .. Len(c[other]),
           other = l => at # from
    PROVE  Rings(Inserted(Erased(k, c[other][from]), c[other][from],
                          Node(l, c[l], at)),
                 Spliced(c, l, at, other, from, from + 1), U)
<1> DEFINE s  == c[other]
           d  == c[l]
           x  == s[from]
           r  == RemoveAt(s, from)
           c1 == [c EXCEPT ![other] = RemoveAt(@, from)]
           k1 == Erased(k, x)
           i  == IF other = l /\ at > from THEN at - 1 ELSE at
           c2 == [c1 EXCEPT ![l] = InsertAt(@, i, x)]
<1>1. /\ l \in Lists /\ other \in Lists /\ c \in [Lists -> Seq(Items)]
      /\ U \subseteq Lists /\ IsInjective(s)
      /\ \A m \in U : m # other => ToSet(s) \cap ToSet(c[m]) = {}
  BY DEF Rings
<1>2. /\ s \in Seq(Items) /\ d \in Seq(Items) /\ x \in Items
      /\ Len(s) \in Nat /\ Len(d) \in Nat
  BY <1>1, LenProperties, ElementOfSeq
<1>3. Rings(k1, c1, U)
  BY EraseRing
<1>4. /\ c1 \in [Lists -> Seq(Items)] /\ c1[other] = r
      /\ \A m \in Lists : m # other => c1[m] = c[m]
      /\ c1 = Put(c, other, r)
  <2>1. r \in Seq(Items)
    BY <1>2, RemoveAtElements
  <2> QED
    BY <1>1, <2>1 DEF Put
<1>5. ASSUME NEW m \in U
      PROVE  x \notin ToSet(c1[m])
  <2>1. ToSet(r) = ToSet(s) \ {x}
    BY <1>1, <1>2, RemoveAtSet
  <2>2. x \in ToSet(s)
    BY <1>2, SetOfSeq
  <2> HIDE DEF x, s, r, c1
  <2> QED
    BY <1>1, <1>4, <1>5, <2>1, <2>2 DEF s
<1>6. i \in 1 .. Len(c1[l]) + 1 /\ Node(l, c1[l], i) = Node(l, d, at)
  <2>1. CASE other # l
    BY <1>1, <1>4, <2>1
  <2>2. CASE other = l
    <3>1. Len(r) = Len(s) - 1 /\ c1[l] = r /\ d = s
      BY <1>2, <1>4, <2>2, RemoveAtElements
    <3>2. /\ \A p \in 1 .. from - 1 : Node(l, r, p) = Node(l, s, p)
          /\ \A p \in from + 1 .. Len(s) + 1 :
                Node(l, r, p - 1) = Node(l, s, p)
      BY <1>1, <1>2, NodeAfterRemove
    <3> HIDE DEF r, c1
    <3>3. CASE at > from
      <4>1. i = at - 1 /\ at \in from + 1 .. Len(s) + 1
            /\ i \in 1 .. (Len(s) - 1) + 1
        BY <1>2, <2>2, <3>1, <3>3
      <4> QED
        BY <3>1, <3>2, <4>1
    <3>4. CASE at < from
      <4>1. i = at /\ at \in 1 .. from - 1
            /\ i \in 1 .. (Len(s) - 1) + 1
        BY <1>2, <2>2, <3>1, <3>4
      <4> QED
        BY <3>1, <3>2, <4>1
    <3> QED
      BY <1>2, <2>2, <3>3, <3>4
  <2> QED
    BY <2>1, <2>2
<1> HIDE DEF i, c1, k1, x
<1>7. Rings(Inserted(k1, x, Node(l, c1[l], i)), c2, U)
  BY <1>2, <1>3, <1>5, <1>6, InsertRing
<1>8. c2 = Spliced(c, l, at, other, from, from + 1)
  <2>1. c2 = Put(c1, l, InsertAt(c1[l], i, x))
    BY DEF Put
  <2> HIDE DEF c2
  <2>2. CASE other # l
    <3>1. Spliced(c, l, at, other, from, from + 1) =
             Put(Put(c, other, Cut(s, from, from + 1)),
                 l, Paste(d, at, Part(s, from, from + 1)))
      BY <1>1, <2>2, SplicedAcross
    <3>2. /\ Cut(s, from, from + 1) = r
          /\ Paste(d, at, Part(s, from, from + 1)) = InsertAt(d, at, x)
      BY <1>2, OneItem DEF x
    <3>3. c1[l] = d /\ i = at
      BY <1>1, <1>4, <2>2 DEF i
    <3> QED
      BY <1>4, <2>1, <3>1, <3>2, <3>3
  <2>3. CASE other = l
    <3>1. Spliced(c, l, at, l, from, from + 1) =
             Put(c, l, Moved(c[l], at, from, from + 1))
      BY <1>1, SplicedWithin
    <3>2. Moved(s, at, from, from + 1) =
             InsertAt(r, IF at > from THEN at - 1 ELSE at, x)
      <4>1. at \in Nat
        BY <1>2
      <4> QED
        BY <1>2, <4>1, OneItem DEF x
    <3>3. c1[l] = r /\ i = IF at > from THEN at - 1 ELSE at
      BY <1>4, <2>3 DEF i
    <3>4. \A v : Put(Put(c, l, r), l, v) = Put(c, l, v)
      BY <1>1 DEF Put
    <3> QED
      BY <1>4, <2>1, <2>3, <3>1, <3>2, <3>3, <3>4
  <2> QED
    BY <2>2, <2>3
<1> QED
  BY <1>6, <1>7, <1>8 DEF k1, x

(* Where the nodes behind the moved item are found after a turn *)
LEMMA TurnAcross ==
    ASSUME NEW c \in [Lists -> Seq(Items)], NEW l \in Lists,
           NEW other \in Lists, other # l, NEW at \in 1 .. Len(c[l]) + 1,
           NEW from \in 1 .. Len(c[other]),
           NEW c1, c1 = Spliced(c, l, at, other, from, from + 1)
    PROVE  /\ Len(c1[other]) = Len(c[other]) - 1
           /\ Len(c1[l]) = Len(c[l]) + 1
           /\ \A p \in from + 1 .. Len(c[other]) + 1 :
                 Node(other, c1[other], p - 1) = Node(other, c[other], p)
           /\ Node(l, c1[l], at + 1) = Node(l, c[l], at)
<1> DEFINE s == c[other]
           d == c[l]
<1>1. s \in Seq(Items) /\ d \in Seq(Items) /\ Len(d) \in Nat
      /\ s[from] \in Items
  BY LenProperties, ElementOfSeq
<1>2. c1 = Put(Put(c, other, Cut(s, from, from + 1)),
               l, Paste(d, at, Part(s, from, from + 1)))
  BY SplicedAcross
<1>3. /\ Cut(s, from, from + 1) = RemoveAt(s, from)
      /\ Paste(d, at, Part(s, from, from + 1)) = InsertAt(d, at, s[from])
  BY <1>1, OneItem
<1>4. c1[other] = RemoveAt(s, from) /\ c1[l] = InsertAt(d, at, s[from])
  BY <1>2, <1>3 DEF Put
<1>5. /\ Len(c1[other]) = Len(s) - 1
      /\ \A p \in from + 1 .. Len(s) + 1 :
            Node(other, c1[other], p - 1) = Node(other, s, p)
  <2>1. Len(RemoveAt(s, from)) = Len(s) - 1
    BY <1>1, RemoveAtElements
  <2>2. \A p \in from + 1 .. Len(s) + 1 :
           Node(other, RemoveAt(s, from), p - 1) = Node(other, s, p)
    BY <1>1, NodeAfterRemove
  <2> QED
    BY <1>4, <2>1, <2>2
<1>6. /\ Len(c1[l]) = Len(d) + 1
      /\ \A p \in at .. Len(d) + 1 : Node(l, c1[l], p + 1) = Node(l, d, p)
  BY <1>1, <1>4, NodeAfterInsert
<1>7. at \in at .. Len(d) + 1
  BY <1>1
<1> HIDE DEF s, d
<1> QED
  BY <1>5, <1>6, <1>7 DEF s, d

LEMMA TurnWithin ==
    ASSUME NEW c \in [Lists -> Seq(Items)], NEW l \in Lists,
           NEW at \in 1 .. Len(c[l]) + 1, NEW from \in 1 .. Len(c[l]),
           NEW c1, c1 = Spliced(c, l, at, l, from, from + 1)
    PROVE  /\ Len(c1[l]) = Len(c[l])
           /\ at < from =>
                 /\ Node(l, c1[l], at + 1) = Node(l, c[l], at)
                 /\ \A p \in from + 1 .. Len(c[l]) + 1 :
                       Node(l, c1[l], p) = Node(l, c[l], p)
           /\ at > from =>
                 /\ Node(l, c1[l], at) = Node(l, c[l], at)
                 /\ \A p \in from + 1 .. at - 1 :
                       Node(l, c1[l], p - 1) = Node(l, c[l], p)
<1> DEFINE s == c[l]
           r == RemoveAt(s, from)
           i == IF at > from THEN at - 1 ELSE at
           t == InsertAt(r, i, s[from])
<1>1. s \in Seq(Items) /\ Len(s) \in Nat /\ s[from] \in Items /\ at \in Nat
  BY LenProperties, ElementOfSeq
<1>2. c1[l] = t
  <2>1. c1 = Put(c, l, Moved(s, at, from, from + 1))
    BY SplicedWithin
  <2>2. Moved(s, at, from, from + 1) = t
    BY <1>1, OneItem
  <2> QED
    BY <2>1, <2>2 DEF Put
<1>3. /\ r \in Seq(Items) /\ Len(r) = Len(s) - 1
      /\ \A p \in 1 .. from - 1 : Node(l, r, p) = Node(l, s, p)
      /\ \A p \in from + 1 .. Len(s) + 1 : Node(l, r, p - 1) = Node(l, s, p)
  BY <1>1, NodeAfterRemove, RemoveAtElements
<1>h. from \in 1 .. Len(s) /\ at \in 1 .. Len(s) + 1
  OBVIOUS
<1> HIDE DEF r, s
<1>4. i \in 1 .. Len(r) + 1 /\ i \in Nat
  BY <1>1, <1>3, <1>h
<1>5. /\ Len(t) = Len(r) + 1
      /\ \A p \in 1 .. i - 1 : Node(l, t, p) = Node(l, r, p)
      /\ \A p \in i .. Len(r) + 1 : Node(l, t, p + 1) = Node(l, r, p)
  <2> HIDE DEF i
  <2> QED
    BY <1>1, <1>3, <1>4, NodeAfterInsert
<1> HIDE DEF t
<1>6. ASSUME at < from
      PROVE  /\ Node(l, t, at + 1) = Node(l, s, at)
             /\ \A p \in from + 1 .. Len(s) + 1 : Node(l, t, p) = Node(l, s, p)
  <2>1. i = at /\ at \in i .. Len(r) + 1 /\ at \in 1 .. from - 1
    BY <1>1, <1>3, <1>h, <1>6
  <2>2. Node(l, t, at + 1) = Node(l, s, at)
    BY <1>3, <1>5, <2>1
  <2>3. ASSUME NEW p \in from + 1 .. Len(s) + 1
        PROVE  Node(l, t, p) = Node(l, s, p)
    <3>1. p - 1 \in i .. Len(r) + 1 /\ (p - 1) + 1 = p
      BY <1>1, <1>3, <1>h, <1>6, <2>1
    <3> QED
      BY <1>3, <1>5, <3>1
  <2> QED
    BY <2>2, <2>3
<1>7. ASSUME at > from
      PROVE  /\ Node(l, t, at) = Node(l, s, at)
             /\ \A p \in from + 1 .. at - 1 : Node(l, t, p - 1) = Node(l, s, p)
  <2>1. i = at - 1 /\ at - 1 \in i .. Len(r) + 1 /\ (at - 1) + 1 = at
        /\ at \in from + 1 .. Len(s) + 1
    BY <1>1, <1>3, <1>h, <1>7
  <2>2. Node(l, t, at) = Node(l, s, at)
    BY <1>3, <1>5, <2>1
  <2>3. ASSUME NEW p \in from + 1 .. at - 1
        PROVE  Node(l, t, p - 1) = Node(l, s, p)
    <3>1. p - 1 \in 1 .. i - 1 /\ p \in from + 1 .. Len(s) + 1
      BY <1>1, <1>h, <1>7, <2>1
    <3> QED
      BY <1>3, <1>5, <3>1
  <2> QED
    BY <2>2, <2>3
<1> QED
  BY <1>1, <1>2, <1>3, <1>5, <1>6, <1>7 DEF s

----------------------------------------------------------------------------
(* The steps of splice() *)

(* A turn is a splice of the first item of the range. *)
LEMMA TurnEffect ==
    ASSUME RingState, CallType, SpliceTurn,
           NEW l \in Lists, NEW other \in Lists,
           NEW at \in Nat, NEW from \in Nat, NEW to \in Nat,
           Iterators(l, at, other, from, to), other = l => at # from
    PROVE  /\ from < to /\ from \in 1 .. Len(Contents(other))
           /\ RingState' /\ Usable' = Usable
           /\ AllContents'
                 = Spliced(AllContents, l, at, other, from, from + 1)
           /\ call'.it = Node(other, Contents(other), from + 1)
           /\ call'.last = call.last /\ call'.before = call.before
           /\ call'.rotates = call.rotates /\ CallType' /\ goal' = goal
<1> DEFINE s == Contents(other)
           d == Contents(l)
           x == s[from]
<1>1. /\ l \in Usable /\ other \in Usable
      /\ at \in 1 .. Len(d) + 1 /\ from \in 1 .. Len(s) + 1
      /\ to \in from .. Len(s) + 1
      /\ call.it = Node(other, s, from) /\ call.last = Node(other, s, to)
      /\ call.before = Node(l, d, at) /\ call.it # call.last
      /\ Relink(Inserted(Erased(Links, call.it), call.it, call.before))
      /\ call' = [call EXCEPT !.it = next[call.it]]
      /\ live' = live /\ goal' = goal
  BY DEF Iterators, Positions, SpliceTurn
<1>2. /\ s \in Seq(Items) /\ Len(s) \in Nat /\ AllContents[other] = s
      /\ AllContents[l] = d /\ Linked(Links, other, s)
      /\ live \subseteq Lists /\ Rings(Links, AllContents, Usable)
  BY <1>1, RingFacts DEF RingState
<1>3. from < to /\ from \in 1 .. Len(s)
  <2>1. from # to
    BY <1>1
  <2> QED
    BY <1>1, <1>2, <2>1
<1>4. call.it = x
  BY <1>1, <1>3 DEF Node
<1>5. next[call.it] = Node(other, s, from + 1)
  <2>1. from \in 0 .. Len(s)
    BY <1>2, <1>3
  <2> QED
    BY <1>1, <1>2, <2>1 DEF Linked, Links
<1>6. Node(other, s, from + 1) \in Nodes
  BY <1>2, <1>3, NodeCases
<1>7. /\ call'.it = Node(other, s, from + 1)
      /\ call'.last = call.last /\ call'.before = call.before
      /\ call'.rotates = call.rotates /\ CallType'
  BY <1>1, <1>5, <1>6 DEF CallType, Nodes
<1>8. Links' = Inserted(Erased(Links, x), x, Node(l, d, at))
  BY <1>1, <1>4 DEF Relink, Links, Inserted
<1>9. Rings(Links', Spliced(AllContents, l, at, other, from, from + 1),
            Usable)
  BY <1>1, <1>2, <1>3, <1>8, TurnRings
<1>10. Usable \subseteq live' /\ live' \subseteq Lists
  BY <1>1, <1>2 DEF Usable
<1>11. /\ RingState' /\ Usable' = Usable
       /\ AllContents' = Spliced(AllContents, l, at, other, from, from + 1)
  BY <1>9, <1>10, RingsAfter
<1> QED
  BY <1>1, <1>3, <1>7, <1>11

LEMMA NextIterators ==
    ASSUME NEW l \in Usable', NEW other \in Usable', Usable' \subseteq Lists,
           NEW c, AllContents' = c, NEW at \in 1 .. Len(c[l]) + 1,
           NEW from \in 1 .. Len(c[other]) + 1,
           NEW to \in from .. Len(c[other]) + 1,
           call'.it = Node(other, c[other], from),
           call'.last = Node(other, c[other], to),
           call'.before = Node(l, c[l], at)
    PROVE  Iterators(l, at, other, from, to)'
<1>1. AllContents' = [m \in Lists |-> Contents(m)']
  BY DEF AllContents
<1>2. Contents(l)' = c[l] /\ Contents(other)' = c[other]
  BY <1>1
<1> QED
  BY <1>2 DEF Iterators, Positions

(* A turn that moves an item leaves the rest of the range to be moved. *)
LEMMA TurnMoves ==
    ASSUME RingState, CallType, SpliceTurn, ~call.rotates, Moves
    PROVE  RingState' /\ CallInv'
<1>1. PICK l \in Lists, other \in Lists, at \in Nat, from \in Nat, to \in Nat :
         /\ Iterators(l, at, other, from, to)
         /\ other = l => Outside(at, from, to)
         /\ goal = Spliced(AllContents, l, at, other, from, to)
  BY DEF Moves
<1> DEFINE c  == AllContents
           c1 == Spliced(c, l, at, other, from, from + 1)
<1>2. /\ l \in Usable /\ other \in Usable
      /\ c \in [Lists -> Seq(Items)] /\ Usable \subseteq Lists
      /\ c[l] = Contents(l) /\ c[other] = Contents(other)
      /\ Len(c[l]) \in Nat /\ Len(c[other]) \in Nat
  BY <1>1, RingFacts DEF Iterators, Positions, RingState, Rings
<1>3. /\ at \in 1 .. Len(c[l]) + 1 /\ from \in 1 .. Len(c[other]) + 1
      /\ to \in from .. Len(c[other]) + 1
      /\ call.it = Node(other, c[other], from)
      /\ call.last = Node(other, c[other], to)
      /\ call.before = Node(l, c[l], at)
  BY <1>1, <1>2 DEF Iterators, Positions
<1>4. from # to /\ from < to
  <2>1. from # to
    BY <1>3 DEF SpliceTurn
  <2> QED
    BY <1>2, <1>3, <2>1
<1>5. other = l => at # from
  BY <1>1, <1>4 DEF Outside
<1>6. /\ from \in 1 .. Len(c[other]) /\ RingState' /\ Usable' = Usable
      /\ AllContents' = c1 /\ call'.it = Node(other, c[other], from + 1)
      /\ call'.last = Node(other, c[other], to)
      /\ call'.before = Node(l, c[l], at)
      /\ call'.rotates = call.rotates /\ CallType' /\ goal' = goal
  BY <1>1, <1>2, <1>3, <1>5, TurnEffect
<1>7. to \in from + 1 .. Len(c[other]) + 1 /\ from + 1 \in Nat
      /\ at + 1 \in Nat /\ to - 1 \in Nat
  BY <1>2, <1>3, <1>4
<1>8. \A at2, from2, to2 \in Nat :
         /\ Iterators(l, at2, other, from2, to2)'
         /\ other = l => Outside(at2, from2, to2)
         /\ goal = Spliced(c1, l, at2, other, from2, to2)
         => CallInv'
  <2>1. Moves' = \E l2, other2 \in Lists : \E at2, from2, to2 \in Nat :
           /\ Iterators(l2, at2, other2, from2, to2)'
           /\ other2 = l2 => Outside(at2, from2, to2)
           /\ goal' = Spliced(AllContents', l2, at2, other2, from2, to2)
    BY DEF Moves
  <2> HIDE DEF c1
  <2>2. Moves' => CallInv'
    BY <1>6 DEF CallInv
  <2> SUFFICES ASSUME NEW at2 \in Nat, NEW from2 \in Nat, NEW to2 \in Nat,
                      Iterators(l, at2, other, from2, to2)',
                      other = l => Outside(at2, from2, to2),
                      goal = Spliced(c1, l, at2, other, from2, to2)
               PROVE  Moves'
    BY <2>2
  <2> QED
    BY <1>6, <2>1
<1>9. ASSUME NEW at2 \in 1 .. Len(c1[l]) + 1,
             NEW from2 \in 1 .. Len(c1[other]) + 1,
             NEW to2 \in from2 .. Len(c1[other]) + 1,
             Node(other, c[other], from + 1) = Node(other, c1[other], from2),
             Node(other, c[other], to) = Node(other, c1[other], to2),
             Node(l, c[l], at) = Node(l, c1[l], at2)
      PROVE  Iterators(l, at2, other, from2, to2)'
  <2> HIDE DEF c1
  <2> QED
    BY <1>2, <1>6, <1>9, NextIterators
<1>d. c1 = Spliced(c, l, at, other, from, from + 1)
  OBVIOUS
<1> HIDE DEF c, c1
<1>10. CASE other # l
  <2>1. /\ Len(c1[other]) = Len(c[other]) - 1 /\ Len(c1[l]) = Len(c[l]) + 1
        /\ \A p \in from + 1 .. Len(c[other]) + 1 :
              Node(other, c1[other], p - 1) = Node(other, c[other], p)
        /\ Node(l, c1[l], at + 1) = Node(l, c[l], at)
    <3>1. /\ c \in [Lists -> Seq(Items)] /\ at \in 1 .. Len(c[l]) + 1
          /\ from \in 1 .. Len(c[other])
      BY <1>2, <1>3, <1>6
    <3> QED
      BY <1>d, <1>10, <3>1, TurnAcross
  <2>2. /\ from + 1 \in from + 1 .. Len(c[other]) + 1 /\ (from + 1) - 1 = from
        /\ at + 1 \in 1 .. Len(c1[l]) + 1 /\ from \in 1 .. Len(c1[other]) + 1
        /\ to - 1 \in from .. Len(c1[other]) + 1
    BY <1>2, <1>3, <1>6, <1>7, <2>1
  <2>3. /\ Node(other, c1[other], from) = Node(other, c[other], from + 1)
        /\ Node(other, c1[other], to - 1) = Node(other, c[other], to)
    BY <1>7, <2>1, <2>2
  <2>4. Iterators(l, at + 1, other, from, to - 1)'
    BY <1>9, <2>1, <2>2, <2>3
  <2>5. goal = Spliced(c1, l, at + 1, other, from, to - 1)
    <3>1. goal = Spliced(c, l, at, other, from, to)
      BY <1>1 DEF c
    <3> QED
      BY <1>2, <1>3, <1>6, <1>7, <1>10, <3>1, SplicedOnceAcross,
         ZenonT(60) DEF c1
  <2> QED
    BY <1>6, <1>7, <1>8, <1>10, <2>4, <2>5
<1>11. CASE other = l
  <2> DEFINE s == c[l]
             t == c1[l]
  <2>1. /\ Len(t) = Len(s)
        /\ at < from =>
              /\ Node(l, t, at + 1) = Node(l, s, at)
              /\ \A p \in from + 1 .. Len(s) + 1 :
                    Node(l, t, p) = Node(l, s, p)
        /\ at > from =>
              /\ Node(l, t, at) = Node(l, s, at)
              /\ \A p \in from + 1 .. at - 1 :
                    Node(l, t, p - 1) = Node(l, s, p)
    BY <1>2, <1>3, <1>6, <1>11, TurnWithin DEF c1
  <2>2. /\ s \in Seq(Items) /\ Len(s) \in Nat /\ at \in 1 .. Len(s) + 1
        /\ from \in 1 .. Len(s) /\ to \in from + 1 .. Len(s) + 1
        /\ c1 = Spliced(c, l, at, l, from, from + 1)
        /\ goal = Spliced(c, l, at, l, from, to)
    BY <1>1, <1>2, <1>3, <1>6, <1>7, <1>11 DEF c, c1
  <2>3. ASSUME NEW at2 \in 1 .. Len(s) + 1, NEW from2 \in 1 .. Len(s) + 1,
               NEW to2 \in from2 .. Len(s) + 1,
               Node(l, t, from2) = Node(l, s, from + 1),
               Node(l, t, to2) = Node(l, s, to),
               Node(l, t, at2) = Node(l, s, at),
               Outside(at2, from2, to2),
               goal = Spliced(c1, l, at2, l, from2, to2)
        PROVE  CallInv'
    <3>1. Iterators(l, at2, l, from2, to2)'
      BY <1>9, <1>11, <2>1, <2>3
    <3>2. at2 \in Nat /\ from2 \in Nat /\ to2 \in Nat
      BY <2>2
    <3> QED
      BY <1>8, <1>11, <2>3, <3>1, <3>2
  <2>8. ASSUME NEW at2 \in Nat, NEW from2 \in Nat, NEW to2 \in Nat,
               at <= from \/ at >= from + 1,
               Moved(Moved(c[l], at, from, from + 1), at2, from2, to2)
                  = Moved(c[l], at, from, to)
        PROVE  Spliced(c1, l, at2, l, from2, to2)
                  = Spliced(c, l, at, l, from, to)
    <3>1. /\ c \in [Lists -> Seq(Items)] /\ at \in 1 .. Len(c[l]) + 1
          /\ from \in 1 .. Len(c[l]) /\ to \in from + 1 .. Len(c[l]) + 1
      BY <1>2, <2>2
    <3>2. Spliced(Spliced(c, l, at, l, from, from + 1), l, at2, l, from2, to2)
             = Spliced(c, l, at, l, from, to)
      BY <2>8, <3>1, SplicedOnceWithin
    <3> QED
      BY <2>2, <3>2
  <2> HIDE DEF s, t
  <2>4. CASE at < from
    <3>1. /\ at + 1 \in 1 .. Len(s) + 1 /\ from + 1 \in 1 .. Len(s) + 1
          /\ to \in from + 1 .. Len(s) + 1
          /\ from + 1 \in from + 1 .. Len(s) + 1
          /\ Outside(at + 1, from + 1, to) /\ from + 1 \in Nat
          /\ at + 1 \in Nat /\ to \in Nat
          /\ at <= from \/ at >= from + 1
      BY <2>2, <2>4 DEF Outside
    <3>2. /\ Node(l, t, from + 1) = Node(l, s, from + 1)
          /\ Node(l, t, to) = Node(l, s, to)
          /\ Node(l, t, at + 1) = Node(l, s, at)
      BY <2>1, <2>4, <3>1
    <3>3. Moved(Moved(s, at, from, from + 1), at + 1, from + 1, to)
             = Moved(s, at, from, to)
      BY <2>2, <2>4, MoveForward
    <3> DEFINE at2   == at + 1
               from2 == from + 1
    <3>4. /\ at2 \in 1 .. Len(s) + 1 /\ from2 \in 1 .. Len(s) + 1
          /\ to \in from2 .. Len(s) + 1 /\ Outside(at2, from2, to)
          /\ at2 \in Nat /\ from2 \in Nat
      BY <3>1
    <3>5. Moved(Moved(s, at, from, from + 1), at2, from2, to)
             = Moved(s, at, from, to)
      BY <3>3
    <3>6. /\ Node(l, t, from2) = Node(l, s, from + 1)
          /\ Node(l, t, at2) = Node(l, s, at)
      BY <3>2
    <3> HIDE DEF at2, from2
    <3>7. Spliced(c1, l, at2, l, from2, to) = Spliced(c, l, at, l, from, to)
      BY <2>8, <3>1, <3>4, <3>5 DEF s
    <3> QED
      BY <1>6, <2>2, <2>3, <3>2, <3>4, <3>6, <3>7
  <2>5. CASE at > to
    <3>1. /\ from \in 1 .. Len(s) + 1 /\ to - 1 \in from .. Len(s) + 1
          /\ from + 1 \in from + 1 .. at - 1 /\ (from + 1) - 1 = from
          /\ to \in from + 1 .. at - 1 /\ at > from
          /\ Outside(at, from, to - 1) /\ from \in Nat
          /\ at \in Nat /\ to - 1 \in Nat
          /\ at <= from \/ at >= from + 1
      BY <2>2, <2>5 DEF Outside
    <3>2. /\ Node(l, t, from) = Node(l, s, from + 1)
          /\ Node(l, t, to - 1) = Node(l, s, to)
          /\ Node(l, t, at) = Node(l, s, at)
      BY <2>1, <3>1
    <3>3. Moved(Moved(s, at, from, from + 1), at, from, to - 1)
             = Moved(s, at, from, to)
      BY <2>2, <2>5, MoveBackward
    <3> DEFINE to2 == to - 1
    <3>4. /\ to2 \in from .. Len(s) + 1 /\ Outside(at, from, to2)
          /\ to2 \in Nat
      BY <3>1
    <3>5. Moved(Moved(s, at, from, from + 1), at, from, to2)
             = Moved(s, at, from, to)
      BY <3>3
    <3>6. Node(l, t, to2) = Node(l, s, to)
      BY <3>2
    <3> HIDE DEF to2
    <3>7. Spliced(c1, l, at, l, from, to2) = Spliced(c, l, at, l, from, to)
      BY <2>8, <3>1, <3>4, <3>5 DEF s
    <3> QED
      BY <1>6, <2>2, <2>3, <3>1, <3>2, <3>4, <3>6, <3>7
  <2>6. CASE at = to /\ to = from + 1
    <3>1. /\ to \in 1 .. Len(s) + 1 /\ to \in to .. Len(s) + 1
          /\ at > from /\ Outside(at, to, to)
      BY <2>2, <2>6 DEF Outside
    <3>2. Node(l, t, to) = Node(l, s, to)
      BY <2>1, <2>6, <3>1
    <3>3. c1 = goal
      BY <2>2, <2>6
    <3>4. c1 \in [Lists -> Seq(Items)]
      <4>1. AllContents' \in [Lists -> Seq(Items)]
        BY <1>6 DEF RingState, Rings
      <4> QED
        BY <1>6, <4>1
    <3>5. Spliced(c1, l, to, l, to, to) = c1
      <4>1. to \in 1 .. Len(c1[l]) + 1
        BY <2>1, <3>1 DEF t
      <4> QED
        BY <3>4, <4>1, SplicedNothing
    <3>6. /\ Node(l, t, to) = Node(l, s, from + 1)
          /\ Node(l, t, to) = Node(l, s, at)
          /\ goal = Spliced(c1, l, to, l, to, to) /\ Outside(to, to, to)
      BY <2>6, <3>1, <3>2, <3>3, <3>5
    <3> QED
      BY <1>6, <2>3, <3>1, <3>2, <3>6
  <2>7. at < from \/ at > to \/ (at = to /\ to = from + 1)
    BY <1>1, <1>11, <2>2 DEF Outside
  <2> QED
    BY <1>6, <2>4, <2>5, <2>6, <2>7
<1> QED
  BY <1>10, <1>11, <1>6

(* A turn of the loop that never ends leaves its three positions where     *)
(* they are, and the range between them not empty.                         *)
LEMMA TurnRotates ==
    ASSUME RingState, CallType, SpliceTurn, call.rotates, Rotates
    PROVE  RingState' /\ CallInv'
<1>1. PICK l \in Lists, from \in Nat, to \in Nat :
         Iterators(l, to, l, from, to) /\ from + 1 < to
  BY DEF Rotates
<1> DEFINE c  == AllContents
           c1 == Spliced(c, l, to, l, from, from + 1)
<1>2. /\ l \in Usable /\ c \in [Lists -> Seq(Items)] /\ Usable \subseteq Lists
      /\ c[l] = Contents(l) /\ Len(c[l]) \in Nat
  BY <1>1, RingFacts DEF Iterators, Positions, RingState, Rings
<1>3. /\ from \in 1 .. Len(c[l]) + 1 /\ to \in from .. Len(c[l]) + 1
      /\ to \in 1 .. Len(c[l]) + 1
      /\ call.it = Node(l, c[l], from) /\ call.last = Node(l, c[l], to)
      /\ call.before = Node(l, c[l], to) /\ to # from
  BY <1>1, <1>2 DEF Iterators, Positions
<1>4. /\ from \in 1 .. Len(c[l]) /\ RingState' /\ Usable' = Usable
      /\ AllContents' = c1 /\ call'.it = Node(l, c[l], from + 1)
      /\ call'.last = Node(l, c[l], to) /\ call'.before = Node(l, c[l], to)
      /\ call'.rotates = call.rotates /\ CallType' /\ goal' = goal
  BY <1>1, <1>2, <1>3, TurnEffect, ZenonT(60)
<1> HIDE DEF c
<1>5. /\ Len(c1[l]) = Len(c[l])
      /\ to > from =>
            /\ Node(l, c1[l], to) = Node(l, c[l], to)
            /\ \A p \in from + 1 .. to - 1 :
                  Node(l, c1[l], p - 1) = Node(l, c[l], p)
  <2>1. c1 = Spliced(c, l, to, l, from, from + 1)
    OBVIOUS
  <2>2. /\ c \in [Lists -> Seq(Items)] /\ to \in 1 .. Len(c[l]) + 1
        /\ from \in 1 .. Len(c[l])
    BY <1>2, <1>3, <1>4
  <2> HIDE DEF c1
  <2> QED
    BY <2>1, <2>2, TurnWithin
<1> HIDE DEF c1
<1>6. to > from /\ from + 1 \in from + 1 .. to - 1 /\ (from + 1) - 1 = from
      /\ from \in 1 .. Len(c1[l]) + 1 /\ to \in 1 .. Len(c1[l]) + 1
      /\ to \in from .. Len(c1[l]) + 1
  BY <1>1, <1>3, <1>5
<1>7. /\ Node(l, c1[l], from) = Node(l, c[l], from + 1)
      /\ Node(l, c1[l], to) = Node(l, c[l], to)
  BY <1>5, <1>6
<1>8. Iterators(l, to, l, from, to)'
  BY <1>2, <1>4, <1>6, <1>7, NextIterators
<1>9. Rotates'
  BY <1>1, <1>8 DEF Rotates
<1> QED
  BY <1>4, <1>9 DEF CallInv

LEMMA IdleCall ==
    ASSUME call = Idle
    PROVE  CallType /\ CallInv
  BY DEF Idle, CallType, CallInv

LEMMA IdleCallNext ==
    ASSUME call' = Idle
    PROVE  CallInv'
<1>1. CallType'
  BY DEF Idle, CallType
<1> QED
  BY <1>1 DEF CallInv

(* The iterators that splice() is called with *)
LEMMA SpliceArguments ==
    ASSUME RingState, NEW l, NEW before, NEW other, NEW first, NEW last,
           splice(l, before, other, first, last),
           NEW at, at = IndexIn(l, before),
           NEW from, from = IndexIn(other, first),
           NEW to, to = IndexIn(other, last)
    PROVE  /\ l \in Usable /\ other \in Usable
           /\ at \in 1 .. Len(Contents(l)) + 1
           /\ from \in 1 .. Len(Contents(other)) + 1
           /\ to \in from .. Len(Contents(other)) + 1
           /\ first = Node(other, Contents(other), from)
           /\ last = Node(other, Contents(other), to)
           /\ before = Node(l, Contents(l), at)
           /\ Len(SubSeq(Contents(other), from, to - 1)) = to - from
           /\ other = l => at # from /\ (at < from \/ at >= to)
<1> DEFINE s == Contents(other)
           d == Contents(l)
           r == SubSeq(s, from, to - 1)
<1>1. /\ l \in Usable /\ other \in Usable /\ first \in ToSet(s) \cup {other}
      /\ last \in ToSet(s) \cup {other} /\ before \in ToSet(d) \cup {l}
      /\ before \notin ToSet(r) /\ from <= to
      /\ other = l => before # first
  BY DEF splice
<1>2. /\ at \in 1 .. Len(d) + 1 /\ before = Node(l, d, at)
      /\ from \in 1 .. Len(s) + 1 /\ first = Node(other, s, from)
      /\ to \in 1 .. Len(s) + 1 /\ last = Node(other, s, to)
  BY <1>1, NodeOfIndex
<1>3. s \in Seq(Items) /\ Len(s) \in Nat /\ Len(d) \in Nat
  BY <1>1, RingFacts
<1>4. to \in from .. Len(s) + 1
  BY <1>1, <1>2, <1>3
<1>5. /\ r \in Seq(Items) /\ Len(r) = to - from
      /\ \A p \in 1 .. to - from : r[p] = s[from + p - 1]
  BY <1>2, <1>3, <1>4, PartElements, SMTT(60) DEF Part
<1>6. ASSUME other = l
      PROVE  at # from /\ (at < from \/ at >= to)
  <2>1. at # from
    BY <1>1, <1>2, <1>6
  <2>2. ASSUME at >= from, at < to
        PROVE  FALSE
    <3>1. /\ at - from + 1 \in 1 .. to - from /\ at \in 1 .. Len(s)
          /\ from + (at - from + 1) - 1 = at
      BY <1>2, <1>3, <1>4, <1>6, <2>2
    <3>2. before = s[at]
      BY <1>2, <1>6, <3>1 DEF Node
    <3>3. r[at - from + 1] = before
      BY <1>5, <3>1, <3>2
    <3> HIDE DEF r
    <3>4. ToSet(r) = {r[p] : p \in 1 .. Len(r)}
      <4>1. r \in Seq(Items)
        BY <1>5
      <4> QED
        BY <4>1, SetOfSeq
    <3> QED
      BY <1>1, <1>5, <3>1, <3>3, <3>4
  <2> QED
    BY <1>2, <1>3, <2>1, <2>2
<1> QED
  BY <1>1, <1>2, <1>4, <1>5, <1>6

LEMMA SpliceStarts ==
    ASSUME RingState, NEW l, NEW before, NEW other, NEW first, NEW last,
           splice(l, before, other, first, last)
    PROVE  RingState' /\ CallInv'
<1>0. PICK at, from, to : /\ at = IndexIn(l, before)
                          /\ from = IndexIn(other, first)
                          /\ to = IndexIn(other, last)
  OBVIOUS
<1> DEFINE s    == Contents(other)
           d    == Contents(l)
           c    == AllContents
           noOp == SpliceIsNoOp(l, before, other, first, last)
           many == before = last /\ Len(SubSeq(s, from, to - 1)) > 1
<1>1. /\ l \in Usable /\ other \in Usable
      /\ at \in 1 .. Len(d) + 1 /\ from \in 1 .. Len(s) + 1
      /\ to \in from .. Len(s) + 1
      /\ first = Node(other, s, from) /\ last = Node(other, s, to)
      /\ before = Node(l, d, at)
      /\ Len(SubSeq(s, from, to - 1)) = to - from
      /\ other = l => at # from /\ (at < from \/ at >= to)
  BY <1>0, SpliceArguments
<1>2. /\ call' = [it |-> IF noOp THEN last ELSE first, last |-> last,
                  before |-> before, rotates |-> ~noOp /\ many]
      /\ goal' = IF noOp THEN c ELSE Spliced(c, l, at, other, from, to)
      /\ UNCHANGED <<next, prev, live>>
  BY <1>0 DEF splice
<1>3. RingState' /\ Usable' = Usable /\ AllContents' = c
  BY <1>2, SameRings
<1>4. /\ l \in Lists /\ other \in Lists /\ s \in Seq(Items) /\ d \in Seq(Items)
      /\ Len(s) \in Nat /\ Len(d) \in Nat /\ c[l] = d /\ c[other] = s
      /\ Usable' \subseteq Lists /\ c \in [Lists -> Seq(Items)]
      /\ IsInjective(s) /\ next[other] = Node(other, s, 1)
  BY <1>1, <1>3, RingFacts DEF RingState, Rings
<1>5. /\ first \in Nodes /\ last \in Nodes /\ before \in Nodes
      /\ Node(other, s, Len(s) + 1) = other
  BY <1>1, <1>4, NodeCases
<1>6. at \in Nat /\ from \in Nat /\ to \in Nat
  BY <1>1, <1>4
<1>7. \A i, j \in 1 .. Len(s) + 1 : Node(other, s, i) = Node(other, s, j)
                                       => i = j
  BY <1>4, NodeDistinct
<1> HIDE DEF s, d, c, noOp, many
<1>8. CallType'
  <2>1. noOp \in BOOLEAN /\ many \in BOOLEAN
    BY DEF noOp, many, SpliceIsNoOp
  <2>2. (IF noOp THEN last ELSE first) \in Nodes
    BY <1>5
  <2> QED
    BY <1>2, <1>5, <2>1, <2>2 DEF CallType
<1>f. /\ call'.it = (IF noOp THEN last ELSE first) /\ call'.last = last
      /\ call'.before = before /\ call'.rotates = (~noOp /\ many)
  BY <1>2
<1>9. CASE noOp
  <2>0. PICK n : n = Len(s) + 1
    OBVIOUS
  <2>1. other = l /\ first = next[other] /\ last = other
    BY <1>9 DEF noOp, SpliceIsNoOp
  <2>2. s = d
    BY <2>1 DEF s, d
  <2>3. n \in 1 .. Len(s) + 1 /\ 1 \in 1 .. Len(s) + 1
        /\ to \in 1 .. Len(s) + 1
    BY <1>1, <1>4, <1>6, <2>0
  <2>4. to = n
    BY <1>1, <1>5, <1>7, <2>0, <2>1, <2>3
  <2>5. from = 1
    <3>1. Node(other, s, from) = Node(other, s, 1)
      BY <1>1, <1>4, <2>1
    <3>2. from \in 1 .. Len(s) + 1
      BY <1>1
    <3> QED
      BY <1>7, <2>3, <3>1, <3>2
  <2>6. at = n
    BY <1>1, <1>4, <1>6, <2>0, <2>1, <2>2, <2>4, <2>5
  <2>7. /\ n \in 1 .. Len(c[l]) + 1 /\ n \in 1 .. Len(c[other]) + 1
        /\ n \in n .. Len(c[other]) + 1 /\ n \in Nat
    BY <1>4, <2>0, <2>2, <2>3
  <2>8. /\ call'.it = Node(other, c[other], n)
        /\ call'.last = Node(other, c[other], n)
        /\ call'.before = Node(l, c[l], n)
    BY <1>1, <1>4, <1>9, <1>f, <2>4, <2>6
  <2>9. Iterators(l, n, other, n, n)'
    BY <1>1, <1>3, <1>4, <2>7, <2>8, NextIterators
  <2>10. goal' = Spliced(AllContents', l, n, other, n, n)
    <3>1. Spliced(c, l, n, other, n, n) = c
      BY <1>4, <2>7, SplicedNothing
    <3> QED
      BY <1>2, <1>3, <1>9, <3>1
  <2>11. Outside(n, n, n)
    BY <2>7 DEF Outside
  <2>12. Moves'
    BY <1>4, <2>7, <2>9, <2>10, <2>11 DEF Moves
  <2> QED
    BY <1>3, <1>8, <1>9, <1>f, <2>12 DEF CallInv
<1>10. CASE ~noOp
  <2>1. Iterators(l, at, other, from, to)'
    <3>1. /\ at \in 1 .. Len(c[l]) + 1 /\ from \in 1 .. Len(c[other]) + 1
          /\ to \in from .. Len(c[other]) + 1
          /\ call'.it = Node(other, c[other], from)
          /\ call'.last = Node(other, c[other], to)
          /\ call'.before = Node(l, c[l], at)
      BY <1>1, <1>4, <1>10, <1>f
    <3> QED
      BY <1>1, <1>3, <1>4, <3>1, NextIterators
  <2>2. many => other = l /\ at = to
    <3>1. ASSUME other # l
          PROVE  before # last
      <4>1. /\ before \in ToSet(d) \cup {l} /\ last \in ToSet(s) \cup {other}
            /\ ToSet(d) \subseteq Items /\ ToSet(s) \subseteq Items
        BY <1>1, <1>4, <1>6, NodeCases
      <4>2. ToSet(d) \cap ToSet(s) = {}
        BY <1>1, <1>4, <3>1 DEF RingState, Rings, c
      <4> QED
        BY <1>4, <3>1, <4>1, <4>2, ListAssumption
    <3>2. ASSUME other = l, before = last
          PROVE  at = to
      <4>1. s = d
        BY <3>2 DEF s, d
      <4>2. at \in 1 .. Len(s) + 1 /\ to \in 1 .. Len(s) + 1
        BY <1>1, <1>4, <1>6, <4>1
      <4> QED
        BY <1>1, <1>7, <3>2, <4>1, <4>2
    <3> QED
      BY <3>1, <3>2 DEF many
  <2>3. CASE many
    <3>1. other = l /\ at = to /\ from + 1 < to
      BY <1>1, <1>6, <2>2, <2>3 DEF many
    <3>2. Rotates'
      BY <1>4, <1>6, <2>1, <3>1 DEF Rotates
    <3> QED
      BY <1>3, <1>8, <1>10, <1>f, <2>3, <3>2 DEF CallInv
  <2>4. CASE ~many
    <3>1. other = l => Outside(at, from, to)
      <4>1. ASSUME other = l, at = to
            PROVE  to <= from + 1
        <5>1. before = last
          BY <1>1, <4>1 DEF s, d
        <5> QED
          BY <1>1, <1>6, <2>4, <5>1 DEF many
      <4> QED
        BY <1>1, <1>6, <4>1 DEF Outside
    <3>2. goal' = Spliced(AllContents', l, at, other, from, to)
      BY <1>2, <1>3, <1>10
    <3>3. Moves'
      BY <1>4, <1>6, <2>1, <3>1, <3>2 DEF Moves
    <3> QED
      BY <1>3, <1>8, <1>10, <1>f, <2>4, <3>3 DEF CallInv
  <2> QED
    BY <2>3, <2>4
<1> QED
  BY <1>9, <1>10

----------------------------------------------------------------------------
(* The invariant holds *)

LEMMA InitRings ==
    ASSUME Init
    PROVE  ListInv
<1> DEFINE c == [l \in Lists |-> <<>>]
<1>1. /\ live = {} /\ Usable = {} /\ call = Idle
      /\ Links.next = [n \in Nodes |-> Null]
      /\ Links.prev = [n \in Nodes |-> Null]
  BY DEF Init, Usable, Links
<1>2. LinkFields(Links)
  BY <1>1 DEF LinkFields
<1>3. Rings(Links, c, {})
  <2>1. \A l \in Lists : Links.next[l] = Null /\ c[l] = <<>>
    BY <1>1 DEF Nodes
  <2>2. c \in [Lists -> Seq(Items)]
    BY EmptySeq
  <2> HIDE DEF c
  <2> QED
    BY <1>2, <2>1, <2>2 DEF Rings
<1>4. ASSUME NEW l \in Lists
      PROVE  Contents(l) = <<>>
  <2>1. ContentsOf(Links.next, {}, l) = c[l]
    BY <1>3, RingContents
  <2>2. Contents(l) = ContentsOf(next, Usable, l)
    BY WalkIsWalkOf
  <2> QED
    BY <1>1, <2>1, <2>2 DEF Links
<1>5. AllContents = c
  BY <1>4 DEF AllContents
<1>6. RingState
  BY <1>1, <1>3, <1>5 DEF RingState
<1> QED
  BY <1>1, <1>6, IdleCall DEF ListInv

(* Every step of the specification, one action at a time *)
LEMMA NextRings ==
    ASSUME ListInv, [Next]_vars
    PROVE  ListInv'
<1> USE DEF ListInv
<1>u. CASE UNCHANGED vars
  <2>1. UNCHANGED <<next, prev, live>> /\ call' = call /\ goal' = goal
    BY <1>u DEF vars
  <2>2. RingState' /\ Usable' = Usable /\ AllContents' = AllContents
    BY <2>1, SameRings
  <2>3. ASSUME NEW l \in Lists
        PROVE  Contents(l)' = Contents(l)
    <3>1. AllContents' = [m \in Lists |-> Contents(m)']
      BY DEF AllContents
    <3>2. AllContents = [m \in Lists |-> Contents(m)]
      BY DEF AllContents
    <3> QED
      BY <2>2, <3>1, <3>2
  <2>4. CallType'
    BY <2>1 DEF CallInv, CallType
  <2>5. ASSUME NEW l \in Lists, NEW other \in Lists, NEW at \in Nat,
               NEW from \in Nat, NEW to \in Nat,
               Iterators(l, at, other, from, to)
        PROVE  Iterators(l, at, other, from, to)'
    <3>1. Contents(l)' = Contents(l) /\ Contents(other)' = Contents(other)
      BY <2>3
    <3> QED
      BY <2>1, <2>2, <2>5, <3>1 DEF Iterators, Positions
  <2>6. Moves => Moves'
    BY <2>1, <2>2, <2>5 DEF Moves
  <2>7. Rotates => Rotates'
    BY <2>5 DEF Rotates
  <2> QED
    BY <2>1, <2>2, <2>4, <2>6, <2>7 DEF CallInv
<1>i. ASSUME call' = Idle, RingState'
      PROVE  ListInv'
  BY <1>i, IdleCallNext
<1>a. ASSUME NEW l, At(l)
      PROVE  l \in Usable /\ call' = Idle
  BY <1>a DEF At
<1>1. ASSUME NEW l \in Lists, Construct(l)
      PROVE  ListInv'
  <2>1. RingState' /\ call' = Idle
    BY <1>1, Constructed DEF Construct
  <2> QED
    BY <1>i, <2>1
<1>2. ASSUME NEW l \in Lists, NEW other \in Lists, MoveConstruct(l, other)
      PROVE  ListInv'
  <2>1. RingState' /\ call' = Idle
    BY <1>2, Constructed DEF MoveConstruct
  <2> QED
    BY <1>i, <2>1
<1>3. ASSUME NEW l \in Lists, NEW x \in Items, push_front(l, x)
      PROVE  ListInv'
  <2>1. At(l)
    BY <1>3 DEF push_front
  <2> QED
    BY <1>3, <1>a, <1>i, <2>1, PushFront
<1>4. ASSUME NEW l \in Lists, NEW x \in Items, push_back(l, x)
      PROVE  ListInv'
  <2>1. At(l)
    BY <1>4 DEF push_back
  <2> QED
    BY <1>4, <1>a, <1>i, <2>1, PushBack
<1>5. ASSUME NEW l \in Lists, pop_front(l)
      PROVE  ListInv'
  <2>1. At(l)
    BY <1>5 DEF pop_front
  <2> QED
    BY <1>5, <1>a, <1>i, <2>1, PopFront
<1>6. ASSUME NEW l \in Lists, pop_back(l)
      PROVE  ListInv'
  <2>1. At(l)
    BY <1>6 DEF pop_back
  <2> QED
    BY <1>6, <1>a, <1>i, <2>1, PopBack
<1>7. ASSUME NEW l \in Lists, NEW x \in Items, NEW b, insert(l, x, b)
      PROVE  ListInv'
  <2>1. At(l)
    BY <1>7 DEF insert
  <2> QED
    BY <1>7, <1>a, <1>i, <2>1, Insert
<1>8. ASSUME NEW l \in Lists, NEW x \in Items, erase(l, x)
      PROVE  ListInv'
  <2>1. At(l)
    BY <1>8 DEF erase
  <2> QED
    BY <1>8, <1>a, <1>i, <2>1, Erase
<1>9. ASSUME NEW l, NEW before, NEW other, NEW first, NEW last,
             splice(l, before, other, first, last)
      PROVE  ListInv'
  BY <1>9, SpliceStarts
<1>10. ASSUME SpliceTurn
       PROVE  ListInv'
  BY <1>10, TurnMoves, TurnRotates DEF CallInv, SpliceTurn
<1>11. ASSUME SpliceReturn
       PROVE  ListInv'
  <2>1. UNCHANGED <<next, prev, live>> /\ call' = Idle
    BY <1>11 DEF SpliceReturn
  <2> QED
    BY <1>i, <2>1, SameRings
<1> HIDE DEF ListInv
<1> QED
  BY <1>u, <1>1, <1>2, <1>3, <1>4, <1>5, <1>6, <1>7, <1>8, <1>9, <1>10, <1>11
     DEF Next

(***************************************************************************)
(* The inductive invariant: the links of every list spell out a sequence   *)
(* of items that is in no other list, and the iterators of a splice() in   *)
(* progress stand at positions from which its loop either reaches the goal *)
(* or turns a range in place.                                              *)
(***************************************************************************)
THEOREM RingInvariant == Spec => []ListInv
<1>1. Init => ListInv
  BY InitRings
<1>2. ListInv /\ [Next]_vars => ListInv'
  BY NextRings
<1> QED
  BY <1>1, <1>2, PTL DEF Spec

LEMMA RingsOfState ==
    ASSUME RingState
    PROVE  RingsIntact
<1>1. /\ next \in [Nodes -> Nodes \cup {Null}]
      /\ prev \in [Nodes -> Nodes \cup {Null}]
      /\ \A n \in Nodes : (next[n] = Null) = (prev[n] = Null)
  BY DEF RingState, Rings, LinkFields, Links
<1>2. ASSUME NEW l \in Usable
      PROVE  /\ Walk(l)[Len(Contents(l)) + 1] = l
             /\ \A i \in 1 .. Len(Contents(l)) : Walk(l)[i] \in Items
             /\ \A i \in 0 .. Len(Contents(l)) :
                   prev[Walk(l)[i + 1]] = Walk(l)[i]
  <2> DEFINE s == Contents(l)
             N == Cardinality(Items) + 1
  <2>1. /\ l \in Lists /\ s \in Seq(Items) /\ IsInjective(s)
        /\ Linked(Links, l, s)
    BY RingFacts
  <2>2. Len(s) \in Nat /\ N \in Nat /\ Len(s) + 1 <= N
    BY <2>1, RingLength
  <2>3. \A i \in 0 .. N : Walk(l)[i] = Node(l, s, i)
    <3>1. \A i \in 0 .. Len(s) : next[Node(l, s, i)] = Node(l, s, i + 1)
      BY <2>1 DEF Linked, Links
    <3>2. Walk(l) = WalkOf(next, l)
      BY WalkIsWalkOf
    <3>3. \A i \in 0 .. N : WalkOf(next, l)[i] = Node(l, s, i)
      BY <2>1, <3>1, WalkIsRing
    <3> QED
      BY <3>2, <3>3
  <2>4. /\ Node(l, s, Len(s) + 1) = l
        /\ \A i \in 1 .. Len(s) : Node(l, s, i) \in Items
    BY <2>1, NodeCases
  <2> HIDE DEF s, N
  <2>5. Walk(l)[Len(s) + 1] = l
    BY <2>2, <2>3, <2>4
  <2>6. \A i \in 1 .. Len(s) : Walk(l)[i] \in Items
    BY <2>2, <2>3, <2>4
  <2>7. ASSUME NEW i \in 0 .. Len(s)
        PROVE  prev[Walk(l)[i + 1]] = Walk(l)[i]
    <3>1. i \in 0 .. N /\ i + 1 \in 0 .. N
      BY <2>2
    <3> QED
      BY <2>1, <2>3, <3>1 DEF Linked, Links
  <2> QED
    BY <2>5, <2>6, <2>7 DEF s
<1>3. \A l, m \in Usable :
         l # m => ToSet(Contents(l)) \cap ToSet(Contents(m)) = {}
  BY RingFacts DEF RingState, Rings
<1> QED
  BY <1>1, <1>2, <1>3 DEF RingsIntact

(***************************************************************************)
(* At every moment, also between the turns of splice(), the next links of  *)
(* a list lead through items only and back, the prev links lead the other  *)
(* way, and no item is in two lists (insert(), erase(), the pushes, the    *)
(* pops, the move constructor and splice() of intrusive_list.hpp).         *)
(***************************************************************************)
THEOREM RingsStayIntact == Spec => []RingsIntact
<1>1. ListInv => RingsIntact
  BY RingsOfState DEF ListInv
<1> QED
  BY <1>1, RingInvariant, PTL

(***************************************************************************)
(* Whenever the loop of splice() ends, the lists hold what they should:    *)
(* the range stands in its old order in front of the target and nothing    *)
(* else has moved.                                                         *)
(***************************************************************************)
THEOREM SpliceIsExact == Spec => []SpliceMovesRange
<1>1. ASSUME ListInv, call # Idle, call.it = call.last
      PROVE  goal = AllContents
  <2>1. ASSUME NEW l \in Lists, NEW other \in Lists, NEW at \in Nat,
               NEW from \in Nat, NEW to \in Nat,
               Iterators(l, at, other, from, to)
        PROVE  /\ from = to /\ at \in 1 .. Len(AllContents[l]) + 1
               /\ from \in 1 .. Len(AllContents[other]) + 1
    <3> DEFINE s == Contents(other)
    <3>1. /\ other \in Usable /\ l \in Usable
          /\ from \in 1 .. Len(s) + 1 /\ to \in from .. Len(s) + 1
          /\ at \in 1 .. Len(Contents(l)) + 1
          /\ Node(other, s, from) = Node(other, s, to)
      BY <1>1, <2>1 DEF Iterators, Positions
    <3>2. /\ s \in Seq(Items) /\ IsInjective(s) /\ Len(s) \in Nat
          /\ AllContents[l] = Contents(l) /\ AllContents[other] = s
      BY <1>1, <3>1, RingFacts DEF ListInv
    <3>3. \A i, j \in 1 .. Len(s) + 1 :
             Node(other, s, i) = Node(other, s, j) => i = j
      BY <3>2, NodeDistinct
    <3> HIDE DEF s
    <3>4. to \in 1 .. Len(s) + 1
      BY <3>1, <3>2
    <3> QED
      BY <3>1, <3>2, <3>3, <3>4
  <2>2. CASE Moves
    <3>1. PICK l \in Lists, other \in Lists, at \in Nat, from \in Nat,
               to \in Nat :
             /\ Iterators(l, at, other, from, to)
             /\ goal = Spliced(AllContents, l, at, other, from, to)
      BY <2>2 DEF Moves
    <3>2. /\ from = to /\ at \in 1 .. Len(AllContents[l]) + 1
          /\ from \in 1 .. Len(AllContents[other]) + 1
      BY <2>1, <3>1
    <3>3. AllContents \in [Lists -> Seq(Items)]
      BY <1>1 DEF ListInv, RingState, Rings
    <3>4. Spliced(AllContents, l, at, other, from, from) = AllContents
      BY <3>2, <3>3, SplicedNothing
    <3> QED
      BY <3>1, <3>2, <3>4
  <2>3. CASE Rotates
    <3>1. PICK l \in Lists, from \in Nat, to \in Nat :
             Iterators(l, to, l, from, to) /\ from + 1 < to
      BY <2>3 DEF Rotates
    <3>2. from = to
      BY <2>1, <3>1
    <3> QED
      BY <3>1, <3>2
  <2> QED
    BY <1>1, <2>2, <2>3 DEF ListInv, CallInv
<1>2. ListInv => SpliceMovesRange
  BY <1>1 DEF SpliceMovesRange
<1> QED
  BY <1>2, RingInvariant, PTL

(***************************************************************************)
(* pop_front() takes the tail, push_back() appends, insert() puts the item *)
(* in front of its iterator and erase() takes out the item at its iterator *)
(* and no other, each in its own list only, in every state that any        *)
(* history of operations leads to.                                         *)
(***************************************************************************)
THEOREM OperationsAreSequences == Spec => SequenceSemantics
<1>1. ASSUME ListInv
      PROVE  SequenceStep
  <2> SUFFICES ASSUME NEW l \in Usable
      PROVE  LET c          == Contents(l)
                 becomes(s) == AllContents' = [AllContents EXCEPT ![l] = s]
             IN  /\ pop_front(l) => becomes(Tail(c))
                 /\ pop_back(l) => becomes(Front(c))
                 /\ \A x \in Items :
                       /\ push_front(l, x) => becomes(<<x>> \o c)
                       /\ push_back(l, x) => becomes(Append(c, x))
                       /\ erase(l, x) => becomes(RemoveAt(c, IndexIn(l, x)))
                       /\ \A b \in ToSet(c) \cup {l} :
                            insert(l, x, b)
                                => becomes(InsertAt(c, IndexIn(l, b), x))
    BY DEF SequenceStep
  <2>0. RingState
    BY <1>1 DEF ListInv
  <2>1. ASSUME pop_front(l)
        PROVE  AllContents' = [AllContents EXCEPT ![l] = Tail(Contents(l))]
    BY <2>0, <2>1, PopFront
  <2>2. ASSUME pop_back(l)
        PROVE  AllContents' = [AllContents EXCEPT ![l] = Front(Contents(l))]
    BY <2>0, <2>2, PopBack
  <2>3. ASSUME NEW x \in Items, push_front(l, x)
        PROVE  AllContents' = [AllContents EXCEPT
                                 ![l] = <<x>> \o Contents(l)]
    BY <2>0, <2>3, PushFront
  <2>4. ASSUME NEW x \in Items, push_back(l, x)
        PROVE  AllContents' = [AllContents EXCEPT
                                 ![l] = Append(Contents(l), x)]
    BY <2>0, <2>4, PushBack
  <2>5. ASSUME NEW x \in Items, erase(l, x)
        PROVE  AllContents' = [AllContents EXCEPT
                                 ![l] = RemoveAt(Contents(l), IndexIn(l, x))]
    BY <2>0, <2>5, Erase
  <2>6. ASSUME NEW x \in Items, NEW b \in ToSet(Contents(l)) \cup {l},
               insert(l, x, b)
        PROVE  AllContents' = [AllContents EXCEPT ![l] =
                                 InsertAt(Contents(l), IndexIn(l, b), x)]
    BY <2>0, <2>6, Insert
  <2> QED
    BY <2>1, <2>2, <2>3, <2>4, <2>5, <2>6
<1>2. ListInv /\ [Next]_vars => [SequenceStep]_vars
  BY <1>1
<1> QED
  BY <1>2, RingInvariant, PTL DEF Spec, SequenceSemantics
============================================================================
