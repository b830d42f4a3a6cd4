----------------------------- MODULE DataLemmas -----------------------------
(***************************************************************************)
(* Facts about sequences, finite sets and folds that the proofs of several *)
(* components cite.                                                        *)
(*                                                                         *)
(* Sequences: what inserting into, removing from and cutting a sequence    *)
(* does to its length, its elements and their set: insert(), erase() and   *)
(* splice() of IntrusiveList, as IoScheduler uses them.                    *)
(*                                                                         *)
(* Folds: what the folds of the community modules compute.  Recursion over *)
(* the subsets of a finite set is shown to be well defined, and sums are   *)
(* shown not to depend on the order in which they take the elements.       *)
(* Induction is done by looking at a smallest number, or a smallest set,   *)
(* for which a fact would fail.                                            *)
(***************************************************************************)
EXTENDS Integers, Sequences, SequencesExt, SequenceTheorems, FiniteSetsExt,
        FiniteSetTheorems, WellFoundedInduction, TLAPS

(* Inserting one element shifts those behind it by one. *)
LEMMA InsertAtElements ==
    ASSUME NEW S, NEW s \in Seq(S), NEW e \in S, NEW q \in 1..(Len(s) + 1)
    PROVE  /\ InsertAt(s, q, e) \in Seq(S)
           /\ Len(InsertAt(s, q, e)) = Len(s) + 1
           /\ \A i \in 1..(Len(s) + 1) :
                 InsertAt(s, q, e)[i] = IF i < q THEN s[i]
                                        ELSE IF i = q THEN e ELSE s[i - 1]
<1> DEFINE a == SubSeq(s, 1, q - 1)
           b == SubSeq(s, q, Len(s))
<1>1. /\ a \in Seq(S) /\ Len(a) = q - 1
      /\ \A i \in 1..(q - 1) : a[i] = s[i]
  BY SubSeqProperties
<1>2. /\ b \in Seq(S) /\ Len(b) = Len(s) + 1 - q
      /\ \A i \in 1..(Len(s) + 1 - q) : b[i] = s[q + i - 1]
  BY SubSeqProperties
<1>3. /\ <<e>> \in Seq(S) /\ Len(<<e>>) = 1 /\ <<e>>[1] = e
  OBVIOUS
<1>4. /\ a \o <<e>> \in Seq(S) /\ Len(a \o <<e>>) = q
      /\ \A i \in 1..q : (a \o <<e>>)[i] = IF i < q THEN s[i] ELSE e
  BY <1>1, <1>3, ConcatProperties
<1>5. InsertAt(s, q, e) = (a \o <<e>>) \o b
  BY DEF InsertAt
<1> HIDE DEF a, b
<1> QED
  BY <1>2, <1>4, <1>5, ConcatProperties

(* Cutting out positions p to q - 1 moves the rest forward. *)
LEMMA CutElements ==
    ASSUME NEW S, NEW s \in Seq(S),
           NEW p \in 1..(Len(s) + 1), NEW q \in p..(Len(s) + 1)
    PROVE  /\ SubSeq(s, 1, p - 1) \o SubSeq(s, q, Len(s)) \in Seq(S)
           /\ Len(SubSeq(s, 1, p - 1) \o SubSeq(s, q, Len(s)))
                 = Len(s) - (q - p)
           /\ \A i \in 1..(Len(s) - (q - p)) :
                 (SubSeq(s, 1, p - 1) \o SubSeq(s, q, Len(s)))[i]
                    = IF i < p THEN s[i] ELSE s[i + (q - p)]
<1> DEFINE a == SubSeq(s, 1, p - 1)
           b == SubSeq(s, q, Len(s))
<1>1. /\ a \in Seq(S) /\ Len(a) = p - 1
      /\ \A i \in 1..(p - 1) : a[i] = s[i]
  BY SubSeqProperties
<1>2. /\ b \in Seq(S) /\ Len(b) = Len(s) + 1 - q
      /\ \A i \in 1..(Len(s) + 1 - q) : b[i] = s[q + i - 1]
  BY SubSeqProperties
<1> HIDE DEF a, b
<1>3. /\ a \o b \in Seq(S) /\ Len(a \o b) = Len(a) + Len(b)
      /\ \A i \in 1..(Len(a) + Len(b)) :
            (a \o b)[i] = IF i <= Len(a) THEN a[i] ELSE b[i - Len(a)]
  BY <1>1, <1>2, ConcatProperties
<1>4. Len(a \o b) = Len(s) - (q - p)
  BY <1>1, <1>2, <1>3
<1>5. ASSUME NEW i \in 1..Len(a \o b)
      PROVE  (a \o b)[i] = IF i < p THEN s[i] ELSE s[i + (q - p)]
  <2>1. CASE i < p
    BY <1>1, <1>3, <1>4, <2>1
  <2>2. CASE i >= p
    <3>1. i - (p - 1) \in 1..(Len(s) + 1 - q)
      BY <1>4, <2>2
    <3>2. (a \o b)[i] = b[i - (p - 1)]
      BY <1>1, <1>2, <1>3, <1>4, <2>2, SMTT(40)
    <3>3. b[i - (p - 1)] = s[q + (i - (p - 1)) - 1]
      BY <1>2, <3>1
    <3>4. q + (i - (p - 1)) - 1 = i + (q - p)
      BY <1>4
    <3> QED
      BY <2>2, <3>2, <3>3, <3>4
  <2> QED
    BY <1>4, <2>1, <2>2
<1> QED
  BY <1>3, <1>4, <1>5 DEF a, b

(* Removing one element is the shortest cut. *)
LEMMA RemoveAtElements ==
    ASSUME NEW S, NEW s \in Seq(S), NEW p \in 1..Len(s)
    PROVE  /\ RemoveAt(s, p) \in Seq(S)
           /\ Len(RemoveAt(s, p)) = Len(s) - 1
           /\ \A i \in 1..(Len(s) - 1) :
                 RemoveAt(s, p)[i] = IF i < p THEN s[i] ELSE s[i + 1]
<1> DEFINE c == SubSeq(s, 1, p - 1) \o SubSeq(s, p + 1, Len(s))
<1>1. p + 1 \in p..(Len(s) + 1) /\ p \in 1..(Len(s) + 1)
  OBVIOUS
<1>2. /\ c \in Seq(S)
      /\ Len(c) = Len(s) - ((p + 1) - p)
      /\ \A i \in 1..(Len(s) - ((p + 1) - p)) :
            c[i] = IF i < p THEN s[i] ELSE s[i + ((p + 1) - p)]
  BY <1>1, CutElements
<1>3. RemoveAt(s, p) = c
  BY DEF RemoveAt
<1>4. (p + 1) - p = 1
  OBVIOUS
<1> HIDE DEF c
<1> QED
  BY <1>2, <1>3, <1>4

(* The part that was cut out, put in front of another sequence. *)
LEMMA PrependCut ==
    ASSUME NEW S, NEW s \in Seq(S), NEW t \in Seq(S),
           NEW p \in 1..(Len(s) + 1), NEW q \in p..(Len(s) + 1)
    PROVE  /\ SubSeq(s, p, q - 1) \in Seq(S)
           /\ Len(SubSeq(s, p, q - 1)) = q - p
           /\ SubSeq(s, p, q - 1) \o t \in Seq(S)
           /\ Len(SubSeq(s, p, q - 1) \o t) = (q - p) + Len(t)
<1>1. /\ SubSeq(s, p, q - 1) \in Seq(S)
      /\ Len(SubSeq(s, p, q - 1)) = q - p
  BY SubSeqProperties
<1> QED
  BY <1>1, ConcatProperties

----------------------------------------------------------------------------
(* The same operations, seen as changes of the set of elements. *)

LEMMA SetOfSeq ==
    ASSUME NEW S, NEW s \in Seq(S)
    PROVE  /\ Len(s) \in Nat /\ DOMAIN s = 1..Len(s)
           /\ ToSet(s) = {s[i] : i \in 1..Len(s)}
           /\ ToSet(s) \subseteq S
           /\ IsInjective(s)
                 <=> \A i, j \in 1..Len(s) : s[i] = s[j] => i = j
<1>1. Len(s) \in Nat /\ DOMAIN s = 1..Len(s)
  BY LenProperties
<1>2. \A i \in 1..Len(s) : s[i] \in S
  BY ElementOfSeq
<1> QED
  BY <1>1, <1>2 DEF ToSet, IsInjective

LEMMA InsertAtSet ==
    ASSUME NEW S, NEW s \in Seq(S), NEW e \in S, NEW q \in 1..(Len(s) + 1)
    PROVE  /\ ToSet(InsertAt(s, q, e)) = ToSet(s) \cup {e}
           /\ IsInjective(s) /\ e \notin ToSet(s) =>
                 IsInjective(InsertAt(s, q, e))
<1> DEFINE r == InsertAt(s, q, e)
<1>1. /\ r \in Seq(S) /\ Len(r) = Len(s) + 1
      /\ \A i \in 1..(Len(s) + 1) :
            r[i] = IF i < q THEN s[i] ELSE IF i = q THEN e ELSE s[i - 1]
  BY InsertAtElements
<1> HIDE DEF r
<1>2. /\ Len(s) \in Nat
      /\ ToSet(s) = {s[i] : i \in 1..Len(s)}
      /\ IsInjective(s) <=> \A i, j \in 1..Len(s) : s[i] = s[j] => i = j
  BY SetOfSeq
<1>3. /\ ToSet(r) = {r[i] : i \in 1..Len(r)}
      /\ IsInjective(r) <=> \A i, j \in 1..Len(r) : r[i] = r[j] => i = j
  BY <1>1, SetOfSeq
<1>4. ToSet(r) \subseteq ToSet(s) \cup {e}
  <2>1. ASSUME NEW i \in 1..Len(r)
        PROVE  r[i] \in ToSet(s) \cup {e}
    <3>1. CASE i < q
      BY <1>1, <1>2, <3>1
    <3>2. CASE i = q
      BY <1>1, <1>2, <3>2
    <3>3. CASE i > q
      <4>1. i - 1 \in 1..Len(s) /\ r[i] = s[i - 1]
        BY <1>1, <1>2, <3>3
      <4> QED
        BY <1>2, <4>1
    <3> QED
      BY <1>1, <1>2, <3>1, <3>2, <3>3
  <2> QED
    BY <1>3, <2>1
<1>5. ToSet(s) \cup {e} \subseteq ToSet(r)
  <2>1. ASSUME NEW i \in 1..Len(s)
        PROVE  s[i] \in ToSet(r)
    <3>1. CASE i < q
      BY <1>1, <1>2, <1>3, <3>1
    <3>2. CASE i >= q
      <4>1. i + 1 \in 1..Len(r) /\ r[i + 1] = s[(i + 1) - 1]
        BY <1>1, <1>2, <3>2
      <4>2. (i + 1) - 1 = i
        OBVIOUS
      <4> QED
        BY <1>3, <4>1, <4>2
    <3> QED
      BY <1>2, <3>1, <3>2
  <2>2. q \in 1..Len(r) /\ r[q] = e
    BY <1>1, <1>2
  <2> QED
    BY <1>2, <1>3, <2>1, <2>2, ZenonT(60)
<1>6. ASSUME IsInjective(s), e \notin ToSet(s)
      PROVE  IsInjective(r)
  <2>1. ASSUME NEW i \in 1..Len(r), NEW j \in 1..Len(r), i < j
        PROVE  r[i] # r[j]
    <3>1. CASE j < q
      <4>1. i \in 1..Len(s) /\ j \in 1..Len(s) /\ r[i] = s[i] /\ r[j] = s[j]
        BY <1>1, <1>2, <2>1, <3>1
      <4> QED
        BY <1>2, <1>6, <2>1, <4>1
    <3>2. CASE j = q
      <4>1. i \in 1..Len(s) /\ r[i] = s[i] /\ r[j] = e
        BY <1>1, <1>2, <2>1, <3>2
      <4> QED
        BY <1>2, <1>6, <4>1
    <3>3. CASE j > q /\ i < q
      <4>1. /\ i \in 1..Len(s) /\ j - 1 \in 1..Len(s) /\ i # j - 1
            /\ r[i] = s[i] /\ r[j] = s[j - 1]
        BY <1>1, <1>2, <2>1, <3>3
      <4> QED
        BY <1>2, <1>6, <4>1
    <3>4. CASE j > q /\ i = q
      <4>1. j - 1 \in 1..Len(s) /\ r[i] = e /\ r[j] = s[j - 1]
        BY <1>1, <1>2, <2>1, <3>4
      <4> QED
        BY <1>2, <1>6, <4>1
    <3>5. CASE j > q /\ i > q
      <4>1. /\ i - 1 \in 1..Len(s) /\ j - 1 \in 1..Len(s) /\ i - 1 # j - 1
            /\ r[i] = s[i - 1] /\ r[j] = s[j - 1]
        BY <1>1, <1>2, <2>1, <3>5
      <4> QED
        BY <1>2, <1>6, <4>1
    <3> QED
      BY <1>1, <1>2, <3>1, <3>2, <3>3, <3>4, <3>5
  <2>2. \A i, j \in 1..Len(r) : i < j \/ i = j \/ j < i
    BY <1>1, <1>2
  <2> QED
    BY <1>3, <2>1, <2>2
<1> QED
  BY <1>4, <1>5, <1>6 DEF r

(* A cut takes away exactly the elements of the part that was cut out. *)
LEMMA CutSet ==
    ASSUME NEW S, NEW s \in Seq(S), IsInjective(s),
           NEW p \in 1..(Len(s) + 1), NEW q \in p..(Len(s) + 1)
    PROVE  /\ ToSet(SubSeq(s, p, q - 1)) = {s[i] : i \in p..(q - 1)}
           /\ ToSet(SubSeq(s, 1, p - 1) \o SubSeq(s, q, Len(s)))
                 = ToSet(s) \ ToSet(SubSeq(s, p, q - 1))
           /\ IsInjective(SubSeq(s, 1, p - 1) \o SubSeq(s, q, Len(s)))
           /\ IsInjective(SubSeq(s, p, q - 1))
<1> DEFINE r == SubSeq(s, 1, p - 1) \o SubSeq(s, q, Len(s))
           c == SubSeq(s, p, q - 1)
<1>1. /\ r \in Seq(S) /\ Len(r) = Len(s) - (q - p)
      /\ \A i \in 1..(Len(s) - (q - p)) :
            r[i] = IF i < p THEN s[i] ELSE s[i + (q - p)]
  BY CutElements
<1>c. /\ c \in Seq(S) /\ Len(c) = q - p
      /\ \A i \in 1..(q - p) : c[i] = s[p + i - 1]
  BY SubSeqProperties
<1> HIDE DEF r, c
<1>2. /\ Len(s) \in Nat
      /\ ToSet(s) = {s[i] : i \in 1..Len(s)}
      /\ \A i, j \in 1..Len(s) : s[i] = s[j] => i = j
  BY SetOfSeq
<1>3. /\ ToSet(r) = {r[i] : i \in 1..Len(r)}
      /\ IsInjective(r) <=> \A i, j \in 1..Len(r) : r[i] = r[j] => i = j
  BY <1>1, SetOfSeq
<1>5. /\ ToSet(c) = {c[i] : i \in 1..Len(c)}
      /\ IsInjective(c) <=> \A i, j \in 1..Len(c) : c[i] = c[j] => i = j
  BY <1>c, SetOfSeq
<1>6. ToSet(c) = {s[i] : i \in p..(q - 1)}
  <2>1. ASSUME NEW i \in 1..Len(c)
        PROVE  p + i - 1 \in p..(q - 1) /\ c[i] = s[p + i - 1]
    BY <1>c
  <2>2. ASSUME NEW i \in p..(q - 1)
        PROVE  i - p + 1 \in 1..Len(c) /\ c[i - p + 1] = s[i]
    <3>1. i - p + 1 \in 1..Len(c) /\ c[i - p + 1] = s[p + (i - p + 1) - 1]
      BY <1>c
    <3>2. p + (i - p + 1) - 1 = i
      OBVIOUS
    <3> QED
      BY <3>1, <3>2
  <2>3. ToSet(c) \subseteq {s[i] : i \in p..(q - 1)}
    BY <1>5, <2>1
  <2>4. {s[i] : i \in p..(q - 1)} \subseteq ToSet(c)
    BY <1>5, <2>2
  <2> QED
    BY <2>3, <2>4
<1>7. IsInjective(c)
  <2>1. ASSUME NEW i \in 1..Len(c), NEW j \in 1..Len(c), c[i] = c[j]
        PROVE  i = j
    <3>1. /\ p + i - 1 \in 1..Len(s) /\ p + j - 1 \in 1..Len(s)
          /\ c[i] = s[p + i - 1] /\ c[j] = s[p + j - 1]
      BY <1>2, <1>c
    <3>2. p + i - 1 = p + j - 1
      BY <1>2, <2>1, <3>1
    <3> QED
      BY <3>2
  <2> QED
    BY <1>5, <2>1
<1>8. ToSet(r) \subseteq ToSet(s) \ ToSet(c)
  <2>1. ASSUME NEW i \in 1..Len(r)
        PROVE  \E k \in 1..Len(s) : r[i] = s[k] /\ k \notin p..(q - 1)
    <3>1. CASE i < p
      BY <1>1, <1>2, <3>1
    <3>2. CASE i >= p
      <4>1. /\ i + (q - p) \in 1..Len(s) /\ r[i] = s[i + (q - p)]
            /\ i + (q - p) \notin p..(q - 1)
        BY <1>1, <1>2, <3>2
      <4> QED
        BY <4>1
    <3> QED
      BY <1>1, <1>2, <3>1, <3>2
  <2>2. ASSUME NEW k \in 1..Len(s), k \notin p..(q - 1)
        PROVE  s[k] \in ToSet(s) \ ToSet(c)
    <3>1. \A i \in p..(q - 1) : i \in 1..Len(s)
      BY <1>2
    <3> QED
      BY <1>2, <1>6, <2>2, <3>1
  <2> QED
    BY <1>3, <2>1, <2>2, SMTT(40)
<1>9. ToSet(s) \ ToSet(c) \subseteq ToSet(r)
  <2>1. ASSUME NEW k \in 1..Len(s), k \notin p..(q - 1)
        PROVE  s[k] \in ToSet(r)
    <3>1. CASE k < p
      BY <1>1, <1>2, <1>3, <3>1
    <3>2. CASE k >= q
      <4>1. /\ k - (q - p) \in 1..Len(r)
            /\ r[k - (q - p)] = s[(k - (q - p)) + (q - p)]
        BY <1>1, <1>2, <3>2
      <4>2. (k - (q - p)) + (q - p) = k
        OBVIOUS
      <4> QED
        BY <1>3, <4>1, <4>2
    <3> QED
      BY <1>2, <2>1, <3>1, <3>2
  <2> QED
    BY <1>2, <1>6, <2>1
<1>10. IsInjective(r)
  <2>1. ASSUME NEW i \in 1..Len(r), NEW j \in 1..Len(r), i < j
        PROVE  r[i] # r[j]
    <3>1. CASE j < p
      <4>1. i < p /\ i \in 1..Len(s) /\ j \in 1..Len(s)
        BY <1>1, <1>2, <2>1, <3>1
      <4>2. r[i] = s[i] /\ r[j] = s[j]
        BY <1>1, <3>1, <4>1
      <4> QED
        BY <1>2, <2>1, <4>1, <4>2
    <3>2. CASE i < p /\ j >= p
      <4>1. /\ i \in 1..Len(s) /\ j + (q - p) \in 1..Len(s)
            /\ i # j + (q - p)
            /\ r[i] = s[i] /\ r[j] = s[j + (q - p)]
        BY <1>1, <1>2, <2>1, <3>2
      <4> QED
        BY <1>2, <4>1
    <3>3. CASE i >= p
      <4>1. /\ i + (q - p) \in 1..Len(s) /\ j + (q - p) \in 1..Len(s)
            /\ i + (q - p) # j + (q - p)
            /\ r[i] = s[i + (q - p)] /\ r[j] = s[j + (q - p)]
        BY <1>1, <1>2, <2>1, <3>3
      <4> QED
        BY <1>2, <4>1
    <3> QED
      BY <1>1, <1>2, <3>1, <3>2, <3>3
  <2>2. \A i, j \in 1..Len(r) : i < j \/ i = j \/ j < i
    BY <1>1, <1>2
  <2> QED
    BY <1>3, <2>1, <2>2
<1> QED
  BY <1>6, <1>7, <1>8, <1>9, <1>10 DEF r, c

(* Removing one position takes one element away. *)
LEMMA RemoveAtSet ==
    ASSUME NEW S, NEW s \in Seq(S), IsInjective(s), NEW p \in 1..Len(s)
    PROVE  /\ ToSet(RemoveAt(s, p)) = ToSet(s) \ {s[p]}
           /\ IsInjective(RemoveAt(s, p))
<1> DEFINE r == RemoveAt(s, p)
           c == SubSeq(s, p, (p + 1) - 1)
<1>1. r = SubSeq(s, 1, p - 1) \o SubSeq(s, p + 1, Len(s))
  BY DEF RemoveAt
<1>2. p \in 1..(Len(s) + 1) /\ p + 1 \in p..(Len(s) + 1)
  OBVIOUS
<1> HIDE DEF r
<1>3. /\ ToSet(c) = {s[i] : i \in p..((p + 1) - 1)}
      /\ ToSet(r) = ToSet(s) \ ToSet(c)
      /\ IsInjective(r)
  BY <1>1, <1>2, CutSet
<1> HIDE DEF c
<1>4. p..((p + 1) - 1) = {p}
  OBVIOUS
<1> QED
  BY <1>3, <1>4 DEF r

LEMMA ConcatSet ==
    ASSUME NEW S, NEW s \in Seq(S), NEW t \in Seq(S)
    PROVE  /\ ToSet(s \o t) = ToSet(s) \cup ToSet(t)
           /\ /\ IsInjective(s) /\ IsInjective(t)
              /\ ToSet(s) \cap ToSet(t) = {}
              => IsInjective(s \o t)
<1> DEFINE r == s \o t
<1>1. /\ r \in Seq(S) /\ Len(r) = Len(s) + Len(t)
      /\ \A i \in 1..(Len(s) + Len(t)) :
            r[i] = IF i <= Len(s) THEN s[i] ELSE t[i - Len(s)]
  BY ConcatProperties
<1> HIDE DEF r
<1>2. /\ Len(s) \in Nat /\ Len(t) \in Nat
      /\ ToSet(s) = {s[i] : i \in 1..Len(s)}
      /\ ToSet(t) = {t[i] : i \in 1..Len(t)}
      /\ IsInjective(s) <=> \A i, j \in 1..Len(s) : s[i] = s[j] => i = j
      /\ IsInjective(t) <=> \A i, j \in 1..Len(t) : t[i] = t[j] => i = j
  BY SetOfSeq
<1>3. /\ ToSet(r) = {r[i] : i \in 1..Len(r)}
      /\ IsInjective(r) <=> \A i, j \in 1..Len(r) : r[i] = r[j] => i = j
  BY <1>1, SetOfSeq
<1>4. ASSUME NEW i \in 1..Len(r), i > Len(s)
      PROVE  i - Len(s) \in 1..Len(t) /\ r[i] = t[i - Len(s)]
  BY <1>1, <1>2, <1>4
<1>5. ASSUME NEW i \in 1..Len(r), i <= Len(s)
      PROVE  i \in 1..Len(s) /\ r[i] = s[i]
  BY <1>1, <1>2, <1>5
<1>6. \A i \in 1..Len(r) : i > Len(s) \/ i <= Len(s)
  BY <1>1, <1>2
<1>7. ToSet(r) \subseteq ToSet(s) \cup ToSet(t)
  <2>1. ASSUME NEW i \in 1..Len(r)
        PROVE  r[i] \in ToSet(s) \cup ToSet(t)
    <3>1. CASE i > Len(s)
      BY <1>2, <1>4, <3>1, SMTT(40)
    <3>2. CASE i <= Len(s)
      BY <1>2, <1>5, <3>2
    <3> QED
      BY <1>6, <3>1, <3>2
  <2> QED
    BY <1>3, <2>1
<1>8. ToSet(s) \subseteq ToSet(r)
  <2>1. ASSUME NEW i \in 1..Len(s)
        PROVE  i \in 1..Len(r) /\ r[i] = s[i]
    BY <1>1, <1>2
  <2> QED
    BY <1>2, <1>3, <2>1
<1>9. ToSet(t) \subseteq ToSet(r)
  <2>1. ASSUME NEW i \in 1..Len(t)
        PROVE  i + Len(s) \in 1..Len(r) /\ r[i + Len(s)] = t[i]
    <3>1. /\ i + Len(s) \in 1..Len(r)
          /\ r[i + Len(s)] = t[(i + Len(s)) - Len(s)]
      BY <1>1, <1>2
    <3>2. (i + Len(s)) - Len(s) = i
      BY <1>2
    <3> QED
      BY <3>1, <3>2
  <2> QED
    BY <1>2, <1>3, <2>1
<1>10. ASSUME IsInjective(s), IsInjective(t), ToSet(s) \cap ToSet(t) = {}
       PROVE  IsInjective(r)
  <2>1. ASSUME NEW i \in 1..Len(r), NEW j \in 1..Len(r), r[i] = r[j]
        PROVE  i = j
    <3>1. CASE i <= Len(s) /\ j <= Len(s)
      BY <1>2, <1>5, <1>10, <2>1, <3>1
    <3>2. CASE i > Len(s) /\ j > Len(s)
      <4>1. i - Len(s) = j - Len(s)
        BY <1>2, <1>4, <1>10, <2>1, <3>2
      <4> QED
        BY <1>1, <1>2, <4>1
    <3>3. CASE i <= Len(s) /\ j > Len(s)
      <4>1. r[i] \in ToSet(s) /\ r[j] \in ToSet(t)
        BY <1>2, <1>4, <1>5, <3>3, SMTT(40)
      <4> QED
        BY <1>10, <2>1, <4>1
    <3>4. CASE i > Len(s) /\ j <= Len(s)
      <4>1. r[i] \in ToSet(t) /\ r[j] \in ToSet(s)
        BY <1>2, <1>4, <1>5, <3>4
      <4> QED
        BY <1>10, <2>1, <4>1
    <3> QED
      BY <1>6, <3>1, <3>2, <3>3, <3>4
  <2> QED
    BY <1>3, <2>1
<1> QED
  BY <1>7, <1>8, <1>9, <1>10 DEF r

LEMMA AppendSet ==
    ASSUME NEW S, NEW s \in Seq(S), NEW e \in S
    PROVE  /\ ToSet(Append(s, e)) = ToSet(s) \cup {e}
           /\ IsInjective(s) /\ e \notin ToSet(s) =>
                 IsInjective(Append(s, e))
<1> DEFINE t == <<e>>
<1>1. Append(s, e) = s \o t /\ t \in Seq(S)
  BY AppendIsConcat
<1>2. ToSet(t) = {e} /\ IsInjective(t)
  <2>1. DOMAIN t = {1} /\ t[1] = e
    OBVIOUS
  <2> QED
    BY <2>1, Zenon DEF ToSet, IsInjective
<1> HIDE DEF t
<1>3. /\ ToSet(s \o t) = ToSet(s) \cup ToSet(t)
      /\ /\ IsInjective(s) /\ IsInjective(t)
         /\ ToSet(s) \cap ToSet(t) = {}
         => IsInjective(s \o t)
  BY <1>1, ConcatSet
<1>4. e \notin ToSet(s) => ToSet(s) \cap ToSet(t) = {}
  BY <1>2
<1> QED
  BY <1>1, <1>2, <1>3, <1>4, Zenon

LEMMA TailSet ==
    ASSUME NEW S, NEW s \in Seq(S), s # <<>>
    PROVE  /\ Head(s) \in ToSet(s)
           /\ IsInjective(s) => /\ ToSet(Tail(s)) = ToSet(s) \ {Head(s)}
                                /\ IsInjective(Tail(s))
<1>1. 1 \in 1..Len(s) /\ Head(s) = s[1]
  BY EmptySeq, LenProperties
<1>2. Head(s) \in ToSet(s)
  BY <1>1, SetOfSeq
<1>3. ASSUME IsInjective(s)
      PROVE  ToSet(Tail(s)) = ToSet(s) \ {Head(s)} /\ IsInjective(Tail(s))
  <2>1. Tail(s) = RemoveAt(s, 1)
    <3>1. RemoveAt(s, 1) = SubSeq(s, 1, 0) \o SubSeq(s, 2, Len(s))
      BY DEF RemoveAt
    <3>2. SubSeq(s, 1, 0) = <<>>
      BY SubSeqEmpty
    <3>3. Tail(s) = SubSeq(s, 2, Len(s)) /\ Tail(s) \in Seq(S)
      BY TailIsSubSeq, HeadTailProperties
    <3> QED
      BY <3>1, <3>2, <3>3, ConcatEmptySeq
  <2> QED
    BY <1>1, <1>3, <2>1, RemoveAtSet
<1> QED
  BY <1>2, <1>3

(* Moving one element to the end keeps the set of elements. *)
LEMMA RotateSet ==
    ASSUME NEW S, NEW s \in Seq(S), IsInjective(s), NEW p \in 1..Len(s)
    PROVE  /\ ToSet(Append(RemoveAt(s, p), s[p])) = ToSet(s)
           /\ IsInjective(Append(RemoveAt(s, p), s[p]))
<1> DEFINE r == RemoveAt(s, p)
           e == s[p]
<1>1. r \in Seq(S)
  BY RemoveAtElements
<1>2. e \in S /\ e \in ToSet(s)
  BY ElementOfSeq, SetOfSeq
<1>3. ToSet(r) = ToSet(s) \ {e} /\ IsInjective(r)
  BY RemoveAtSet
<1> HIDE DEF r, e
<1>4. /\ ToSet(Append(r, e)) = ToSet(r) \cup {e}
      /\ IsInjective(r) /\ e \notin ToSet(r) => IsInjective(Append(r, e))
  BY <1>1, <1>2, AppendSet
<1>5. ToSet(Append(r, e)) = ToSet(s) /\ IsInjective(Append(r, e))
  BY <1>2, <1>3, <1>4
<1> QED
  BY <1>5 DEF r, e

(* An injective sequence holds each of its elements at one position. *)
LEMMA OnePosition ==
    ASSUME NEW S, NEW s \in Seq(S), IsInjective(s), NEW x
    PROVE  Cardinality({i \in 1..Len(s) : s[i] = x})
              = IF x \in ToSet(s) THEN 1 ELSE 0
<1>1. /\ ToSet(s) = {s[i] : i \in 1..Len(s)}
      /\ \A i, j \in 1..Len(s) : s[i] = s[j] => i = j
  BY SetOfSeq
<1>2. CASE x \in ToSet(s)
  <2>1. PICK i \in 1..Len(s) : s[i] = x
    BY <1>1, <1>2
  <2>2. {j \in 1..Len(s) : s[j] = x} = {i}
    BY <1>1, <2>1
  <2> QED
    BY <1>2, <2>2, FS_Singleton
<1>3. CASE x \notin ToSet(s)
  <2>1. {j \in 1..Len(s) : s[j] = x} = {}
    BY <1>1, <1>3
  <2> QED
    BY <1>3, <2>1, FS_EmptySet
<1> QED
  BY <1>2, <1>3

(* A list that grows at its end has the old one as a prefix. *)
LEMMA PrefixOfAppend ==
    ASSUME NEW S, NEW s \in Seq(S), NEW e \in S
    PROVE  IsPrefix(s, s) /\ IsPrefix(s, Append(s, e))
<1> DEFINE r == Append(s, e)
<1>1. /\ r \in Seq(S) /\ Len(r) = Len(s) + 1 /\ Len(s) \in Nat
      /\ \A i \in 1..Len(s) : r[i] = s[i]
  BY AppendProperties, LenProperties
<1> HIDE DEF r
<1>2. SubSeq(s, 1, Len(s)) = s
  BY SubSeqFull
<1>3. /\ SubSeq(r, 1, Len(s)) \in Seq(S)
      /\ Len(SubSeq(r, 1, Len(s))) = Len(s)
      /\ \A i \in 1..Len(s) : SubSeq(r, 1, Len(s))[i] = s[i]
  <2>1. \A i \in 1..Len(s) : r[i] \in S
    BY <1>1, ElementOfSeq
  <2>2. /\ SubSeq(r, 1, Len(s)) \in Seq(S)
        /\ Len(SubSeq(r, 1, Len(s)))
              = IF 1 <= Len(s) THEN Len(s) - 1 + 1 ELSE 0
        /\ \A i \in 1..(Len(s) - 1 + 1) :
              SubSeq(r, 1, Len(s))[i] = r[1 + i - 1]
    BY <1>1, <2>1, SubSeqProperties
  <2>3. \A i \in 1..Len(s) : i \in 1..(Len(s) - 1 + 1) /\ 1 + i - 1 = i
    BY <1>1
  <2> QED
    BY <1>1, <2>2, <2>3
<1>4. SubSeq(r, 1, Len(s)) = s
  BY <1>3, SeqEqual
<1> QED
  BY <1>1, <1>2, <1>4 DEF IsPrefix, r

(* Taking the head of the first part takes the head of the whole. *)
LEMMA TailOfConcat ==
    ASSUME NEW S, NEW s \in Seq(S), NEW t \in Seq(S), s # <<>>
    PROVE  s \o t # <<>> /\ Tail(s \o t) = Tail(s) \o t
<1> DEFINE r == s \o t
           a == Tail(s)
<1>1. /\ r \in Seq(S) /\ Len(r) = Len(s) + Len(t)
      /\ \A i \in 1..(Len(s) + Len(t)) :
            r[i] = IF i <= Len(s) THEN s[i] ELSE t[i - Len(s)]
  BY ConcatProperties
<1>2. /\ a \in Seq(S) /\ Len(a) = Len(s) - 1
      /\ \A i \in 1..Len(a) : a[i] = s[i + 1]
  BY HeadTailProperties
<1>3. Len(s) \in Nat \ {0} /\ Len(t) \in Nat
  BY LenProperties, EmptySeq
<1>4. r # <<>>
  BY <1>1, <1>3, EmptySeq
<1> HIDE DEF r, a
<1>5. /\ Tail(r) \in Seq(S) /\ Len(Tail(r)) = Len(r) - 1
      /\ \A i \in 1..Len(Tail(r)) : Tail(r)[i] = r[i + 1]
  BY <1>1, <1>4, HeadTailProperties
<1>6. /\ a \o t \in Seq(S) /\ Len(a \o t) = Len(a) + Len(t)
      /\ \A i \in 1..(Len(a) + Len(t)) :
            (a \o t)[i] = IF i <= Len(a) THEN a[i] ELSE t[i - Len(a)]
  BY <1>2, ConcatProperties
<1>7. Len(Tail(r)) = Len(a \o t)
  BY <1>1, <1>2, <1>3, <1>5, <1>6
<1>8. ASSUME NEW i \in 1..Len(Tail(r))
      PROVE  Tail(r)[i] = (a \o t)[i]
  <2>1. /\ Tail(r)[i] = r[i + 1] /\ i + 1 \in 1..(Len(s) + Len(t))
        /\ i \in 1..(Len(a) + Len(t)) /\ i \in Nat
    BY <1>1, <1>2, <1>3, <1>5
  <2>2. CASE i + 1 <= Len(s)
    <3>1. i \in 1..Len(a)
      BY <1>2, <1>3, <2>1, <2>2
    <3> QED
      BY <1>1, <1>2, <1>6, <2>1, <2>2, <3>1
  <2>3. CASE i + 1 > Len(s)
    <3>1. ~ (i <= Len(a)) /\ i - Len(a) = (i + 1) - Len(s)
      BY <1>2, <1>3, <2>1, <2>3, SMTT(40)
    <3>2. r[i + 1] = t[(i + 1) - Len(s)]
      BY <1>1, <1>3, <2>1, <2>3
    <3> QED
      BY <1>6, <2>1, <3>1, <3>2
  <2> QED
    BY <1>3, <2>1, <2>2, <2>3
<1>9. Tail(r) = a \o t
  BY <1>5, <1>6, <1>7, <1>8, SeqEqual
<1> QED
  BY <1>4, <1>9 DEF r, a

----------------------------------------------------------------------------
(* A smallest number exists. *)
LEMMA MinIsMember ==
    ASSUME NEW T \in SUBSET Nat, T # {}
    PROVE  Min(T) \in T /\ \A n \in T : Min(T) <= n
<1> DEFINE R == OpToRel(<, Nat)
<1>1. IsWellFoundedOn(R, Nat)
  BY NatLessThanWellFounded
<1>2. \A x, y \in Nat : x < y => <<x, y>> \in R
  BY DEF OpToRel
<1> HIDE DEF R
<1>3. PICK x \in T : \A y \in T : ~(<<y, x>> \in R)
  BY <1>1, WFMin
<1>4. \A y \in T : ~(y < x)
  BY <1>2, <1>3
<1>5. \A y \in T : x <= y
  BY <1>4
<1> QED
  BY <1>5 DEF Min

(* A set of subsets of S, of which one is wrong, has a smallest such. *)
LEMMA SmallestSubset ==
    ASSUME NEW S, IsFiniteSet(S), NEW Bad \in SUBSET SUBSET S, Bad # {}
    PROVE  \E T \in Bad : \A U \in SUBSET T : U # T => U \notin Bad
<1>1. IsWellFoundedOn(StrictSubsetOrdering(S), SUBSET S)
  BY FS_StrictSubsetOrderingWellFounded, FS_FiniteSubsetsOfFinite
<1>2. PICK T \in Bad : \A U \in Bad : ~(<<U, T>> \in StrictSubsetOrdering(S))
  <2> DEFINE R == StrictSubsetOrdering(S)
             A == SUBSET S
  <2>1. IsWellFoundedOn(R, A) /\ Bad \subseteq A
    BY <1>1
  <2> HIDE DEF R, A
  <2>2. \E x \in Bad : \A y \in Bad : ~(<<y, x>> \in R)
    BY <2>1, WFMin
  <2> QED
    BY <2>2 DEF R
<1>3. ASSUME NEW U \in SUBSET T, U # T
      PROVE  U \notin Bad
  BY <1>2, <1>3 DEF StrictSubsetOrdering
<1> QED
  BY <1>3

----------------------------------------------------------------------------
(* h is defined by recursion on the subsets of S: it starts from b, and goes
   from s without its element c[s] to s with G. *)
Recursive(h, S, b, c, G) ==
    \A s \in SUBSET S :
        h[s] = IF s = {} THEN b ELSE G[<<s, h[s \ {c[s]}]>>]

(* c takes an element of every set, and G keeps to the values V. *)
Steps(S, V, c, G) ==
    \A s \in SUBSET S : s # {} => /\ c[s] \in s
                                  /\ \A v \in V : G[<<s, v>>] \in V

(* Two such functions agree wherever both are defined. *)
LEMMA RecursionAgrees ==
    ASSUME NEW S, IsFiniteSet(S), NEW V, NEW b, NEW c, NEW G,
           Steps(S, V, c, G),
           NEW T \in SUBSET S, NEW U \in SUBSET S,
           NEW h, Recursive(h, T, b, c, G), NEW k, Recursive(k, U, b, c, G),
           NEW W, W \subseteq T, W \subseteq U
    PROVE  h[W] = k[W]
<1> DEFINE Bad == {X \in SUBSET W : h[X] # k[X]}
<1> SUFFICES ASSUME Bad # {} PROVE FALSE
  OBVIOUS
<1>u. IsFiniteSet(W)
  BY FS_Subset
<1>1. PICK X \in Bad : \A Y \in SUBSET X : Y # X => Y \notin Bad
  <2> Bad \in SUBSET SUBSET W
    OBVIOUS
  <2> HIDE DEF Bad
  <2> QED
    BY <1>u, SmallestSubset
<1>2. /\ X \in SUBSET W /\ X \in SUBSET S /\ h[X] # k[X]
      /\ X \in SUBSET T /\ X \in SUBSET U
  OBVIOUS
<1> DEFINE Y == X \ {c[X]}
<1>h. h[X] = IF X = {} THEN b ELSE G[<<X, h[Y]>>]
  BY <1>2 DEF Recursive
<1>k. k[X] = IF X = {} THEN b ELSE G[<<X, k[Y]>>]
  BY <1>2 DEF Recursive
<1>3. X # {}
  BY <1>2, <1>h, <1>k
<1>4. Y \in SUBSET X /\ Y # X
  BY <1>2, <1>3 DEF Steps
<1>5. Y \notin Bad /\ Y \in SUBSET W
  BY <1>1, <1>2, <1>4
<1>6. h[Y] = k[Y]
  BY <1>5
<1> QED
  BY <1>2, <1>3, <1>6, <1>h, <1>k

(* There is such a function for every finite set. *)
LEMMA RecursionExists ==
    ASSUME NEW S, IsFiniteSet(S), NEW V, NEW b \in V, NEW c, NEW G,
           Steps(S, V, c, G)
    PROVE  \E h \in [SUBSET S -> V] : Recursive(h, S, b, c, G)
<1> DEFINE Good(T) == \E h \in [SUBSET T -> V] : Recursive(h, T, b, c, G)
           Bad == {T \in SUBSET S : ~Good(T)}
<1> SUFFICES ASSUME Bad # {} PROVE FALSE
  OBVIOUS
<1>1. PICK T \in Bad : \A U \in SUBSET T : U # T => U \notin Bad
  <2> Bad \in SUBSET SUBSET S
    OBVIOUS
  <2> HIDE DEF Bad
  <2> QED
    BY SmallestSubset
<1>2. T \in SUBSET S /\ ~Good(T)
  OBVIOUS
<1> DEFINE H(u) == CHOOSE h : /\ h \in [SUBSET u -> V]
                              /\ Recursive(h, u, b, c, G)
           Value(u) == H(u)[u]
           Less(s) == s \ {c[s]}
           Whole == [s \in SUBSET T |-> IF s = {} THEN b
                                        ELSE G[<<s, Value(Less(s))>>]]
<1>3. ASSUME NEW U \in SUBSET T, U # T
      PROVE  /\ H(U) \in [SUBSET U -> V] /\ Recursive(H(U), U, b, c, G)
             /\ Value(U) \in V /\ U \in SUBSET S
  <2>1. Good(U) /\ U \in SUBSET S
    BY <1>1, <1>2, <1>3
  <2>2. H(U) \in [SUBSET U -> V] /\ Recursive(H(U), U, b, c, G)
    BY <2>1
  <2> QED
    BY <2>1, <2>2
<1>l. ASSUME NEW s \in SUBSET T, s # {}
      PROVE  /\ Less(s) \in SUBSET s /\ Less(s) # s
             /\ Less(s) \in SUBSET T /\ Less(s) # T
  BY <1>2, <1>l DEF Steps
<1>4. ASSUME NEW U \in SUBSET T, U # T
      PROVE  Whole[U] = Value(U)
  <2> HIDE DEF H, Less
  <2>1. Value(U) = IF U = {} THEN b ELSE G[<<U, H(U)[Less(U)]>>]
    BY <1>3, <1>4 DEF Recursive, Less
  <2>2. CASE U = {}
    BY <2>1, <2>2
  <2>3. CASE U # {}
    <3>1. H(U)[Less(U)] = Value(Less(U))
      <4> DEFINE X == Less(U)
      <4>1. /\ X \in SUBSET U /\ X \in SUBSET S /\ U \in SUBSET S
            /\ Recursive(H(U), U, b, c, G) /\ Recursive(H(X), X, b, c, G)
        BY <1>2, <1>3, <1>4, <1>l, <2>3
      <4> HIDE DEF X
      <4>2. H(U)[X] = H(X)[X]
        BY <4>1, RecursionAgrees
      <4> QED
        BY <4>2 DEF X
    <3>2. Whole[U] = G[<<U, Value(Less(U))>>]
      BY <2>3
    <3> QED
      BY <2>1, <2>3, <3>1, <3>2
  <2> QED
    BY <2>2, <2>3
<1> HIDE DEF H, Value, Less
<1>5. ASSUME NEW s \in SUBSET T, s # {}
      PROVE  /\ Value(Less(s)) \in V
             /\ Whole[s] = G[<<s, Whole[Less(s)]>>]
             /\ Whole[s] \in V
  <2>1. Less(s) \in SUBSET T /\ Less(s) # T
    BY <1>l, <1>5
  <2>2. Value(Less(s)) \in V /\ Whole[Less(s)] = Value(Less(s))
    BY <1>3, <1>4, <2>1
  <2>3. Whole[s] = G[<<s, Value(Less(s))>>]
    BY <1>5
  <2>4. G[<<s, Value(Less(s))>>] \in V
    BY <1>2, <1>5, <2>2 DEF Steps
  <2> QED
    BY <2>2, <2>3, <2>4
<1>6. Whole[{}] = b
  OBVIOUS
<1>7. Whole \in [SUBSET T -> V]
  <2>1. \A s \in SUBSET T : Whole[s] \in V
    BY <1>5, <1>6
  <2> QED
    BY <2>1
<1> HIDE DEF Whole
<1>8. Recursive(Whole, T, b, c, G)
  <2>1. ASSUME NEW s \in SUBSET T
        PROVE  Whole[s] = IF s = {} THEN b ELSE G[<<s, Whole[s \ {c[s]}]>>]
    BY <1>5, <1>6 DEF Less
  <2> QED
    BY <2>1 DEF Recursive
<1> QED
  BY <1>2, <1>7, <1>8

----------------------------------------------------------------------------
(* The sum of g[x] for x in S *)
Total(g, S) == MapThenSumSet(LAMBDA x : g[x], S)

(* The element that the sum takes next *)
Pick(s) == CHOOSE x \in s : TRUE

(* h is the function on the subsets of S that MapThenSumSet computes. *)
Sums(h, g, S) ==
    h = [s \in SUBSET S |-> IF s = {} THEN 0
                            ELSE g[Pick(s)] + h[s \ {Pick(s)}]]

LEMMA TotalIsChoice ==
    ASSUME NEW g, NEW S
    PROVE  Total(g, S) = (CHOOSE h : Sums(h, g, S))[S]
  BY DEF Total, MapThenSumSet, MapThenFoldSet, Sums, Pick

LEMMA PickMember ==
    ASSUME NEW s, s # {}
    PROVE  /\ Pick(s) \in s
           /\ s \ {Pick(s)} \in SUBSET s
           /\ s \ {Pick(s)} # s
  BY DEF Pick

(* Two such functions agree wherever both are defined. *)
LEMMA SumsAgree ==
    ASSUME NEW S, IsFiniteSet(S), NEW T, IsFiniteSet(T), NEW g,
           NEW h, Sums(h, g, S), NEW k, Sums(k, g, T),
           NEW U, U \subseteq S, U \subseteq T
    PROVE  h[U] = k[U]
<1> DEFINE Bad == {V \in SUBSET U : h[V] # k[V]}
<1> SUFFICES ASSUME Bad # {} PROVE FALSE
  OBVIOUS
<1>u. IsFiniteSet(U)
  BY FS_Subset
<1>1. PICK V \in Bad : \A W \in SUBSET V : W # V => W \notin Bad
  <2> Bad \in SUBSET SUBSET U
    OBVIOUS
  <2> HIDE DEF Bad
  <2> QED
    BY <1>u, SmallestSubset
<1>2. V \in SUBSET U /\ V \in SUBSET S /\ V \in SUBSET T /\ h[V] # k[V]
  OBVIOUS
<1>h. h[V] = IF V = {} THEN 0 ELSE g[Pick(V)] + h[V \ {Pick(V)}]
  BY <1>2 DEF Sums
<1>k. k[V] = IF V = {} THEN 0 ELSE g[Pick(V)] + k[V \ {Pick(V)}]
  BY <1>2 DEF Sums
<1>3. V # {}
  BY <1>2, <1>h, <1>k
<1> DEFINE W == V \ {Pick(V)}
<1>4. W \in SUBSET V /\ W # V
  BY <1>3, PickMember
<1>5. W \notin Bad /\ W \in SUBSET U
  BY <1>1, <1>2, <1>4
<1>6. h[W] = k[W]
  BY <1>5
<1> QED
  BY <1>2, <1>3, <1>6, <1>h, <1>k

(* There is such a function for every finite set. *)
LEMMA SumsExist ==
    ASSUME NEW S, IsFiniteSet(S), NEW g, \A x \in S : g[x] \in Int
    PROVE  \E h : Sums(h, g, S)
<1> DEFINE c == [s \in SUBSET S |-> Pick(s)]
           G == [p \in (SUBSET S) \X Int |-> g[Pick(p[1])] + p[2]]
<1>1. ASSUME NEW s \in SUBSET S, s # {}, NEW v \in Int
      PROVE  /\ c[s] = Pick(s) /\ c[s] \in s
             /\ G[<<s, v>>] = g[Pick(s)] + v /\ G[<<s, v>>] \in Int
  BY <1>1, PickMember
<1>2. Steps(S, Int, c, G)
  <2> HIDE DEF c, G
  <2>1. 0 \in Int
    OBVIOUS
  <2> QED
    BY <1>1, <2>1 DEF Steps
<1> HIDE DEF c, G
<1>3. PICK h \in [SUBSET S -> Int] : Recursive(h, S, 0, c, G)
  <2>1. 0 \in Int
    OBVIOUS
  <2> QED
    BY <1>2, <2>1, RecursionExists
<1>4. ASSUME NEW s \in SUBSET S
      PROVE  h[s] = IF s = {} THEN 0 ELSE g[Pick(s)] + h[s \ {Pick(s)}]
  <2>1. h[s] = IF s = {} THEN 0 ELSE G[<<s, h[s \ {c[s]}]>>]
    BY <1>3 DEF Recursive
  <2>2. CASE s # {}
    <3>1. c[s] = Pick(s) /\ h[s \ {Pick(s)}] \in Int
      <4>1. s \ {Pick(s)} \in SUBSET S /\ 0 \in Int
        OBVIOUS
      <4> QED
        BY <1>1, <2>2, <4>1
    <3> QED
      BY <1>1, <2>1, <2>2, <3>1
  <2> QED
    BY <2>1, <2>2
<1>5. h = [s \in SUBSET S |-> h[s]]
  OBVIOUS
<1>6. Sums(h, g, S)
  BY <1>4, <1>5 DEF Sums
<1> QED
  BY <1>6

(* The sum of a finite set, by the element that is taken first *)
LEMMA TotalTakes ==
    ASSUME NEW S, IsFiniteSet(S), NEW g, \A x \in S : g[x] \in Int
    PROVE  Total(g, S) = IF S = {} THEN 0
                         ELSE g[Pick(S)] + Total(g, S \ {Pick(S)})
<1> DEFINE H(u) == CHOOSE h : Sums(h, g, u)
<1>1. ASSUME NEW U \in SUBSET S
      PROVE  /\ IsFiniteSet(U) /\ Sums(H(U), g, U)
             /\ Total(g, U) = H(U)[U]
  <2>1. IsFiniteSet(U)
    BY FS_Subset
  <2> QED
    BY <2>1, SumsExist, TotalIsChoice
<1> HIDE DEF H
<1>2. Total(g, S) = IF S = {} THEN 0
                    ELSE g[Pick(S)] + H(S)[S \ {Pick(S)}]
  BY <1>1, ZenonT(60) DEF Sums
<1>3. ASSUME S # {}
      PROVE  H(S)[S \ {Pick(S)}] = Total(g, S \ {Pick(S)})
  <2> DEFINE U == S \ {Pick(S)}
  <2>1. U \in SUBSET S
    OBVIOUS
  <2>2. H(S)[U] = H(U)[U]
    <3> HIDE DEF U
    <3> QED
      BY <1>1, <2>1, SumsAgree
  <2> QED
    BY <1>1, <2>1, <2>2
<1> QED
  BY <1>2, <1>3

(* A sum of integers is an integer, *)
LEMMA TotalType ==
    ASSUME NEW S, IsFiniteSet(S), NEW g, \A x \in S : g[x] \in Int
    PROVE  Total(g, S) \in Int
<1> DEFINE Bad == {T \in SUBSET S : Total(g, T) \notin Int}
<1> SUFFICES ASSUME Bad # {} PROVE FALSE
  OBVIOUS
<1>1. PICK T \in Bad : \A U \in SUBSET T : U # T => U \notin Bad
  <2> Bad \in SUBSET SUBSET S
    OBVIOUS
  <2> HIDE DEF Bad
  <2> QED
    BY SmallestSubset
<1>2. T \in SUBSET S /\ Total(g, T) \notin Int /\ IsFiniteSet(T)
  BY FS_Subset
<1>t. Total(g, T) = IF T = {} THEN 0
                    ELSE g[Pick(T)] + Total(g, T \ {Pick(T)})
  BY <1>2, TotalTakes
<1>3. T # {} /\ Total(g, T) = g[Pick(T)] + Total(g, T \ {Pick(T)})
  BY <1>2, <1>t
<1>4. /\ Pick(T) \in S /\ T \ {Pick(T)} \in SUBSET T /\ T \ {Pick(T)} # T
      /\ T \ {Pick(T)} \in SUBSET S
  BY <1>2, <1>3, PickMember
<1>5. Total(g, T \ {Pick(T)}) \in Int
  BY <1>1, <1>4
<1> QED
  BY <1>2, <1>3, <1>4, <1>5

(* it depends only on the values it adds, *)
LEMMA TotalSame ==
    ASSUME NEW S, IsFiniteSet(S), NEW g, NEW k,
           \A x \in S : g[x] \in Int /\ g[x] = k[x]
    PROVE  Total(g, S) = Total(k, S)
<1> DEFINE Bad == {T \in SUBSET S : Total(g, T) # Total(k, T)}
<1> SUFFICES ASSUME Bad # {} PROVE FALSE
  OBVIOUS
<1>1. PICK T \in Bad : \A U \in SUBSET T : U # T => U \notin Bad
  <2> Bad \in SUBSET SUBSET S
    OBVIOUS
  <2> HIDE DEF Bad
  <2> QED
    BY SmallestSubset
<1>2. T \in SUBSET S /\ Total(g, T) # Total(k, T) /\ IsFiniteSet(T)
  BY FS_Subset
<1>t. ASSUME NEW f, \A x \in T : f[x] \in Int
      PROVE  Total(f, T) = IF T = {} THEN 0
                           ELSE f[Pick(T)] + Total(f, T \ {Pick(T)})
  BY <1>t, <1>2, TotalTakes
<1>3. T # {} => /\ Total(g, T) = g[Pick(T)] + Total(g, T \ {Pick(T)})
                /\ Total(k, T) = k[Pick(T)] + Total(k, T \ {Pick(T)})
  BY <1>t
<1>4. T # {}
  BY <1>2, <1>t
<1>5. /\ Pick(T) \in S /\ T \ {Pick(T)} \in SUBSET T /\ T \ {Pick(T)} # T
      /\ T \ {Pick(T)} \in SUBSET S
  BY <1>2, <1>4, PickMember
<1>6. Total(g, T \ {Pick(T)}) = Total(k, T \ {Pick(T)})
  BY <1>1, <1>5
<1> QED
  BY <1>2, <1>3, <1>4, <1>5, <1>6

(* and not on the order in which it takes the elements. *)
LEMMA TotalRemove ==
    ASSUME NEW S, IsFiniteSet(S), NEW g, \A x \in S : g[x] \in Int,
           NEW e \in S
    PROVE  Total(g, S) = g[e] + Total(g, S \ {e})
<1> DEFINE Bad == {T \in SUBSET S :
                     \E x \in T : Total(g, T) # g[x] + Total(g, T \ {x})}
<1> SUFFICES ASSUME Bad # {} PROVE FALSE
  OBVIOUS
<1>1. PICK T \in Bad : \A U \in SUBSET T : U # T => U \notin Bad
  <2> Bad \in SUBSET SUBSET S
    OBVIOUS
  <2> HIDE DEF Bad
  <2> QED
    BY SmallestSubset
<1>2. T \in SUBSET S /\ IsFiniteSet(T)
  BY FS_Subset
<1>3. PICK x \in T : Total(g, T) # g[x] + Total(g, T \ {x})
  OBVIOUS
<1> DEFINE c == Pick(T)
           U == T \ {c}
           V == T \ {x}
           W == T \ {c, x}
<1>4. c \in T /\ Total(g, T) = g[c] + Total(g, U)
  BY <1>2, <1>3, TotalTakes, PickMember
<1>5. x # c
  BY <1>3, <1>4
<1>6. U \in SUBSET T /\ U # T /\ V \in SUBSET T /\ V # T
  BY <1>4
<1>7. U \notin Bad /\ V \notin Bad
  BY <1>1, <1>6
<1>8. /\ x \in U /\ U \in SUBSET S /\ U \ {x} = W
      /\ c \in V /\ V \in SUBSET S /\ V \ {c} = W
  BY <1>2, <1>4, <1>5
<1>9. /\ Total(g, U) = g[x] + Total(g, U \ {x})
      /\ Total(g, V) = g[c] + Total(g, V \ {c})
  BY <1>7, <1>8
<1>10. g[x] \in Int /\ g[c] \in Int /\ Total(g, W) \in Int
  <2>1. W \in SUBSET S /\ IsFiniteSet(W)
    BY <1>2, FS_Subset
  <2> HIDE DEF W, c
  <2> QED
    BY <1>2, <1>4, <2>1, TotalType
<1> HIDE DEF c, U, V, W
<1>11. /\ Total(g, T) = g[c] + (g[x] + Total(g, W))
       /\ Total(g, V) = g[c] + Total(g, W)
       /\ Total(g, T) # g[x] + Total(g, V)
  BY <1>3, <1>4, <1>8, <1>9 DEF V
<1> QED
  BY <1>10, <1>11

LEMMA TotalAdd ==
    ASSUME NEW S, IsFiniteSet(S), NEW g, NEW e, e \notin S,
           \A x \in S \cup {e} : g[x] \in Int
    PROVE  Total(g, S \cup {e}) = g[e] + Total(g, S)
<1> DEFINE T == S \cup {e}
<1>1. IsFiniteSet(T) /\ e \in T /\ T \ {e} = S
  BY FS_AddElement
<1> HIDE DEF T
<1>2. Total(g, T) = g[e] + Total(g, T \ {e})
  BY <1>1, TotalRemove DEF T
<1> QED
  BY <1>1, <1>2 DEF T
=============================================================================
