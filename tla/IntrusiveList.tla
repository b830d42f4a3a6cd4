--------------------------- MODULE IntrusiveList ---------------------------
(***************************************************************************)
(* exios::IntrusiveList (include/exios/intrusive_list.hpp): doubly linked  *)
(* rings through the items themselves, each closed by the sentinel of its  *)
(* list.  The sentinel of list l is the node l.  An item that leaves a     *)
(* list keeps its links, and Null is the value of links nobody has set.    *)
(*                                                                         *)
(* Callers pass iterators of the right list, items that are in no list and *)
(* a splice target outside the range, as all callers in the repository do; *)
(* of these the code checks only that the target is not the first item of  *)
(* the range.  splice() is a loop whose turns are steps of their own.      *)
(***************************************************************************)
EXTENDS Integers, Sequences, FiniteSets, SequencesExt

CONSTANTS Lists, Items, Null

Nodes == Lists \cup Items

ASSUME ListAssumption == /\ Lists \cap Items = {}
                         /\ Null \notin Nodes
                         /\ IsFiniteSet(Items)

VARIABLES
    next, prev,   \* the links of every node
    live,         \* the lists that have been constructed
    call,         \* the iterators of the splice() in progress, or Idle
    goal          \* history: what the lists should hold when it returns

vars == <<next, prev, live, call, goal>>

Idle == [it |-> Null, last |-> Null, before |-> Null, rotates |-> FALSE]

Init == /\ next = [n \in Nodes |-> Null]
        /\ prev = next
        /\ live = {}
        /\ call = Idle
        /\ goal = [l \in Lists |-> <<>>]

----------------------------------------------------------------------------
(* The nodes that operator++ meets from n on, until it is back at n. *)
Walk(n) ==
    LET at[i \in 0 .. Cardinality(Items) + 1] ==
            IF i = 0 THEN n
            ELSE IF i > 1 /\ at[i - 1] \in {n, Null} THEN at[i - 1]
            ELSE next[at[i - 1]]
    IN  at

(* Lists whose sentinel has links; begin() of any other is a null pointer. *)
Usable == {l \in live : next[l] # Null /\ prev[l] # Null}

(* What a loop from begin() to end() visits. *)
Contents(l) ==
    LET at  == Walk(l)
        end == {i \in 1 .. Cardinality(Items) + 1 : at[i] = l}
        len == IF l \notin Usable \/ end = {} THEN 0
               ELSE (CHOOSE i \in end : \A j \in end : i <= j) - 1
    IN  [i \in 1 .. len |-> at[i]]

AllContents == [l \in Lists |-> Contents(l)]

Free == Items \ UNION {ToSet(Contents(l)) : l \in Lists}

empty(l) == next[l] = l

----------------------------------------------------------------------------
(* The links k after erase(x), and after insert(x, b). *)
Erased(k, x) ==
    [next |-> [k.next EXCEPT ![k.prev[x]] = k.next[x]],
     prev |-> [k.prev EXCEPT ![k.next[x]] = k.prev[x]]]

Inserted(k, x, b) ==
    [next |-> [k.next EXCEPT ![k.prev[b]] = x, ![x] = b],
     prev |-> [k.prev EXCEPT ![x] = k.prev[b], ![b] = x]]

Links == [next |-> next, prev |-> prev]

Relink(k) == next' = k.next /\ prev' = k.prev

At(l) == call = Idle /\ l \in Usable /\ UNCHANGED <<live, call, goal>>

(* IntrusiveList() *)
Construct(l) ==
    /\ call = Idle
    /\ l \notin live
    /\ live' = live \cup {l}
    /\ Relink([next |-> [next EXCEPT ![l] = l],
               prev |-> [prev EXCEPT ![l] = l]])
    /\ UNCHANGED <<call, goal>>

(* Seeded defect: the old list keeps pointing at its items. *)
MoveConstructShared(l, other) ==
    /\ call = Idle
    /\ l \notin live
    /\ other \in Usable
    /\ live' = live \cup {l}
    /\ Relink([next |-> [next EXCEPT ![prev[other]] = l, ![l] = next[other]],
               prev |-> [prev EXCEPT ![next[other]] = l, ![l] = prev[other]]])
    /\ UNCHANGED <<call, goal>>

(***************************************************************************)
(* IntrusiveList(IntrusiveList&&): the items of a non-empty list point to  *)
(* the new sentinel, the links of the new sentinel stay unset.             *)
(***************************************************************************)
MoveConstruct(l, other) ==
    /\ call = Idle
    /\ l \notin live
    /\ other \in Usable
    /\ live' = live \cup {l}
    /\ \/ /\ empty(other)
          /\ Relink([next |-> [next EXCEPT ![l] = l],
                     prev |-> [prev EXCEPT ![l] = l]])
       \/ /\ ~empty(other)
          /\ Relink([next |-> [next EXCEPT ![prev[other]] = l,
                                           ![other] = other],
                     prev |-> [prev EXCEPT ![next[other]] = l,
                                           ![other] = other]])
    /\ UNCHANGED <<call, goal>>

push_front(l, x) ==
    /\ At(l)
    /\ x \in Free
    /\ Relink([prev |-> [prev EXCEPT ![next[l]] = x, ![x] = l],
               next |-> [next EXCEPT ![x] = next[l], ![l] = x]])

push_back(l, x) ==
    /\ At(l)
    /\ x \in Free
    /\ Relink([next |-> [next EXCEPT ![prev[l]] = x, ![x] = l],
               prev |-> [prev EXCEPT ![x] = prev[l], ![l] = x]])

pop_back(l) ==
    /\ At(l)
    /\ ~empty(l)
    /\ Relink([prev |-> [prev EXCEPT ![l] = prev[prev[l]]],
               next |-> [next EXCEPT ![prev[prev[l]]] = l]])

pop_front(l) ==
    /\ At(l)
    /\ ~empty(l)
    /\ Relink([next |-> [next EXCEPT ![l] = next[next[l]]],
               prev |-> [prev EXCEPT ![next[next[l]]] = l]])

(* Seeded defect: the item ends up behind the iterator. *)
InsertAfter(l, x, before) ==
    /\ At(l)
    /\ x \in Free
    /\ before \in ToSet(Contents(l)) \cup {l}
    /\ Relink(Inserted(Links, x, next[before]))

insert(l, x, before) ==
    /\ At(l)
    /\ x \in Free
    /\ before \in ToSet(Contents(l)) \cup {l}
    /\ Relink(Inserted(Links, x, before))

erase(l, pos) ==
    /\ At(l)
    /\ pos \in ToSet(Contents(l))
    /\ Relink(Erased(Links, pos))

----------------------------------------------------------------------------
(* Position of iterator n in list l; end() comes after the last item. *)
IndexIn(l, n) == IF n = l THEN Len(Contents(l)) + 1
                 ELSE CHOOSE i \in 1 .. Len(Contents(l)) : Contents(l)[i] = n

(***************************************************************************)
(* The contents c after the items from .. to - 1 of `other' were moved in  *)
(* front of position `at' of l.                                            *)
(***************************************************************************)
Spliced(c, l, at, other, from, to) ==
    LET range == SubSeq(c[other], from, to - 1)
        rest  == [c EXCEPT ![other] = SubSeq(@, 1, from - 1)
                                          \o SubSeq(@, to, Len(@))]
        i     == IF other = l /\ at > from THEN at - (to - from) ELSE at
    IN  [rest EXCEPT ![l] = SubSeq(@, 1, i - 1) \o range
                                \o SubSeq(@, i, Len(@))]

(* The early return of splice() *)
SpliceIsNoOp(l, before, other, first, last) ==
    other = l /\ first = next[other] /\ last = other

(* splice(before, other, first, last) of list l, up to its loop *)
splice(l, before, other, first, last) ==
    LET from  == IndexIn(other, first)
        to    == IndexIn(other, last)
        at    == IndexIn(l, before)
        range == SubSeq(Contents(other), from, to - 1)
        noOp  == SpliceIsNoOp(l, before, other, first, last)
    IN  /\ call = Idle
        /\ {l, other} \subseteq Usable
        /\ first \in ToSet(Contents(other)) \cup {other}
        /\ last \in ToSet(Contents(other)) \cup {other}
        /\ before \in (ToSet(Contents(l)) \cup {l}) \ ToSet(range)
        /\ from <= to
        /\ ~(other = l /\ before = first)
        /\ call' = [it      |-> IF noOp THEN last ELSE first,
                    last    |-> last,
                    before  |-> before,
                    rotates |-> ~noOp /\ before = last /\ Len(range) > 1]
        /\ goal' = IF noOp THEN AllContents
                   ELSE Spliced(AllContents, l, at, other, from, to)
        /\ UNCHANGED <<next, prev, live>>

(* Seeded defect: every item goes to the front of what was spliced before. *)
SpliceTurnReversed ==
    /\ call # Idle
    /\ call.it # call.last
    /\ Relink(Inserted(Erased(Links, call.it), call.it, call.before))
    /\ call' = [call EXCEPT !.it = next[call.it], !.before = call.it]
    /\ UNCHANGED <<live, goal>>

(* Seeded defect: the iterator that erase() returns is thrown away. *)
SpliceTurnInPlace ==
    /\ call # Idle
    /\ call.it # call.last
    /\ Relink(Inserted(Erased(Links, call.it), call.it, call.before))
    /\ UNCHANGED <<live, call, goal>>

(* One turn of its loop: erase(it), then insert in front of `before'. *)
SpliceTurn ==
    /\ call # Idle
    /\ call.it # call.last
    /\ Relink(Inserted(Erased(Links, call.it), call.it, call.before))
    /\ call' = [call EXCEPT !.it = next[call.it]]
    /\ UNCHANGED <<live, goal>>

SpliceReturn ==
    /\ call # Idle
    /\ call.it = call.last
    /\ call' = Idle
    /\ goal' = [l \in Lists |-> <<>>]
    /\ UNCHANGED <<next, prev, live>>

Next ==
    \/ \E l \in Lists :
           \/ Construct(l)
           \/ \E other \in Lists : MoveConstruct(l, other)
           \/ \E x \in Items : push_front(l, x) \/ push_back(l, x)
           \/ pop_front(l)
           \/ pop_back(l)
           \/ \E x \in Items, before \in Nodes : insert(l, x, before)
           \/ \E pos \in Items : erase(l, pos)
           \/ \E other \in Usable : \E before \in ToSet(Contents(l)) \cup {l},
                 first, last \in ToSet(Contents(other)) \cup {other} :
                     splice(l, before, other, first, last)
    \/ SpliceTurn
    \/ SpliceReturn

(* splice() runs in one thread under a lock: its loop goes on. *)
Fairness == WF_vars(SpliceTurn) /\ WF_vars(SpliceReturn)

Spec == Init /\ [][Next]_vars /\ Fairness

----------------------------------------------------------------------------
(***************************************************************************)
(* Following next from a sentinel meets items only, comes back, and prev   *)
(* leads around the same ring the other way, also between two turns of     *)
(* splice(); no item is in two rings although erase() and the pops leave   *)
(* the links of the item they remove as they are.  The two links of a node *)
(* are set together.                                                       *)
(***************************************************************************)
RingsIntact ==
    /\ next \in [Nodes -> Nodes \cup {Null}]
    /\ prev \in [Nodes -> Nodes \cup {Null}]
    /\ \A n \in Nodes : (next[n] = Null) = (prev[n] = Null)
    /\ \A l \in Usable :
         LET at == Walk(l)
             k  == Len(Contents(l))
         IN  /\ at[k + 1] = l
             /\ \A i \in 1 .. k : at[i] \in Items
             /\ \A i \in 0 .. k : prev[at[i + 1]] = at[i]
    /\ \A l, m \in Usable :
         l # m => ToSet(Contents(l)) \cap ToSet(Contents(m)) = {}

(***************************************************************************)
(* When splice() returns, the range stands in front of `before' in its old *)
(* order and everything else is where it was.                              *)
(***************************************************************************)
SpliceMovesRange ==
    call # Idle /\ call.it = call.last => goal = AllContents

(***************************************************************************)
(* splice() returns, except when the range has more than one item and ends *)
(* at the very position it is spliced in front of: the item just inserted  *)
(* is then the next one the loop meets (IoScheduler::cancel() of the last  *)
(* descriptor of the list does this).                                      *)
(***************************************************************************)
SpliceReturns == call # Idle /\ ~call.rotates ~> call = Idle

(***************************************************************************)
(* Each operation does to the sequence of items what its name says, and    *)
(* nothing to another list, whatever stale links the items carry.          *)
(***************************************************************************)
SequenceStep ==
    \A l \in Usable :
        LET c          == Contents(l)
            becomes(s) == AllContents' = [AllContents EXCEPT ![l] = s]
        IN  /\ pop_front(l) => becomes(Tail(c))
            /\ pop_back(l) => becomes(Front(c))
            /\ \A x \in Items :
                  /\ push_front(l, x) => becomes(<<x>> \o c)
                  /\ push_back(l, x) => becomes(Append(c, x))
                  /\ erase(l, x) => becomes(RemoveAt(c, IndexIn(l, x)))
                  /\ \A b \in ToSet(c) \cup {l} :
                       insert(l, x, b)
                           => becomes(InsertAt(c, IndexIn(l, b), x))

(* So does every step of every execution, whatever pushes, pops, inserts,  *)
(* erases, splices and moves came before it.                               *)
SequenceSemantics == [][SequenceStep]_vars
============================================================================
