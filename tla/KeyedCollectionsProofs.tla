------------------------ MODULE KeyedCollectionsProofs -----------------------
(***************************************************************************)
(* The safety of KeyedCollections for any keys and values and any number   *)
(* of entries and changes.  Each way to go through a collection keeps its  *)
(* place by other means; for each there is an invariant that says what the *)
(* means know of what was visited, whatever was changed, and one that says *)
(* what they know until a change disturbs them.                            *)
(***************************************************************************)
EXTENDS KeyedCollections, FiniteSetTheorems, SequenceTheorems, TLAPS

Item(h) == [key : Keys, value : ValuesOf(h), born : Nat]

\* A key has one entry, and entries are in the order of insertion.
InOrder(es) ==
    \A i, j \in DOMAIN es :
        i < j => es[i].key # es[j].key /\ es[i].born < es[j].born

TypeInv ==
    /\ how \in Hows
    /\ entries \in Seq(Item(how)) /\ InOrder(entries)
    /\ \A i \in DOMAIN entries : entries[i].born \in 1 .. births
    /\ position \in Nat /\ births \in Nat /\ cursor \in 0 .. births
    /\ scheduled \in Seq(Keys \X ValuesOf(how))
    /\ before \subseteq Keys /\ current \in Keys \cup {NoKey}
    /\ inCallback \in BOOLEAN /\ disturbed \in BOOLEAN
    /\ state \in {"going", "exhausted", "stopped"}
    /\ inCallback => state = "going" /\ how # "iterator"
    /\ removed \subseteq 1 .. births

\* What was visited: an entry stays that of its key.
VisitInv ==
    /\ visits \in Seq(Item(how))
    /\ \A i \in DOMAIN visits :
          /\ visits[i].born \in 1 .. births
          /\ \A j \in DOMAIN entries :
                visits[i].born = entries[j].born => visits[i].key = entries[j].key
Visited(e) == \E i \in DOMAIN visits : visits[i].born = e.born

\* When VM and InsertionOrder go the same way; what has stopped goes no way.
Undisturbed == ~disturbed /\ state # "stopped"

\* What a forEach has still to visit.
ToCome == {scheduled[a][1] : a \in {b \in DOMAIN scheduled : position < b}}
IsScheduled(pair) == \E a \in DOMAIN scheduled : scheduled[a] = pair

----------------------------------------------------------------------------
(* The iterator.                                                            *)

IteratorOnce == \A j \in DOMAIN entries : Visited(entries[j]) => j <= position

\* Undisturbed, its index separates what was inserted up to the cursor.
IteratorOrder ==
    /\ position <= Len(entries)
    /\ \A j \in DOMAIN entries : j <= position <=> entries[j].born <= cursor

IteratorInv == how = "iterator" => IteratorOnce /\ (Undisturbed => IteratorOrder)

----------------------------------------------------------------------------
(* Map.prototype.forEach: no pair is scheduled twice, and those visited are *)
(* behind the position.                                                     *)

MapOnce ==
    /\ \A a, b \in DOMAIN scheduled : scheduled[a] = scheduled[b] => a = b
    /\ \A i \in DOMAIN visits :
          \E a \in DOMAIN scheduled : a <= position /\ scheduled[a] = Pair(visits[i])

\* Undisturbed, the schedule is in the order of the entries, those that are
\* not in it are younger, and all are in it when no callback runs.
MapOrder ==
    /\ \A a, b \in DOMAIN scheduled, i, j \in DOMAIN entries :
          scheduled[a] = Pair(entries[i]) /\ scheduled[b] = Pair(entries[j]) /\ a < b => i < j
    /\ \A a \in DOMAIN scheduled, i \in DOMAIN entries :
          scheduled[a] = Pair(entries[i]) => (a <= position <=> entries[i].born <= cursor)
    /\ \A i \in DOMAIN entries : ~IsScheduled(Pair(entries[i])) =>
          /\ inCallback /\ cursor < entries[i].born
          /\ \A j \in DOMAIN entries : IsScheduled(Pair(entries[j])) => j < i

MapInv ==
    how = "mapForEach" =>
        position <= Len(scheduled) /\ MapOnce /\ (Undisturbed => MapOrder)

----------------------------------------------------------------------------
(* Set.prototype.forEach: what it has still to visit it has not visited,    *)
(* and what is there is visited, to come, or new since the callback began.  *)

SetOnce ==
    /\ \A a, b \in DOMAIN scheduled :
          position < a /\ position < b /\ scheduled[a] = scheduled[b] => a = b
    /\ \A j \in DOMAIN entries : Visited(entries[j]) =>
          entries[j].key \notin ToCome /\ (inCallback => entries[j].key \in before)

SetMissed ==
    LET known == KeysIn(visits) \cup ToCome IN
    CASE state = "stopped"   -> TRUE
      [] state = "exhausted" -> KeysIn(entries) \subseteq KeysIn(visits)
      [] state = "going"     -> IF inCallback THEN before \subseteq known
                                ELSE KeysIn(entries) \subseteq known

SetOrder ==
    /\ \A a, b \in DOMAIN scheduled, i, j \in DOMAIN entries :
          position < a /\ a < b /\ scheduled[a][1] = entries[i].key
          /\ scheduled[b][1] = entries[j].key => i < j
    /\ \A i \in DOMAIN entries :
          IF entries[i].key \in ToCome
          THEN /\ cursor < entries[i].born
               /\ \A j \in DOMAIN entries :
                     cursor < entries[j].born /\ entries[j].key \notin ToCome => i < j
          ELSE cursor < entries[i].born => inCallback /\ entries[i].key \notin before
    /\ inCallback => \A i \in DOMAIN entries : entries[i].key \notin before =>
          cursor < entries[i].born /\ entries[i].key \notin ToCome

SetInv ==
    how = "setForEach" =>
        position <= Len(scheduled) /\ SetOnce /\ SetMissed /\ (Undisturbed => SetOrder)

----------------------------------------------------------------------------
(* A method of Set: what was visited is before the value it is at, or, if   *)
(* that is gone, before the index where it was.                             *)

MethodOnce ==
    \A j \in DOMAIN entries : Visited(entries[j]) =>
        /\ j <= position \/ entries[j].key = current
        /\ \A i \in DOMAIN entries : entries[i].key = current => j <= i

\* Undisturbed, either the value is there or nothing before it has gone.
MethodOrder ==
    /\ \A i \in DOMAIN entries : entries[i].key = current <=> entries[i].born = cursor
    /\ \/ cursor \in removed \/ current = NoKey
       \/ \E i \in DOMAIN entries : entries[i].key = current
    /\ cursor \in removed => \A b \in removed : cursor <= b
    /\ (\A b \in removed : cursor <= b) =>
          /\ position <= Len(entries)
          /\ \A j \in DOMAIN entries : j <= position <=> entries[j].born < cursor
    /\ current = NoKey => cursor = 0

MethodInv == how = "setMethod" => MethodOnce /\ (Undisturbed => MethodOrder)

----------------------------------------------------------------------------

Base == TypeInv /\ VisitInv /\ VisitedOnce

IInv == Base /\ IteratorInv /\ MapInv /\ SetInv /\ MethodInv

----------------------------------------------------------------------------
(* What retain leaves.                                                      *)

RankIn(places, p) == Cardinality({q \in places : q <= p})
Place(places, k) == CHOOSE p \in places : RankIn(places, p) = k

\* The places that stay, counted from the first: none is lost, none moves
\* back, and those before the first that goes do not move.
LEMMA PlaceFacts ==
    ASSUME NEW n \in Nat, NEW P \in SUBSET (1 .. n)
    PROVE  /\ Cardinality(P) \in Nat
           /\ \A k \in 1 .. Cardinality(P) : Place(P, k) \in P /\ k <= Place(P, k)
           /\ \A k, l \in 1 .. Cardinality(P) : k < l => Place(P, k) < Place(P, l)
           /\ \A p \in P : \E k \in 1 .. Cardinality(P) : Place(P, k) = p
           /\ \A m \in Nat : 1 .. m \subseteq P =>
                 m <= Cardinality(P) /\ \A k \in 1 .. m : Place(P, k) = k
<1> DEFINE C == Cardinality(P)
           Upto(p) == {q \in P : q <= p}
           R == [p \in P |-> RankIn(P, p)]
<1>1. IsFiniteSet(P) /\ C \in Nat /\ \A p \in P : p \in Nat /\ p >= 1
  <2>1. IsFiniteSet(1 .. n)
    BY FS_Interval
  <2>2. IsFiniteSet(P)
    BY <2>1, FS_Subset
  <2>3. \A p \in P : p \in 1 .. n
    OBVIOUS
  <2> QED
    BY <2>2, <2>3, FS_CardinalityType
<1>2. \A p \in P : IsFiniteSet(Upto(p)) /\ Cardinality(Upto(p)) \in Nat /\ Upto(p) \subseteq P
  BY <1>1, FS_Subset, FS_CardinalityType
<1>3. \A p \in P : RankIn(P, p) = Cardinality(Upto(p))
  BY DEF RankIn
<1>4. \A p, q \in P : p < q => RankIn(P, p) < RankIn(P, q)
  <2> SUFFICES ASSUME NEW p \in P, NEW q \in P, p < q
               PROVE  Cardinality(Upto(p)) < Cardinality(Upto(q))
    BY <1>3
  <2>1. p \in Nat /\ q \in Nat /\ \A r \in P : r \in Nat
    BY <1>1
  <2>2. ~(q <= p) /\ q <= q /\ \A r \in P : r <= p => r <= q
    BY <2>1
  <2>3. Upto(p) \in SUBSET Upto(q) /\ q \in Upto(q) /\ q \notin Upto(p)
    BY <2>2, Zenon
  <2>4. Upto(p) # Upto(q)
    BY <2>3
  <2>5. Cardinality(Upto(p)) <= Cardinality(Upto(q)) /\ Cardinality(Upto(p)) # Cardinality(Upto(q))
    BY <1>2, <2>3, <2>4, FS_Subset
  <2> QED
    <3> HIDE DEF Upto
    <3> QED
      BY <1>2, <2>5
<1>5. \A p \in P : RankIn(P, p) \in 1 .. C /\ RankIn(P, p) <= p
  <2> TAKE p \in P
  <2>1. p \in Nat /\ \A r \in P : r \in Nat /\ r >= 1
    BY <1>1
  <2>2. p <= p /\ \A r \in P : r <= p => r \in 1 .. p
    BY <2>1
  <2>3. p \in Upto(p) /\ Upto(p) \in SUBSET P /\ Upto(p) \in SUBSET (1 .. p)
    BY <2>2, Zenon
  <2>4. Cardinality(Upto(p)) <= C
    BY <1>1, <2>3, FS_Subset
  <2>5. Cardinality(Upto(p)) # 0
    BY <1>2, <2>3, FS_EmptySet
  <2>6. IsFiniteSet(1 .. p) /\ Cardinality(1 .. p) = p
    BY <1>1, FS_Interval
  <2>7. Cardinality(Upto(p)) <= p
    BY <2>3, <2>6, FS_Subset
  <2> QED
    <3> HIDE DEF Upto, C
    <3> QED
      BY <1>1, <1>2, <1>3, <2>4, <2>5, <2>7
<1>6. R \in Injection(P, 1 .. C)
  <2>1. \A p, q \in P : RankIn(P, p) = RankIn(P, q) => p = q
    BY <1>1, <1>4, <1>5
  <2> QED
    BY <1>5, <2>1 DEF Injection, IsInjective
<1>7. R \in Surjection(P, 1 .. C)
  <2>1. IsFiniteSet(1 .. C) /\ Cardinality(1 .. C) = C
    BY <1>1, FS_Interval
  <2> QED
    BY <1>1, <1>6, <2>1, FS_Injection
<1>8. \A k \in 1 .. C : Place(P, k) \in P /\ RankIn(P, Place(P, k)) = k
  <2> TAKE k \in 1 .. C
  <2>1. \E p \in P : RankIn(P, p) = k
    BY <1>7 DEF Surjection
  <2> QED
    BY <2>1 DEF Place
<1>9. \A p, q \in P : RankIn(P, p) = RankIn(P, q) => p = q
  BY <1>1, <1>4, <1>5
<1>10. \A p \in P : Place(P, RankIn(P, p)) = p
  BY <1>5, <1>8, <1>9
<1>11. ASSUME NEW k \in 1 .. C, NEW l \in 1 .. C, k < l
       PROVE  Place(P, k) < Place(P, l)
  <2>1. /\ Place(P, k) \in P /\ RankIn(P, Place(P, k)) = k
        /\ Place(P, l) \in P /\ RankIn(P, Place(P, l)) = l
    BY <1>8
  <2>2. Place(P, k) # Place(P, l) /\ ~(Place(P, l) < Place(P, k))
    <3>1. k # l /\ ~(l < k)
      BY <1>1, <1>11
    <3> QED
      BY <1>4, <2>1, <3>1, Zenon
  <2>3. Place(P, k) \in Nat /\ Place(P, l) \in Nat
    BY <1>1, <2>1
  <2> QED
    BY <2>2, <2>3
<1>12. ASSUME NEW m \in Nat, 1 .. m \subseteq P
       PROVE  m <= C /\ \A k \in 1 .. m : Place(P, k) = k
  <2>1. \A k \in 0 .. m : IsFiniteSet(1 .. k) /\ Cardinality(1 .. k) = k
    BY FS_Interval
  <2>2. m <= C
    BY <1>1, <1>12, <2>1, FS_Subset
  <2>3. \A k \in 1 .. m : RankIn(P, k) = k
    <3> TAKE k \in 1 .. m
    <3>1. k \in P /\ k \in Nat /\ \A q \in P : q \in Nat /\ q >= 1
      BY <1>1, <1>12
    <3>2. \A q \in 1 .. k : q \in 1 .. m
      OBVIOUS
    <3>3. \A q \in P : q <= k => q \in 1 .. k
      BY <3>1
    <3>4. \A q \in 1 .. k : q \in P /\ q <= k
      BY <1>12, <3>2
    <3>5. Upto(k) = 1 .. k
      BY <3>3, <3>4, Zenon
    <3> QED
      BY <1>3, <2>1, <3>1, <3>5
  <2> QED
    BY <1>10, <1>12, <2>2, <2>3
<1> QED
  BY <1>1, <1>5, <1>8, <1>10, <1>11, <1>12

LEMMA RetainedFacts ==
    ASSUME NEW S, NEW s \in Seq(S), NEW P \in SUBSET (DOMAIN s)
    PROVE  /\ Retained(s, P) \in Seq(S)
           /\ Len(Retained(s, P)) = Cardinality(P) /\ Cardinality(P) \in Nat
           /\ DOMAIN Retained(s, P) = 1 .. Cardinality(P)
           /\ \A k \in 1 .. Cardinality(P) :
                 Place(P, k) \in P /\ Retained(s, P)[k] = s[Place(P, k)]
<1>1. Len(s) \in Nat /\ DOMAIN s = 1 .. Len(s)
  OBVIOUS
<1>2. /\ Cardinality(P) \in Nat
      /\ \A k \in 1 .. Cardinality(P) : Place(P, k) \in P
  BY <1>1, PlaceFacts
<1>3. Retained(s, P) = [k \in 1 .. Cardinality(P) |-> s[Place(P, k)]]
  BY DEF Retained, Place, RankIn
<1>4. \A k \in 1 .. Cardinality(P) : s[Place(P, k)] \in S
  BY <1>2
<1> QED
  BY <1>2, <1>3, <1>4

----------------------------------------------------------------------------
(* What a change leaves.                                                    *)

\* A key, and a time of insertion, has one entry.
LEMMA EntryFacts ==
    ASSUME TypeInv
    PROVE  /\ Len(entries) \in Nat /\ DOMAIN entries = 1 .. Len(entries)
           /\ \A i \in DOMAIN entries :
                 /\ i \in Nat /\ i >= 1
                 /\ entries[i] \in Item(how) /\ entries[i].key \in Keys
                 /\ entries[i].value \in ValuesOf(how)
                 /\ entries[i].born \in Nat /\ entries[i].born \in 1 .. births
                 /\ entries[i].key \in KeysIn(entries)
           /\ \A i, j \in DOMAIN entries :
                 /\ entries[i].key = entries[j].key => i = j
                 /\ entries[i].born = entries[j].born => i = j
                 /\ i < j <=> entries[i].born < entries[j].born
           /\ \A i \in DOMAIN entries :
                 Entry(entries[i].key) = entries[i] /\ PositionOf(entries[i].key) = i
           /\ \A k : k \in KeysIn(entries) <=> \E i \in DOMAIN entries : entries[i].key = k
<1>1. /\ entries \in Seq(Item(how)) /\ InOrder(entries) /\ births \in Nat
      /\ \A i \in DOMAIN entries : entries[i].born \in 1 .. births
  BY DEF TypeInv
<1>2. Len(entries) \in Nat /\ DOMAIN entries = 1 .. Len(entries)
  BY <1>1
<1>3. \A k : k \in KeysIn(entries) <=> \E i \in DOMAIN entries : entries[i].key = k
  BY DEF KeysIn
<1>4. \A i \in DOMAIN entries :
          /\ i \in Nat /\ i >= 1
          /\ entries[i] \in Item(how) /\ entries[i].key \in Keys
          /\ entries[i].value \in ValuesOf(how)
          /\ entries[i].born \in Nat /\ entries[i].born \in 1 .. births
          /\ entries[i].key \in KeysIn(entries)
  <2> TAKE i \in DOMAIN entries
  <2>1. i \in Nat /\ i >= 1 /\ entries[i] \in Item(how) /\ entries[i].key \in KeysIn(entries)
    BY <1>1, <1>2, <1>3
  <2> QED
    BY <1>1, <2>1 DEF Item
<1>5. \A i, j \in DOMAIN entries :
          /\ entries[i].key = entries[j].key => i = j
          /\ entries[i].born = entries[j].born => i = j
          /\ i < j <=> entries[i].born < entries[j].born
  <2> TAKE i, j \in DOMAIN entries
  <2>1. i \in Nat /\ j \in Nat /\ entries[i].born \in Nat /\ entries[j].born \in Nat
    BY <1>4
  <2>2. i < j => entries[i].key # entries[j].key /\ entries[i].born < entries[j].born
    BY <1>1 DEF InOrder
  <2>3. j < i => entries[i].key # entries[j].key /\ entries[j].born < entries[i].born
    BY <1>1 DEF InOrder
  <2> QED
    BY <2>1, <2>2, <2>3
<1>6. \A i \in DOMAIN entries :
          Entry(entries[i].key) = entries[i] /\ PositionOf(entries[i].key) = i
  BY <1>5 DEF Entry, PositionOf
<1> QED
  BY <1>2, <1>3, <1>4, <1>5, <1>6

\* Who overwrites changes a value, which only a Map has.
LEMMA PutExisting ==
    ASSUME TypeInv, NEW k \in Keys, NEW v \in ValuesOf(how), Put(k, v), k \in KeysIn(entries)
    PROVE  /\ births' = births /\ Len(entries') = Len(entries)
           /\ DOMAIN entries' = DOMAIN entries /\ entries' \in Seq(Item(how))
           /\ \A i \in DOMAIN entries :
                 /\ entries'[i].key = entries[i].key /\ entries'[i].born = entries[i].born
                 /\ entries'[i].value = IF entries[i].key = k THEN v ELSE entries[i].value
           /\ how # "mapForEach" => entries' = entries
<1>1. entries' = Overwritten(k, v)
  BY DEF Put, With
<1>2. /\ entries \in Seq(Item(how)) /\ Len(entries) \in Nat /\ DOMAIN entries = 1 .. Len(entries)
      /\ \A i \in DOMAIN entries : entries[i] \in Item(how)
  BY EntryFacts DEF TypeInv
<1>3. \A i \in DOMAIN entries :
          [entries[i] EXCEPT !.value = v] =
              [key |-> entries[i].key, value |-> v, born |-> entries[i].born]
  BY <1>2 DEF Item
<1>4. DOMAIN entries' = DOMAIN entries
  BY <1>1 DEF Overwritten
<1>5. \A i \in DOMAIN entries :
          /\ entries'[i].key = entries[i].key /\ entries'[i].born = entries[i].born
          /\ entries'[i].value = IF entries[i].key = k THEN v ELSE entries[i].value
          /\ entries'[i] \in Item(how)
  <2> TAKE i \in DOMAIN entries
  <2>1. entries[i] \in Item(how)
    BY <1>2
  <2>2. entries'[i] = IF entries[i].key = k
                      THEN [key |-> entries[i].key, value |-> v, born |-> entries[i].born]
                      ELSE entries[i]
    BY <1>1, <1>3 DEF Overwritten
  <2> QED
    BY <2>1, <2>2 DEF Item
<1>6. entries' \in Seq(Item(how)) /\ Len(entries') = Len(entries)
  <2>1. entries' = [i \in 1 .. Len(entries) |-> entries'[i]]
    BY <1>1, <1>2 DEF Overwritten
  <2>2. entries' \in [1 .. Len(entries) -> Item(how)]
    BY <1>2, <1>5, <2>1
  <2> QED
    BY <1>2, <2>2
<1>7. births' = births
  BY <1>2, <1>6 DEF Put
<1>8. ASSUME how # "mapForEach"
      PROVE  entries' = entries
  <2>1. ValuesOf(how) = {Unit}
    BY <1>8 DEF ValuesOf
  <2>2. \A i \in DOMAIN entries : entries'[i] = entries[i]
    <3> TAKE i \in DOMAIN entries
    <3>1. entries[i] \in Item(how) /\ entries'[i] \in Item(how)
      BY <1>2, <1>5
    <3>2. entries'[i].key = entries[i].key /\ entries'[i].born = entries[i].born
      BY <1>5
    <3>3. entries'[i].value = Unit /\ entries[i].value = Unit
      BY <2>1, <3>1 DEF Item
    <3> QED
      BY <3>1, <3>2, <3>3 DEF Item
  <2> QED
    BY <1>2, <1>4, <1>6, <2>2
<1> QED
  BY <1>4, <1>5, <1>6, <1>7, <1>8

LEMMA PutNew ==
    ASSUME TypeInv, NEW k \in Keys, NEW v \in ValuesOf(how), Put(k, v), k \notin KeysIn(entries)
    PROVE  /\ births' = births + 1 /\ Len(entries') = Len(entries) + 1
           /\ DOMAIN entries' = 1 .. Len(entries) + 1 /\ entries' \in Seq(Item(how))
           /\ \A i \in DOMAIN entries : i \in DOMAIN entries' /\ entries'[i] = entries[i]
           /\ entries'[Len(entries) + 1] = [key |-> k, value |-> v, born |-> births + 1]
           /\ \A i \in DOMAIN entries' : i \in DOMAIN entries \/ i = Len(entries) + 1
           /\ \A i \in DOMAIN entries : entries[i].key # k
<1> DEFINE e == [key |-> k, value |-> v, born |-> births + 1]
<1>1. /\ entries \in Seq(Item(how)) /\ births \in Nat /\ e \in Item(how)
      /\ Len(entries) \in Nat /\ DOMAIN entries = 1 .. Len(entries)
  BY EntryFacts DEF TypeInv, Item
<1>2. entries' = Append(entries, e)
  BY DEF Put, With, Added
<1> HIDE DEF e
<1>3. /\ Len(entries') = Len(entries) + 1 /\ DOMAIN entries' = 1 .. Len(entries) + 1
      /\ entries' \in Seq(Item(how))
      /\ \A i \in DOMAIN entries : i \in DOMAIN entries' /\ entries'[i] = entries[i]
      /\ entries'[Len(entries) + 1] = e
      /\ \A i \in DOMAIN entries' : i \in DOMAIN entries \/ i = Len(entries) + 1
  BY <1>1, <1>2
<1>4. births' = births + 1
  BY <1>1, <1>3 DEF Put
<1>5. \A i \in DOMAIN entries : entries[i].key # k
  BY EntryFacts
<1> QED
  BY <1>3, <1>4, <1>5 DEF e

\* Where the entries are whose keys stay.
Kept(S) == {i \in DOMAIN entries : entries[i].key \notin S}

LEMMA RemoveFacts ==
    ASSUME TypeInv, NEW S, RemoveKeys(S)
    PROVE  /\ entries' \in Seq(Item(how)) /\ Len(entries') \in Nat
           /\ DOMAIN entries' = 1 .. Len(entries')
           /\ \A i \in DOMAIN entries' :
                 /\ i \in Nat /\ i >= 1
                 /\ Place(Kept(S), i) \in DOMAIN entries /\ i <= Place(Kept(S), i)
                 /\ entries'[i] = entries[Place(Kept(S), i)]
                 /\ entries'[i].key \notin S
           /\ \A i, j \in DOMAIN entries' : i < j => Place(Kept(S), i) < Place(Kept(S), j)
           /\ \A p \in Kept(S) : \E i \in DOMAIN entries' : Place(Kept(S), i) = p
           /\ \A m \in Nat : 1 .. m \subseteq Kept(S) =>
                 m <= Len(entries') /\ \A i \in 1 .. m : Place(Kept(S), i) = i
           /\ removed' = removed \cup {entries[i].born : i \in DOMAIN entries \ Kept(S)}
<1>1. /\ entries \in Seq(Item(how)) /\ Len(entries) \in Nat
      /\ DOMAIN entries = 1 .. Len(entries)
  BY EntryFacts DEF TypeInv
<1>2. Kept(S) \in SUBSET (DOMAIN entries) /\ Kept(S) \in SUBSET (1 .. Len(entries))
  BY <1>1 DEF Kept
<1>3. entries' = Retained(entries, Kept(S))
  BY DEF RemoveKeys, Kept
<1>4. /\ entries' \in Seq(Item(how)) /\ Len(entries') = Cardinality(Kept(S))
      /\ Len(entries') \in Nat /\ DOMAIN entries' = 1 .. Len(entries')
      /\ \A i \in DOMAIN entries' :
            Place(Kept(S), i) \in Kept(S) /\ entries'[i] = entries[Place(Kept(S), i)]
  BY <1>1, <1>2, <1>3, RetainedFacts
<1>5. /\ \A i \in DOMAIN entries' : i <= Place(Kept(S), i)
      /\ \A i, j \in DOMAIN entries' : i < j => Place(Kept(S), i) < Place(Kept(S), j)
      /\ \A p \in Kept(S) : \E i \in DOMAIN entries' : Place(Kept(S), i) = p
      /\ \A m \in Nat : 1 .. m \subseteq Kept(S) =>
                 m <= Len(entries') /\ \A i \in 1 .. m : Place(Kept(S), i) = i
  <2> DEFINE C == Cardinality(Kept(S))
  <2>1. /\ \A i \in 1 .. C : i <= Place(Kept(S), i)
        /\ \A i, j \in 1 .. C : i < j => Place(Kept(S), i) < Place(Kept(S), j)
        /\ \A p \in Kept(S) : \E i \in 1 .. C : Place(Kept(S), i) = p
        /\ \A m \in Nat : 1 .. m \subseteq Kept(S) =>
              m <= C /\ \A i \in 1 .. m : Place(Kept(S), i) = i
    BY <1>1, <1>2, PlaceFacts
  <2>2. C = Len(entries') /\ DOMAIN entries' = 1 .. C
    BY <1>4
  <2> HIDE DEF C
  <2> QED
    BY <2>1, <2>2, Zenon
<1>6. \A i \in DOMAIN entries' :
          i \in Nat /\ i >= 1 /\ Place(Kept(S), i) \in DOMAIN entries /\ entries'[i].key \notin S
  BY <1>4 DEF Kept
<1>7. removed' = removed \cup {entries[i].born : i \in DOMAIN entries \ Kept(S)}
  <2>1. {e.born : e \in {f \in Range(entries) : f.key \in S}} =
            {entries[i].born : i \in DOMAIN entries \ Kept(S)}
    BY DEF Range, Kept
  <2> QED
    BY <2>1 DEF RemoveKeys
<1> QED
  BY <1>4, <1>5, <1>6, <1>7

----------------------------------------------------------------------------
(* What a visit records, and what a forEach schedules.                      *)

\* The entry at i is visited, with the value v.
LEMMA VisitFacts ==
    ASSUME TypeInv, VisitInv, NEW i \in DOMAIN entries, NEW v \in ValuesOf(how),
           Visit(entries[i].key, v)
    PROVE  /\ cursor' = entries[i].born /\ births' = births /\ removed' = {}
           /\ Len(visits) \in Nat
           /\ Len(visits') = Len(visits) + 1 /\ DOMAIN visits' = 1 .. Len(visits) + 1
           /\ visits' \in Seq(Item(how))
           /\ \A j \in DOMAIN visits : j \in DOMAIN visits' /\ visits'[j] = visits[j]
           /\ visits'[Len(visits) + 1] =
                 [key |-> entries[i].key, value |-> v, born |-> entries[i].born]
           /\ \A j \in DOMAIN visits' : j \in DOMAIN visits \/ j = Len(visits) + 1
<1> DEFINE e == [key |-> entries[i].key, value |-> v, born |-> entries[i].born]
<1>1. Entry(entries[i].key) = entries[i] /\ e \in Item(how)
  BY EntryFacts DEF Item
<1>2. visits \in Seq(Item(how))
  BY DEF VisitInv
<1>3. visits' = Append(visits, e)
  BY <1>1 DEF Visit
<1>4. cursor' = entries[i].born /\ births' = births /\ removed' = {}
  BY <1>1 DEF Visit
<1> HIDE DEF e
<1> SUFFICES /\ Len(visits) \in Nat
             /\ Len(visits') = Len(visits) + 1 /\ DOMAIN visits' = 1 .. Len(visits) + 1
             /\ visits' \in Seq(Item(how))
             /\ \A j \in DOMAIN visits : j \in DOMAIN visits' /\ visits'[j] = visits[j]
             /\ visits'[Len(visits) + 1] = e
             /\ \A j \in DOMAIN visits' : j \in DOMAIN visits \/ j = Len(visits) + 1
  BY <1>4 DEF e
<1> QED
  BY <1>1, <1>2, <1>3

LEMMA VisitKeeps ==
    ASSUME Base,
           NEW i \in DOMAIN entries, NEW v \in ValuesOf(how), Visit(entries[i].key, v),
           UNCHANGED <<how, entries>>,
           \A j \in DOMAIN visits : visits[j].born = entries[i].born =>
              how = "mapForEach" /\ visits[j].value # v
    PROVE  VisitInv' /\ VisitedOnce'
<1> DEFINE n == Len(visits) + 1
<1> TypeInv /\ VisitInv /\ VisitedOnce
  BY DEF Base
<1>1. /\ births' = births /\ how' = how /\ entries' = entries
      /\ visits' \in Seq(Item(how)) /\ DOMAIN visits' = 1 .. n
      /\ \A j \in DOMAIN visits : visits'[j] = visits[j]
      /\ visits'[n].key = entries[i].key /\ visits'[n].value = v
      /\ visits'[n].born = entries[i].born
      /\ \A j \in DOMAIN visits' : j \in DOMAIN visits \/ j = n
  <2>1. how' = how /\ entries' = entries
    OBVIOUS
  <2>2. visits'[n] = [key |-> entries[i].key, value |-> v, born |-> entries[i].born]
    BY VisitFacts
  <2>3. /\ births' = births /\ visits' \in Seq(Item(how)) /\ DOMAIN visits' = 1 .. n
        /\ \A j \in DOMAIN visits : visits'[j] = visits[j]
        /\ \A j \in DOMAIN visits' : j \in DOMAIN visits \/ j = n
    BY VisitFacts, Zenon
  <2> QED
    BY <2>1, <2>2, <2>3
<1> HIDE DEF n
<1>2. VisitInv'
  <2>1. ASSUME NEW j \in DOMAIN visits'
        PROVE  /\ visits'[j].born \in 1 .. births
               /\ \A l \in DOMAIN entries :
                     visits'[j].born = entries[l].born => visits'[j].key = entries[l].key
    <3>1. CASE j \in DOMAIN visits
      BY <1>1, <3>1 DEF VisitInv
    <3>2. CASE j = n
      <4>1. visits'[j].born = entries[i].born /\ visits'[j].key = entries[i].key
        BY <1>1, <3>2
      <4> QED
        BY <4>1, EntryFacts
    <3> QED
      BY <1>1, <3>1, <3>2
  <2> QED
    BY <1>1, <2>1 DEF VisitInv
<1>3. VisitedOnce'
  <2>1. SUFFICES ASSUME NEW a \in DOMAIN visits', NEW b \in DOMAIN visits', a # b,
                        visits'[a].born = visits'[b].born
                 PROVE  how = "mapForEach" /\ visits'[a].value # visits'[b].value
    BY <1>1 DEF VisitedOnce
  <2>2. CASE a \in DOMAIN visits /\ b \in DOMAIN visits
    BY <1>1, <2>1, <2>2 DEF VisitedOnce
  <2>3. CASE a \in DOMAIN visits /\ b = n
    BY <1>1, <2>1, <2>3
  <2>4. CASE a = n /\ b \in DOMAIN visits
    BY <1>1, <2>1, <2>4
  <2> QED
    BY <1>1, <2>1, <2>2, <2>3, <2>4
<1> QED
  BY <1>2, <1>3

\* Where the entries are that a forEach schedules now.
NewPlaces == {i \in DOMAIN Pairs : IsNew(Pairs[i])}
NewAt(a) == Place(NewPlaces, a - Len(scheduled))

LEMMA PairFacts ==
    ASSUME TypeInv
    PROVE  /\ Pairs \in Seq(Keys \X ValuesOf(how))
           /\ Len(Pairs) = Len(entries) /\ DOMAIN Pairs = DOMAIN entries
           /\ \A i \in DOMAIN entries :
                 /\ Pairs[i] = Pair(entries[i]) /\ Pair(entries[i]) \in Keys \X ValuesOf(how)
                 /\ Pair(entries[i])[1] = entries[i].key
                 /\ Pair(entries[i])[2] = entries[i].value
           /\ \A i, j \in DOMAIN entries : Pair(entries[i]) = Pair(entries[j]) => i = j
<1>1. /\ Len(entries) \in Nat /\ DOMAIN entries = 1 .. Len(entries)
      /\ \A i \in DOMAIN entries : entries[i].key \in Keys /\ entries[i].value \in ValuesOf(how)
      /\ \A i, j \in DOMAIN entries : entries[i].key = entries[j].key => i = j
  BY EntryFacts
<1>2. \A i \in DOMAIN entries :
          /\ Pairs[i] = Pair(entries[i]) /\ Pair(entries[i]) \in Keys \X ValuesOf(how)
          /\ Pair(entries[i])[1] = entries[i].key /\ Pair(entries[i])[2] = entries[i].value
  BY <1>1 DEF Pairs, Pair
<1>3. Pairs \in [1 .. Len(entries) -> Keys \X ValuesOf(how)]
  BY <1>1, <1>2 DEF Pairs
<1>4. /\ Pairs \in Seq(Keys \X ValuesOf(how))
      /\ Len(Pairs) = Len(entries) /\ DOMAIN Pairs = DOMAIN entries
  BY <1>1, <1>3
<1>5. \A i, j \in DOMAIN entries : Pair(entries[i]) = Pair(entries[j]) => i = j
  BY <1>1 DEF Pair
<1> QED
  BY <1>2, <1>4, <1>5

\* What was scheduled stays where it is; what is new comes after it, in the
\* order of the entries.
LEMMA WithNewFacts ==
    ASSUME TypeInv
    PROVE  /\ Len(scheduled) \in Nat /\ DOMAIN scheduled = 1 .. Len(scheduled)
           /\ WithNew \in Seq(Keys \X ValuesOf(how))
           /\ Len(scheduled) <= Len(WithNew) /\ Len(WithNew) \in Nat
           /\ DOMAIN WithNew = 1 .. Len(WithNew)
           /\ \A a \in DOMAIN scheduled : a \in DOMAIN WithNew /\ WithNew[a] = scheduled[a]
           /\ \A a \in DOMAIN WithNew :
                 \/ a \in DOMAIN scheduled
                 \/ /\ Len(scheduled) < a /\ NewAt(a) \in DOMAIN entries
                    /\ IsNew(Pair(entries[NewAt(a)]))
                    /\ WithNew[a] = Pair(entries[NewAt(a)])
           /\ \A a, b \in DOMAIN WithNew :
                 Len(scheduled) < a /\ a < b => NewAt(a) < NewAt(b)
           /\ \A i \in DOMAIN entries : IsNew(Pair(entries[i])) =>
                 \E a \in DOMAIN WithNew : Len(scheduled) < a /\ WithNew[a] = Pair(entries[i])
<1> DEFINE T == Keys \X ValuesOf(how)
           n == Len(scheduled)
           c == Cardinality(NewPlaces)
           w == Retained(Pairs, NewPlaces)
<1>1. scheduled \in Seq(T) /\ n \in Nat /\ DOMAIN scheduled = 1 .. n
  BY DEF TypeInv
<1>2. /\ Pairs \in Seq(T) /\ Len(Pairs) \in Nat /\ DOMAIN Pairs = 1 .. Len(Pairs)
      /\ NewPlaces \in SUBSET DOMAIN Pairs
  BY PairFacts, EntryFacts DEF NewPlaces
<1>3. /\ w \in Seq(T) /\ Len(w) = c /\ c \in Nat /\ DOMAIN w = 1 .. c
      /\ \A k \in 1 .. c : Place(NewPlaces, k) \in NewPlaces /\ w[k] = Pairs[Place(NewPlaces, k)]
  BY <1>2, RetainedFacts
<1>4. /\ \A k, l \in 1 .. c : k < l => Place(NewPlaces, k) < Place(NewPlaces, l)
      /\ \A p \in NewPlaces : \E k \in 1 .. c : Place(NewPlaces, k) = p
  BY <1>2, PlaceFacts
<1>5. WithNew = scheduled \o w
  BY DEF WithNew, NewPlaces
<1> HIDE DEF T, n, c, w
<1>6. n \in Nat /\ c \in Nat
  BY <1>1, <1>3
<1>7. /\ WithNew \in Seq(T) /\ Len(WithNew) = n + c /\ DOMAIN WithNew = 1 .. n + c
      /\ \A a \in 1 .. n : a \in 1 .. n + c /\ WithNew[a] = scheduled[a]
      /\ \A k \in 1 .. c : n + k \in 1 .. n + c /\ WithNew[n + k] = w[k]
  <2>1. WithNew \in Seq(T) /\ Len(WithNew) = n + c
    <3>1. /\ scheduled \in Seq(T) /\ w \in Seq(T) /\ n = Len(scheduled) /\ c = Len(w)
      BY <1>1, <1>3 DEF n
    <3> QED
      BY <1>5, <3>1
  <2>2. DOMAIN WithNew = 1 .. n + c
    BY <2>1
  <2>3. \A a \in 1 .. n : a \in 1 .. n + c
    BY <1>6
  <2>4. \A a \in 1 .. n + c : WithNew[a] = IF a <= n THEN scheduled[a] ELSE w[a - n]
    BY <1>1, <1>3, <1>5 DEF n
  <2>5. \A a \in 1 .. n : WithNew[a] = scheduled[a]
    BY <1>6, <2>3, <2>4
  <2>6. \A k \in 1 .. c : n + k \in 1 .. n + c /\ ~(n + k <= n) /\ (n + k) - n = k
    BY <1>6
  <2>7. \A k \in 1 .. c : WithNew[n + k] = w[k]
    BY <2>4, <2>6
  <2> QED
    BY <2>1, <2>2, <2>3, <2>5, <2>6, <2>7
<1>8. \A a \in 1 .. n + c :
          \/ a \in 1 .. n
          \/ n < a /\ a - n \in 1 .. c /\ n + (a - n) = a
  BY <1>6
<1>9. \A i \in NewPlaces : /\ i \in DOMAIN entries /\ Pairs[i] = Pair(entries[i])
                           /\ IsNew(Pair(entries[i]))
  BY PairFacts DEF NewPlaces
<1>10. ASSUME NEW a \in DOMAIN WithNew, ~(a \in DOMAIN scheduled)
      PROVE  /\ n < a /\ NewAt(a) \in DOMAIN entries /\ IsNew(Pair(entries[NewAt(a)]))
             /\ WithNew[a] = Pair(entries[NewAt(a)])
  <2>1. n < a /\ a - n \in 1 .. c /\ n + (a - n) = a
    BY <1>1, <1>7, <1>8, <1>10
  <2>2. NewAt(a) = Place(NewPlaces, a - n)
    BY DEF NewAt, n
  <2>3. WithNew[a] = w[a - n] /\ NewAt(a) \in NewPlaces /\ w[a - n] = Pairs[NewAt(a)]
    BY <1>3, <1>7, <2>1, <2>2
  <2> QED
    BY <1>9, <2>1, <2>3
<1>11. ASSUME NEW a \in DOMAIN WithNew, NEW b \in DOMAIN WithNew, n < a, a < b
       PROVE  NewAt(a) < NewAt(b)
  <2>1. a - n \in 1 .. c /\ b - n \in 1 .. c /\ a - n < b - n
    BY <1>1, <1>3, <1>7, <1>11
  <2>2. NewAt(a) = Place(NewPlaces, a - n) /\ NewAt(b) = Place(NewPlaces, b - n)
    BY DEF NewAt, n
  <2> QED
    BY <1>4, <2>1, <2>2
<1>12. ASSUME NEW i \in DOMAIN entries, IsNew(Pair(entries[i]))
       PROVE  \E a \in DOMAIN WithNew : n < a /\ WithNew[a] = Pair(entries[i])
  <2>1. i \in NewPlaces /\ Pairs[i] = Pair(entries[i])
    BY <1>12, PairFacts DEF NewPlaces
  <2>2. PICK k \in 1 .. c : Place(NewPlaces, k) = i
    BY <1>4, <2>1
  <2>3. n + k \in DOMAIN WithNew /\ n < n + k /\ WithNew[n + k] = w[k]
    BY <1>1, <1>7
  <2> QED
    BY <1>3, <2>1, <2>2, <2>3
<1>13. n <= Len(WithNew) /\ Len(WithNew) \in Nat
  BY <1>1, <1>3, <1>7
<1>14. \A a \in DOMAIN scheduled : a \in DOMAIN WithNew /\ WithNew[a] = scheduled[a]
  BY <1>1, <1>7
<1>15. DOMAIN WithNew = 1 .. Len(WithNew)
  BY <1>7
<1> QED
  BY <1>1, <1>7, <1>10, <1>11, <1>12, <1>13, <1>14, <1>15 DEF n, T

----------------------------------------------------------------------------
(* Base is kept by a change, and by a step that visits nothing.             *)

LEMMA BaseInit == Init => Base
<1> SUFFICES ASSUME Init
             PROVE  Base
  OBVIOUS
<1>1. PICK n \in Initially : \E keys \in [1 .. n -> Keys] :
          /\ IsInjective(keys)
          /\ \E values \in [1 .. n -> ValuesOf(how)] : entries = Entries(keys, values)
  BY DEF Init
<1>2. PICK keys \in [1 .. n -> Keys] :
          /\ IsInjective(keys)
          /\ \E values \in [1 .. n -> ValuesOf(how)] : entries = Entries(keys, values)
  BY <1>1
<1>3. PICK values \in [1 .. n -> ValuesOf(how)] : entries = Entries(keys, values)
  BY <1>2
<1>4. n \in Nat
  BY BoundsAssumption
<1>5. entries = [i \in 1 .. n |-> [key |-> keys[i], value |-> values[i], born |-> i]]
  BY <1>3 DEF Entries
<1>6. \A i \in 1 .. n : i \in Nat /\ keys[i] \in Keys /\ values[i] \in ValuesOf(how)
  BY <1>4
<1>7. entries \in [1 .. n -> Item(how)]
  BY <1>5, <1>6 DEF Item
<1>8. entries \in Seq(Item(how)) /\ Len(entries) = n /\ DOMAIN entries = 1 .. n
  BY <1>4, <1>5, <1>7
<1>9. \A i \in DOMAIN entries : entries[i].key = keys[i] /\ entries[i].born = i
  BY <1>5, <1>8
<1>10. InOrder(entries)
  <2> SUFFICES ASSUME NEW i \in 1 .. n, NEW j \in 1 .. n, i < j
               PROVE  entries[i].key # entries[j].key /\ entries[i].born < entries[j].born
    BY <1>8 DEF InOrder
  <2>1. i # j
    BY <1>4
  <2>2. keys[i] # keys[j]
    BY <1>2, <2>1 DEF IsInjective
  <2> QED
    BY <1>8, <1>9, <2>2
<1>11. scheduled \in Seq(Keys \X ValuesOf(how))
  <2>1. \A i \in 1 .. n : Pair(entries[i]) \in Keys \X ValuesOf(how)
    BY <1>5, <1>6 DEF Pair
  <2>2. Pairs \in [1 .. n -> Keys \X ValuesOf(how)]
    BY <1>8, <2>1 DEF Pairs
  <2>3. scheduled = Pairs \/ scheduled = <<>>
    BY DEF Init
  <2>4. Pairs \in Seq(Keys \X ValuesOf(how)) /\ <<>> \in Seq(Keys \X ValuesOf(how))
    BY <1>4, <2>2
  <2> QED
    BY <2>3, <2>4
<1>12. TypeInv
  <2>1. \A i \in DOMAIN entries : entries[i].born \in 1 .. births
    BY <1>8, <1>9 DEF Init
  <2>2. births \in Nat /\ cursor \in 0 .. births /\ removed \subseteq 1 .. births
    BY <1>4, <1>8 DEF Init
  <2> QED
    BY <1>8, <1>10, <1>11, <2>1, <2>2 DEF Init, TypeInv
<1>13. VisitInv /\ VisitedOnce
  BY DEF Init, VisitInv, VisitedOnce
<1> QED
  BY <1>12, <1>13 DEF Base

LEMMA BasePut ==
    ASSUME Base, NEW k \in Keys, NEW v \in ValuesOf(how), Put(k, v)
    PROVE  Base'
<1>1. TypeInv /\ VisitInv /\ VisitedOnce
  BY DEF Base
<1>2. /\ how' = how /\ position' = position /\ scheduled' = scheduled /\ before' = before
      /\ current' = current /\ inCallback' = inCallback /\ state' = state
      /\ cursor' = cursor /\ visits' = visits /\ removed' = removed
  BY DEF Put, schedule
<1>3. disturbed' \in BOOLEAN
  BY <1>1 DEF Put, TypeInv
<1>4. births \in Nat /\ births' \in {births, births + 1}
  BY <1>1 DEF Put, TypeInv
<1>5. /\ entries' \in Seq(Item(how)) /\ InOrder(entries')
      /\ \A i \in DOMAIN entries' : entries'[i].born \in 1 .. births'
      /\ \A j \in DOMAIN entries' :
            \/ /\ j \in DOMAIN entries
               /\ entries'[j].key = entries[j].key /\ entries'[j].born = entries[j].born
            \/ entries'[j].born = births + 1
  <2>1. CASE k \in KeysIn(entries)
    <3>1. /\ births' = births /\ entries' \in Seq(Item(how)) /\ DOMAIN entries' = DOMAIN entries
          /\ \A i \in DOMAIN entries :
                entries'[i].key = entries[i].key /\ entries'[i].born = entries[i].born
      BY <1>1, <2>1, PutExisting
    <3> QED
      BY <1>1, <3>1 DEF TypeInv, InOrder
  <2>2. CASE k \notin KeysIn(entries)
    <3> DEFINE n == Len(entries) + 1
    <3>1. /\ births' = births + 1 /\ entries' \in Seq(Item(how)) /\ DOMAIN entries' = 1 .. n
          /\ \A i \in DOMAIN entries : i \in DOMAIN entries' /\ entries'[i] = entries[i]
          /\ entries'[n].key = k /\ entries'[n].born = births + 1
          /\ \A i \in DOMAIN entries' : i \in DOMAIN entries \/ i = n
          /\ \A i \in DOMAIN entries : entries[i].key # k
      <4>1. entries'[n] = [key |-> k, value |-> v, born |-> births + 1]
        BY <1>1, <2>2, PutNew
      <4>2. entries'[n].key = k /\ entries'[n].born = births + 1
        BY <4>1
      <4> QED
        BY <1>1, <2>2, <4>2, PutNew, Zenon
    <3>2. n \in Nat /\ \A i \in DOMAIN entries : i < n /\ i \in Nat
      BY <1>1, EntryFacts
    <3> HIDE DEF n
    <3>3. \A i \in DOMAIN entries' : entries'[i].born \in 1 .. births'
      BY <1>1, <1>4, <3>1 DEF TypeInv
    <3>4. ASSUME NEW i \in DOMAIN entries', NEW j \in DOMAIN entries', i < j
          PROVE  entries'[i].key # entries'[j].key /\ entries'[i].born < entries'[j].born
      <4>1. i \in DOMAIN entries
        BY <3>1, <3>2, <3>4
      <4>2. CASE j \in DOMAIN entries
        BY <1>1, <3>1, <3>4, <4>1, <4>2 DEF TypeInv, InOrder
      <4>3. CASE j = n
        <5>1. entries[i].born \in 1 .. births
          BY <1>1, <4>1 DEF TypeInv
        <5> QED
          BY <1>4, <3>1, <4>1, <4>3, <5>1
      <4> QED
        BY <3>1, <4>2, <4>3
    <3> QED
      BY <3>1, <3>3, <3>4 DEF InOrder
  <2> QED
    BY <2>1, <2>2
<1>6. TypeInv'
  <2>1. /\ cursor \in 0 .. births' /\ removed \subseteq 1 .. births' /\ births' \in Nat
    BY <1>1, <1>4 DEF TypeInv
  <2> QED
    BY <1>1, <1>2, <1>3, <1>5, <2>1 DEF TypeInv
<1>7. VisitInv'
  <2>1. visits' \in Seq(Item(how')) /\ DOMAIN visits' = DOMAIN visits
    BY <1>1, <1>2 DEF VisitInv
  <2>2. ASSUME NEW i \in DOMAIN visits
        PROVE  /\ visits[i].born \in 1 .. births'
               /\ \A j \in DOMAIN entries' :
                     visits[i].born = entries'[j].born => visits[i].key = entries'[j].key
    <3>1. visits[i].born \in 1 .. births
      BY <1>1 DEF VisitInv
    <3>2. visits[i].born # births + 1 /\ visits[i].born \in 1 .. births'
      BY <1>4, <3>1
    <3> QED
      BY <1>1, <1>5, <3>2 DEF VisitInv
  <2> QED
    BY <1>2, <2>1, <2>2 DEF VisitInv
<1>8. VisitedOnce'
  BY <1>1, <1>2 DEF VisitedOnce
<1> QED
  BY <1>6, <1>7, <1>8 DEF Base

LEMMA BaseRemove ==
    ASSUME Base, NEW S, RemoveKeys(S)
    PROVE  Base'
<1> DEFINE at(i) == Place(Kept(S), i)
<1>1. TypeInv /\ VisitInv /\ VisitedOnce
  BY DEF Base
<1>2. /\ how' = how /\ position' = position /\ scheduled' = scheduled /\ before' = before
      /\ current' = current /\ inCallback' = inCallback /\ state' = state
      /\ cursor' = cursor /\ visits' = visits /\ births' = births
  BY DEF RemoveKeys, schedule, history
<1>3. disturbed' \in BOOLEAN
  BY <1>1 DEF RemoveKeys, TypeInv
<1>4. /\ entries' \in Seq(Item(how))
      /\ \A i \in DOMAIN entries' : at(i) \in DOMAIN entries /\ entries'[i] = entries[at(i)]
      /\ \A i, j \in DOMAIN entries' : i < j => at(i) < at(j)
  BY <1>1, RemoveFacts
<1>5. removed' = removed \cup {entries[i].born : i \in DOMAIN entries \ Kept(S)}
  BY <1>1, RemoveFacts
<1> HIDE DEF at
<1>6. TypeInv'
  <2>1. InOrder(entries')
    BY <1>1, <1>4 DEF InOrder, TypeInv
  <2>2. removed' \subseteq 1 .. births
    BY <1>1, <1>5 DEF TypeInv
  <2>3. \A i \in DOMAIN entries' : entries'[i].born \in 1 .. births
    BY <1>1, <1>4 DEF TypeInv
  <2> QED
    BY <1>1, <1>2, <1>3, <1>4, <2>1, <2>2, <2>3 DEF TypeInv
<1>7. VisitInv'
  BY <1>1, <1>2, <1>4 DEF VisitInv
<1>8. VisitedOnce'
  BY <1>1, <1>2 DEF VisitedOnce
<1> QED
  BY <1>6, <1>7, <1>8 DEF Base

\* A step that leaves the entries and the history alone.
LEMMA BaseKept ==
    ASSUME Base, UNCHANGED <<how, entries, births, cursor, visits, removed, disturbed>>,
           position' \in Nat, scheduled' \in Seq(Keys \X ValuesOf(how)),
           before' \subseteq Keys, current' \in Keys \cup {NoKey}, inCallback' \in BOOLEAN,
           state' \in {"going", "exhausted", "stopped"},
           inCallback' => state' = "going" /\ how # "iterator"
    PROVE  Base'
<1>1. TypeInv'
  BY DEF Base, TypeInv
<1>2. VisitInv' /\ VisitedOnce'
  BY DEF Base, VisitInv, VisitedOnce
<1> QED
  BY <1>1, <1>2 DEF Base

\* A step that visits the entry at i, which was not visited before.
LEMMA BaseVisit ==
    ASSUME Base, NEW i \in DOMAIN entries, NEW v \in ValuesOf(how), Visit(entries[i].key, v),
           UNCHANGED <<how, entries, state, disturbed>>,
           \A j \in DOMAIN visits : visits[j].born = entries[i].born =>
              how = "mapForEach" /\ visits[j].value # v,
           position' \in Nat, scheduled' \in Seq(Keys \X ValuesOf(how)),
           before' \subseteq Keys, current' \in Keys \cup {NoKey}, inCallback' \in BOOLEAN,
           inCallback' => state' = "going" /\ how # "iterator"
    PROVE  Base'
<1>1. TypeInv /\ VisitInv
  BY DEF Base
<1>2. cursor' = entries[i].born /\ births' = births /\ removed' = {}
  BY <1>1, VisitFacts
<1>3. entries[i].born \in 1 .. births /\ births \in Nat
  BY <1>1 DEF TypeInv
<1>4. cursor' \in 0 .. births'
  BY <1>2, <1>3
<1>5. TypeInv'
  BY <1>1, <1>2, <1>4 DEF TypeInv
<1>6. UNCHANGED <<how, entries>>
  OBVIOUS
<1>7. VisitInv' /\ VisitedOnce'
  BY <1>6, VisitKeeps
<1> QED
  BY <1>5, <1>7 DEF Base

----------------------------------------------------------------------------
(* An iterator: what goes at or before its position only moves its entries  *)
(* back, and what goes beyond it moves none that it has passed.             *)

LEMMA IteratorPut ==
    ASSUME Base, IteratorInv, how = "iterator",
           NEW k \in Keys, NEW v \in ValuesOf(how), Put(k, v)
    PROVE  IteratorInv'
<1>1. TypeInv /\ VisitInv /\ IteratorOnce /\ (Undisturbed => IteratorOrder)
  BY DEF Base, IteratorInv
<1>2. /\ position' = position /\ cursor' = cursor /\ visits' = visits /\ state' = state
      /\ disturbed' \in BOOLEAN /\ (disturbed => disturbed')
  BY <1>1 DEF Put, schedule, TypeInv
<1>3. Undisturbed' => Undisturbed
  BY <1>1, <1>2 DEF Undisturbed, TypeInv
<1>4. CASE k \in KeysIn(entries)
  <2>1. entries' = entries
    BY <1>1, <1>4, PutExisting
  <2> QED
    BY <1>1, <1>2, <1>3, <2>1 DEF IteratorInv, IteratorOnce, IteratorOrder, Visited
<1>5. CASE k \notin KeysIn(entries)
  <2> DEFINE n == Len(entries) + 1
  <2>1. entries'[n] = [key |-> k, value |-> v, born |-> births + 1]
    BY <1>1, <1>5, PutNew
  <2>2. /\ Len(entries') = n /\ entries'[n].born = births + 1
        /\ \A i \in DOMAIN entries : entries'[i] = entries[i]
        /\ \A i \in DOMAIN entries' : i \in DOMAIN entries \/ i = n
    BY <1>1, <1>5, <2>1, PutNew
  <2>3. /\ Len(entries) \in Nat /\ births \in Nat /\ cursor \in 0 .. births /\ position \in Nat
        /\ \A i \in DOMAIN visits : visits[i].born \in 1 .. births
    BY <1>1, EntryFacts DEF TypeInv, VisitInv
  <2>4. IteratorOnce'
    <3> SUFFICES ASSUME NEW j \in DOMAIN entries', Visited(entries[j])'
                 PROVE  j <= position
      BY <1>2 DEF IteratorOnce
    <3>1. \E i \in DOMAIN visits : visits[i].born = entries'[j].born
      BY <1>2 DEF Visited
    <3>2. j # n
      BY <2>2, <2>3, <3>1
    <3> QED
      BY <1>1, <2>2, <3>1, <3>2 DEF IteratorOnce, Visited
  <2>5. Undisturbed' => IteratorOrder'
    <3> SUFFICES ASSUME IteratorOrder
                 PROVE  IteratorOrder'
      BY <1>1, <1>3
    <3>1. position <= Len(entries')
      BY <2>2, <2>3 DEF IteratorOrder
    <3>2. ~(n <= position) /\ ~(births + 1 <= cursor)
      BY <2>3 DEF IteratorOrder
    <3>3. \A j \in DOMAIN entries' : j <= position <=> entries'[j].born <= cursor
      BY <2>2, <3>2 DEF IteratorOrder
    <3> QED
      BY <1>2, <3>1, <3>3 DEF IteratorOrder
  <2> QED
    BY <2>4, <2>5 DEF IteratorInv
<1> QED
  BY <1>4, <1>5

LEMMA IteratorRemove ==
    ASSUME Base, IteratorInv, how = "iterator", NEW S, RemoveKeys(S)
    PROVE  IteratorInv'
<1> DEFINE at(i) == Place(Kept(S), i)
<1>1. TypeInv /\ VisitInv /\ IteratorOnce /\ (Undisturbed => IteratorOrder)
  BY DEF Base, IteratorInv
<1>2. /\ position' = position /\ cursor' = cursor /\ visits' = visits /\ state' = state
      /\ disturbed' = (disturbed \/ \E b \in removed' : b <= cursor)
  BY DEF RemoveKeys, DisturbsByRemoval, schedule, history
<1>3. Undisturbed' => Undisturbed /\ \A b \in removed' : ~(b <= cursor)
  BY <1>1, <1>2 DEF Undisturbed, TypeInv
<1>4. /\ \A i \in DOMAIN entries' :
            /\ i \in Nat /\ at(i) \in DOMAIN entries /\ i <= at(i)
            /\ entries'[i] = entries[at(i)]
      /\ \A m \in Nat : 1 .. m \subseteq Kept(S) =>
            m <= Len(entries') /\ \A i \in 1 .. m : at(i) = i
      /\ \A i \in DOMAIN entries \ Kept(S) : entries[i].born \in removed'
  BY <1>1, RemoveFacts
<1> HIDE DEF at
<1>5. position \in Nat /\ \A i \in DOMAIN entries : i \in Nat /\ i >= 1
  BY <1>1, EntryFacts DEF TypeInv
<1>6. IteratorOnce'
  <2> SUFFICES ASSUME NEW j \in DOMAIN entries', Visited(entries[j])'
               PROVE  j <= position
    BY <1>2 DEF IteratorOnce
  <2>1. Visited(entries[at(j)])
    BY <1>2, <1>4 DEF Visited
  <2>2. at(j) <= position
    BY <1>1, <1>4, <2>1 DEF IteratorOnce
  <2> QED
    BY <1>4, <1>5, <2>2
<1>7. ASSUME Undisturbed'
      PROVE  IteratorOrder'
  <2>1. IteratorOrder /\ \A b \in removed' : ~(b <= cursor)
    BY <1>1, <1>3, <1>7
  <2>2. 1 .. position \subseteq Kept(S)
    <3> SUFFICES ASSUME NEW i \in 1 .. position, i \notin Kept(S)
                 PROVE  FALSE
      OBVIOUS
    <3>1. i \in DOMAIN entries
      BY <1>1, <1>5, <2>1, EntryFacts DEF IteratorOrder
    <3>2. entries[i].born <= cursor
      BY <1>5, <2>1, <3>1 DEF IteratorOrder
    <3> QED
      BY <1>4, <2>1, <3>1, <3>2
  <2>3. position <= Len(entries') /\ \A i \in 1 .. position : at(i) = i
    BY <1>4, <1>5, <2>2
  <2>4. ASSUME NEW j \in DOMAIN entries'
        PROVE  j <= position <=> entries'[j].born <= cursor
    <3>1. j \in Nat /\ at(j) \in Nat /\ j <= at(j) /\ at(j) >= 1
      BY <1>4, <1>5
    <3>2. j \in DOMAIN entries' => j >= 1
      BY <1>1, RemoveFacts
    <3>3. j <= position <=> at(j) <= position
      BY <1>5, <2>3, <3>1, <3>2
    <3> QED
      BY <1>4, <2>1, <3>3 DEF IteratorOrder
  <2> QED
    BY <1>2, <2>3, <2>4 DEF IteratorOrder
<1> QED
  BY <1>6, <1>7 DEF IteratorInv

LEMMA IteratorNext ==
    ASSUME Base, IteratorInv, IteratorVisits
    PROVE  Base' /\ IteratorInv'
<1> DEFINE n == position + 1
<1>1. /\ TypeInv /\ VisitInv /\ IteratorOnce /\ (Undisturbed => IteratorOrder)
      /\ how = "iterator"
  BY DEF Base, IteratorInv, IteratorVisits
<1>2. /\ how' = how /\ entries' = entries /\ state' = state /\ disturbed' = disturbed
      /\ scheduled' = scheduled /\ before' = before /\ current' = current
      /\ inCallback' = inCallback /\ position' = n
      /\ position < Len(entries) /\ Visit(entries[n].key, entries[n].value)
  BY DEF IteratorVisits
<1>3. n \in DOMAIN entries /\ n \in Nat /\ position \in Nat /\ ~(n <= position)
  BY <1>1, <1>2, EntryFacts DEF TypeInv
<1>4. entries[n].value \in ValuesOf(how)
  BY <1>1, <1>3, EntryFacts
<1> HIDE DEF n
<1>5. \A j \in DOMAIN visits : visits[j].born # entries[n].born
  BY <1>1, <1>3 DEF IteratorOnce, Visited
<1>6. Base'
  <2>1. /\ scheduled \in Seq(Keys \X ValuesOf(how)) /\ before \subseteq Keys
        /\ current \in Keys \cup {NoKey} /\ inCallback \in BOOLEAN /\ inCallback = FALSE
    BY <1>1 DEF TypeInv
  <2>2. UNCHANGED <<how, entries, state, disturbed>>
    BY <1>2
  <2> QED
    BY <1>2, <1>3, <1>4, <1>5, <2>1, <2>2, BaseVisit
<1>7. /\ cursor' = entries[n].born /\ DOMAIN visits' = 1 .. Len(visits) + 1
      /\ \A j \in DOMAIN visits' : j \in DOMAIN visits \/ j = Len(visits) + 1
      /\ \A j \in DOMAIN visits : visits'[j] = visits[j]
      /\ visits'[Len(visits) + 1].born = entries[n].born
  <2>1. visits'[Len(visits) + 1] =
            [key |-> entries[n].key, value |-> entries[n].value, born |-> entries[n].born]
    BY <1>1, <1>2, <1>3, <1>4, VisitFacts
  <2> QED
    BY <1>1, <1>2, <1>3, <1>4, <2>1, VisitFacts
<1>8. \A j \in DOMAIN entries : j \in Nat /\ (j <= n <=> j <= position \/ j = n)
  BY <1>1, <1>3, EntryFacts DEF n
<1>9. IteratorOnce'
  <2> SUFFICES ASSUME NEW j \in DOMAIN entries, Visited(entries[j])'
               PROVE  j <= n
    BY <1>2 DEF IteratorOnce
  <2>1. PICK i \in DOMAIN visits' : visits'[i].born = entries[j].born
    BY <1>2 DEF Visited
  <2>2. Visited(entries[j]) \/ entries[j].born = entries[n].born
    BY <1>7, <2>1 DEF Visited
  <2>3. CASE Visited(entries[j])
    BY <1>1, <1>8, <2>3 DEF IteratorOnce
  <2>4. CASE entries[j].born = entries[n].born
    BY <1>1, <1>3, <1>8, <2>4, EntryFacts
  <2> QED
    BY <2>2, <2>3, <2>4
<1>10. Undisturbed' => IteratorOrder'
  <2> SUFFICES ASSUME IteratorOrder
               PROVE  IteratorOrder'
    BY <1>1, <1>2 DEF Undisturbed
  <2>1. n <= Len(entries)
    BY <1>1, <1>3, EntryFacts
  <2>2. ASSUME NEW j \in DOMAIN entries
        PROVE  j <= n <=> entries[j].born <= entries[n].born
    <3>1. j < n <=> entries[j].born < entries[n].born
      BY <1>1, <1>3, EntryFacts
    <3>2. j = n <=> entries[j].born = entries[n].born
      BY <1>1, <1>3, EntryFacts
    <3>3. entries[j].born \in Nat /\ entries[n].born \in Nat
      BY <1>1, <1>3, EntryFacts
    <3> QED
      BY <1>3, <1>8, <3>1, <3>2, <3>3
  <2> QED
    BY <1>2, <1>7, <2>1, <2>2 DEF IteratorOrder
<1> QED
  BY <1>6, <1>9, <1>10 DEF IteratorInv

----------------------------------------------------------------------------
(* Set.prototype.forEach.                                                   *)

\* Visits are those before and the one that is made.
LEMMA VisitedNow ==
    ASSUME TypeInv, VisitInv, NEW i \in DOMAIN entries, NEW v \in ValuesOf(how),
           Visit(entries[i].key, v)
    PROVE  /\ \A b : (\E j \in DOMAIN visits' : visits'[j].born = b)
                     => b = entries[i].born \/ \E j \in DOMAIN visits : visits[j].born = b
           /\ KeysIn(visits') = KeysIn(visits) \cup {entries[i].key}
<1> DEFINE n == Len(visits) + 1
<1>1. visits'[n] = [key |-> entries[i].key, value |-> v, born |-> entries[i].born]
  BY VisitFacts
<1>2. /\ visits'[n].born = entries[i].born /\ visits'[n].key = entries[i].key
      /\ n \in DOMAIN visits'
      /\ \A j \in DOMAIN visits' : j \in DOMAIN visits \/ j = n
      /\ \A j \in DOMAIN visits : j \in DOMAIN visits' /\ visits'[j] = visits[j]
  BY <1>1, VisitFacts
<1> HIDE DEF n
<1>3. KeysIn(visits') = KeysIn(visits) \cup {entries[i].key}
  BY <1>2 DEF KeysIn
<1> QED
  BY <1>2, <1>3

\* All values of a Set are one, so that keys tell its pairs apart.
LEMMA SetPairs ==
    ASSUME TypeInv, how = "setForEach", position <= Len(scheduled)
    PROVE  /\ \A a \in DOMAIN scheduled :
                 scheduled[a][1] \in Keys /\ scheduled[a] = <<scheduled[a][1], Unit>>
           /\ \A k : <<k, Unit>> \in Range(Remaining) <=> k \in ToCome
           /\ \A i \in DOMAIN entries : Pair(entries[i]) = <<entries[i].key, Unit>>
           /\ \A i \in DOMAIN entries : IsNew(Pair(entries[i]))
                 <=> entries[i].key \notin before /\ entries[i].key \notin ToCome
<1>1. ValuesOf(how) = {Unit}
  BY DEF ValuesOf
<1>2. /\ scheduled \in Seq(Keys \X {Unit}) /\ Len(scheduled) \in Nat
      /\ DOMAIN scheduled = 1 .. Len(scheduled) /\ position \in Nat
  BY <1>1 DEF TypeInv
<1>3. \A a \in DOMAIN scheduled :
          scheduled[a][1] \in Keys /\ scheduled[a] = <<scheduled[a][1], Unit>>
  <2> TAKE a \in DOMAIN scheduled
  <2>1. scheduled[a] \in Keys \X {Unit}
    BY <1>2
  <2> QED
    BY <2>1
<1>4. /\ Len(Remaining) = Len(scheduled) - position
      /\ DOMAIN Remaining = 1 .. Len(scheduled) - position
      /\ \A a \in 1 .. Len(scheduled) - position : Remaining[a] = scheduled[position + a]
  <2> DEFINE m == position + 1
             n == Len(scheduled)
  <2>1. m \in Int /\ n \in Int /\ \A i \in m .. n : scheduled[i] \in Keys \X {Unit}
    BY <1>2
  <2>2. /\ Remaining \in Seq(Keys \X {Unit})
        /\ Len(Remaining) = IF m <= n THEN n - m + 1 ELSE 0
        /\ \A i \in 1 .. n - m + 1 : Remaining[i] = scheduled[m + i - 1]
    <3> HIDE DEF m, n
    <3>1. Remaining = SubSeq(scheduled, m, n)
      BY DEF Remaining, m, n
    <3> QED
      BY <2>1, <3>1, SubSeqProperties
  <2>3. n - m + 1 = n - position /\ \A i \in Nat : m + i - 1 = position + i
    BY <1>2
  <2>4. Len(Remaining) = n - position
    BY <1>2, <2>2
  <2> QED
    BY <2>2, <2>3, <2>4
<1>5. ASSUME NEW k
      PROVE  <<k, Unit>> \in Range(Remaining) <=> k \in ToCome
  <2>1. ASSUME <<k, Unit>> \in Range(Remaining)
        PROVE  k \in ToCome
    <3>1. PICK a \in DOMAIN Remaining : Remaining[a] = <<k, Unit>>
      BY <2>1 DEF Range
    <3>2. position + a \in DOMAIN scheduled /\ position < position + a
      BY <1>2, <1>4
    <3>3. scheduled[position + a][1] = k
      BY <1>4, <3>1
    <3> QED
      BY <3>2, <3>3 DEF ToCome
  <2>2. ASSUME k \in ToCome
        PROVE  <<k, Unit>> \in Range(Remaining)
    <3>1. PICK a \in DOMAIN scheduled : position < a /\ scheduled[a][1] = k
      BY <2>2 DEF ToCome
    <3>2. a - position \in DOMAIN Remaining /\ position + (a - position) = a
      BY <1>2, <1>4, <3>1
    <3>3. Remaining[a - position] = <<k, Unit>>
      BY <1>3, <1>4, <3>1, <3>2
    <3> QED
      BY <3>2, <3>3 DEF Range
  <2> QED
    BY <2>1, <2>2
<1>6. \A i \in DOMAIN entries : Pair(entries[i]) = <<entries[i].key, Unit>>
  BY <1>1, EntryFacts DEF Pair
<1>7. \A i \in DOMAIN entries : IsNew(Pair(entries[i]))
          <=> entries[i].key \notin before /\ entries[i].key \notin ToCome
  BY <1>5, <1>6 DEF IsNew
<1> QED
  BY <1>3, <1>5, <1>6, <1>7

LEMMA SetPut ==
    ASSUME Base, SetInv, how = "setForEach",
           NEW k \in Keys, NEW v \in ValuesOf(how), Put(k, v)
    PROVE  SetInv'
<1>1. /\ TypeInv /\ VisitInv /\ position <= Len(scheduled)
      /\ SetOnce /\ SetMissed /\ (Undisturbed => SetOrder)
  BY DEF Base, SetInv
<1>2. /\ position' = position /\ scheduled' = scheduled /\ before' = before
      /\ inCallback' = inCallback /\ state' = state /\ cursor' = cursor /\ visits' = visits
      /\ disturbed' = (disturbed \/ DisturbsByPut(k, v))
  BY DEF Put, schedule
<1>3. inCallback = TRUE /\ state = "going"
  BY <1>1 DEF Put, JsRuns, TypeInv
<1>4. ToCome' = ToCome
  BY <1>2 DEF ToCome
<1>5. CASE k \in KeysIn(entries)
  <2>1. entries' = entries
    BY <1>1, <1>5, PutExisting
  <2>2. Undisturbed' => Undisturbed
    BY <1>1, <1>2 DEF Undisturbed, TypeInv
  <2>3. SetOnce' /\ SetMissed'
    BY <1>1, <1>2, <1>4, <2>1 DEF SetOnce, SetMissed, Visited
  <2>4. SetOrder => SetOrder'
    BY <1>2, <1>4, <2>1 DEF SetOrder
  <2> QED
    BY <1>1, <1>2, <2>2, <2>3, <2>4 DEF SetInv
<1>6. CASE k \notin KeysIn(entries)
  <2> DEFINE n == Len(entries) + 1
  <2>1. entries'[n] = [key |-> k, value |-> v, born |-> births + 1]
    BY <1>1, <1>6, PutNew
  <2>2. /\ entries'[n].born = births + 1 /\ entries'[n].key = k /\ n \in DOMAIN entries'
        /\ \A i \in DOMAIN entries : entries'[i] = entries[i]
        /\ \A i \in DOMAIN entries' : i \in DOMAIN entries \/ i = n
    BY <1>1, <1>6, <2>1, PutNew
  <2>3. /\ births \in Nat /\ cursor \in 0 .. births
        /\ \A i \in DOMAIN visits : visits[i].born # births + 1
        /\ n \in Nat /\ \A i \in DOMAIN entries : i \in Nat /\ i < n
    BY <1>1, EntryFacts DEF TypeInv, VisitInv
  <2>4. Undisturbed' => Undisturbed /\ k \notin before /\ k \notin ToCome
    <3>1. DisturbsByPut(k, v) <=> k \in before \/ <<k, Unit>> \in Range(Remaining)
      BY <1>6 DEF DisturbsByPut
    <3> QED
      BY <1>1, <1>2, <3>1, SetPairs DEF Undisturbed, TypeInv
  <2> HIDE DEF n
  <2>5. SetOnce'
    <3>1. ASSUME NEW j \in DOMAIN entries', Visited(entries[j])'
          PROVE  entries'[j].key \notin ToCome /\ entries'[j].key \in before
      <4>1. \E i \in DOMAIN visits : visits[i].born = entries'[j].born
        BY <1>2, <3>1 DEF Visited
      <4>2. j \in DOMAIN entries /\ Visited(entries[j])
        BY <2>2, <2>3, <4>1 DEF Visited
      <4> QED
        BY <1>1, <1>3, <2>2, <4>2 DEF SetOnce
    <3> QED
      BY <1>1, <1>2, <1>4, <3>1 DEF SetOnce
  <2>6. SetMissed'
    BY <1>1, <1>2, <1>3, <1>4 DEF SetMissed
  <2>7. ASSUME Undisturbed'
        PROVE  SetOrder'
    <3>1. SetOrder /\ k \notin before /\ k \notin ToCome
      BY <1>1, <2>4, <2>7
    <3>2. cursor < births + 1
      BY <2>3
    <3>3. ASSUME NEW a \in DOMAIN scheduled, NEW b \in DOMAIN scheduled,
                 NEW i \in DOMAIN entries', NEW j \in DOMAIN entries',
                 position < a, a < b, scheduled[a][1] = entries'[i].key,
                 scheduled[b][1] = entries'[j].key
          PROVE  i < j
      <4>1. a \in Nat /\ b \in Nat /\ position \in Nat /\ position < b
        BY <1>1, <3>3 DEF TypeInv
      <4>2. entries'[i].key \in ToCome /\ entries'[j].key \in ToCome
        BY <3>3, <4>1 DEF ToCome
      <4> QED
        BY <2>2, <3>1, <3>3, <4>2 DEF SetOrder
    <3>4. ASSUME NEW i \in DOMAIN entries'
          PROVE  IF entries'[i].key \in ToCome
                 THEN /\ cursor < entries'[i].born
                      /\ \A j \in DOMAIN entries' :
                            cursor < entries'[j].born /\ entries'[j].key \notin ToCome => i < j
                 ELSE cursor < entries'[i].born => inCallback /\ entries'[i].key \notin before
      BY <1>3, <2>2, <2>3, <3>1 DEF SetOrder
    <3>5. ASSUME NEW i \in DOMAIN entries', entries'[i].key \notin before
          PROVE  cursor < entries'[i].born /\ entries'[i].key \notin ToCome
      BY <1>3, <2>2, <3>1, <3>2, <3>5 DEF SetOrder
    <3> QED
      BY <1>2, <1>4, <3>3, <3>4, <3>5 DEF SetOrder
  <2> QED
    BY <1>1, <1>2, <2>5, <2>6, <2>7 DEF SetInv
<1> QED
  BY <1>5, <1>6

LEMMA SetRemove ==
    ASSUME Base, SetInv, how = "setForEach", NEW S, RemoveKeys(S)
    PROVE  SetInv'
<1> DEFINE at(i) == Place(Kept(S), i)
<1>1. /\ TypeInv /\ VisitInv /\ position <= Len(scheduled)
      /\ SetOnce /\ SetMissed /\ (Undisturbed => SetOrder)
  BY DEF Base, SetInv
<1>2. /\ position' = position /\ scheduled' = scheduled /\ before' = before
      /\ inCallback' = inCallback /\ state' = state /\ cursor' = cursor /\ visits' = visits
  BY DEF RemoveKeys, schedule, history
<1>3. inCallback = TRUE /\ state = "going"
  BY <1>1 DEF RemoveKeys, JsRuns, TypeInv
<1>4. ToCome' = ToCome
  BY <1>2 DEF ToCome
<1>5. Undisturbed' => Undisturbed
  BY <1>1, <1>2 DEF RemoveKeys, DisturbsByRemoval, Undisturbed, TypeInv
<1>6. /\ \A i \in DOMAIN entries' :
            i \in Nat /\ at(i) \in DOMAIN entries /\ entries'[i] = entries[at(i)]
      /\ \A i, j \in DOMAIN entries' : i < j => at(i) < at(j)
  BY <1>1, RemoveFacts
<1> HIDE DEF at
<1>7. \A i, j \in DOMAIN entries' : at(i) < at(j) => i < j
  <2> TAKE i, j \in DOMAIN entries'
  <2>1. i \in Nat /\ j \in Nat /\ at(i) \in Nat /\ at(j) \in Nat
    BY <1>1, <1>6, EntryFacts
  <2> QED
    BY <1>6, <2>1
<1>8. SetOnce'
  <2>1. ASSUME NEW j \in DOMAIN entries', Visited(entries[j])'
        PROVE  entries'[j].key \notin ToCome /\ entries'[j].key \in before
    <3>1. Visited(entries[at(j)])
      BY <1>2, <1>6, <2>1 DEF Visited
    <3> QED
      BY <1>1, <1>3, <1>6, <3>1 DEF SetOnce
  <2> QED
    BY <1>1, <1>2, <1>4, <2>1 DEF SetOnce
<1>9. SetMissed'
  BY <1>1, <1>2, <1>3, <1>4 DEF SetMissed
<1>10. SetOrder => SetOrder'
  <2> SUFFICES ASSUME SetOrder
               PROVE  SetOrder'
    OBVIOUS
  <2>1. \A a, b \in DOMAIN scheduled, i, j \in DOMAIN entries' :
            position < a /\ a < b /\ scheduled[a][1] = entries'[i].key
            /\ scheduled[b][1] = entries'[j].key => i < j
    BY <1>6, <1>7 DEF SetOrder
  <2>2. \A i \in DOMAIN entries' :
            IF entries'[i].key \in ToCome
            THEN /\ cursor < entries'[i].born
                 /\ \A j \in DOMAIN entries' :
                       cursor < entries'[j].born /\ entries'[j].key \notin ToCome => i < j
            ELSE cursor < entries'[i].born => inCallback /\ entries'[i].key \notin before
    BY <1>6, <1>7 DEF SetOrder
  <2>3. \A i \in DOMAIN entries' : entries'[i].key \notin before =>
            cursor < entries'[i].born /\ entries'[i].key \notin ToCome
    BY <1>3, <1>6 DEF SetOrder
  <2> QED
    BY <1>2, <1>4, <2>1, <2>2, <2>3 DEF SetOrder
<1> QED
  BY <1>1, <1>2, <1>5, <1>8, <1>9, <1>10 DEF SetInv

\* The callback runs for the key at the position, which leaves what is to come.
LEMMA SetCalls ==
    ASSUME Base, SetInv, how = "setForEach", ForEachCalls
    PROVE  Base' /\ SetInv'
<1> DEFINE n == position + 1
           k == scheduled[n][1]
<1>1. /\ TypeInv /\ VisitInv /\ position <= Len(scheduled)
      /\ SetOnce /\ SetMissed /\ (Undisturbed => SetOrder)
  BY DEF Base, SetInv
<1>2. /\ how' = how /\ entries' = entries /\ state' = state /\ disturbed' = disturbed
      /\ scheduled' = scheduled /\ before' = KeysIn(entries) /\ current' = current
      /\ inCallback' = TRUE /\ position' = n /\ state = "going" /\ inCallback = FALSE
      /\ position < Len(scheduled) /\ k \in KeysIn(entries)
      /\ Visit(k, scheduled[n][2])
  BY <1>1 DEF ForEachCalls, ForEach, StillPresent, Scheduled, TypeInv
<1>3. n \in DOMAIN scheduled /\ n \in Nat /\ position \in Nat /\ position < n
  BY <1>1, <1>2 DEF TypeInv
<1>4. scheduled[n] \in Keys \X ValuesOf(how) /\ scheduled[n][2] \in ValuesOf(how)
  <2>1. scheduled[n] \in Keys \X ValuesOf(how)
    BY <1>1, <1>3 DEF TypeInv
  <2> QED
    BY <2>1
<1> HIDE DEF n, k
<1>5. PICK i \in DOMAIN entries : entries[i].key = k
  BY <1>2 DEF KeysIn
<1>6. k \in ToCome /\ ~Visited(entries[i])
  BY <1>1, <1>3, <1>5 DEF SetOnce, ToCome, k
<1>7. Visit(entries[i].key, scheduled[n][2])
  BY <1>2, <1>5
<1>8. Base'
  <2>1. \A j \in DOMAIN visits : visits[j].born # entries[i].born
    BY <1>6 DEF Visited
  <2>2. /\ scheduled \in Seq(Keys \X ValuesOf(how)) /\ KeysIn(entries) \subseteq Keys
        /\ current \in Keys \cup {NoKey}
    BY <1>1, EntryFacts DEF TypeInv, KeysIn
  <2>3. UNCHANGED <<how, entries, state, disturbed>>
    BY <1>2
  <2> QED
    BY <1>2, <1>3, <1>4, <1>7, <2>1, <2>2, <2>3, BaseVisit
<1>9. /\ cursor' = entries[i].born /\ KeysIn(visits') = KeysIn(visits) \cup {k}
      /\ \A b : (\E j \in DOMAIN visits' : visits'[j].born = b)
                => b = entries[i].born \/ \E j \in DOMAIN visits : visits[j].born = b
  BY <1>1, <1>4, <1>5, <1>7, VisitFacts, VisitedNow
<1>10. \A a \in DOMAIN scheduled :
           a \in Nat /\ (position < a <=> a = n \/ n < a) /\ (n < a => position < a /\ a # n)
  BY <1>1, <1>3 DEF TypeInv, n
<1>11. \A l : l \in ToCome' <=> l \in ToCome /\ l # k
  <2>1. \A l : l \in ToCome' <=> \E a \in DOMAIN scheduled : n < a /\ scheduled[a][1] = l
    BY <1>2 DEF ToCome
  <2>2. \A l : l \in ToCome <=> \E a \in DOMAIN scheduled : position < a /\ scheduled[a][1] = l
    BY DEF ToCome
  <2>3. \A a \in DOMAIN scheduled : n < a => scheduled[a][1] # k
    <3> SUFFICES ASSUME NEW a \in DOMAIN scheduled, n < a, scheduled[a][1] = k
                 PROVE  FALSE
      OBVIOUS
    <3>1. scheduled[a] = scheduled[n]
      BY <1>1, <1>3, SetPairs DEF k
    <3> QED
      BY <1>1, <1>3, <1>10, <3>1 DEF SetOnce
  <2> QED
    BY <1>10, <2>1, <2>2, <2>3 DEF k
<1>12. SetOnce'
  <2>1. \A a, b \in DOMAIN scheduled :
            n < a /\ n < b /\ scheduled[a] = scheduled[b] => a = b
    BY <1>1, <1>10 DEF SetOnce
  <2>2. ASSUME NEW j \in DOMAIN entries, Visited(entries[j])'
        PROVE  entries[j].key \notin ToCome' /\ entries[j].key \in KeysIn(entries)
    <3>1. Visited(entries[j]) \/ entries[j].born = entries[i].born
      BY <1>2, <1>9, <2>2 DEF Visited
    <3>2. entries[j].born = entries[i].born => entries[j].key = k
      BY <1>1, <1>5, EntryFacts
    <3> QED
      BY <1>1, <1>11, <3>1, <3>2, EntryFacts DEF SetOnce
  <2> QED
    BY <1>2, <2>1, <2>2 DEF SetOnce
<1>13. SetMissed'
  <2>1. KeysIn(entries) \subseteq KeysIn(visits) \cup ToCome
    BY <1>1, <1>2 DEF SetMissed
  <2>2. KeysIn(entries) \subseteq KeysIn(visits)' \cup ToCome'
    BY <1>9, <1>11, <2>1
  <2>3. KeysIn(visits)' = KeysIn(visits')
    BY DEF KeysIn
  <2> QED
    BY <1>2, <2>2, <2>3 DEF SetMissed
<1>14. Undisturbed' => SetOrder'
  <2> SUFFICES ASSUME SetOrder
               PROVE  SetOrder'
    BY <1>1, <1>2 DEF Undisturbed
  <2>1. cursor < entries[i].born /\ entries[i].key \in ToCome
    BY <1>5, <1>6 DEF SetOrder
  <2>2. \A j \in DOMAIN entries :
            /\ entries[j].born \in Nat /\ cursor \in Nat
            /\ i < j <=> entries[i].born < entries[j].born
            /\ entries[j].key = k => j = i
    BY <1>1, <1>5, EntryFacts DEF TypeInv
  <2>3. \A j \in DOMAIN entries : entries[j].key \notin ToCome => ~(cursor < entries[j].born)
    BY <1>2 DEF SetOrder
  <2>4. ASSUME NEW j \in DOMAIN entries, entries[i].born < entries[j].born
        PROVE  entries[j].key \in ToCome'
    <3>1. cursor < entries[j].born /\ j # i
      BY <2>1, <2>2, <2>4
    <3> QED
      BY <1>11, <2>2, <2>3, <3>1
  <2>5. ASSUME NEW j \in DOMAIN entries, entries[j].key \in ToCome'
        PROVE  entries[i].born < entries[j].born
    <3>1. PICK a \in DOMAIN scheduled : n < a /\ scheduled[a][1] = entries[j].key
      BY <1>2, <2>5 DEF ToCome
    <3>2. i < j
      BY <1>3, <1>5, <3>1 DEF SetOrder, k
    <3> QED
      BY <2>2, <3>2
  <2>6. \A a, b \in DOMAIN scheduled, l, j \in DOMAIN entries :
            n < a /\ a < b /\ scheduled[a][1] = entries[l].key
            /\ scheduled[b][1] = entries[j].key => l < j
    BY <1>10 DEF SetOrder
  <2>7. \A j \in DOMAIN entries : entries[j].key \in KeysIn(entries)
    BY <1>1, EntryFacts
  <2> QED
    BY <1>2, <1>9, <2>4, <2>5, <2>6, <2>7 DEF SetOrder
<1> QED
  BY <1>1, <1>2, <1>3, <1>8, <1>12, <1>13, <1>14 DEF SetInv, TypeInv

\* It does not run for a key that is gone.
LEMMA SetSkips ==
    ASSUME Base, SetInv, how = "setForEach", ForEachSkips
    PROVE  Base' /\ SetInv'
<1> DEFINE n == position + 1
           k == scheduled[n][1]
<1>1. /\ TypeInv /\ VisitInv /\ position <= Len(scheduled)
      /\ SetOnce /\ SetMissed /\ (Undisturbed => SetOrder)
  BY DEF Base, SetInv
<1>2. /\ how' = how /\ entries' = entries /\ state' = state /\ disturbed' = disturbed
      /\ scheduled' = scheduled /\ before' = before /\ current' = current
      /\ inCallback' = inCallback /\ position' = n /\ state = "going" /\ inCallback = FALSE
      /\ births' = births /\ cursor' = cursor /\ visits' = visits /\ removed' = removed
      /\ position < Len(scheduled) /\ k \notin KeysIn(entries)
  BY <1>1 DEF ForEachSkips, ForEach, StillPresent, Scheduled, TypeInv, history
<1>3. n \in DOMAIN scheduled /\ n \in Nat /\ position \in Nat /\ n <= Len(scheduled)
  BY <1>1, <1>2 DEF TypeInv
<1> HIDE DEF n, k
<1>4. Base'
  <2>1. /\ scheduled \in Seq(Keys \X ValuesOf(how)) /\ before \subseteq Keys
        /\ current \in Keys \cup {NoKey} /\ inCallback \in BOOLEAN
        /\ state \in {"going", "exhausted", "stopped"}
        /\ inCallback => state = "going" /\ how # "iterator"
    BY <1>1 DEF TypeInv
  <2>2. UNCHANGED <<how, entries, births, cursor, visits, removed, disturbed>>
    BY <1>2
  <2> QED
    BY <1>2, <1>3, <2>1, <2>2, BaseKept
<1>5. \A a \in DOMAIN scheduled :
          a \in Nat /\ (position < a <=> a = n \/ n < a) /\ (n < a => position < a)
  BY <1>1, <1>3 DEF TypeInv, n
<1>6. \A j \in DOMAIN entries : entries[j].key \in KeysIn(entries) /\ entries[j].key # k
  BY <1>1, <1>2, EntryFacts
<1>7. \A l : l \in ToCome' => l \in ToCome
  BY <1>2, <1>5 DEF ToCome
<1>8. \A l : l \in ToCome => l \in ToCome' \/ l = k
  BY <1>2, <1>5 DEF ToCome, k
<1>9. \A j \in DOMAIN entries : entries[j].key \in ToCome' <=> entries[j].key \in ToCome
  BY <1>6, <1>7, <1>8
<1>10. SetOnce'
  <2>1. \A a, b \in DOMAIN scheduled :
            n < a /\ n < b /\ scheduled[a] = scheduled[b] => a = b
    BY <1>1, <1>5 DEF SetOnce
  <2>2. \A j \in DOMAIN entries : Visited(entries[j])' <=> Visited(entries[j])
    BY <1>2 DEF Visited
  <2> QED
    BY <1>1, <1>2, <1>7, <2>1, <2>2 DEF SetOnce
<1>11. SetMissed'
  <2>1. KeysIn(entries) \subseteq KeysIn(visits) \cup ToCome
    BY <1>1, <1>2 DEF SetMissed
  <2>2. KeysIn(entries) \subseteq KeysIn(visits) \cup ToCome'
    BY <1>2, <1>8, <2>1
  <2> QED
    BY <1>2, <2>2 DEF SetMissed
<1>12. Undisturbed' => SetOrder'
  <2> SUFFICES ASSUME SetOrder
               PROVE  SetOrder'
    BY <1>1, <1>2 DEF Undisturbed
  <2>1. \A a, b \in DOMAIN scheduled, l, j \in DOMAIN entries :
            n < a /\ a < b /\ scheduled[a][1] = entries[l].key
            /\ scheduled[b][1] = entries[j].key => l < j
    BY <1>5 DEF SetOrder
  <2> QED
    BY <1>2, <1>9, <2>1 DEF SetOrder
<1> QED
  BY <1>2, <1>3, <1>4, <1>10, <1>11, <1>12 DEF SetInv

\* It ends, or stops, where it is.
LEMMA SetLeaves ==
    ASSUME Base, SetInv, how = "setForEach", ForEachEnds \/ CallbackStops
    PROVE  SetInv'
<1>1. /\ TypeInv /\ position <= Len(scheduled)
      /\ SetOnce /\ SetMissed /\ (Undisturbed => SetOrder)
  BY DEF Base, SetInv
<1>2. /\ how' = how /\ entries' = entries /\ disturbed' = disturbed /\ cursor' = cursor
      /\ scheduled' = scheduled /\ before' = before /\ position' = position /\ visits' = visits
  BY DEF ForEachEnds, Exhausted, CallbackStops, schedule, history
<1>3. /\ inCallback' = FALSE
      /\ \/ state' = "stopped"
         \/ /\ state = "going" /\ state' = "exhausted"
            /\ position = Len(scheduled) /\ inCallback = FALSE
  BY <1>1 DEF ForEachEnds, Exhausted, CallbackStops, ForEach, TypeInv
<1>4. ToCome' = ToCome
  BY <1>2 DEF ToCome
<1>5. SetOnce'
  BY <1>1, <1>2, <1>3, <1>4 DEF SetOnce, Visited
<1>6. SetMissed'
  <2>1. CASE state' = "stopped"
    BY <2>1 DEF SetMissed
  <2>2. CASE state' # "stopped"
    <3>1. ToCome = {}
      BY <1>1, <1>3, <2>2 DEF ToCome, TypeInv
    <3>2. KeysIn(entries) \subseteq KeysIn(visits)
      BY <1>1, <1>3, <2>2, <3>1 DEF SetMissed
    <3> QED
      BY <1>2, <1>3, <2>2, <3>2 DEF SetMissed
  <2> QED
    BY <2>1, <2>2
<1>7. Undisturbed' => SetOrder'
  <2> SUFFICES ASSUME Undisturbed'
               PROVE  SetOrder'
    OBVIOUS
  <2>1. SetOrder /\ inCallback = FALSE
    BY <1>1, <1>2, <1>3 DEF Undisturbed
  <2> QED
    BY <1>2, <1>3, <1>4, <2>1 DEF SetOrder
<1> QED
  BY <1>1, <1>2, <1>5, <1>6, <1>7 DEF SetInv

\* What was added while the callback ran is scheduled.
LEMMA SetReturns ==
    ASSUME Base, SetInv, how = "setForEach", CallbackReturns
    PROVE  SetInv'
<1> DEFINE n == Len(scheduled)
           New(i) == entries[i].key \notin before /\ entries[i].key \notin ToCome
<1>1. /\ TypeInv /\ position <= Len(scheduled)
      /\ SetOnce /\ SetMissed /\ (Undisturbed => SetOrder)
  BY DEF Base, SetInv
<1>2. /\ how' = how /\ entries' = entries /\ disturbed' = disturbed /\ cursor' = cursor
      /\ scheduled' = WithNew /\ before' = before /\ position' = position /\ visits' = visits
      /\ inCallback' = FALSE /\ inCallback = TRUE /\ state = "going" /\ state' = state
  BY <1>1 DEF CallbackReturns, TypeInv, history
<1>3. /\ n \in Nat /\ DOMAIN scheduled = 1 .. n /\ n <= Len(WithNew) /\ Len(WithNew) \in Nat
      /\ DOMAIN WithNew = 1 .. Len(WithNew)
      /\ \A a \in DOMAIN scheduled : a \in DOMAIN WithNew /\ WithNew[a] = scheduled[a]
  BY <1>1, WithNewFacts
<1>4. \A a \in DOMAIN WithNew : \/ a \in DOMAIN scheduled /\ WithNew[a] = scheduled[a]
                                \/ /\ n < a /\ NewAt(a) \in DOMAIN entries
                                   /\ WithNew[a] = Pair(entries[NewAt(a)])
                                   /\ WithNew[a][1] = entries[NewAt(a)].key /\ New(NewAt(a))
  <2> TAKE a \in DOMAIN WithNew
  <2>1. \/ a \in DOMAIN scheduled /\ WithNew[a] = scheduled[a]
        \/ /\ n < a /\ NewAt(a) \in DOMAIN entries
           /\ WithNew[a] = Pair(entries[NewAt(a)]) /\ IsNew(Pair(entries[NewAt(a)]))
    BY <1>1, WithNewFacts
  <2> QED
    BY <1>1, <2>1, SetPairs, PairFacts
<1>5. \A a, b \in DOMAIN WithNew : n < a /\ a < b => NewAt(a) < NewAt(b)
  BY <1>1, WithNewFacts
<1>6. \A i \in DOMAIN entries : New(i) =>
          \E a \in DOMAIN WithNew : n < a /\ WithNew[a] = Pair(entries[i])
                                    /\ WithNew[a][1] = entries[i].key
  BY <1>1, WithNewFacts, SetPairs, PairFacts
<1> HIDE DEF n
<1>7. \A a \in DOMAIN WithNew : /\ a \in Nat /\ position \in Nat /\ position <= n
                                /\ n < a => position < a /\ ~(a \in DOMAIN scheduled)
                                /\ a \in DOMAIN scheduled => a <= n
  BY <1>1, <1>3 DEF TypeInv, n
<1>8. \A l : l \in ToCome' <=>
                 l \in ToCome \/ \E i \in DOMAIN entries : entries[i].key = l /\ New(i)
  <2>1. \A l : l \in ToCome' <=> \E a \in DOMAIN WithNew : position < a /\ WithNew[a][1] = l
    BY <1>2 DEF ToCome
  <2>2. \A l : l \in ToCome <=> \E a \in DOMAIN scheduled : position < a /\ scheduled[a][1] = l
    BY DEF ToCome
  <2> HIDE DEF New
  <2>3. ASSUME NEW l, l \in ToCome'
        PROVE  l \in ToCome \/ \E i \in DOMAIN entries : entries[i].key = l /\ New(i)
    <3>1. PICK a \in DOMAIN WithNew : position < a /\ WithNew[a][1] = l
      BY <2>1, <2>3
    <3> QED
      BY <1>4, <2>2, <3>1
  <2>4. ASSUME NEW l, l \in ToCome
        PROVE  l \in ToCome'
    BY <1>3, <2>1, <2>2, <2>4
  <2>5. ASSUME NEW i \in DOMAIN entries, New(i)
        PROVE  entries[i].key \in ToCome'
    BY <1>6, <1>7, <2>1, <2>5
  <2> QED
    BY <2>3, <2>4, <2>5
<1>9. \A j \in DOMAIN entries : entries[j].key \in ToCome' <=> entries[j].key \in ToCome \/ New(j)
  BY <1>1, <1>8, EntryFacts
<1>10. \A a \in DOMAIN WithNew : position < a /\ a \in DOMAIN scheduled => WithNew[a][1] \in ToCome
  BY <1>3 DEF ToCome
<1>11. SetOnce'
  <2>1. ASSUME NEW a \in DOMAIN WithNew, NEW b \in DOMAIN WithNew,
               position < a, position < b, WithNew[a] = WithNew[b]
        PROVE  a = b
    <3>1. CASE a \in DOMAIN scheduled /\ b \in DOMAIN scheduled
      BY <1>1, <1>3, <2>1, <3>1 DEF SetOnce
    <3>2. CASE ~(a \in DOMAIN scheduled) /\ ~(b \in DOMAIN scheduled)
      <4>1. NewAt(a) = NewAt(b) /\ NewAt(a) \in DOMAIN entries /\ n < a /\ n < b
        BY <1>1, <1>4, <2>1, <3>2, PairFacts
      <4>2. ~(NewAt(a) < NewAt(b)) /\ ~(NewAt(b) < NewAt(a))
        BY <1>1, <4>1, EntryFacts
      <4> QED
        BY <1>5, <1>7, <4>1, <4>2
    <3>3. CASE ~(a \in DOMAIN scheduled <=> b \in DOMAIN scheduled)
      BY <1>4, <1>10, <2>1, <3>3
    <3> QED
      BY <3>1, <3>2, <3>3
  <2>2. \A j \in DOMAIN entries : Visited(entries[j])' <=> Visited(entries[j])
    BY <1>2 DEF Visited
  <2>3. \A j \in DOMAIN entries : Visited(entries[j]) => entries[j].key \notin ToCome'
    BY <1>1, <1>2, <1>9 DEF SetOnce
  <2> QED
    BY <1>2, <2>1, <2>2, <2>3 DEF SetOnce
<1>12. SetMissed'
  <2>1. before \subseteq KeysIn(visits) \cup ToCome
    BY <1>1, <1>2 DEF SetMissed
  <2>2. \A l \in KeysIn(entries) : l \in KeysIn(visits) \cup ToCome'
    <3> TAKE l \in KeysIn(entries)
    <3>1. PICK i \in DOMAIN entries : entries[i].key = l
      BY DEF KeysIn
    <3> QED
      BY <1>8, <2>1, <3>1
  <2> QED
    BY <1>2, <2>2 DEF SetMissed
<1>13. Undisturbed' => SetOrder'
  <2> SUFFICES ASSUME SetOrder
               PROVE  SetOrder'
    BY <1>1, <1>2 DEF Undisturbed
  <2>1. \A i \in DOMAIN entries : New(i) =>
            /\ cursor < entries[i].born
            /\ \A j \in DOMAIN entries : entries[j].key \in ToCome => j < i
    BY <1>2 DEF SetOrder
  <2>2. ASSUME NEW a \in DOMAIN WithNew, NEW b \in DOMAIN WithNew,
               NEW i \in DOMAIN entries, NEW j \in DOMAIN entries,
               position < a, a < b, WithNew[a][1] = entries[i].key, WithNew[b][1] = entries[j].key
        PROVE  i < j
    <3>1. position < b
      BY <1>7, <2>2
    <3>2. CASE a \in DOMAIN scheduled /\ b \in DOMAIN scheduled
      BY <1>3, <2>2, <3>2 DEF SetOrder
    <3>3. CASE a \in DOMAIN scheduled /\ ~(b \in DOMAIN scheduled)
      <4>1. entries[i].key \in ToCome /\ New(j)
        BY <1>4, <1>10, <2>2, <3>3, EntryFacts, <1>1
      <4> QED
        BY <2>1, <4>1
    <3>4. CASE ~(a \in DOMAIN scheduled) /\ ~(b \in DOMAIN scheduled)
      <4>1. n < a /\ NewAt(a) = i /\ NewAt(b) = j
        BY <1>1, <1>4, <2>2, <3>4, EntryFacts
      <4> QED
        BY <1>5, <2>2, <4>1
    <3>5. CASE ~(a \in DOMAIN scheduled) /\ b \in DOMAIN scheduled
      BY <1>3, <1>4, <1>7, <2>2, <3>5
    <3> QED
      BY <3>2, <3>3, <3>4, <3>5
  <2>3. \A i \in DOMAIN entries :
            IF entries[i].key \in ToCome' THEN cursor < entries[i].born
            ELSE ~(cursor < entries[i].born)
    BY <1>2, <1>9, <2>1 DEF SetOrder
  <2> QED
    BY <1>2, <2>2, <2>3 DEF SetOrder
<1>14. position <= Len(WithNew)
  BY <1>1, <1>3 DEF TypeInv, n
<1> QED
  BY <1>2, <1>11, <1>12, <1>13, <1>14 DEF SetInv

----------------------------------------------------------------------------
(* A method of Set.                                                         *)

LEMMA MethodPut ==
    ASSUME Base, MethodInv, how = "setMethod",
           NEW k \in Keys, NEW v \in ValuesOf(how), Put(k, v)
    PROVE  MethodInv'
<1>1. TypeInv /\ VisitInv /\ MethodOnce /\ (Undisturbed => MethodOrder)
  BY DEF Base, MethodInv
<1>2. /\ position' = position /\ current' = current /\ state' = state /\ cursor' = cursor
      /\ visits' = visits /\ removed' = removed
      /\ disturbed' = (disturbed \/ DisturbsByPut(k, v))
  BY DEF Put, schedule
<1>3. Undisturbed' => Undisturbed /\ ~DisturbsByPut(k, v)
  BY <1>1, <1>2 DEF Undisturbed, TypeInv
<1>4. CASE k \in KeysIn(entries)
  <2>1. entries' = entries
    BY <1>1, <1>4, PutExisting
  <2>2. MethodOnce'
    BY <1>1, <1>2, <2>1 DEF MethodOnce, Visited
  <2>3. MethodOrder => MethodOrder'
    BY <1>2, <2>1 DEF MethodOrder
  <2> QED
    BY <1>1, <1>3, <2>2, <2>3 DEF MethodInv
<1>5. CASE k \notin KeysIn(entries)
  <2> DEFINE n == Len(entries) + 1
  <2>1. entries'[n] = [key |-> k, value |-> v, born |-> births + 1]
    BY <1>1, <1>5, PutNew
  <2>2. /\ entries'[n].born = births + 1 /\ entries'[n].key = k /\ Len(entries') = n
        /\ \A i \in DOMAIN entries : i \in DOMAIN entries' /\ entries'[i] = entries[i]
        /\ \A i \in DOMAIN entries' : i \in DOMAIN entries \/ i = n
    BY <1>1, <1>5, <2>1, PutNew
  <2>3. /\ births \in Nat /\ cursor \in 0 .. births
        /\ \A i \in DOMAIN visits : visits[i].born # births + 1
        /\ \A i \in DOMAIN entries : i \in Nat /\ i <= n
        /\ Len(entries) \in Nat /\ position \in Nat
    BY <1>1, EntryFacts DEF TypeInv, VisitInv
  <2>4. MethodOnce'
    <3> SUFFICES ASSUME NEW j \in DOMAIN entries', Visited(entries[j])'
                 PROVE  /\ j <= position \/ entries'[j].key = current
                        /\ \A i \in DOMAIN entries' : entries'[i].key = current => j <= i
      BY <1>2 DEF MethodOnce
    <3>1. \E i \in DOMAIN visits : visits[i].born = entries'[j].born
      BY <1>2 DEF Visited
    <3>2. j \in DOMAIN entries /\ Visited(entries[j])
      BY <2>2, <2>3, <3>1 DEF Visited
    <3> HIDE DEF n
    <3> QED
      BY <1>1, <2>2, <2>3, <3>2 DEF MethodOnce
  <2>5. ASSUME Undisturbed'
        PROVE  MethodOrder'
    <3>1. MethodOrder /\ k # current
      BY <1>1, <1>3, <1>5, <2>5 DEF DisturbsByPut
    <3>2. births + 1 # cursor /\ ~(births + 1 < cursor)
      BY <2>3
    <3>3. \A i \in DOMAIN entries' : entries'[i].key = current <=> entries'[i].born = cursor
      BY <2>2, <3>1, <3>2 DEF MethodOrder
    <3>4. \/ cursor \in removed \/ current = NoKey
          \/ \E i \in DOMAIN entries' : entries'[i].key = current
      BY <2>2, <3>1 DEF MethodOrder
    <3>5. (\A b \in removed : cursor <= b) =>
              /\ position <= Len(entries')
              /\ \A j \in DOMAIN entries' : j <= position <=> entries'[j].born < cursor
      <4> SUFFICES ASSUME \A b \in removed : cursor <= b
                   PROVE  /\ position <= Len(entries')
                          /\ \A j \in DOMAIN entries' : j <= position <=> entries'[j].born < cursor
        OBVIOUS
      <4>1. /\ position <= Len(entries)
            /\ \A j \in DOMAIN entries : j <= position <=> entries[j].born < cursor
        BY <3>1 DEF MethodOrder
      <4>2. position <= n /\ ~(n <= position)
        BY <2>3, <4>1
      <4> HIDE DEF n
      <4> QED
        BY <2>2, <3>2, <4>1, <4>2
    <3> QED
      BY <1>2, <3>1, <3>3, <3>4, <3>5 DEF MethodOrder
  <2> QED
    BY <2>4, <2>5 DEF MethodInv
<1> QED
  BY <1>4, <1>5

LEMMA MethodRemove ==
    ASSUME Base, MethodInv, how = "setMethod", NEW S, RemoveKeys(S)
    PROVE  MethodInv'
<1> DEFINE at(i) == Place(Kept(S), i)
<1>1. TypeInv /\ VisitInv /\ MethodOnce /\ (Undisturbed => MethodOrder)
  BY DEF Base, MethodInv
<1>2. /\ position' = position /\ current' = current /\ state' = state /\ cursor' = cursor
      /\ visits' = visits
      /\ disturbed' = (disturbed \/ (cursor \in removed' /\ \E b \in removed' : b < cursor))
  BY DEF RemoveKeys, DisturbsByRemoval, schedule, history
<1>3. Undisturbed' => Undisturbed /\ (cursor \in removed' => \A b \in removed' : ~(b < cursor))
  BY <1>1, <1>2 DEF Undisturbed, TypeInv
<1>4. /\ \A i \in DOMAIN entries' :
            /\ i \in Nat /\ i >= 1 /\ at(i) \in DOMAIN entries /\ i <= at(i)
            /\ entries'[i] = entries[at(i)]
      /\ \A i, j \in DOMAIN entries' : i < j => at(i) < at(j)
      /\ \A p \in Kept(S) : \E i \in DOMAIN entries' : at(i) = p
      /\ \A m \in Nat : 1 .. m \subseteq Kept(S) =>
            m <= Len(entries') /\ \A i \in 1 .. m : at(i) = i
      /\ removed' = removed \cup {entries[i].born : i \in DOMAIN entries \ Kept(S)}
  BY <1>1, RemoveFacts
<1> HIDE DEF at
<1>5. /\ position \in Nat /\ cursor \in Nat
      /\ \A i \in DOMAIN entries : i \in Nat /\ i >= 1 /\ entries[i].born \in Nat
  BY <1>1, EntryFacts DEF TypeInv
<1>6. \A b \in removed' : b \in Nat
  <2>1. \A b \in removed : b \in Nat
    BY <1>1 DEF TypeInv
  <2> QED
    BY <1>4, <1>5, <2>1
<1>7. MethodOnce'
  <2> SUFFICES ASSUME NEW j \in DOMAIN entries', Visited(entries[j])'
               PROVE  /\ j <= position \/ entries'[j].key = current
                      /\ \A i \in DOMAIN entries' : entries'[i].key = current => j <= i
    BY <1>2 DEF MethodOnce
  <2>1. Visited(entries[at(j)])
    BY <1>2, <1>4 DEF Visited
  <2>2. at(j) <= position \/ entries'[j].key = current
    BY <1>1, <1>4, <2>1 DEF MethodOnce
  <2>3. at(j) <= position => j <= position
    BY <1>4, <1>5
  <2>4. ASSUME NEW i \in DOMAIN entries', entries'[i].key = current
        PROVE  j <= i
    <3>1. at(j) <= at(i) /\ at(j) \in Nat /\ at(i) \in Nat /\ i \in Nat /\ j \in Nat
      BY <1>1, <1>4, <1>5, <2>1, <2>4 DEF MethodOnce
    <3> QED
      BY <1>4, <3>1
  <2> QED
    BY <2>2, <2>3, <2>4
<1>8. ASSUME Undisturbed'
      PROVE  MethodOrder'
  <2>1. MethodOrder /\ (cursor \in removed' => \A b \in removed' : ~(b < cursor))
    BY <1>1, <1>3, <1>8
  <2>2. \A i \in DOMAIN entries' : entries'[i].key = current <=> entries'[i].born = cursor
    BY <1>4, <2>1 DEF MethodOrder
  <2>3. \/ cursor \in removed' \/ current = NoKey
        \/ \E i \in DOMAIN entries' : entries'[i].key = current
    <3>1. CASE cursor \in removed \/ current = NoKey
      BY <1>4, <3>1
    <3>2. ASSUME NEW p \in DOMAIN entries, entries[p].key = current
          PROVE  cursor \in removed' \/ \E i \in DOMAIN entries' : entries'[i].key = current
      <4>1. CASE p \in Kept(S)
        BY <1>4, <3>2, <4>1
      <4>2. CASE p \notin Kept(S)
        <5>1. entries[p].born = cursor
          BY <2>1, <3>2 DEF MethodOrder
        <5> QED
          BY <1>4, <4>2, <5>1
      <4> QED
        BY <4>1, <4>2
    <3> QED
      BY <2>1, <3>1, <3>2 DEF MethodOrder
  <2>4. ASSUME cursor \in removed', NEW b \in removed'
        PROVE  cursor <= b
    <3>1. ~(b < cursor) /\ b \in Nat /\ cursor \in Nat
      BY <1>5, <1>6, <2>1, <2>4
    <3> QED
      BY <3>1
  <2>5. ASSUME \A b \in removed' : cursor <= b
        PROVE  /\ position <= Len(entries')
               /\ \A j \in DOMAIN entries' : j <= position <=> entries'[j].born < cursor
    <3>1. \A b \in removed : cursor <= b
      BY <1>4, <2>5
    <3>2. /\ position <= Len(entries)
          /\ \A j \in DOMAIN entries : j <= position <=> entries[j].born < cursor
      BY <2>1, <3>1 DEF MethodOrder
    <3>3. 1 .. position \subseteq Kept(S)
      <4> SUFFICES ASSUME NEW i \in 1 .. position, i \notin Kept(S)
                   PROVE  FALSE
        OBVIOUS
      <4>1. i \in DOMAIN entries
        BY <1>1, <1>5, <3>2, EntryFacts
      <4>2. entries[i].born < cursor /\ entries[i].born \in removed'
        BY <1>4, <3>2, <4>1
      <4> QED
        BY <1>5, <2>5, <4>1, <4>2
    <3>4. position <= Len(entries') /\ \A i \in 1 .. position : at(i) = i
      BY <1>4, <1>5, <3>3
    <3>5. ASSUME NEW j \in DOMAIN entries'
          PROVE  j <= position <=> entries'[j].born < cursor
      <4>1. j \in Nat /\ j >= 1 /\ at(j) \in Nat /\ j <= at(j)
        BY <1>4, <1>5
      <4>2. j <= position <=> at(j) <= position
        BY <1>5, <3>4, <4>1
      <4> QED
        BY <1>4, <3>2, <4>2
    <3> QED
      BY <3>4, <3>5
  <2>6. current = NoKey => cursor = 0
    BY <2>1 DEF MethodOrder
  <2> QED
    BY <1>2, <2>2, <2>3, <2>4, <2>5, <2>6 DEF MethodOrder
<1> QED
  BY <1>7, <1>8 DEF MethodInv

\* Nothing at or behind its index was left out, and nothing beyond was visited.
LEMMA IndexFacts ==
    ASSUME TypeInv, MethodOnce, Index < Len(entries)
    PROVE  /\ Index \in Nat /\ Index + 1 \in DOMAIN entries
           /\ \A j \in DOMAIN entries : Visited(entries[j]) => j <= Index
<1>1. Len(entries) \in Nat /\ DOMAIN entries = 1 .. Len(entries) /\ position \in Nat
  BY EntryFacts DEF TypeInv
<1>2. CASE current \in KeysIn(entries)
  <2>1. PICK i \in DOMAIN entries : entries[i].key = current
    BY <1>2 DEF KeysIn
  <2>2. Index = i
    BY <1>2, <2>1, EntryFacts DEF Index
  <2> QED
    BY <1>1, <2>1, <2>2 DEF MethodOnce
<1>3. CASE current \notin KeysIn(entries)
  <2>1. Index = position
    BY <1>3 DEF Index
  <2>2. \A j \in DOMAIN entries : entries[j].key # current
    BY <1>3, EntryFacts
  <2> QED
    BY <1>1, <2>1, <2>2 DEF MethodOnce
<1> QED
  BY <1>2, <1>3

LEMMA MethodNext ==
    ASSUME Base, MethodInv, MethodCalls
    PROVE  Base' /\ MethodInv'
<1> DEFINE n == Index + 1
           k == entries[n].key
<1>1. TypeInv /\ VisitInv /\ MethodOnce /\ how = "setMethod"
  BY DEF Base, MethodInv, MethodCalls
<1>2. /\ how' = how /\ entries' = entries /\ state' = state /\ disturbed' = disturbed
      /\ scheduled' = scheduled /\ before' = before /\ current' = k
      /\ inCallback' = TRUE /\ position' = Index /\ state = "going"
      /\ Index < Len(entries) /\ Visit(k, Unit)
  BY DEF MethodCalls
<1>3. /\ Index \in Nat /\ n \in DOMAIN entries /\ Index < n
      /\ \A j \in DOMAIN entries : Visited(entries[j]) => j <= Index
  BY <1>1, <1>2, IndexFacts
<1>4. \A j \in DOMAIN entries :
          /\ j \in Nat /\ (j <= Index <=> j < n) /\ (j < n => j <= n) /\ n <= n
          /\ j < n <=> entries[j].born < entries[n].born
          /\ entries[j].key = k <=> j = n
          /\ entries[j].born = entries[n].born <=> j = n
  BY <1>1, <1>3, EntryFacts
<1>5. Unit \in ValuesOf(how) /\ k \in Keys /\ k # NoKey
  BY <1>1, <1>3, EntryFacts, KeysAssumption DEF ValuesOf
<1> HIDE DEF n
<1>6. ~Visited(entries[n])
  BY <1>3, <1>4
<1>7. Base'
  <2>1. \A j \in DOMAIN visits : visits[j].born # entries[n].born
    BY <1>6 DEF Visited
  <2>2. scheduled \in Seq(Keys \X ValuesOf(how)) /\ before \subseteq Keys
    BY <1>1 DEF TypeInv
  <2>3. UNCHANGED <<how, entries, state, disturbed>>
    BY <1>2
  <2> QED
    BY <1>1, <1>2, <1>3, <1>5, <2>1, <2>2, <2>3, BaseVisit
<1>8. /\ cursor' = entries[n].born /\ removed' = {}
      /\ \A b : (\E j \in DOMAIN visits' : visits'[j].born = b)
                => b = entries[n].born \/ \E j \in DOMAIN visits : visits[j].born = b
  BY <1>1, <1>2, <1>3, <1>5, VisitFacts, VisitedNow
<1> HIDE DEF k
<1>9. MethodOnce'
  <2> SUFFICES ASSUME NEW j \in DOMAIN entries, Visited(entries[j])'
               PROVE  /\ j <= Index \/ entries[j].key = k
                      /\ \A i \in DOMAIN entries : entries[i].key = k => j <= i
    BY <1>2 DEF MethodOnce
  <2>1. Visited(entries[j]) \/ entries[j].born = entries[n].born
    BY <1>2, <1>8 DEF Visited
  <2>2. j <= Index \/ j = n
    BY <1>3, <1>4, <2>1
  <2> QED
    BY <1>4, <2>2
<1>10. MethodOrder'
  <2>1. Index <= Len(entries)
    BY <1>1, <1>2, <1>3, EntryFacts
  <2> QED
    BY <1>2, <1>3, <1>4, <1>5, <1>8, <2>1 DEF MethodOrder
<1> QED
  BY <1>7, <1>9, <1>10 DEF MethodInv

LEMMA MethodLeaves ==
    ASSUME Base, MethodInv, how = "setMethod", MethodEnds \/ CallbackReturns \/ CallbackStops
    PROVE  MethodInv'
<1>1. /\ entries' = entries /\ disturbed' = disturbed /\ cursor' = cursor /\ removed' = removed
      /\ position' = position /\ visits' = visits /\ current' = current
  BY DEF MethodEnds, Exhausted, CallbackReturns, CallbackStops, schedule, history
<1>2. state' = "stopped" \/ (state = "going" /\ state' # "stopped")
  BY DEF Base, TypeInv, MethodEnds, Exhausted, CallbackReturns, CallbackStops
<1>3. Undisturbed' => Undisturbed
  BY <1>1, <1>2 DEF Undisturbed
<1>4. MethodOnce => MethodOnce'
  BY <1>1 DEF MethodOnce, Visited
<1>5. MethodOrder => MethodOrder'
  BY <1>1 DEF MethodOrder
<1> QED
  BY <1>3, <1>4, <1>5 DEF MethodInv

----------------------------------------------------------------------------
(* Map.prototype.forEach.                                                   *)

LEMMA MapIsNew ==
    ASSUME how = "mapForEach", NEW pair
    PROVE  (IsNew(pair) <=> ~IsScheduled(pair)) /\ (pair \in Range(scheduled) <=> IsScheduled(pair))
  BY DEF IsNew, IsScheduled, Range

LEMMA MapPut ==
    ASSUME Base, MapInv, how = "mapForEach",
           NEW k \in Keys, NEW v \in ValuesOf(how), Put(k, v)
    PROVE  MapInv'
<1>1. TypeInv /\ position <= Len(scheduled) /\ MapOnce /\ (Undisturbed => MapOrder)
  BY DEF Base, MapInv
<1>2. /\ position' = position /\ scheduled' = scheduled /\ inCallback' = inCallback
      /\ state' = state /\ cursor' = cursor /\ visits' = visits /\ how' = how
      /\ disturbed' = (disturbed \/ DisturbsByPut(k, v))
  BY DEF Put, schedule
<1>3. inCallback = TRUE /\ births \in Nat /\ cursor \in 0 .. births
  BY <1>1 DEF Put, JsRuns, TypeInv
<1>4. MapOnce'
  BY <1>1, <1>2 DEF MapOnce
<1>5. Undisturbed' => Undisturbed /\ ~DisturbsByPut(k, v)
  BY <1>1, <1>2 DEF Undisturbed, TypeInv
<1>6. \A pair : IsScheduled(pair)' <=> IsScheduled(pair)
  BY <1>2 DEF IsScheduled
<1>7. CASE k \in KeysIn(entries)
  <2> SUFFICES ASSUME Undisturbed'
               PROVE  MapOrder'
    BY <1>1, <1>2, <1>4 DEF MapInv
  <2>1. Entry(k).value = v
    BY <1>5, <1>7 DEF DisturbsByPut
  <2>2. /\ DOMAIN entries' = DOMAIN entries
        /\ \A i \in DOMAIN entries :
              /\ entries'[i].key = entries[i].key /\ entries'[i].born = entries[i].born
              /\ entries'[i].value = IF entries[i].key = k THEN v ELSE entries[i].value
    BY <1>1, <1>7, PutExisting
  <2>3. \A i \in DOMAIN entries : entries[i].key = k => entries[i].value = v
    BY <1>1, <2>1, EntryFacts
  <2>4. \A i \in DOMAIN entries : Pair(entries[i])' = Pair(entries[i])
    BY <2>2, <2>3 DEF Pair
  <2>5. \A i \in DOMAIN entries : IsScheduled(Pair(entries[i]))' <=> IsScheduled(Pair(entries[i]))
    BY <1>2, <2>4 DEF IsScheduled
  <2>6. MapOrder
    BY <1>1, <1>5
  <2> QED
    BY <1>2, <2>2, <2>4, <2>5, <2>6 DEF MapOrder
<1>8. CASE k \notin KeysIn(entries)
  <2> DEFINE n == Len(entries) + 1
  <2> SUFFICES ASSUME Undisturbed'
               PROVE  MapOrder'
    BY <1>1, <1>2, <1>4 DEF MapInv
  <2>1. entries'[n] = [key |-> k, value |-> v, born |-> births + 1]
    BY <1>1, <1>8, PutNew
  <2>2. /\ entries'[n].born = births + 1
        /\ \A i \in DOMAIN entries : i \in DOMAIN entries' /\ entries'[i] = entries[i]
        /\ \A i \in DOMAIN entries' : i \in DOMAIN entries \/ i = n
    BY <1>1, <1>8, <2>1, PutNew
  <2>3. \A i \in DOMAIN entries : i < n
    BY <1>1, EntryFacts
  <2> HIDE DEF n
  <2>4. MapOrder /\ ~IsScheduled(<<k, v>>)
    BY <1>1, <1>5, <1>8, MapIsNew DEF DisturbsByPut
  <2>5. Pair(entries'[n]) = <<k, v>>
    BY <2>1 DEF Pair
  <2>6. \A i \in DOMAIN entries : Pair(entries'[i]) = Pair(entries[i])
    BY <2>2 DEF Pair
  <2>7. ~IsScheduled(Pair(entries'[n]))
    BY <1>2, <2>4, <2>5 DEF IsScheduled
  <2>8. \A i \in DOMAIN entries : IsScheduled(Pair(entries'[i])) <=> IsScheduled(Pair(entries[i]))
    BY <1>2, <2>6 DEF IsScheduled
  <2>9. \A a \in DOMAIN scheduled, i \in DOMAIN entries' :
            scheduled[a] = Pair(entries'[i]) =>
               i \in DOMAIN entries /\ scheduled[a] = Pair(entries[i])
    BY <2>2, <2>4, <2>5, <2>6 DEF IsScheduled
  <2>10. cursor < births + 1
    BY <1>3
  <2>11. \A a, b \in DOMAIN scheduled, i, j \in DOMAIN entries' :
             scheduled[a] = Pair(entries'[i]) /\ scheduled[b] = Pair(entries'[j]) /\ a < b => i < j
    BY <2>4, <2>9 DEF MapOrder
  <2>12. \A a \in DOMAIN scheduled, i \in DOMAIN entries' :
             scheduled[a] = Pair(entries'[i]) => (a <= position <=> entries'[i].born <= cursor)
    BY <2>2, <2>4, <2>9 DEF MapOrder
  <2>13. ASSUME NEW i \in DOMAIN entries', ~IsScheduled(Pair(entries'[i]))
         PROVE  /\ cursor < entries'[i].born
                /\ \A j \in DOMAIN entries' : IsScheduled(Pair(entries'[j])) => j < i
    <3>1. CASE i \in DOMAIN entries
      BY <2>2, <2>4, <2>7, <2>8, <2>13, <3>1 DEF MapOrder
    <3>2. CASE i = n
      BY <2>2, <2>3, <2>7, <2>10, <3>2
    <3> QED
      BY <2>2, <3>1, <3>2
  <2>14. \A i \in DOMAIN entries' :
             /\ Pair(entries[i])' = Pair(entries'[i])
             /\ IsScheduled(Pair(entries[i]))' <=> IsScheduled(Pair(entries'[i]))
    BY <1>2 DEF Pair, IsScheduled
  <2> QED
    BY <1>2, <1>3, <2>11, <2>12, <2>13, <2>14 DEF MapOrder
<1> QED
  BY <1>7, <1>8

LEMMA MapRemove ==
    ASSUME Base, MapInv, how = "mapForEach", NEW S, RemoveKeys(S)
    PROVE  MapInv'
<1> DEFINE at(i) == Place(Kept(S), i)
<1>1. TypeInv /\ position <= Len(scheduled) /\ MapOnce /\ (Undisturbed => MapOrder)
  BY DEF Base, MapInv
<1>2. /\ position' = position /\ scheduled' = scheduled /\ inCallback' = inCallback
      /\ state' = state /\ cursor' = cursor /\ visits' = visits /\ how' = how
  BY DEF RemoveKeys, schedule, history
<1>3. inCallback = TRUE
  BY <1>1 DEF RemoveKeys, JsRuns, TypeInv
<1>4. MapOnce'
  BY <1>1, <1>2 DEF MapOnce
<1>5. Undisturbed' => Undisturbed
  BY <1>1, <1>2 DEF RemoveKeys, DisturbsByRemoval, Undisturbed, TypeInv
<1>6. /\ \A i \in DOMAIN entries' :
            i \in Nat /\ at(i) \in DOMAIN entries /\ entries'[i] = entries[at(i)]
      /\ \A i, j \in DOMAIN entries' : i < j => at(i) < at(j)
  BY <1>1, RemoveFacts
<1> HIDE DEF at
<1>7. \A i, j \in DOMAIN entries' : at(i) < at(j) => i < j
  <2> TAKE i, j \in DOMAIN entries'
  <2>1. i \in Nat /\ j \in Nat /\ at(i) \in Nat /\ at(j) \in Nat
    BY <1>1, <1>6, EntryFacts
  <2> QED
    BY <1>6, <2>1
<1>8. MapOrder => MapOrder'
  <2> SUFFICES ASSUME MapOrder
               PROVE  MapOrder'
    OBVIOUS
  <2>1. \A i \in DOMAIN entries' : Pair(entries[i])' = Pair(entries[at(i)])
    BY <1>6 DEF Pair
  <2>2. \A i \in DOMAIN entries' :
            IsScheduled(Pair(entries[i]))' <=> IsScheduled(Pair(entries[at(i)]))
    BY <1>2, <2>1 DEF IsScheduled
  <2>3. \A a, b \in DOMAIN scheduled, i, j \in DOMAIN entries' :
            scheduled[a] = Pair(entries[i])' /\ scheduled[b] = Pair(entries[j])' /\ a < b => i < j
    BY <1>6, <1>7, <2>1 DEF MapOrder
  <2>4. \A a \in DOMAIN scheduled, i \in DOMAIN entries' :
            scheduled[a] = Pair(entries[i])' => (a <= position <=> entries'[i].born <= cursor)
    BY <1>6, <2>1 DEF MapOrder
  <2>5. \A i \in DOMAIN entries' : ~IsScheduled(Pair(entries[i]))' =>
            /\ cursor < entries'[i].born
            /\ \A j \in DOMAIN entries' : IsScheduled(Pair(entries[j]))' => j < i
    BY <1>6, <1>7, <2>2 DEF MapOrder
  <2> QED
    BY <1>2, <1>3, <2>3, <2>4, <2>5 DEF MapOrder
<1> QED
  BY <1>1, <1>2, <1>4, <1>5, <1>8 DEF MapInv

LEMMA MapCalls ==
    ASSUME Base, MapInv, how = "mapForEach", ForEachCalls
    PROVE  Base' /\ MapInv'
<1> DEFINE n == position + 1
<1>1. /\ TypeInv /\ VisitInv /\ position <= Len(scheduled) /\ MapOnce
      /\ (Undisturbed => MapOrder)
  BY DEF Base, MapInv
<1>2. /\ how' = how /\ entries' = entries /\ state' = state /\ disturbed' = disturbed
      /\ scheduled' = scheduled /\ before' = before /\ current' = current
      /\ inCallback' = TRUE /\ position' = n /\ state = "going" /\ inCallback = FALSE
      /\ position < Len(scheduled) /\ scheduled[n] \in Range(Pairs)
      /\ Visit(scheduled[n][1], scheduled[n][2])
  BY <1>1 DEF ForEachCalls, ForEach, StillPresent, Scheduled, TypeInv
<1>3. n \in DOMAIN scheduled /\ n \in Nat /\ position \in Nat /\ n <= Len(scheduled)
  BY <1>1, <1>2 DEF TypeInv
<1>4. \A a \in DOMAIN scheduled : a \in Nat /\ (a <= n <=> a <= position \/ a = n)
                                  /\ (a < n \/ a = n \/ n < a) /\ (a <= n <=> ~(n < a))
  BY <1>1, <1>3 DEF TypeInv, n
<1>5. n <= n /\ ~(n <= position)
  BY <1>3
<1> HIDE DEF n
<1>6. PICK i \in DOMAIN entries : Pair(entries[i]) = scheduled[n]
  BY <1>1, <1>2, PairFacts DEF Range
<1>7. /\ Visit(entries[i].key, entries[i].value) /\ entries[i].value \in ValuesOf(how)
  BY <1>1, <1>2, <1>6, PairFacts, EntryFacts
<1>8. \A j \in DOMAIN visits : visits[j].born = entries[i].born =>
          how = "mapForEach" /\ visits[j].value # entries[i].value
  <2> SUFFICES ASSUME NEW j \in DOMAIN visits, visits[j].born = entries[i].born,
                      visits[j].value = entries[i].value
               PROVE  FALSE
    OBVIOUS
  <2>1. visits[j].key = entries[i].key
    BY <1>1 DEF VisitInv
  <2>2. Pair(visits[j]) = scheduled[n]
    BY <1>6, <2>1 DEF Pair
  <2> QED
    BY <1>1, <1>3, <1>5, <2>2 DEF MapOnce
<1>9. Base'
  <2>1. /\ scheduled \in Seq(Keys \X ValuesOf(how)) /\ before \subseteq Keys
        /\ current \in Keys \cup {NoKey}
    BY <1>1 DEF TypeInv
  <2>2. UNCHANGED <<how, entries, state, disturbed>>
    BY <1>2
  <2> QED
    BY <1>2, <1>3, <1>7, <1>8, <2>1, <2>2, BaseVisit
<1>10. /\ cursor' = entries[i].born
       /\ \A j \in DOMAIN visits' :
             \/ j \in DOMAIN visits /\ visits'[j] = visits[j]
             \/ Pair(visits'[j]) = scheduled[n]
  <2>1. visits'[Len(visits) + 1] =
            [key |-> entries[i].key, value |-> entries[i].value, born |-> entries[i].born]
    BY <1>1, <1>7, VisitFacts
  <2>2. Pair(visits'[Len(visits) + 1]) = scheduled[n]
    BY <1>6, <2>1 DEF Pair
  <2> QED
    BY <1>1, <1>7, <2>2, VisitFacts
<1>11. MapOnce'
  <2>1. ASSUME NEW j \in DOMAIN visits'
        PROVE  \E a \in DOMAIN scheduled : a <= n /\ scheduled[a] = Pair(visits'[j])
    BY <1>1, <1>3, <1>4, <1>5, <1>10 DEF MapOnce
  <2>2. \A j : Pair(visits'[j]) = Pair(visits[j])'
    BY DEF Pair
  <2> QED
    BY <1>1, <1>2, <2>1, <2>2 DEF MapOnce
<1>12. Undisturbed' => MapOrder'
  <2> SUFFICES ASSUME MapOrder
               PROVE  MapOrder'
    BY <1>1, <1>2 DEF Undisturbed
  <2>1. \A j \in DOMAIN entries : Pair(entries[j])' = Pair(entries[j])
    BY <1>2 DEF Pair
  <2>2. \A j \in DOMAIN entries : IsScheduled(Pair(entries[j]))'
    BY <1>2, <2>1 DEF MapOrder, IsScheduled
  <2>3. ASSUME NEW a \in DOMAIN scheduled, NEW j \in DOMAIN entries,
               scheduled[a] = Pair(entries[j])
        PROVE  a <= n <=> entries[j].born <= entries[i].born
    <3>1. /\ a < n => j < i
          /\ n < a => i < j
      BY <1>3, <1>6, <2>3 DEF MapOrder
    <3>2. a = n => j = i
      BY <1>1, <1>6, <2>3, PairFacts
    <3>3. /\ j < i <=> entries[j].born < entries[i].born
          /\ i < j <=> entries[i].born < entries[j].born
          /\ entries[j].born \in Nat /\ entries[i].born \in Nat
      BY <1>1, EntryFacts
    <3>4. (a <= n <=> ~(n < a)) /\ (a < n \/ a = n \/ n < a)
      BY <1>4
    <3> QED
      BY <3>1, <3>2, <3>3, <3>4
  <2> QED
    BY <1>2, <1>10, <2>1, <2>2, <2>3 DEF MapOrder
<1> QED
  BY <1>2, <1>3, <1>9, <1>11, <1>12 DEF MapInv

\* What is not scheduled yet is scheduled now, and younger than the rest.
LEMMA MapSchedules ==
    ASSUME Base, MapInv, how = "mapForEach",
           UNCHANGED <<how, entries, cursor, visits, disturbed, state>>,
           scheduled' = WithNew, inCallback' = FALSE,
           position' \in Nat, position <= position', position' <= Len(scheduled),
           \A a \in DOMAIN scheduled, i \in DOMAIN entries :
              scheduled[a] = Pair(entries[i]) => (a <= position' <=> a <= position)
    PROVE  MapInv'
<1> DEFINE n == Len(scheduled)
<1>1. TypeInv /\ position <= Len(scheduled) /\ MapOnce /\ (Undisturbed => MapOrder)
  BY DEF Base, MapInv
<1>2. /\ how' = how /\ entries' = entries /\ cursor' = cursor /\ visits' = visits
      /\ disturbed' = disturbed /\ state' = state
  OBVIOUS
<1>3. /\ n \in Nat /\ DOMAIN scheduled = 1 .. n /\ n <= Len(WithNew) /\ Len(WithNew) \in Nat
      /\ DOMAIN WithNew = 1 .. Len(WithNew)
      /\ \A a \in DOMAIN scheduled : a \in DOMAIN WithNew /\ WithNew[a] = scheduled[a]
      /\ \A a, b \in DOMAIN WithNew : n < a /\ a < b => NewAt(a) < NewAt(b)
  BY <1>1, WithNewFacts
<1>4. \A a \in DOMAIN WithNew : \/ a \in DOMAIN scheduled /\ WithNew[a] = scheduled[a]
                                \/ /\ n < a /\ NewAt(a) \in DOMAIN entries
                                   /\ WithNew[a] = Pair(entries[NewAt(a)])
                                   /\ ~IsScheduled(Pair(entries[NewAt(a)]))
  <2> TAKE a \in DOMAIN WithNew
  <2>1. \/ a \in DOMAIN scheduled /\ WithNew[a] = scheduled[a]
        \/ /\ n < a /\ NewAt(a) \in DOMAIN entries
           /\ WithNew[a] = Pair(entries[NewAt(a)]) /\ IsNew(Pair(entries[NewAt(a)]))
    BY <1>1, WithNewFacts
  <2> QED
    BY <2>1, MapIsNew
<1>5. \A i \in DOMAIN entries : \E a \in DOMAIN WithNew : WithNew[a] = Pair(entries[i])
  <2> TAKE i \in DOMAIN entries
  <2>1. CASE IsScheduled(Pair(entries[i]))
    BY <1>3, <2>1 DEF IsScheduled
  <2>2. CASE ~IsScheduled(Pair(entries[i]))
    BY <1>1, <2>2, MapIsNew, WithNewFacts
  <2> QED
    BY <2>1, <2>2
<1>6. \A a \in DOMAIN WithNew : /\ a \in Nat /\ (n < a => ~(a <= position'))
                                /\ (a \in DOMAIN scheduled => a <= n)
                                /\ (a <= position => a <= position')
  BY <1>1, <1>3 DEF TypeInv
<1>7. position' <= Len(WithNew)
  BY <1>1, <1>3
<1> HIDE DEF n
<1>8. MapOnce'
  <2>1. ASSUME NEW a \in DOMAIN WithNew, NEW b \in DOMAIN WithNew, WithNew[a] = WithNew[b]
        PROVE  a = b
    <3>1. CASE a \in DOMAIN scheduled /\ b \in DOMAIN scheduled
      BY <1>1, <1>3, <2>1, <3>1 DEF MapOnce
    <3>2. CASE ~(a \in DOMAIN scheduled) /\ ~(b \in DOMAIN scheduled)
      <4>1. NewAt(a) = NewAt(b) /\ NewAt(a) \in DOMAIN entries /\ n < a /\ n < b
        BY <1>1, <1>4, <2>1, <3>2, PairFacts
      <4>2. ~(NewAt(a) < NewAt(b)) /\ ~(NewAt(b) < NewAt(a))
        BY <1>1, <4>1, EntryFacts
      <4> QED
        BY <1>3, <1>6, <4>1, <4>2
    <3>3. CASE a \in DOMAIN scheduled /\ ~(b \in DOMAIN scheduled)
      BY <1>3, <1>4, <2>1, <3>3 DEF IsScheduled
    <3>4. CASE ~(a \in DOMAIN scheduled) /\ b \in DOMAIN scheduled
      BY <1>3, <1>4, <2>1, <3>4 DEF IsScheduled
    <3> QED
      BY <3>1, <3>2, <3>3, <3>4
  <2>2. \A j \in DOMAIN visits : Pair(visits[j])' = Pair(visits[j])
    BY <1>2 DEF Pair
  <2>3. \A j \in DOMAIN visits :
            \E a \in DOMAIN WithNew : a <= position' /\ WithNew[a] = Pair(visits[j])
    BY <1>1, <1>3, <1>6 DEF MapOnce
  <2> QED
    BY <1>2, <2>1, <2>2, <2>3 DEF MapOnce
<1>9. Undisturbed' => MapOrder'
  <2> SUFFICES ASSUME MapOrder
               PROVE  MapOrder'
    BY <1>1, <1>2 DEF Undisturbed
  <2>1. \A j \in DOMAIN entries : Pair(entries[j])' = Pair(entries[j])
    BY <1>2 DEF Pair
  <2>2. \A j \in DOMAIN entries : IsScheduled(Pair(entries[j]))'
    BY <1>2, <1>5, <2>1 DEF IsScheduled
  <2>3. ASSUME NEW a \in DOMAIN WithNew, NEW b \in DOMAIN WithNew,
               NEW i \in DOMAIN entries, NEW j \in DOMAIN entries,
               WithNew[a] = Pair(entries[i]), WithNew[b] = Pair(entries[j]), a < b
        PROVE  i < j
    <3>1. CASE a \in DOMAIN scheduled /\ b \in DOMAIN scheduled
      BY <1>3, <2>3, <3>1 DEF MapOrder
    <3>2. CASE a \in DOMAIN scheduled /\ ~(b \in DOMAIN scheduled)
      <4>1. IsScheduled(Pair(entries[i])) /\ ~IsScheduled(Pair(entries[j]))
        BY <1>3, <1>4, <2>3, <3>2 DEF IsScheduled
      <4> QED
        BY <4>1 DEF MapOrder
    <3>3. CASE ~(a \in DOMAIN scheduled) /\ ~(b \in DOMAIN scheduled)
      <4>1. n < a /\ NewAt(a) = i /\ NewAt(b) = j
        BY <1>1, <1>4, <2>3, <3>3, PairFacts
      <4> QED
        BY <1>3, <2>3, <4>1
    <3>4. CASE ~(a \in DOMAIN scheduled) /\ b \in DOMAIN scheduled
      <4>1. n < a /\ b <= n /\ a \in Nat /\ b \in Nat /\ n \in Nat
        BY <1>3, <1>4, <1>6, <3>4
      <4> QED
        BY <2>3, <4>1
    <3> QED
      BY <3>1, <3>2, <3>3, <3>4
  <2>4. ASSUME NEW a \in DOMAIN WithNew, NEW i \in DOMAIN entries, WithNew[a] = Pair(entries[i])
        PROVE  a <= position' <=> entries[i].born <= cursor
    <3>1. CASE a \in DOMAIN scheduled
      BY <1>3, <2>4, <3>1 DEF MapOrder
    <3>2. CASE ~(a \in DOMAIN scheduled)
      <4>1. ~(a <= position') /\ ~IsScheduled(Pair(entries[i]))
        BY <1>4, <1>6, <2>4, <3>2
      <4>2. cursor < entries[i].born /\ cursor \in Nat /\ entries[i].born \in Nat
        BY <1>1, <4>1, EntryFacts DEF MapOrder, TypeInv
      <4> QED
        BY <4>1, <4>2
    <3> QED
      BY <3>1, <3>2
  <2> QED
    BY <1>2, <2>1, <2>2, <2>3, <2>4 DEF MapOrder
<1> QED
  BY <1>2, <1>7, <1>8, <1>9 DEF MapInv

LEMMA MapSkips ==
    ASSUME Base, MapInv, how = "mapForEach", ForEachSkips
    PROVE  Base' /\ MapInv'
<1> DEFINE n == position + 1
<1>1. TypeInv /\ position <= Len(scheduled)
  BY DEF Base, MapInv
<1>2. /\ UNCHANGED <<how, entries, cursor, visits, disturbed, state>>
      /\ UNCHANGED <<births, removed>>
      /\ scheduled' = WithNew /\ before' = before /\ current' = current
      /\ inCallback' = FALSE /\ position' = n
      /\ position < Len(scheduled) /\ scheduled[n] \notin Range(Pairs)
  BY <1>1 DEF ForEachSkips, ForEach, StillPresent, Scheduled, TypeInv, history
<1>3. n \in Nat /\ position \in Nat /\ n <= Len(scheduled) /\ position <= n
  BY <1>1, <1>2 DEF TypeInv
<1>4. Base'
  <2>1. /\ WithNew \in Seq(Keys \X ValuesOf(how)) /\ before \subseteq Keys
        /\ current \in Keys \cup {NoKey}
        /\ state \in {"going", "exhausted", "stopped"}
    BY <1>1, WithNewFacts DEF TypeInv
  <2>2. UNCHANGED <<how, entries, births, cursor, visits, removed, disturbed>>
    BY <1>2
  <2> QED
    BY <1>2, <1>3, <2>1, <2>2, BaseKept
<1>5. \A a \in DOMAIN scheduled : a # n => (a <= n <=> a <= position)
  BY <1>1, <1>3 DEF TypeInv
<1> HIDE DEF n
<1>6. \A i \in DOMAIN entries : Pair(entries[i]) # scheduled[n]
  BY <1>1, <1>2, PairFacts DEF Range
<1> QED
  BY <1>2, <1>3, <1>4, <1>5, <1>6, MapSchedules

LEMMA MapReturns ==
    ASSUME Base, MapInv, how = "mapForEach", CallbackReturns
    PROVE  MapInv'
<1>1. TypeInv /\ position <= Len(scheduled)
  BY DEF Base, MapInv
<1>2. /\ UNCHANGED <<how, entries, cursor, visits, disturbed, state>>
      /\ scheduled' = WithNew /\ inCallback' = FALSE /\ position' = position
  BY DEF CallbackReturns, history
<1>3. position \in Nat /\ position <= position
  BY <1>1 DEF TypeInv
<1> QED
  BY <1>1, <1>2, <1>3, MapSchedules

LEMMA MapLeaves ==
    ASSUME Base, MapInv, how = "mapForEach", ForEachEnds \/ CallbackStops
    PROVE  MapInv'
<1>1. TypeInv /\ position <= Len(scheduled) /\ MapOnce /\ (Undisturbed => MapOrder)
  BY DEF Base, MapInv
<1>2. /\ how' = how /\ entries' = entries /\ disturbed' = disturbed /\ cursor' = cursor
      /\ scheduled' = scheduled /\ position' = position /\ visits' = visits
  BY DEF ForEachEnds, Exhausted, CallbackStops, schedule, history
<1>3. \/ state' = "stopped"
      \/ state = "going" /\ state' = "exhausted" /\ inCallback' = inCallback
  BY DEF ForEachEnds, Exhausted, CallbackStops, ForEach
<1>4. MapOnce'
  BY <1>1, <1>2 DEF MapOnce
<1>5. Undisturbed' => MapOrder'
  <2> SUFFICES ASSUME Undisturbed'
               PROVE  MapOrder'
    OBVIOUS
  <2>1. MapOrder /\ inCallback' = inCallback
    BY <1>1, <1>2, <1>3 DEF Undisturbed
  <2> QED
    BY <1>2, <2>1 DEF MapOrder, IsScheduled
<1> QED
  BY <1>1, <1>2, <1>4, <1>5 DEF MapInv

----------------------------------------------------------------------------
(* The invariant.                                                           *)

LEMMA InitIsIInv == Init => IInv
<1> SUFFICES ASSUME Init
             PROVE  IInv
  OBVIOUS
<1>1. Base /\ TypeInv
  BY BaseInit DEF Base
<1>2. /\ position = 0 /\ cursor = 0 /\ visits = <<>> /\ removed = {} /\ current = NoKey
      /\ inCallback = FALSE /\ state = "going"
      /\ how \in {"mapForEach", "setForEach"} => scheduled = Pairs
  BY DEF Init
<1>3. \A i \in DOMAIN entries :
          /\ i \in Nat /\ i >= 1 /\ entries[i].key \in Keys /\ entries[i].key # NoKey
          /\ entries[i].born \in Nat /\ entries[i].born >= 1
          /\ ~(i <= position) /\ ~(entries[i].born <= cursor) /\ cursor < entries[i].born
          /\ entries[i].born # cursor /\ ~(entries[i].born < cursor)
  BY <1>1, <1>2, EntryFacts, KeysAssumption DEF TypeInv
<1>4. \A e : ~Visited(e)
  BY <1>2 DEF Visited
<1>5. Len(entries) \in Nat /\ position <= Len(entries)
  BY <1>1, <1>2, EntryFacts
<1>6. IteratorInv
  BY <1>3, <1>4, <1>5 DEF IteratorInv, IteratorOnce, IteratorOrder
<1>7. MethodInv
  BY <1>2, <1>3, <1>4, <1>5 DEF MethodInv, MethodOnce, MethodOrder
<1>8. ASSUME how \in {"mapForEach", "setForEach"}
      PROVE  /\ Len(scheduled) = Len(entries) /\ DOMAIN scheduled = DOMAIN entries
             /\ \A a \in DOMAIN scheduled :
                   scheduled[a] = Pair(entries[a]) /\ scheduled[a][1] = entries[a].key
  BY <1>1, <1>2, <1>8, PairFacts
<1>9. MapInv
  <2> SUFFICES ASSUME how = "mapForEach"
               PROVE  position <= Len(scheduled) /\ MapOnce /\ MapOrder
    BY DEF MapInv
  <2>1. /\ DOMAIN scheduled = DOMAIN entries /\ position <= Len(scheduled)
        /\ \A a \in DOMAIN scheduled : scheduled[a] = Pair(entries[a])
    BY <1>5, <1>8
  <2>2. \A a \in DOMAIN scheduled, i \in DOMAIN entries : scheduled[a] = Pair(entries[i]) => a = i
    BY <1>1, <2>1, PairFacts
  <2>3. MapOnce
    BY <1>2, <2>1, <2>2 DEF MapOnce
  <2>4. \A i \in DOMAIN entries : IsScheduled(Pair(entries[i]))
    BY <2>1 DEF IsScheduled
  <2> QED
    BY <1>3, <2>1, <2>2, <2>3, <2>4 DEF MapOrder
<1>10. SetInv
  <2> SUFFICES ASSUME how = "setForEach"
               PROVE  position <= Len(scheduled) /\ SetOnce /\ SetMissed /\ SetOrder
    BY DEF SetInv
  <2>1. /\ DOMAIN scheduled = DOMAIN entries /\ position <= Len(scheduled)
        /\ \A a \in DOMAIN scheduled :
              scheduled[a] = Pair(entries[a]) /\ scheduled[a][1] = entries[a].key
    BY <1>5, <1>8
  <2>2. \A i \in DOMAIN entries : position < i
    BY <1>2, <1>3
  <2>3. \A i \in DOMAIN entries : entries[i].key \in ToCome
    BY <2>1, <2>2 DEF ToCome
  <2>4. \A i, j \in DOMAIN entries : entries[i].key = entries[j].key => i = j
    BY <1>1, EntryFacts
  <2>5. SetOnce
    BY <1>4, <2>1, <2>4 DEF SetOnce
  <2>6. SetMissed
    BY <1>2, <2>3 DEF SetMissed, KeysIn
  <2>7. SetOrder
    BY <1>2, <1>3, <2>1, <2>3, <2>4 DEF SetOrder
  <2> QED
    BY <2>1, <2>5, <2>6, <2>7
<1> QED
  BY <1>1, <1>6, <1>7, <1>9, <1>10 DEF IInv

\* A step that neither changes the collection nor visits.
LEMMA BaseRest ==
    ASSUME Base,
           IteratorEnds \/ ForEachEnds \/ MethodEnds \/ CallbackReturns \/ CallbackStops
    PROVE  Base'
<1>1. TypeInv
  BY DEF Base
<1>2. UNCHANGED <<how, entries, births, cursor, visits, removed, disturbed>>
  BY DEF IteratorEnds, ForEachEnds, MethodEnds, Exhausted, CallbackReturns, CallbackStops,
         schedule, history
<1>3. /\ position \in Nat /\ scheduled \in Seq(Keys \X ValuesOf(how))
      /\ before \subseteq Keys /\ current \in Keys \cup {NoKey}
      /\ WithNew \in Seq(Keys \X ValuesOf(how))
      /\ state \in {"going", "exhausted", "stopped"}
  BY <1>1, WithNewFacts DEF TypeInv
<1>4. inCallback \in BOOLEAN /\ (inCallback => state = "going" /\ how # "iterator")
  BY <1>1 DEF TypeInv
<1>5. /\ position' = position /\ scheduled' \in {scheduled, WithNew}
      /\ before' = before /\ current' = current
      /\ inCallback' = FALSE /\ state' \in {state, "exhausted", "stopped"}
  BY <1>4 DEF IteratorEnds, ForEachEnds, ForEach, MethodEnds, Exhausted, CallbackReturns,
              CallbackStops, schedule, history
<1> QED
  BY <1>2, <1>3, <1>5, BaseKept

LEMMA IteratorStep ==
    ASSUME Base, IteratorInv, how = "iterator", Next
    PROVE  Base' /\ IteratorInv'
<1>1. ASSUME NEW k \in Keys, NEW v \in ValuesOf(how), Put(k, v)
      PROVE  Base' /\ IteratorInv'
  BY <1>1, BasePut, IteratorPut
<1>2. ASSUME NEW S, RemoveKeys(S)
      PROVE  Base' /\ IteratorInv'
  BY <1>2, BaseRemove, IteratorRemove
<1>3. CASE IteratorVisits
  BY <1>3, IteratorNext
<1>4. CASE IteratorEnds
  <2>1. /\ position' = position /\ cursor' = cursor /\ visits' = visits /\ entries' = entries
        /\ disturbed' = disturbed /\ state # "stopped"
    BY <1>4 DEF IteratorEnds, Exhausted, schedule, history
  <2>2. IteratorInv'
    BY <2>1 DEF IteratorInv, IteratorOnce, IteratorOrder, Visited, Undisturbed
  <2> QED
    BY <1>4, <2>2, BaseRest
<1>5. inCallback = FALSE
  BY DEF Base, TypeInv
<1> QED
  BY <1>1, <1>2, <1>3, <1>4, <1>5
     DEF Next, Change, Proceed, Delete, Clear, ForEachCalls, ForEachSkips, ForEachEnds, ForEach,
         MethodCalls, MethodEnds, CallbackReturns, CallbackStops

LEMMA MapStep ==
    ASSUME Base, MapInv, how = "mapForEach", Next
    PROVE  Base' /\ MapInv'
<1>1. ASSUME NEW k \in Keys, NEW v \in ValuesOf(how), Put(k, v)
      PROVE  Base' /\ MapInv'
  BY <1>1, BasePut, MapPut
<1>2. ASSUME NEW S, RemoveKeys(S)
      PROVE  Base' /\ MapInv'
  BY <1>2, BaseRemove, MapRemove
<1>3. CASE ForEachCalls
  BY <1>3, MapCalls
<1>4. CASE ForEachSkips
  BY <1>4, MapSkips
<1>5. CASE ForEachEnds \/ CallbackStops
  BY <1>5, BaseRest, MapLeaves
<1>6. CASE CallbackReturns
  BY <1>6, BaseRest, MapReturns
<1> QED
  BY <1>1, <1>2, <1>3, <1>4, <1>5, <1>6
     DEF Next, Change, Proceed, Delete, Clear, IteratorVisits, IteratorEnds, MethodCalls,
         MethodEnds

LEMMA SetStep ==
    ASSUME Base, SetInv, how = "setForEach", Next
    PROVE  Base' /\ SetInv'
<1>1. ASSUME NEW k \in Keys, NEW v \in ValuesOf(how), Put(k, v)
      PROVE  Base' /\ SetInv'
  BY <1>1, BasePut, SetPut
<1>2. ASSUME NEW S, RemoveKeys(S)
      PROVE  Base' /\ SetInv'
  BY <1>2, BaseRemove, SetRemove
<1>3. CASE ForEachCalls
  BY <1>3, SetCalls
<1>4. CASE ForEachSkips
  BY <1>4, SetSkips
<1>5. CASE ForEachEnds \/ CallbackStops
  BY <1>5, BaseRest, SetLeaves
<1>6. CASE CallbackReturns
  BY <1>6, BaseRest, SetReturns
<1> QED
  BY <1>1, <1>2, <1>3, <1>4, <1>5, <1>6
     DEF Next, Change, Proceed, Delete, Clear, IteratorVisits, IteratorEnds, MethodCalls,
         MethodEnds

LEMMA MethodStep ==
    ASSUME Base, MethodInv, how = "setMethod", Next
    PROVE  Base' /\ MethodInv'
<1>1. ASSUME NEW k \in Keys, NEW v \in ValuesOf(how), Put(k, v)
      PROVE  Base' /\ MethodInv'
  BY <1>1, BasePut, MethodPut
<1>2. ASSUME NEW S, RemoveKeys(S)
      PROVE  Base' /\ MethodInv'
  BY <1>2, BaseRemove, MethodRemove
<1>3. CASE MethodCalls
  BY <1>3, MethodNext
<1>4. CASE MethodEnds \/ CallbackReturns \/ CallbackStops
  BY <1>4, BaseRest, MethodLeaves
<1> QED
  BY <1>1, <1>2, <1>3, <1>4
     DEF Next, Change, Proceed, Delete, Clear, IteratorVisits, IteratorEnds, ForEachCalls,
         ForEachSkips, ForEachEnds, ForEach

LEMMA NextKeepsHow == Next => how' = how
  BY DEF Next, Change, Proceed, Put, Delete, Clear, RemoveKeys, IteratorVisits, IteratorEnds,
         ForEachCalls, ForEachSkips, ForEachEnds, MethodCalls, MethodEnds, Exhausted,
         CallbackReturns, CallbackStops

LEMMA StepKeepsIInv == IInv /\ [Next]_vars => IInv'
<1> SUFFICES ASSUME IInv, [Next]_vars
             PROVE  IInv'
  OBVIOUS
<1>1. Base /\ IteratorInv /\ MapInv /\ SetInv /\ MethodInv
  BY DEF IInv
<1>2. CASE Next
  <2>1. how' = how /\ how \in {"iterator", "mapForEach", "setForEach", "setMethod"}
    BY <1>1, <1>2, NextKeepsHow, HowsAssumption DEF Base, TypeInv
  <2>2. CASE how = "iterator"
    BY <1>1, <1>2, <2>1, <2>2, IteratorStep DEF IInv, MapInv, SetInv, MethodInv
  <2>3. CASE how = "mapForEach"
    BY <1>1, <1>2, <2>1, <2>3, MapStep DEF IInv, IteratorInv, SetInv, MethodInv
  <2>4. CASE how = "setForEach"
    BY <1>1, <1>2, <2>1, <2>4, SetStep DEF IInv, IteratorInv, MapInv, MethodInv
  <2>5. CASE how = "setMethod"
    BY <1>1, <1>2, <2>1, <2>5, MethodStep DEF IInv, IteratorInv, MapInv, SetInv
  <2> QED
    BY <2>1, <2>2, <2>3, <2>4, <2>5
<1>3. CASE UNCHANGED vars
  <2>1. /\ how' = how /\ entries' = entries /\ position' = position /\ scheduled' = scheduled
        /\ before' = before /\ current' = current /\ inCallback' = inCallback
        /\ state' = state /\ births' = births /\ cursor' = cursor /\ visits' = visits
        /\ removed' = removed /\ disturbed' = disturbed
    BY <1>3 DEF vars, schedule, history
  <2>2. Base'
    BY <1>1, <2>1 DEF Base, TypeInv, VisitInv, VisitedOnce
  <2>3. ToCome' = ToCome
    BY <2>1 DEF ToCome
  <2>4. IteratorInv' /\ MethodInv'
    BY <1>1, <2>1 DEF IteratorInv, IteratorOnce, IteratorOrder, MethodInv, MethodOnce,
                      MethodOrder, Visited, Undisturbed
  <2>5. MapInv'
    BY <1>1, <2>1 DEF MapInv, MapOnce, MapOrder, IsScheduled, Undisturbed
  <2>6. SetInv'
    <3>1. SetOnce => SetOnce'
      BY <2>1, <2>3 DEF SetOnce, Visited
    <3>2. SetMissed => SetMissed'
      BY <2>1, <2>3 DEF SetMissed
    <3>3. SetOrder => SetOrder'
      BY <2>1, <2>3 DEF SetOrder
    <3> QED
      BY <1>1, <2>1, <3>1, <3>2, <3>3 DEF SetInv, Undisturbed
  <2> QED
    BY <2>2, <2>4, <2>5, <2>6 DEF IInv
<1> QED
  BY <1>2, <1>3

LEMMA SpecKeepsIInv == Spec => []IInv
<1> QED
  BY InitIsIInv, StepKeepsIInv, PTL DEF Spec

\* The entries keep one per key, in the order of their insertion, whatever is
\* put and removed while they are gone through (VmMapData, VmSetData).
THEOREM TypeCorrect == Spec => []TypeOK
<1>1. IInv => TypeOK
  <2> SUFFICES ASSUME IInv
               PROVE  TypeOK
    OBVIOUS
  <2>1. TypeInv
    BY DEF IInv, Base
  <2>2. Range(scheduled) \subseteq Keys \X ValuesOf(how)
    BY <2>1 DEF TypeInv, Range
  <2>3. position \in Nat /\ state \in {"going", "exhausted", "stopped"} /\ InOrder(entries)
    BY <2>1 DEF TypeInv
  <2> QED
    BY <2>1, <2>2, <2>3, EntryFacts DEF TypeOK, InOrder
<1> QED
  BY <1>1, SpecKeepsIInv, PTL

\* Whatever the callback, or who calls next(), does to the collection, nothing
\* is visited twice unless it was inserted again or, in a Map's forEach, has
\* another value by then (vm.rs:37023-37030, 37280-37287, 37913-37916).
THEOREM VisitsOnce == Spec => []VisitedOnce
<1>1. IInv => VisitedOnce
  BY DEF IInv, Base
<1> QED
  BY <1>1, SpecKeepsIInv, PTL

\* Set.prototype.forEach ends with every value of the set visited, whatever its
\* callback adds and deletes (vm.rs:37280-37287).
THEOREM MissesNothing == Spec => []NothingMissed
<1>1. IInv => NothingMissed
  <2> SUFFICES ASSUME IInv, how = "setForEach", state = "exhausted"
               PROVE  KeysIn(entries) \subseteq KeysIn(visits)
    BY DEF NothingMissed
  <2> QED
    BY DEF IInv, SetInv, SetMissed
<1> QED
  BY <1>1, SpecKeepsIInv, PTL

----------------------------------------------------------------------------
(* Undisturbed, each step is one of InsertionOrder's.                       *)

LEMMA PutRefines ==
    ASSUME TypeInv, NEW k \in Keys, NEW v \in ValuesOf(how), Put(k, v)
    PROVE  Order!Put(k, v)
<1> DEFINE e == [key |-> k, value |-> v, born |-> births + 1]
<1>1. cursor' = cursor /\ visits' = visits /\ state' = state
  BY DEF Put
<1>2. CASE k \in KeysIn(entries)
  <2>1. PICK i \in DOMAIN entries : entries[i].key = k
    BY <1>2 DEF KeysIn
  <2>2. Order!Of(k) = {entries[i]}
    <3>1. \A j \in DOMAIN entries : entries[j].key = k => j = i
      BY <2>1, EntryFacts
    <3> QED
      BY <2>1, <3>1 DEF Order!Of, Range
  <2>3. /\ births' = births /\ DOMAIN entries' = DOMAIN entries
        /\ entries' = Overwritten(k, v)
    BY <1>2, PutExisting DEF Put, With
  <2>4. \A j \in DOMAIN entries :
            entries'[j] = IF j = i THEN [entries[i] EXCEPT !.value = v] ELSE entries[j]
    BY <2>1, <2>3, EntryFacts DEF Overwritten
  <2>5. Range(entries') = (Range(entries) \ {entries[i]}) \cup {[entries[i] EXCEPT !.value = v]}
    <3>1. \A j \in DOMAIN entries : entries[j] = entries[i] => j = i
      BY EntryFacts
    <3> DEFINE r == [entries[i] EXCEPT !.value = v]
    <3> HIDE DEF r
    <3>2. \A j \in DOMAIN entries : entries'[j] = IF j = i THEN r ELSE entries[j]
      BY <2>4 DEF r
    <3>3. Range(entries') = (Range(entries) \ {entries[i]}) \cup {r}
      BY <2>3, <3>1, <3>2 DEF Range
    <3> QED
      BY <3>3 DEF r
  <2> QED
    BY <1>1, <2>2, <2>3, <2>5 DEF Order!Put
<1>3. CASE k \notin KeysIn(entries)
  <2>1. Order!Of(k) = {}
    BY <1>3 DEF Order!Of, Range, KeysIn
  <2>2. /\ births' = births + 1 /\ DOMAIN entries' = 1 .. Len(entries) + 1
        /\ \A i \in DOMAIN entries : i \in DOMAIN entries' /\ entries'[i] = entries[i]
        /\ entries'[Len(entries) + 1] = e
        /\ \A i \in DOMAIN entries' : i \in DOMAIN entries \/ i = Len(entries) + 1
    BY <1>3, PutNew
  <2>3. Len(entries) + 1 \in DOMAIN entries'
    BY <2>2, EntryFacts
  <2> HIDE DEF e
  <2>4. Range(entries') = Range(entries) \cup {e}
    BY <2>2, <2>3 DEF Range
  <2> QED
    BY <1>1, <2>1, <2>2, <2>4 DEF Order!Put, e
<1> QED
  BY <1>2, <1>3

LEMMA RemoveRefines ==
    ASSUME TypeInv, NEW S, RemoveKeys(S)
    PROVE  Order!RemoveKeys(S)
<1>1. cursor' = cursor /\ visits' = visits /\ state' = state /\ births' = births
  BY DEF RemoveKeys, history
<1>2. /\ \A i \in DOMAIN entries' :
            /\ Place(Kept(S), i) \in DOMAIN entries /\ entries'[i] = entries[Place(Kept(S), i)]
            /\ entries'[i].key \notin S
      /\ \A p \in Kept(S) : \E i \in DOMAIN entries' : Place(Kept(S), i) = p
  BY RemoveFacts
<1>3. Range(entries') = {e \in Range(entries) : e.key \notin S}
  <2>1. \A i \in DOMAIN entries' : entries'[i] \in {e \in Range(entries) : e.key \notin S}
    BY <1>2 DEF Range
  <2>2. \A p \in DOMAIN entries : entries[p].key \notin S =>
            \E i \in DOMAIN entries' : entries'[i] = entries[p]
    BY <1>2 DEF Kept
  <2> QED
    BY <2>1, <2>2 DEF Range
<1> QED
  BY <1>1, <1>3 DEF Order!RemoveKeys

\* The entry at i is visited, and no entry between it and the cursor is left.
LEMMA VisitRefines ==
    ASSUME TypeInv, VisitInv, NEW i \in DOMAIN entries,
           Visit(entries[i].key, entries[i].value), UNCHANGED <<entries, state>>,
           state = "going", cursor < entries[i].born,
           \A j \in DOMAIN entries : cursor < entries[j].born => i <= j
    PROVE  Order!Visit
<1>1. entries' = entries /\ state' = state
  OBVIOUS
<1>2. entries[i].value \in ValuesOf(how)
  BY EntryFacts
<1>3. /\ cursor' = entries[i].born /\ births' = births /\ Len(visits) \in Nat
      /\ Len(visits') = Len(visits) + 1
      /\ visits'[Len(visits) + 1] =
            [key |-> entries[i].key, value |-> entries[i].value, born |-> entries[i].born]
  BY <1>2, VisitFacts
<1>4. Last(visits)' = [key |-> entries[i].key, value |-> entries[i].value, born |-> entries[i].born]
  BY <1>3 DEF Last
<1>5. Pair(Last(visits))' = <<entries[i].key, entries[i].value>>
  BY <1>4 DEF Pair
<1>6. visits' # <<>>
  BY <1>3
<1>7. entries[i] \in Order!Ahead /\ \A f \in Order!Ahead : entries[i].born <= f.born
  <2>1. entries[i] \in Range(entries)
    BY DEF Range
  <2>2. entries[i].born > cursor
    BY EntryFacts DEF TypeInv
  <2>3. ASSUME NEW j \in DOMAIN entries, entries[j].born > cursor
        PROVE  entries[i].born <= entries[j].born
    <3>1. /\ i \in Nat /\ j \in Nat /\ entries[i].born \in Nat /\ entries[j].born \in Nat
          /\ cursor \in Nat /\ (j < i <=> entries[j].born < entries[i].born)
      BY EntryFacts DEF TypeInv
    <3>2. i <= j
      BY <2>3, <3>1
    <3> QED
      BY <3>1, <3>2
  <2> QED
    BY <2>1, <2>2, <2>3 DEF Order!Ahead, Range
<1> QED
  BY <1>1, <1>3, <1>5, <1>6, <1>7 DEF Order!Visit

LEMMA EndRefines ==
    ASSUME Exhausted, state = "going", \A j \in DOMAIN entries : ~(cursor < entries[j].born),
           TypeInv
    PROVE  Order!Exhausted
<1>1. /\ entries' = entries /\ births' = births /\ cursor' = cursor /\ visits' = visits
      /\ state' = "exhausted"
  BY DEF Exhausted, history
<1>2. \A j \in DOMAIN entries : ~(entries[j].born > cursor)
  BY EntryFacts DEF TypeInv
<1>3. Order!Ahead = {}
  BY <1>2 DEF Order!Ahead, Range
<1> QED
  BY <1>1, <1>3 DEF Order!Exhausted

LEMMA IteratorRefines ==
    ASSUME Base, IteratorInv, ~disturbed
    PROVE  /\ IteratorVisits => Order!Visit
           /\ IteratorEnds => Order!Exhausted
<1> DEFINE n == position + 1
<1> SUFFICES ASSUME how = "iterator", state = "going"
             PROVE  /\ IteratorVisits => Order!Visit
                    /\ IteratorEnds => Order!Exhausted
  BY DEF IteratorVisits, IteratorEnds
<1>1. TypeInv /\ VisitInv /\ IteratorOrder
  BY DEF Base, IteratorInv, Undisturbed
<1>2. /\ Len(entries) \in Nat /\ DOMAIN entries = 1 .. Len(entries) /\ position \in Nat
      /\ cursor \in Nat /\ position <= Len(entries)
      /\ \A j \in DOMAIN entries : j \in Nat /\ entries[j].born \in Nat
                                   /\ (j <= position <=> entries[j].born <= cursor)
  BY <1>1, EntryFacts DEF IteratorOrder, TypeInv
<1>3. \A j \in DOMAIN entries : cursor < entries[j].born <=> n <= j
  <2> TAKE j \in DOMAIN entries
  <2>1. j <= position <=> entries[j].born <= cursor
    BY <1>2
  <2> QED
    BY <1>2, <2>1
<1>4. ASSUME IteratorVisits
      PROVE  Order!Visit
  <2>1. /\ UNCHANGED <<entries, state>> /\ position < Len(entries)
        /\ Visit(entries[n].key, entries[n].value)
    BY <1>4 DEF IteratorVisits
  <2>2. n \in DOMAIN entries /\ n <= n
    BY <1>2, <2>1
  <2>3. cursor < entries[n].born
    BY <1>3, <2>2
  <2> HIDE DEF n
  <2> QED
    BY <1>1, <1>3, <2>1, <2>2, <2>3, VisitRefines
<1>5. ASSUME IteratorEnds
      PROVE  Order!Exhausted
  <2>1. Exhausted /\ position >= Len(entries)
    BY <1>5 DEF IteratorEnds
  <2>2. \A j \in DOMAIN entries : ~(cursor < entries[j].born)
    BY <1>2, <1>3, <2>1
  <2> QED
    BY <1>1, <2>1, <2>2, EndRefines
<1> QED
  BY <1>4, <1>5

LEMMA MapRefines ==
    ASSUME Base, MapInv, how = "mapForEach", ~disturbed
    PROVE  /\ ForEachCalls => Order!Visit
           /\ ForEachEnds => Order!Exhausted
<1> DEFINE n == position + 1
<1> SUFFICES ASSUME state = "going", inCallback = FALSE
             PROVE  /\ ForEachCalls => Order!Visit
                    /\ ForEachEnds => Order!Exhausted
  BY DEF ForEachCalls, ForEachEnds, ForEach, Base, TypeInv
<1>1. TypeInv /\ VisitInv /\ position <= Len(scheduled) /\ MapOrder
  BY DEF Base, MapInv, Undisturbed
<1>2. position \in Nat /\ cursor \in Nat /\ \A j \in DOMAIN entries : entries[j].born \in Nat
  BY <1>1, EntryFacts DEF TypeInv
<1>3. \A a \in DOMAIN scheduled : a \in Nat /\ a <= Len(scheduled)
                                  /\ (~(a <= position) => a = n \/ n < a)
  BY <1>1 DEF TypeInv
<1>4. ASSUME NEW j \in DOMAIN entries, cursor < entries[j].born
      PROVE  \E a \in DOMAIN scheduled : ~(a <= position) /\ scheduled[a] = Pair(entries[j])
  <2>1. PICK a \in DOMAIN scheduled : scheduled[a] = Pair(entries[j])
    BY <1>1 DEF MapOrder, IsScheduled
  <2>2. ~(entries[j].born <= cursor)
    BY <1>2, <1>4
  <2> QED
    BY <1>1, <2>1, <2>2 DEF MapOrder
<1>5. ASSUME ForEachCalls
      PROVE  Order!Visit
  <2>1. /\ entries' = entries /\ state' = state /\ position < Len(scheduled)
        /\ scheduled[n] \in Range(Pairs) /\ Visit(scheduled[n][1], scheduled[n][2])
    BY <1>5 DEF ForEachCalls, StillPresent, Scheduled
  <2>2. n \in DOMAIN scheduled /\ ~(n <= position)
    BY <1>1, <1>2, <2>1 DEF TypeInv
  <2> HIDE DEF n
  <2>3. PICK i \in DOMAIN entries : Pair(entries[i]) = scheduled[n]
    BY <1>1, <2>1, PairFacts DEF Range
  <2>4. Visit(entries[i].key, entries[i].value)
    BY <1>1, <2>1, <2>3, PairFacts
  <2>5. cursor < entries[i].born
    <3>1. ~(entries[i].born <= cursor)
      BY <1>1, <2>2, <2>3 DEF MapOrder
    <3> QED
      BY <1>2, <3>1
  <2>6. ASSUME NEW j \in DOMAIN entries, cursor < entries[j].born
        PROVE  i <= j
    <3>1. PICK a \in DOMAIN scheduled : ~(a <= position) /\ scheduled[a] = Pair(entries[j])
      BY <1>4, <2>6
    <3>2. a = n \/ n < a
      BY <1>3, <3>1
    <3>3. CASE a = n
      <4>1. i = j /\ i \in Nat
        BY <1>1, <2>3, <3>1, <3>3, PairFacts, EntryFacts
      <4> QED
        BY <4>1
    <3>4. CASE n < a
      <4>1. i < j /\ i \in Nat /\ j \in Nat
        BY <1>1, <2>2, <2>3, <3>1, <3>4, EntryFacts DEF MapOrder
      <4> QED
        BY <4>1
    <3> QED
      BY <3>2, <3>3, <3>4
  <2> QED
    BY <1>1, <2>1, <2>4, <2>5, <2>6, VisitRefines
<1>6. ASSUME ForEachEnds
      PROVE  Order!Exhausted
  <2>1. Exhausted /\ position = Len(scheduled)
    BY <1>6 DEF ForEachEnds
  <2>2. \A j \in DOMAIN entries : ~(cursor < entries[j].born)
    BY <1>3, <1>4, <2>1
  <2> QED
    BY <1>1, <2>1, <2>2, EndRefines
<1> QED
  BY <1>5, <1>6

LEMMA SetRefines ==
    ASSUME Base, SetInv, how = "setForEach", ~disturbed
    PROVE  /\ ForEachCalls => Order!Visit
           /\ ForEachEnds => Order!Exhausted
<1> DEFINE n == position + 1
<1> SUFFICES ASSUME state = "going", inCallback = FALSE
             PROVE  /\ ForEachCalls => Order!Visit
                    /\ ForEachEnds => Order!Exhausted
  BY DEF ForEachCalls, ForEachEnds, ForEach, Base, TypeInv
<1>1. TypeInv /\ VisitInv /\ position <= Len(scheduled) /\ SetOrder
  BY DEF Base, SetInv, Undisturbed
<1>2. position \in Nat /\ cursor \in Nat /\ \A j \in DOMAIN entries : entries[j].born \in Nat
  BY <1>1, EntryFacts DEF TypeInv
<1>3. \A a \in DOMAIN scheduled : a \in Nat /\ a <= Len(scheduled)
                                  /\ (position < a => a = n \/ n < a)
                                  /\ (position < a => ~(a <= position))
  BY <1>1, <1>2 DEF TypeInv
<1>4. ASSUME NEW j \in DOMAIN entries, cursor < entries[j].born
      PROVE  \E a \in DOMAIN scheduled : position < a /\ scheduled[a][1] = entries[j].key
  <2>1. entries[j].key \in ToCome
    BY <1>1, <1>4 DEF SetOrder
  <2> QED
    BY <2>1 DEF ToCome
<1>5. ASSUME ForEachCalls
      PROVE  Order!Visit
  <2>1. /\ entries' = entries /\ state' = state /\ position < Len(scheduled)
        /\ scheduled[n][1] \in KeysIn(entries) /\ Visit(scheduled[n][1], scheduled[n][2])
    BY <1>5 DEF ForEachCalls, StillPresent, Scheduled
  <2>2. n \in DOMAIN scheduled /\ position < n
    BY <1>1, <1>2, <2>1 DEF TypeInv
  <2> HIDE DEF n
  <2>3. PICK i \in DOMAIN entries : entries[i].key = scheduled[n][1]
    BY <2>1 DEF KeysIn
  <2>4. Visit(entries[i].key, entries[i].value)
    <3>1. ValuesOf(how) = {Unit}
      BY DEF ValuesOf
    <3>2. entries[i].value = Unit
      BY <1>1, <3>1, EntryFacts
    <3>3. scheduled[n] = <<scheduled[n][1], Unit>>
      BY <1>1, <2>2, SetPairs
    <3>4. scheduled[n][2] = Unit
      BY <3>3
    <3> QED
      BY <2>1, <2>3, <3>2, <3>4
  <2>5. cursor < entries[i].born
    <3>1. entries[i].key \in ToCome
      BY <2>2, <2>3 DEF ToCome
    <3> QED
      BY <1>1, <3>1 DEF SetOrder
  <2>6. ASSUME NEW j \in DOMAIN entries, cursor < entries[j].born
        PROVE  i <= j
    <3>1. PICK a \in DOMAIN scheduled : position < a /\ scheduled[a][1] = entries[j].key
      BY <1>4, <2>6
    <3>2. a = n \/ n < a
      BY <1>3, <3>1
    <3>3. CASE a = n
      <4>1. i = j /\ i \in Nat
        BY <1>1, <2>3, <3>1, <3>3, EntryFacts
      <4> QED
        BY <4>1
    <3>4. CASE n < a
      <4>1. i < j /\ i \in Nat /\ j \in Nat
        BY <1>1, <2>2, <2>3, <3>1, <3>4, EntryFacts DEF SetOrder
      <4> QED
        BY <4>1
    <3> QED
      BY <3>2, <3>3, <3>4
  <2> QED
    BY <1>1, <2>1, <2>4, <2>5, <2>6, VisitRefines
<1>6. ASSUME ForEachEnds
      PROVE  Order!Exhausted
  <2>1. Exhausted /\ position = Len(scheduled)
    BY <1>6 DEF ForEachEnds
  <2>2. \A j \in DOMAIN entries : ~(cursor < entries[j].born)
    BY <1>3, <1>4, <2>1
  <2> QED
    BY <1>1, <2>1, <2>2, EndRefines
<1> QED
  BY <1>5, <1>6

LEMMA MethodRefines ==
    ASSUME Base, MethodInv, ~disturbed
    PROVE  /\ MethodCalls => Order!Visit
           /\ MethodEnds => Order!Exhausted
<1> SUFFICES ASSUME how = "setMethod", state = "going"
             PROVE  /\ MethodCalls => Order!Visit
                    /\ MethodEnds => Order!Exhausted
  BY DEF MethodCalls, MethodEnds
<1>1. TypeInv /\ VisitInv /\ MethodOnce /\ MethodOrder
  BY DEF Base, MethodInv, Undisturbed
<1>2. /\ Len(entries) \in Nat /\ DOMAIN entries = 1 .. Len(entries) /\ position \in Nat
      /\ cursor \in Nat /\ removed \subseteq Nat
      /\ \A j \in DOMAIN entries : j \in Nat /\ entries[j].born \in Nat
  BY <1>1, EntryFacts DEF TypeInv
\* Its index separates what was inserted up to the cursor.
<1>3. Index \in Nat /\ \A j \in DOMAIN entries : j <= Index <=> entries[j].born <= cursor
  <2>1. CASE current \in KeysIn(entries)
    <3>1. PICK i \in DOMAIN entries : entries[i].key = current
      BY <2>1 DEF KeysIn
    <3>2. Index = i /\ entries[i].born = cursor
      BY <1>1, <2>1, <3>1, EntryFacts DEF Index, MethodOrder
    <3>3. \A j \in DOMAIN entries : j <= i <=> entries[j].born <= entries[i].born
      <4> TAKE j \in DOMAIN entries
      <4>1. (i < j <=> entries[i].born < entries[j].born)
        BY <1>1, EntryFacts
      <4> QED
        BY <1>2, <4>1
    <3> QED
      BY <1>2, <3>2, <3>3
  <2>2. CASE current \notin KeysIn(entries)
    <3>1. Index = position
      BY <2>2 DEF Index
    <3>2. \A j \in DOMAIN entries : entries[j].key # current /\ entries[j].born # cursor
      BY <1>1, <2>2, EntryFacts DEF MethodOrder
    <3>3. \A b \in removed : cursor <= b
      BY <1>1, <1>2, <3>2 DEF MethodOrder
    <3>4. \A j \in DOMAIN entries : j <= position <=> entries[j].born < cursor
      BY <1>1, <3>3 DEF MethodOrder
    <3>5. \A j \in DOMAIN entries : entries[j].born <= cursor <=> entries[j].born < cursor
      BY <1>2, <3>2
    <3> QED
      BY <1>2, <3>1, <3>4, <3>5
  <2> QED
    BY <2>1, <2>2
<1> DEFINE n == Index + 1
<1>4. \A j \in DOMAIN entries : cursor < entries[j].born <=> n <= j
  <2> TAKE j \in DOMAIN entries
  <2>1. j <= Index <=> entries[j].born <= cursor
    BY <1>3
  <2> QED
    BY <1>2, <1>3, <2>1
<1>5. ASSUME MethodCalls
      PROVE  Order!Visit
  <2>1. /\ UNCHANGED <<entries, state>> /\ Index < Len(entries)
        /\ Visit(entries[n].key, Unit)
    BY <1>5 DEF MethodCalls
  <2>2. n \in DOMAIN entries /\ n <= n
    BY <1>2, <1>3, <2>1
  <2>3. cursor < entries[n].born
    BY <1>4, <2>2
  <2>4. entries[n].value = Unit
    <3>1. ValuesOf(how) = {Unit}
      BY DEF ValuesOf
    <3> QED
      BY <1>1, <2>2, <3>1, EntryFacts
  <2> HIDE DEF n
  <2>5. Visit(entries[n].key, entries[n].value)
    BY <2>1, <2>4
  <2> QED
    BY <1>1, <1>4, <2>1, <2>2, <2>3, <2>5, VisitRefines
<1>6. ASSUME MethodEnds
      PROVE  Order!Exhausted
  <2>1. Exhausted /\ Index >= Len(entries)
    BY <1>6 DEF MethodEnds
  <2>2. \A j \in DOMAIN entries : ~(cursor < entries[j].born)
    BY <1>2, <1>3, <1>4, <2>1
  <2> QED
    BY <1>1, <2>1, <2>2, EndRefines
<1> QED
  BY <1>5, <1>6

LEMMA StepRefines ==
    ASSUME IInv, [Next]_vars
    PROVE  [~disturbed' => Order!Next]_<<entries, births, cursor, visits, state>>
<1>1. Base /\ TypeInv /\ VisitInv /\ IteratorInv /\ MapInv /\ SetInv /\ MethodInv
  BY DEF IInv, Base
<1>2. ASSUME NEW k \in Keys, NEW v \in ValuesOf(how), Put(k, v)
      PROVE  Order!Next
  <2>1. v \in Values \cup {Unit}
    BY DEF ValuesOf
  <2> QED
    BY <1>1, <1>2, <2>1, PutRefines DEF Order!Next
<1>3. ASSUME NEW k \in Keys, Delete(k)
      PROVE  Order!Next
  BY <1>1, <1>3, RemoveRefines DEF Delete, Order!Next
<1>4. CASE Clear
  BY <1>1, <1>4, RemoveRefines DEF Clear, Order!Next
<1>5. CASE IteratorVisits \/ IteratorEnds
  <2>1. disturbed' = disturbed
    BY <1>5 DEF IteratorVisits, IteratorEnds, Exhausted
  <2> QED
    BY <1>1, <1>5, <2>1, IteratorRefines DEF Order!Next
<1>6. CASE ForEachCalls \/ ForEachEnds
  <2>1. disturbed' = disturbed /\ how \in {"mapForEach", "setForEach"}
    BY <1>6 DEF ForEachCalls, ForEachEnds, ForEach, Exhausted
  <2> QED
    BY <1>1, <1>6, <2>1, MapRefines, SetRefines DEF Order!Next
<1>7. CASE MethodCalls \/ MethodEnds
  <2>1. disturbed' = disturbed
    BY <1>7 DEF MethodCalls, MethodEnds, Exhausted
  <2> QED
    BY <1>1, <1>7, <2>1, MethodRefines DEF Order!Next
<1>8. CASE CallbackStops
  <2>1. /\ entries' = entries /\ births' = births /\ cursor' = cursor /\ visits' = visits
        /\ state' = "stopped" /\ state = "going"
    BY <1>1, <1>8 DEF CallbackStops, history, TypeInv
  <2>2. Order!Stopped
    BY <2>1 DEF Order!Stopped
  <2> QED
    BY <2>2 DEF Order!Next
<1>9. CASE ForEachSkips \/ CallbackReturns \/ UNCHANGED vars
  BY <1>9 DEF ForEachSkips, CallbackReturns, vars, history
<1> QED
  BY <1>2, <1>3, <1>4, <1>5, <1>6, <1>7, <1>8, <1>9 DEF Next, Change, Proceed

\* As long as no change is one of those that disturb it, an iterator, a forEach
\* and a method of Set do what InsertionOrder does: they visit the entries in
\* the order of insertion, as they are, and pass none over
\* (make_map_iterator, vm.rs:40078; make_set_iterator, vm.rs:40091).
THEOREM Follows == Spec => FollowsInsertion
<1>1. IInv /\ [Next]_vars =>
          [~disturbed' => Order!Next]_<<entries, births, cursor, visits, state>>
  BY StepRefines
<1> QED
  BY <1>1, SpecKeepsIInv, PTL DEF Spec, FollowsInsertion
=============================================================================
