---------------------------- MODULE TimersProofs ----------------------------
(***************************************************************************)
(* The safety of Timers for any number of timers, runs, rounds and delays. *)
(* A timer is in pending_timers, in one batch of one run, or an interval   *)
(* whose callback runs, and in no two of these.                            *)
(***************************************************************************)
EXTENDS Timers, FiniteSetTheorems, TLAPS

Distinct(s) == \A i, j \in DOMAIN s : s[i] = s[j] => i = j

\* The interval whose callback a run is in; it is requeued when that ends.
Running(f) == {t \in Timer : t = f.timer /\ interval[t]}
HeldBy(f) == Elements(f.batch) \cup Running(f)
Held(t) == t \in Elements(pending) \/ \E n \in DOMAIN frames : t \in HeldBy(frames[n])

\* Only timers that were set are anywhere.
KnownInv ==
    /\ Elements(pending) \subseteq 1 .. timers
    /\ \A n \in DOMAIN frames :
          Elements(frames[n].batch) \subseteq 1 .. timers /\ frames[n].timer <= timers
    /\ cleared \subseteq cancelled /\ cancelled \subseteq 1 .. timers
    /\ fired \subseteq 1 .. timers

\* A run knows its timer while the callback and its microtasks run, and has a
\* batch only between its rounds.
PhaseInv ==
    \A n \in DOMAIN frames :
        /\ frames[n].at \in {"callback", "after"} <=> frames[n].timer # NoTimer
        /\ frames[n].timer # NoTimer => frames[n].timer \in fired
        /\ frames[n].at \in {"script", "jobs", "last"} => frames[n].batch = <<>>

PlaceInv ==
    /\ Distinct(pending)
    /\ \A n \in DOMAIN frames :
        /\ Distinct(frames[n].batch)
        /\ Elements(frames[n].batch) \cap Running(frames[n]) = {}
        /\ HeldBy(frames[n]) \cap Elements(pending) = {}
        /\ \A m \in DOMAIN frames :
              m # n => HeldBy(frames[m]) \cap HeldBy(frames[n]) = {}

\* A timer that was cleared and not forgotten would be skipped, or is gone.
ClearedInv ==
    /\ cleared \cap Elements(pending) = {}
    /\ \A t \in cancelled \ forgotten : t \in cleared \/ ~Held(t)

GoneInv ==
    \A t \in 1 .. timers :
        /\ ~interval[t] /\ t \in fired => ~Held(t)
        /\ ~Held(t) => t \in cancelled \cup lost \cup {u \in fired : ~interval[u]}

\* Timeouts wait as they were set, behind all those taken before, and batches
\* are sorted.
AsSet(s) ==
    \A i, j \in DOMAIN s : i < j /\ ~interval[s[i]] /\ ~interval[s[j]] => s[i] < s[j]
ByDelay(s) ==
    \A i, j \in DOMAIN s :
        i < j /\ ~interval[s[i]] /\ ~interval[s[j]] => ~Precedes(s[j], s[i])
OrderInv ==
    /\ AsSet(pending)
    /\ \A n \in DOMAIN frames :
          /\ ByDelay(frames[n].batch)
          /\ \A u \in Timeouts(pending), t \in Timeouts(frames[n].batch) : t < u

IInv == TypeOK /\ KnownInv /\ PhaseInv /\ PlaceInv /\ ClearedInv /\ GoneInv /\ OrderInv

----------------------------------------------------------------------------
(* The queue operators.                                                     *)

\* retain takes the timer out and keeps the rest in order.
LEMMA WithoutFacts ==
    ASSUME NEW S, NEW s \in Seq(S), Distinct(s), NEW t
    PROVE  /\ Without(s, t) \in Seq(S)
           /\ Elements(Without(s, t)) = Elements(s) \ {t}
           /\ Distinct(Without(s, t))
           /\ \A i, j \in DOMAIN Without(s, t) : i < j =>
                 \E k, l \in DOMAIN s : /\ k < l
                                        /\ Without(s, t)[i] = s[k] /\ Without(s, t)[j] = s[l]
<1>1. CASE t \notin Elements(s)
  BY <1>1 DEF Without, Elements
<1>2. CASE t \in Elements(s)
  <2> DEFINE p == CHOOSE p \in DOMAIN s : s[p] = t
             w == [i \in 1 .. Len(s) - 1 |-> IF i < p THEN s[i] ELSE s[i + 1]]
             from(i) == IF i < p THEN i ELSE i + 1
  <2>1. p \in DOMAIN s /\ s[p] = t
    BY <1>2 DEF Elements
  <2>2. DOMAIN s = 1 .. Len(s) /\ Len(s) \in Nat /\ Len(s) - 1 \in Nat
    BY <2>1
  <2>3. Without(s, t) = w
    BY <1>2 DEF Without
  <2> HIDE DEF p
  <2>4. \A i \in 1 .. Len(s) - 1 : from(i) \in DOMAIN s /\ from(i) # p /\ w[i] = s[from(i)]
    BY <2>1, <2>2
  <2>5. \A i, j \in 1 .. Len(s) - 1 : i < j => from(i) < from(j)
    BY <2>1, <2>2
  <2>6. w \in Seq(S) /\ DOMAIN w = 1 .. Len(s) - 1
    <3>1. w \in [1 .. Len(s) - 1 -> S]
      BY <2>2, <2>4
    <3> QED
      BY <2>2, <3>1
  <2>7. Elements(w) = Elements(s) \ {t}
    <3>1. Elements(w) \subseteq Elements(s) \ {t}
      BY <2>1, <2>4, <2>6 DEF Elements, Distinct
    <3>2. ASSUME NEW k \in DOMAIN s, s[k] # t
          PROVE  s[k] \in Elements(w)
      <4>1. CASE k < p
        <5>1. k \in DOMAIN w /\ w[k] = s[k]
          BY <4>1, <2>1, <2>2, <2>6
        <5> QED
          BY <5>1 DEF Elements
      <4>2. CASE ~(k < p)
        <5>1. k - 1 \in DOMAIN w /\ w[k - 1] = s[k]
          BY <4>2, <3>2, <2>1, <2>2, <2>6
        <5> QED
          BY <5>1 DEF Elements
      <4> QED
        BY <4>1, <4>2
    <3> QED
      BY <3>1, <3>2 DEF Elements
  <2>8. Distinct(w)
    <3> SUFFICES ASSUME NEW i \in DOMAIN w, NEW j \in DOMAIN w, w[i] = w[j]
                 PROVE  i = j
      BY DEF Distinct
    <3>1. from(i) = from(j)
      BY <2>4, <2>6 DEF Distinct
    <3> QED
      BY <3>1, <2>1, <2>2, <2>6
  <2>9. \A i, j \in DOMAIN w : i < j =>
           \E k, l \in DOMAIN s : k < l /\ w[i] = s[k] /\ w[j] = s[l]
    BY <2>4, <2>5, <2>6
  <2> HIDE DEF w
  <2> QED
    BY <2>3, <2>6, <2>7, <2>8, <2>9
<1> QED
  BY <1>1, <1>2

LEMMA DelayFacts ==
    ASSUME TypeOK
    PROVE  \A t \in Timer : delay[t] \in Nat
<1>1. delay \in [Timer -> Delays \cup {0}]
  BY DEF TypeOK
<1>2. \A d \in Delays \cup {0} : d \in Nat
  BY DelaysAssumption
<1> QED
  BY <1>1, <1>2

\* The places Rank assigns follow Before and are those of the sequence.
LEMMA RankFacts ==
    ASSUME TypeOK, NEW s \in Seq(Timer)
    PROVE  /\ \A j \in DOMAIN s : Rank(s, j) \in DOMAIN s
           /\ \A i, j \in DOMAIN s : Before(s, i, j) => Rank(s, i) < Rank(s, j)
           /\ \A i, j \in DOMAIN s : i = j \/ Before(s, i, j) \/ Before(s, j, i)
           /\ \A k \in DOMAIN s : \E j \in DOMAIN s : Rank(s, j) = k
<1> DEFINE D == DOMAIN s
           Less(j) == {i \in D : Before(s, i, j)}
           R == [j \in D |-> Rank(s, j)]
<1>1. D = 1 .. Len(s) /\ Len(s) \in Nat
  OBVIOUS
<1>2. IsFiniteSet(D) /\ Cardinality(D) = Len(s)
  BY <1>1, FS_Interval
<1>3. \A i \in D : s[i] \in Timer /\ delay[s[i]] \in Nat
  BY DelayFacts
<1>4. /\ \A i \in D : ~Before(s, i, i)
      /\ \A i, j \in D : i = j \/ Before(s, i, j) \/ Before(s, j, i)
      /\ \A i, j, k \in D : Before(s, i, j) /\ Before(s, j, k) => Before(s, i, k)
  BY <1>1, <1>3 DEF Before
<1>5. \A j \in D : IsFiniteSet(Less(j)) /\ Cardinality(Less(j)) \in Nat /\ j \notin Less(j)
  BY <1>2, <1>4, FS_Subset, FS_CardinalityType
<1>6. \A j \in D : Rank(s, j) = 1 + Cardinality(Less(j))
  BY DEF Rank
<1>7. \A j \in D : Rank(s, j) \in D
  <2> TAKE j \in D
  <2>1. Less(j) \in SUBSET D /\ Less(j) # D
    BY <1>5
  <2>2. Cardinality(Less(j)) <= Len(s) /\ Cardinality(Less(j)) # Len(s)
    BY <1>2, <2>1, FS_Subset
  <2> QED
    <3> HIDE DEF Less
    <3> QED
      BY <1>1, <1>5, <1>6, <2>2
<1>8. \A i, j \in D : Before(s, i, j) => Rank(s, i) < Rank(s, j)
  <2> SUFFICES ASSUME NEW i \in D, NEW j \in D, Before(s, i, j)
               PROVE  Rank(s, i) < Rank(s, j)
    OBVIOUS
  <2>1. Less(i) \in SUBSET Less(j) /\ Less(i) # Less(j)
    BY <1>4
  <2>2. Cardinality(Less(i)) <= Cardinality(Less(j)) /\ Cardinality(Less(i)) # Cardinality(Less(j))
    BY <1>5, <2>1, FS_Subset
  <2> QED
    <3> HIDE DEF Less
    <3> QED
      BY <1>5, <1>6, <2>2
<1>9. R \in Injection(D, D)
  <2>1. \A i, j \in D : Rank(s, i) = Rank(s, j) => i = j
    BY <1>1, <1>4, <1>7, <1>8
  <2> QED
    BY <1>7, <2>1 DEF Injection, IsInjective
<1>10. R \in Surjection(D, D)
  BY <1>2, <1>9, FS_Injection
<1>11. \A k \in D : \E j \in D : Rank(s, j) = k
  BY <1>10 DEF Surjection
<1> QED
  BY <1>4, <1>7, <1>8, <1>11

\* Sorting a batch loses and doubles nothing.
LEMMA SortedFacts ==
    ASSUME TypeOK, NEW s \in Seq(Timer)
    PROVE  /\ Sorted(s) \in Seq(Timer)
           /\ Elements(Sorted(s)) = Elements(s)
           /\ Distinct(s) => Distinct(Sorted(s))
           /\ \A i, j \in DOMAIN Sorted(s) : i < j =>
                 \E k, l \in DOMAIN s : /\ Before(s, k, l)
                                        /\ Sorted(s)[i] = s[k] /\ Sorted(s)[j] = s[l]
<1> DEFINE at(k) == CHOOSE j \in DOMAIN s : Rank(s, j) = k
<1>1. DOMAIN s = 1 .. Len(s) /\ Len(s) \in Nat
  OBVIOUS
<1>2. \A k \in DOMAIN s : at(k) \in DOMAIN s /\ Rank(s, at(k)) = k
  BY RankFacts
<1>3. DOMAIN Sorted(s) = DOMAIN s /\ \A k \in DOMAIN s : Sorted(s)[k] = s[at(k)]
  BY DEF Sorted
<1> HIDE DEF at
<1>4. Sorted(s) \in Seq(Timer)
  <2>1. Sorted(s) \in [1 .. Len(s) -> Timer]
    BY <1>1, <1>2, <1>3 DEF Sorted, at
  <2> QED
    BY <1>1, <2>1
<1>5. \A j \in DOMAIN s : Rank(s, j) \in DOMAIN s /\ at(Rank(s, j)) = j
  <2> TAKE j \in DOMAIN s
  <2>1. Rank(s, j) \in DOMAIN s
    BY RankFacts
  <2>2. at(Rank(s, j)) \in DOMAIN s /\ Rank(s, at(Rank(s, j))) = Rank(s, j)
    BY <1>2, <2>1
  <2>3. ~(Rank(s, j) < Rank(s, j))
    BY <1>1, <2>1
  <2> QED
    BY <2>1, <2>2, <2>3, RankFacts
<1>6. Elements(Sorted(s)) = Elements(s)
  <2>1. Elements(Sorted(s)) \subseteq Elements(s)
    BY <1>2, <1>3 DEF Elements
  <2>2. \A j \in DOMAIN s : s[j] = Sorted(s)[Rank(s, j)]
    BY <1>3, <1>5
  <2>3. Elements(s) \subseteq Elements(Sorted(s))
    BY <1>3, <1>5, <2>2 DEF Elements
  <2> QED
    BY <2>1, <2>3
<1>7. Distinct(s) => Distinct(Sorted(s))
  BY <1>2, <1>3 DEF Distinct
<1>8. ASSUME NEW i \in DOMAIN s, NEW j \in DOMAIN s, i < j
      PROVE  Before(s, at(i), at(j))
  <2>1. at(i) # at(j) /\ ~(j < i)
    BY <1>1, <1>2, <1>8
  <2> QED
    BY <1>2, <2>1, RankFacts
<1> QED
  BY <1>2, <1>3, <1>4, <1>6, <1>7, <1>8

----------------------------------------------------------------------------
(* The stack of runs.                                                       *)

LEMMA TopFacts ==
    ASSUME TypeOK, frames # <<>>
    PROVE  Len(frames) \in DOMAIN frames /\ Top = frames[Len(frames)] /\ Top \in Frame
  BY DEF TypeOK, Top

LEMMA SetTopFacts ==
    ASSUME TypeOK, frames # <<>>, NEW f \in Frame
    PROVE  /\ Len(frames) \in DOMAIN frames /\ Top \in Frame
           /\ SetTop(f) \in Seq(Frame) /\ SetTop(f) # <<>>
           /\ DOMAIN SetTop(f) = DOMAIN frames /\ Len(SetTop(f)) = Len(frames)
           /\ SetTop(f)[Len(frames)] = f
           /\ \A n \in DOMAIN frames : n # Len(frames) => SetTop(f)[n] = frames[n]
  BY DEF TypeOK, SetTop, Top

LEMMA PopFacts ==
    ASSUME TypeOK, frames # <<>>
    PROVE  /\ Len(frames) \in DOMAIN frames /\ Top \in Frame
           /\ Pop \in Seq(Frame)
           /\ DOMAIN Pop = DOMAIN frames \ {Len(frames)}
           /\ \A n \in DOMAIN Pop : Pop[n] = frames[n]
  BY DEF TypeOK, Pop, Top

LEMMA TailFacts ==
    ASSUME NEW s \in Seq(Timer), s # <<>>, Distinct(s)
    PROVE  /\ Head(s) \in Timer /\ Tail(s) \in Seq(Timer)
           /\ Elements(s) = {Head(s)} \cup Elements(Tail(s))
           /\ Head(s) \notin Elements(Tail(s))
           /\ Distinct(Tail(s))
           /\ Head(s) = s[1] /\ 1 \in DOMAIN s
           /\ \A i \in DOMAIN Tail(s) : i + 1 \in DOMAIN s /\ i + 1 > 1 /\ Tail(s)[i] = s[i + 1]
<1>1. /\ DOMAIN s = 1 .. Len(s) /\ Len(s) \in Nat /\ 1 \in DOMAIN s
      /\ Head(s) = s[1] /\ Head(s) \in Timer /\ Tail(s) \in Seq(Timer)
      /\ Len(Tail(s)) = Len(s) - 1 /\ DOMAIN Tail(s) = 1 .. Len(s) - 1
  OBVIOUS
<1>2. \A i \in DOMAIN Tail(s) : i + 1 \in DOMAIN s /\ i + 1 > 1 /\ Tail(s)[i] = s[i + 1]
  BY <1>1
<1>3. \A j \in DOMAIN s : j # 1 => j - 1 \in DOMAIN Tail(s) /\ Tail(s)[j - 1] = s[j]
  BY <1>1
<1>4. Elements(s) = {Head(s)} \cup Elements(Tail(s))
  <2>1. Elements(Tail(s)) \cup {Head(s)} \subseteq Elements(s)
    BY <1>1, <1>2 DEF Elements
  <2>2. \A j \in DOMAIN s : s[j] \in {Head(s)} \cup Elements(Tail(s))
    BY <1>1, <1>3 DEF Elements
  <2> QED
    BY <2>1, <2>2 DEF Elements
<1>5. Head(s) \notin Elements(Tail(s))
  <2> SUFFICES ASSUME NEW i \in DOMAIN Tail(s), Tail(s)[i] = Head(s)
               PROVE  FALSE
    BY DEF Elements
  <2>1. s[i + 1] = s[1] /\ i + 1 \in DOMAIN s /\ i + 1 # 1
    BY <1>1, <1>2
  <2> QED
    BY <1>1, <2>1 DEF Distinct
<1>6. Distinct(Tail(s))
  <2> SUFFICES ASSUME NEW i \in DOMAIN Tail(s), NEW j \in DOMAIN Tail(s), Tail(s)[i] = Tail(s)[j]
               PROVE  i = j
    BY DEF Distinct
  <2>1. i + 1 = j + 1
    BY <1>2 DEF Distinct
  <2> QED
    BY <1>1, <2>1
<1> QED
  BY <1>1, <1>2, <1>4, <1>5, <1>6

LEMMA AppendFacts ==
    ASSUME NEW s \in Seq(Timer), NEW t \in Timer
    PROVE  /\ Append(s, t) \in Seq(Timer)
           /\ Elements(Append(s, t)) = Elements(s) \cup {t}
           /\ Distinct(s) /\ t \notin Elements(s) => Distinct(Append(s, t))
           /\ \A i, j \in DOMAIN Append(s, t) : i < j =>
                 /\ i \in DOMAIN s /\ Append(s, t)[i] = s[i]
                 /\ \/ j \in DOMAIN s /\ Append(s, t)[j] = s[j]
                    \/ j \notin DOMAIN s /\ Append(s, t)[j] = t
<1> DEFINE a == Append(s, t)
<1>1. /\ a \in Seq(Timer) /\ DOMAIN a = 1 .. Len(s) + 1 /\ DOMAIN s = 1 .. Len(s) /\ Len(s) \in Nat
      /\ a[Len(s) + 1] = t /\ \A i \in DOMAIN s : a[i] = s[i]
  OBVIOUS
<1> HIDE DEF a
<1>2. \A i \in DOMAIN a : i \in DOMAIN s \/ i = Len(s) + 1
  BY <1>1
<1>3. Len(s) + 1 \in DOMAIN a /\ Len(s) + 1 \notin DOMAIN s /\ \A i \in DOMAIN s : i \in DOMAIN a
  BY <1>1
<1>4. Elements(a) = Elements(s) \cup {t}
  BY <1>1, <1>2, <1>3 DEF Elements
<1>5. Distinct(s) /\ t \notin Elements(s) => Distinct(a)
  BY <1>1, <1>2, <1>3 DEF Distinct, Elements
<1>6. \A i, j \in DOMAIN a : i < j =>
         /\ i \in DOMAIN s /\ a[i] = s[i]
         /\ \/ j \in DOMAIN s /\ a[j] = s[j]
            \/ j \notin DOMAIN s /\ a[j] = t
  BY <1>1
<1> QED
  BY <1>1, <1>4, <1>5, <1>6 DEF a

----------------------------------------------------------------------------
(* A step that changes the innermost run only.                              *)

\* Who is held afterwards: what the other runs hold, and what the innermost
\* one and the queue have between them.
LEMMA HeldStep ==
    ASSUME TypeOK, frames # <<>>, NEW f \in Frame, frames' = SetTop(f), interval' = interval,
           NEW t
    PROVE  LET others == \E n \in DOMAIN frames : n # Len(frames) /\ t \in HeldBy(frames[n])
           IN /\ Held(t) <=> t \in Elements(pending) \/ t \in HeldBy(Top) \/ others
              /\ Held(t)' <=> t \in Elements(pending') \/ t \in HeldBy(f) \/ others
<1>1. /\ Len(frames) \in DOMAIN frames /\ DOMAIN frames' = DOMAIN frames
      /\ frames'[Len(frames)] = f
      /\ \A n \in DOMAIN frames : n # Len(frames) => frames'[n] = frames[n]
  BY SetTopFacts
<1>2. \A g : HeldBy(g)' = HeldBy(g)
  BY DEF HeldBy, Running, Elements
<1>3. /\ HeldBy(frames[Len(frames)])' = HeldBy(f)
      /\ \A n \in DOMAIN frames : n # Len(frames) => HeldBy(frames[n])' = HeldBy(frames[n])
  BY <1>1 DEF HeldBy, Running, Elements
<1> QED
  BY <1>1, <1>3 DEF Held, Top, Elements

LEMMA PlaceStep ==
    ASSUME TypeOK, PlaceInv, frames # <<>>, NEW f \in Frame, frames' = SetTop(f),
           interval' = interval,
           Distinct(pending'), Distinct(f.batch),
           Elements(f.batch) \cap Running(f) = {},
           HeldBy(f) \cap Elements(pending') = {},
           HeldBy(f) \cup Elements(pending') \subseteq HeldBy(Top) \cup Elements(pending)
    PROVE  PlaceInv'
<1> DEFINE N == Len(frames)
<1>1. /\ N \in DOMAIN frames /\ DOMAIN frames' = DOMAIN frames /\ frames'[N] = f
      /\ \A n \in DOMAIN frames : n # N => frames'[n] = frames[n]
  BY SetTopFacts
<1>2. \A n \in DOMAIN frames : n # N =>
         /\ HeldBy(frames[n]) \cap HeldBy(f) = {}
         /\ HeldBy(frames[n]) \cap Elements(pending') = {}
  BY <1>1 DEF PlaceInv, Top
<1>3. \A n \in DOMAIN frames : /\ Distinct(frames'[n].batch)
                              /\ Elements(frames'[n].batch) \cap Running(frames'[n]) = {}
  BY <1>1 DEF PlaceInv
<1>4. \A n \in DOMAIN frames : HeldBy(frames'[n]) \cap Elements(pending') = {}
  BY <1>1, <1>2
<1>5. \A m, n \in DOMAIN frames : m # n => HeldBy(frames'[m]) \cap HeldBy(frames'[n]) = {}
  BY <1>1, <1>2 DEF PlaceInv
<1>6. \A n \in DOMAIN frames' :
         /\ Distinct(frames[n].batch)' /\ (Elements(frames[n].batch) \cap Running(frames[n]) = {})'
         /\ (HeldBy(frames[n]) \cap Elements(pending) = {})'
  BY <1>1, <1>3, <1>4 DEF Distinct, Elements, HeldBy, Running
<1>7. \A n \in DOMAIN frames' : \A m \in DOMAIN frames' :
         m # n => (HeldBy(frames[m]) \cap HeldBy(frames[n]) = {})'
  <2> SUFFICES ASSUME NEW n \in DOMAIN frames', NEW m \in DOMAIN frames', m # n
               PROVE  (HeldBy(frames[m]) \cap HeldBy(frames[n]) = {})'
    OBVIOUS
  <2>1. /\ HeldBy(frames[m])' = HeldBy(frames'[m])
        /\ HeldBy(frames[n])' = HeldBy(frames'[n])
    BY DEF HeldBy, Running, Elements
  <2> QED
    BY <1>1, <1>5, <2>1
<1>8. Distinct(pending)'
  BY DEF Distinct
<1> QED
  BY <1>6, <1>7, <1>8 DEF PlaceInv

LEMMA OrderStep ==
    ASSUME TypeOK, OrderInv, frames # <<>>, NEW f \in Frame, frames' = SetTop(f),
           UNCHANGED <<delay, interval>>,
           AsSet(pending'), ByDelay(f.batch),
           Timeouts(pending') \subseteq Timeouts(pending),
           \A u \in Timeouts(pending'), t \in Timeouts(f.batch) : t < u
    PROVE  OrderInv'
<1>1. /\ Len(frames) \in DOMAIN frames /\ DOMAIN frames' = DOMAIN frames
      /\ frames'[Len(frames)] = f
      /\ \A n \in DOMAIN frames : n # Len(frames) => frames'[n] = frames[n]
  BY SetTopFacts
<1>2. \A n \in DOMAIN frames :
         /\ ByDelay(frames'[n].batch)
         /\ \A u \in Timeouts(pending'), t \in Timeouts(frames'[n].batch) : t < u
  BY <1>1 DEF OrderInv
<1>3. \A n \in DOMAIN frames' : /\ ByDelay(frames[n].batch)'
                               /\ Timeouts(frames[n].batch)' = Timeouts(frames'[n].batch)
  BY <1>1, <1>2 DEF ByDelay, Precedes, Timeouts, Elements
<1>4. AsSet(pending)' /\ Timeouts(pending)' = Timeouts(pending')
  BY DEF AsSet, Timeouts, Elements
<1>5. ASSUME NEW n \in DOMAIN frames'
      PROVE  (\A u \in Timeouts(pending), t \in Timeouts(frames[n].batch) : t < u)'
  BY <1>1, <1>2, <1>3, <1>4
<1> QED
  BY <1>3, <1>4, <1>5 DEF OrderInv

\* The innermost run goes to another phase and keeps its batch and its timer.
LEMMA PhaseStep ==
    ASSUME IInv, frames # <<>>, NEW p \in Phases, frames' = SetTop([Top EXCEPT !.at = p]),
           UNCHANGED <<registered, pending, runs, fired, cancelled, lost>>,
           cleared' \subseteq cleared, forgotten' \subseteq Timer,
           p \in {"callback", "after"} <=> Top.timer # NoTimer,
           p \in {"script", "jobs", "last"} => Top.batch = <<>>
    PROVE  /\ TypeOK' /\ KnownInv' /\ PhaseInv' /\ PlaceInv' /\ GoneInv' /\ OrderInv'
           /\ \A t \in Timer : Held(t)' <=> Held(t)
<1> DEFINE f == [Top EXCEPT !.at = p]
<1> USE DEF IInv, registered
<1>1. /\ Len(frames) \in DOMAIN frames /\ Top \in Frame /\ Top = frames[Len(frames)]
  BY TopFacts
<1>2. f \in Frame /\ f.batch = Top.batch /\ f.timer = Top.timer /\ f.at = p
  BY <1>1 DEF Frame
<1>3. HeldBy(f) = HeldBy(Top) /\ Running(f) = Running(Top)
  BY <1>2 DEF HeldBy, Running
<1> HIDE DEF f
<1>4. /\ frames' \in Seq(Frame) /\ DOMAIN frames' = DOMAIN frames /\ frames'[Len(frames)] = f
      /\ \A n \in DOMAIN frames : n # Len(frames) => frames'[n] = frames[n]
  BY <1>2, SetTopFacts DEF f
<1>5. \A n \in DOMAIN frames : frames'[n].batch = frames[n].batch /\ frames'[n].timer = frames[n].timer
  BY <1>1, <1>2, <1>4
<1>6. \A t : Held(t)' <=> Held(t)
  BY <1>1, <1>2, <1>3, HeldStep DEF f
<1>7. TypeOK'
  BY <1>4 DEF TypeOK
<1>8. KnownInv'
  BY <1>4, <1>5 DEF KnownInv, Elements
<1>9. PhaseInv'
  BY <1>1, <1>2, <1>4 DEF PhaseInv
<1>10. PlaceInv'
  <2>1. /\ Distinct(pending) /\ Distinct(f.batch)
        /\ Elements(f.batch) \cap Running(f) = {} /\ HeldBy(f) \cap Elements(pending) = {}
    BY <1>1, <1>2, <1>3 DEF PlaceInv
  <2>2. pending' = pending /\ interval' = interval /\ frames' = SetTop(f)
    BY DEF f
  <2> QED
    BY <1>2, <1>3, <2>1, <2>2, PlaceStep
<1>11. GoneInv'
  BY <1>6 DEF GoneInv
<1>12. OrderInv'
  BY <1>1, <1>2, OrderStep DEF OrderInv, f
<1> QED
  BY <1>6, <1>7, <1>8, <1>9, <1>10, <1>11, <1>12

----------------------------------------------------------------------------
(* The steps.                                                               *)

LEMMA InitIInv == Init => IInv
<1> SUFFICES ASSUME Init PROVE IInv
  OBVIOUS
<1> USE BoundsAssumption DEF Init
<1>1. TypeOK
  BY DEF TypeOK
<1>2. KnownInv /\ PhaseInv /\ PlaceInv /\ ClearedInv /\ GoneInv
  BY DEF KnownInv, PhaseInv, PlaceInv, ClearedInv, GoneInv, Held, Distinct, Elements
<1>3. OrderInv
  BY DEF OrderInv, AsSet
<1> QED
  BY <1>1, <1>2, <1>3 DEF IInv

LEMMA PhaseEndsStep ==
    ASSUME IInv, ScriptEnds \/ JobsEnd \/ CallbackEnds
    PROVE  IInv'
<1> USE DEF IInv, history
<1>1. frames # <<>> /\ Len(frames) \in DOMAIN frames /\ Top = frames[Len(frames)]
  BY TopFacts DEF ScriptEnds, JobsEnd, CallbackEnds, At
<1>2. \E p \in {"jobs", "rounds", "after"} :
         /\ frames' = SetTop([Top EXCEPT !.at = p])
         /\ p \in {"callback", "after"} <=> Top.timer # NoTimer
         /\ p \in {"script", "jobs", "last"} => Top.batch = <<>>
  BY <1>1 DEF ScriptEnds, JobsEnd, CallbackEnds, At, PhaseInv
<1>3. /\ UNCHANGED <<registered, pending, runs, fired, cancelled, lost, cleared, forgotten>>
      /\ forgotten' \subseteq Timer
  BY DEF ScriptEnds, JobsEnd, CallbackEnds, TypeOK
<1>4. /\ TypeOK' /\ KnownInv' /\ PhaseInv' /\ PlaceInv' /\ GoneInv' /\ OrderInv'
      /\ \A t \in Timer : Held(t)' <=> Held(t)
  BY <1>1, <1>2, <1>3, PhaseStep DEF Phases
<1>5. ClearedInv'
  BY <1>3, <1>4 DEF ClearedInv, TypeOK, Elements
<1> QED
  BY <1>4, <1>5

LEMMA DrainEndsStep ==
    ASSUME IInv, DrainEnds
    PROVE  IInv'
<1> USE DEF IInv, DrainEnds, At
<1>1. Len(frames) \in DOMAIN frames /\ Top = frames[Len(frames)]
  BY TopFacts
<1>2. Top.timer = NoTimer
  BY <1>1 DEF PhaseInv
<1>3. cleared' \subseteq cleared /\ forgotten' \subseteq Timer
  BY DEF TypeOK
<1>4. /\ TypeOK' /\ KnownInv' /\ PhaseInv' /\ PlaceInv' /\ GoneInv' /\ OrderInv'
      /\ \A t \in Timer : Held(t)' <=> Held(t)
  BY <1>2, <1>3, PhaseStep DEF Phases
<1>5. \A n \in DOMAIN frames : n # Len(frames) => HeldBy(frames[n]) \subseteq HeldOutside
  <2>1. \A n \in DOMAIN frames : n # Len(frames) => n \in 1 .. Len(frames) - 1
    BY DEF TypeOK
  <2> QED
    BY <2>1 DEF HeldOutside, HeldBy, Running
<1>6. HeldBy(Top) = {}
  BY <1>2 DEF HeldBy, Running, Elements, Timer, NoTimer
<1>7. ASSUME NEW t \in cancelled', t \notin forgotten'
      PROVE  ~Held(t)'
  <2>1. t \in Timer /\ t \in cancelled \ forgotten
    BY <1>7 DEF TypeOK
  <2>2. CASE ~Held(t)
    BY <2>1, <2>2, <1>4
  <2>3. CASE t \in cleared
    <3>1. t \notin HeldOutside /\ t \notin Elements(pending)
      BY <1>7, <2>3 DEF ClearedInv
    <3>2. ~Held(t)
      BY <3>1, <1>1, <1>5, <1>6 DEF Held
    <3> QED
      BY <2>1, <3>2, <1>4
  <2> QED
    BY <2>1, <2>2, <2>3 DEF ClearedInv
<1>8. ClearedInv'
  BY <1>7 DEF ClearedInv
<1> QED
  BY <1>4, <1>8

LEMMA TakeBatchStep ==
    ASSUME IInv, TakeBatch
    PROVE  IInv'
<1> DEFINE f == [Top EXCEPT !.batch = Sorted(pending), !.round = @ + 1]
<1> USE DEF IInv, TakeBatch, At
<1>1. Len(frames) \in DOMAIN frames /\ Top = frames[Len(frames)] /\ Top \in Frame
  BY TopFacts
<1>2. /\ Sorted(pending) \in Seq(Timer) /\ Elements(Sorted(pending)) = Elements(pending)
      /\ Distinct(Sorted(pending))
  BY SortedFacts DEF PlaceInv, TypeOK
<1>3. f \in Frame /\ f.batch = Sorted(pending) /\ f.timer = NoTimer /\ f.at = "rounds"
  <2>1. Top.timer = NoTimer
    BY <1>1 DEF PhaseInv
  <2>2. Top.round + 1 \in 0 .. MaxRounds
    BY <1>1, BoundsAssumption DEF Frame, RoundsLeft
  <2> QED
    BY <1>1, <1>2, <2>1, <2>2 DEF Frame
<1>4. Elements(pending') = {}
  BY DEF Elements
<1>5. HeldBy(f) = Elements(pending) /\ Running(f) = {} /\ HeldBy(Top) = {}
  <2>1. Top.timer = NoTimer
    BY <1>1 DEF PhaseInv
  <2>2. Running(f) = {} /\ Running(Top) = {}
    BY <1>3, <2>1 DEF Running, Timer, NoTimer
  <2>3. Elements(Top.batch) = {}
    BY DEF Elements
  <2> QED
    BY <1>2, <1>3, <2>2, <2>3 DEF HeldBy
<1>6. ByDelay(f.batch)
  <2> SUFFICES ASSUME NEW i \in DOMAIN f.batch, NEW j \in DOMAIN f.batch, i < j,
                      ~interval[f.batch[i]], ~interval[f.batch[j]]
               PROVE  ~Precedes(f.batch[j], f.batch[i])
    BY DEF ByDelay
  <2>1. PICK k \in DOMAIN pending, l \in DOMAIN pending :
           Before(pending, k, l) /\ f.batch[i] = pending[k] /\ f.batch[j] = pending[l]
    BY <1>3, SortedFacts DEF TypeOK
  <2>2. pending[k] \in Timer /\ pending[l] \in Timer
    BY DEF TypeOK
  <2>3. delay[pending[k]] \in Nat /\ delay[pending[l]] \in Nat
    BY <2>2, DelayFacts
  <2>4. k < l => pending[k] < pending[l]
    BY <2>1 DEF OrderInv, AsSet
  <2> QED
    BY <2>1, <2>2, <2>3, <2>4 DEF Before, Precedes, Timer
<1> HIDE DEF f
<1>7. frames' = SetTop(f)
  BY DEF f
<1>8. /\ frames' \in Seq(Frame) /\ DOMAIN frames' = DOMAIN frames /\ frames'[Len(frames)] = f
      /\ \A n \in DOMAIN frames : n # Len(frames) => frames'[n] = frames[n]
  BY <1>3, <1>7, SetTopFacts
<1>9. \A t : Held(t)' <=> Held(t)
  BY <1>3, <1>4, <1>5, <1>7, HeldStep DEF registered
<1>10. TypeOK'
  BY <1>8 DEF TypeOK, registered, history
<1>11. KnownInv'
  <2>1. \A n \in DOMAIN frames' :
           Elements(frames'[n].batch) \subseteq 1 .. timers /\ frames'[n].timer <= timers
    BY <1>2, <1>3, <1>8 DEF KnownInv, NoTimer, TypeOK
  <2> QED
    BY <1>4, <2>1 DEF KnownInv, Elements, registered, history
<1>12. PhaseInv'
  BY <1>3, <1>8 DEF PhaseInv, history
<1>13. PlaceInv'
  <2>1. Distinct(pending') /\ Distinct(f.batch) /\ interval' = interval
    BY <1>2, <1>3 DEF Distinct, registered
  <2> QED
    BY <1>3, <1>4, <1>5, <1>7, <2>1, PlaceStep
<1>14. ClearedInv' /\ GoneInv'
  BY <1>4, <1>9 DEF ClearedInv, GoneInv, registered, history
<1>15. OrderInv'
  <2>1. AsSet(pending') /\ Timeouts(pending') = {}
    BY <1>4 DEF AsSet, Timeouts
  <2> QED
    BY <1>3, <1>6, <1>7, <2>1, OrderStep DEF registered
<1> QED
  BY <1>10, <1>11, <1>12, <1>13, <1>14, <1>15

LEMMA SkipClearedStep ==
    ASSUME IInv, SkipCleared
    PROVE  IInv'
<1> DEFINE f == [Top EXCEPT !.batch = Tail(@)]
           b == Top.batch
<1> USE DEF IInv, SkipCleared, At
<1>1. Len(frames) \in DOMAIN frames /\ Top = frames[Len(frames)] /\ Top \in Frame
  BY TopFacts
<1>2. b \in Seq(Timer) /\ Distinct(b) /\ b # <<>>
  BY <1>1 DEF Frame, PlaceInv
<1>3. /\ Head(b) \in Timer /\ Tail(b) \in Seq(Timer)
      /\ Elements(b) = {Head(b)} \cup Elements(Tail(b)) /\ Distinct(Tail(b))
      /\ \A i \in DOMAIN Tail(b) : i + 1 \in DOMAIN b /\ Tail(b)[i] = b[i + 1]
  BY <1>2, TailFacts
<1>4. f \in Frame /\ f.batch = Tail(b) /\ f.timer = Top.timer /\ f.at = Top.at
  BY <1>1, <1>3 DEF Frame
<1>5. Running(f) = Running(Top) /\ HeldBy(Top) = HeldBy(f) \cup {Head(b)}
  BY <1>3, <1>4 DEF HeldBy, Running
<1>6. ByDelay(f.batch)
  <2>1. ByDelay(b)
    BY <1>1 DEF OrderInv
  <2>2. \A i, j \in DOMAIN Tail(b) : i < j => i + 1 < j + 1
    BY <1>3
  <2> QED
    BY <1>3, <1>4, <2>1, <2>2 DEF ByDelay
<1> HIDE DEF f
<1>7. frames' = SetTop(f)
  BY DEF f
<1>8. /\ frames' \in Seq(Frame) /\ DOMAIN frames' = DOMAIN frames /\ frames'[Len(frames)] = f
      /\ \A n \in DOMAIN frames : n # Len(frames) => frames'[n] = frames[n]
  BY <1>4, <1>7, SetTopFacts
<1>9. \A t : t # Head(b) => (Held(t)' <=> Held(t))
  BY <1>4, <1>5, <1>7, HeldStep DEF registered
<1>10. Head(b) \in cleared /\ Head(b) \in cancelled
  BY DEF KnownInv
<1>11. Held(Head(b))
  BY <1>1, <1>5 DEF Held
<1>12. TypeOK'
  BY <1>8 DEF TypeOK, registered, history
<1>13. KnownInv'
  <2>1. \A n \in DOMAIN frames : Elements(frames'[n].batch) \subseteq Elements(frames[n].batch)
                               /\ frames'[n].timer = frames[n].timer
    BY <1>1, <1>3, <1>4, <1>8
  <2> QED
    <3>1. \A n \in DOMAIN frames' :
             Elements(frames'[n].batch) \subseteq 1 .. timers /\ frames'[n].timer <= timers
      BY <1>8, <2>1 DEF KnownInv
    <3> QED
      BY <3>1 DEF KnownInv, Elements, registered, history
<1>14. PhaseInv'
  <2>1. \A n \in DOMAIN frames :
           /\ frames'[n].at = frames[n].at /\ frames'[n].timer = frames[n].timer
           /\ frames'[n].batch = frames[n].batch \/ frames[n].at = "rounds"
    BY <1>1, <1>4, <1>8
  <2> QED
    BY ZenonT(30), <1>8, <2>1 DEF PhaseInv, history
<1>15. PlaceInv'
  <2>1. Distinct(pending) /\ Elements(b) \cap Running(Top) = {} /\ HeldBy(Top) \cap Elements(pending) = {}
    BY <1>1 DEF PlaceInv
  <2> QED
    BY <1>3, <1>4, <1>5, <1>7, <2>1, PlaceStep DEF registered
<1>16. ClearedInv'
  BY <1>9, <1>10 DEF ClearedInv, history, Elements
<1>17. GoneInv'
  BY <1>9, <1>10, <1>11 DEF GoneInv, registered, history
<1>18. OrderInv'
  <2>1. \A t \in Timeouts(f.batch) : t \in Timeouts(b)
    BY <1>3, <1>4 DEF Timeouts
  <2>2. AsSet(pending) /\ \A u \in Timeouts(pending), t \in Timeouts(b) : t < u
    BY <1>1 DEF OrderInv
  <2> QED
    BY <1>4, <1>6, <1>7, <2>1, <2>2, OrderStep DEF registered
<1> QED
  BY <1>12, <1>13, <1>14, <1>15, <1>16, <1>17, <1>18

LEMMA FireStep ==
    ASSUME IInv, Fire
    PROVE  IInv'
<1> DEFINE b == Top.batch
<1> PICK h : h = Head(b)
  OBVIOUS
<1> DEFINE f == [Top EXCEPT !.at = "callback", !.batch = Tail(@), !.timer = h]
<1> USE DEF IInv, Fire, At
<1>1. Len(frames) \in DOMAIN frames /\ Top = frames[Len(frames)] /\ Top \in Frame
  BY TopFacts
<1>2. b \in Seq(Timer) /\ Distinct(b) /\ b # <<>>
  BY <1>1 DEF Frame, PlaceInv
<1>3. /\ h \in Timer /\ Tail(b) \in Seq(Timer)
      /\ Elements(b) = {h} \cup Elements(Tail(b)) /\ h \notin Elements(Tail(b)) /\ Distinct(Tail(b))
      /\ \A i \in DOMAIN Tail(b) : i + 1 \in DOMAIN b /\ Tail(b)[i] = b[i + 1]
  BY <1>2, TailFacts
<1>4. f \in Frame /\ f.batch = Tail(b) /\ f.timer = h /\ f.at = "callback"
  BY <1>1, <1>3 DEF Frame, Phases
<1>5. h # NoTimer /\ h <= timers /\ h \in 1 .. timers
  BY <1>1, <1>3 DEF KnownInv, Timer, NoTimer
<1>6. Running(Top) = {} /\ HeldBy(Top) = {h} \cup Elements(Tail(b))
  <2>1. Top.timer = NoTimer
    BY <1>1 DEF PhaseInv
  <2>2. Running(Top) = {}
    BY <2>1 DEF Running, Timer, NoTimer
  <2> QED
    BY <1>3, <2>2 DEF HeldBy
<1>7. Running(f) = (IF interval[h] THEN {h} ELSE {}) /\ HeldBy(f) = Running(f) \cup Elements(Tail(b))
  BY <1>3, <1>4 DEF HeldBy, Running
<1>8. ByDelay(f.batch)
  <2>1. ByDelay(b)
    BY <1>1 DEF OrderInv
  <2>2. \A i, j \in DOMAIN Tail(b) : i < j => i + 1 < j + 1
    BY <1>3
  <2> QED
    BY <1>3, <1>4, <2>1, <2>2 DEF ByDelay
<1> HIDE DEF f
<1>9. frames' = SetTop(f)
  BY DEF f
<1>10. /\ frames' \in Seq(Frame) /\ DOMAIN frames' = DOMAIN frames /\ frames'[Len(frames)] = f
       /\ \A n \in DOMAIN frames : n # Len(frames) => frames'[n] = frames[n]
  BY <1>4, <1>9, SetTopFacts
<1>11. /\ h \in HeldBy(Top) /\ h \notin Elements(pending)
       /\ \A n \in DOMAIN frames : n # Len(frames) => h \notin HeldBy(frames[n])
  BY <1>1, <1>6 DEF PlaceInv
<1>12. \A t : t # h => (Held(t)' <=> Held(t))
  BY <1>4, <1>6, <1>7, <1>9, HeldStep DEF registered
<1>13. Held(h) /\ (Held(h)' <=> interval[h])
  BY <1>3, <1>4, <1>7, <1>9, <1>11, HeldStep DEF registered
<1>14. fired' = fired \cup {h} /\ UNCHANGED <<timers, interval, pending, cleared, cancelled, forgotten, lost>>
  BY DEF registered
<1>15. TypeOK'
  BY <1>3, <1>10 DEF TypeOK, registered
<1>16. KnownInv'
  <2>1. \A n \in DOMAIN frames' :
           Elements(frames'[n].batch) \subseteq 1 .. timers /\ frames'[n].timer <= timers
    BY SMTT(30), <1>1, <1>3, <1>4, <1>5, <1>10 DEF KnownInv
  <2> QED
    BY <1>5, <1>14, <2>1 DEF KnownInv, Elements
<1>17. PhaseInv'
  BY <1>4, <1>5, <1>10, <1>14 DEF PhaseInv
<1>18. PlaceInv'
  <2>1. Distinct(pending) /\ HeldBy(Top) \cap Elements(pending) = {}
    BY <1>1 DEF PlaceInv
  <2>2. Elements(f.batch) \cap Running(f) = {} /\ HeldBy(f) \subseteq HeldBy(Top) /\ Distinct(f.batch)
    BY <1>3, <1>4, <1>6, <1>7
  <2> QED
    BY <1>4, <1>9, <1>14, <2>1, <2>2, PlaceStep
<1>19. ClearedInv'
  <2>1. h \notin cleared
    OBVIOUS
  <2> QED
    BY <1>12, <1>13, <1>14, <2>1 DEF ClearedInv, Elements
<1>20. GoneInv'
  BY <1>12, <1>13, <1>14 DEF GoneInv
<1>21. OrderInv'
  <2>1. \A t \in Timeouts(f.batch) : t \in Timeouts(b)
    BY <1>3, <1>4 DEF Timeouts
  <2>2. AsSet(pending) /\ \A u \in Timeouts(pending), t \in Timeouts(b) : t < u
    BY <1>1 DEF OrderInv
  <2> QED
    BY <1>4, <1>8, <1>9, <2>1, <2>2, OrderStep DEF registered
<1> QED
  BY <1>15, <1>16, <1>17, <1>18, <1>19, <1>20, <1>21

LEMMA RequeueStep ==
    ASSUME IInv, Requeue
    PROVE  IInv'
<1> PICK h : h = Top.timer
  OBVIOUS
<1> DEFINE f == [Top EXCEPT !.at = "rounds", !.timer = NoTimer]
<1> USE DEF IInv, Requeue, At
<1>1. Len(frames) \in DOMAIN frames /\ Top = frames[Len(frames)] /\ Top \in Frame
  BY TopFacts
<1>2. f \in Frame /\ f.batch = Top.batch /\ f.timer = NoTimer /\ f.at = "rounds"
  BY <1>1 DEF Frame, Phases
<1>3. h \in Timer /\ h <= timers /\ h \in 1 .. timers
  <2>1. h # NoTimer /\ h \in Timer \cup {NoTimer} /\ h <= timers
    BY <1>1 DEF PhaseInv, Frame, KnownInv
  <2> QED
    BY <2>1 DEF Timer, TypeOK
<1>4. Running(f) = {} /\ HeldBy(f) = Elements(Top.batch)
  BY <1>2 DEF HeldBy, Running, Timer, NoTimer
<1>5. /\ Running(Top) = (IF interval[h] THEN {h} ELSE {})
      /\ HeldBy(Top) = Running(Top) \cup Elements(Top.batch)
  BY <1>3 DEF HeldBy, Running
<1>6. /\ Distinct(pending) /\ Distinct(Top.batch) /\ HeldBy(Top) \cap Elements(pending) = {}
      /\ Elements(Top.batch) \cap Running(Top) = {}
      /\ \A n \in DOMAIN frames : n # Len(frames) => HeldBy(Top) \cap HeldBy(frames[n]) = {}
  BY <1>1 DEF PlaceInv
<1>7. /\ pending' \in Seq(Timer) /\ Distinct(pending')
      /\ Elements(pending') = Elements(pending) \cup (IF Requeued(h) THEN {h} ELSE {})
  <2>1. CASE Requeued(h)
    <3>1. h \notin Elements(pending)
      BY <2>1, <1>5, <1>6 DEF Requeued
    <3> QED
      BY <2>1, <3>1, <1>3, <1>6, AppendFacts DEF TypeOK
  <2>2. CASE ~Requeued(h)
    BY <2>2, <1>6 DEF TypeOK
  <2> QED
    BY <2>1, <2>2
<1>8. Timeouts(pending') = Timeouts(pending) /\ AsSet(pending')
  <2>1. CASE Requeued(h)
    <3>1. Timeouts(pending') = Timeouts(pending)
      BY <2>1, <1>7 DEF Timeouts, Requeued
    <3>2. interval[h] /\ pending' = Append(pending, h)
      BY <2>1 DEF Requeued
    <3> QED
      BY <3>1, <3>2, <1>3, AppendFacts DEF AsSet, TypeOK, OrderInv
  <2>2. CASE ~Requeued(h)
    BY <2>2 DEF OrderInv
  <2> QED
    BY <2>1, <2>2
<1>9. interval' = interval /\ UNCHANGED <<timers, delay, cleared, fired, cancelled, forgotten, lost>>
  BY DEF registered, history
<1> HIDE DEF f
<1>10. frames' = SetTop(f)
  BY DEF f
<1>11. /\ frames' \in Seq(Frame) /\ DOMAIN frames' = DOMAIN frames /\ frames'[Len(frames)] = f
       /\ \A n \in DOMAIN frames : n # Len(frames) => frames'[n] = frames[n]
  BY <1>2, <1>10, SetTopFacts
<1>12. \A t : t # h => (Held(t)' <=> Held(t))
  BY <1>2, <1>4, <1>5, <1>7, <1>9, <1>10, HeldStep
<1>13. /\ ~interval[h] => (Held(h)' <=> Held(h))
       /\ interval[h] => Held(h) /\ (Held(h)' <=> h \notin cleared)
  BY <1>2, <1>4, <1>5, <1>6, <1>7, <1>9, <1>10, HeldStep DEF Requeued
<1>14. TypeOK'
  BY <1>7, <1>11 DEF TypeOK, registered, history
<1>15. KnownInv'
  <2>1. \A n \in DOMAIN frames' :
           Elements(frames'[n].batch) \subseteq 1 .. timers /\ frames'[n].timer <= timers
    BY <1>1, <1>2, <1>11 DEF KnownInv, NoTimer, TypeOK
  <2>2. Elements(pending') \subseteq 1 .. timers
    BY <1>3, <1>7 DEF KnownInv
  <2> QED
    BY <1>9, <2>1, <2>2 DEF KnownInv, Elements
<1>16. PhaseInv'
  BY <1>2, <1>9, <1>11 DEF PhaseInv
<1>17. PlaceInv'
  <2>1. HeldBy(f) \cup Elements(pending') \subseteq HeldBy(Top) \cup Elements(pending)
    BY <1>4, <1>5, <1>7 DEF Requeued
  <2>2. HeldBy(f) \cap Elements(pending') = {} /\ Elements(f.batch) \cap Running(f) = {}
    BY <1>2, <1>4, <1>5, <1>6, <1>7 DEF Requeued
  <2> QED
    BY <1>2, <1>6, <1>7, <1>9, <1>10, <2>1, <2>2, PlaceStep
<1>18. ClearedInv'
  <2>1. cleared \cap Elements(pending') = {}
    BY <1>7 DEF ClearedInv, Requeued
  <2> QED
    BY <1>9, <1>12, <1>13, <2>1 DEF ClearedInv, Elements
<1>19. GoneInv'
  <2>1. h \in cleared => h \in cancelled
    BY DEF KnownInv
  <2> QED
    BY <1>9, <1>12, <1>13, <2>1 DEF GoneInv
<1>20. OrderInv'
  <2>1. ByDelay(f.batch) /\ \A u \in Timeouts(pending), t \in Timeouts(f.batch) : t < u
    BY <1>1, <1>2 DEF OrderInv
  <2> QED
    BY <1>2, <1>8, <1>9, <1>10, <2>1, OrderStep
<1> QED
  BY <1>14, <1>15, <1>16, <1>17, <1>18, <1>19, <1>20

LEMMA SetStep ==
    ASSUME IInv, NEW d \in Delays, NEW i \in BOOLEAN, Set(d, i)
    PROVE  IInv'
<1> PICK t : t = timers + 1
  OBVIOUS
<1> USE DEF IInv, Set
<1>1. t \in Timer /\ t \in 1 .. timers' /\ t \notin 1 .. timers /\ \A u \in 1 .. timers : u < t /\ u \in 1 .. timers'
  BY BoundsAssumption DEF TypeOK, Timer
<1>2. /\ timers' = t /\ delay' = [delay EXCEPT ![t] = d] /\ interval' = [interval EXCEPT ![t] = i]
      /\ pending' = Append(pending, t) /\ frames' = frames
      /\ UNCHANGED <<cleared, fired, cancelled, forgotten, lost>>
  BY DEF history
<1>3. \A u \in 1 .. timers : interval'[u] = interval[u] /\ delay'[u] = delay[u] /\ u \in Timer
  BY <1>1, <1>2, BoundsAssumption DEF TypeOK, Timer
<1>4. /\ pending' \in Seq(Timer) /\ Elements(pending') = Elements(pending) \cup {t}
      /\ Distinct(pending')
      /\ \A k, l \in DOMAIN pending' : k < l =>
            /\ k \in DOMAIN pending /\ pending'[k] = pending[k]
            /\ \/ l \in DOMAIN pending /\ pending'[l] = pending[l]
               \/ l \notin DOMAIN pending /\ pending'[l] = t
  <2>1. t \notin Elements(pending) /\ Distinct(pending)
    BY <1>1 DEF KnownInv, PlaceInv
  <2> QED
    BY <1>1, <1>2, <2>1, AppendFacts DEF TypeOK
<1>5. \A n \in DOMAIN frames :
         /\ Elements(frames[n].batch) \subseteq 1 .. timers /\ frames[n].timer \in 0 .. timers
         /\ HeldBy(frames[n]) \subseteq 1 .. timers
  <2> SUFFICES ASSUME NEW n \in DOMAIN frames
               PROVE  /\ Elements(frames[n].batch) \subseteq 1 .. timers /\ frames[n].timer \in 0 .. timers
                      /\ HeldBy(frames[n]) \subseteq 1 .. timers
    OBVIOUS
  <2>1. frames[n].timer \in Timer \cup {NoTimer} /\ frames[n].timer <= timers
    <3>1. frames[n] \in Frame
      BY DEF TypeOK
    <3> QED
      BY <3>1 DEF Frame, KnownInv
  <2>2. frames[n].timer \in 0 .. timers
    BY <2>1 DEF Timer, NoTimer, TypeOK
  <2>3. Elements(frames[n].batch) \subseteq 1 .. timers
    BY DEF KnownInv
  <2>4. Running(frames[n]) \subseteq 1 .. timers
    BY <2>2 DEF Running, Timer, TypeOK
  <2> QED
    BY <2>2, <2>3, <2>4 DEF HeldBy
<1>6. ASSUME NEW n \in DOMAIN frames
      PROVE  Running(frames[n])' = Running(frames[n]) /\ HeldBy(frames[n])' = HeldBy(frames[n])
  <2>1. Running(frames[n])' = Running(frames[n])
    <3>1. \A u \in Timer : u = frames[n].timer => u \in 1 .. timers
      BY <1>5 DEF Timer
    <3> QED
      BY <1>2, <1>3, <3>1 DEF Running
  <2> QED
    BY <1>2, <2>1 DEF HeldBy, Elements
<1>7. ASSUME NEW u
      PROVE  Held(u)' <=> Held(u) \/ u = t
  <2>1. \A n \in DOMAIN frames : u \in HeldBy(frames[n])' <=> u \in HeldBy(frames[n])
    BY <1>6
  <2>2. Held(u)' <=> u \in Elements(pending') \/ \E n \in DOMAIN frames : u \in HeldBy(frames[n])'
    BY <1>2 DEF Held, Elements
  <2> QED
    BY <1>4, <2>1, <2>2 DEF Held
<1>8. TypeOK'
  BY <1>1, <1>2, <1>4, BoundsAssumption DEF TypeOK
<1>9. KnownInv'
  <2>1. \A n \in DOMAIN frames :
           Elements(frames[n].batch) \subseteq 1 .. timers' /\ frames[n].timer <= timers'
    <3>1. timers' = timers + 1 /\ timers \in Nat
      BY <1>2 DEF TypeOK
    <3>2. \A n \in DOMAIN frames : frames[n].timer <= timers'
      BY <1>5, <3>1
    <3> QED
      BY <1>1, <1>5, <3>2
  <2>2. Elements(pending') \subseteq 1 .. timers' /\ cancelled' \subseteq 1 .. timers' /\ fired' \subseteq 1 .. timers'
    BY <1>1, <1>2, <1>4 DEF KnownInv
  <2> QED
    BY <1>2, <2>1, <2>2 DEF KnownInv, Elements
<1>10. PhaseInv'
  BY <1>2 DEF PhaseInv
<1>11. PlaceInv'
  <2>1. \A n \in DOMAIN frames' :
           /\ Distinct(frames[n].batch)' /\ (Elements(frames[n].batch) \cap Running(frames[n]) = {})'
           /\ (HeldBy(frames[n]) \cap Elements(pending) = {})'
    <3> TAKE n \in DOMAIN frames'
    <3>1. Distinct(frames[n].batch)' /\ (Elements(frames[n].batch) \cap Running(frames[n]) = {})'
      BY <1>2, <1>6 DEF PlaceInv, Distinct, Elements
    <3>2. HeldBy(frames[n]) \cap Elements(pending') = {}
      BY <1>1, <1>2, <1>4, <1>5 DEF PlaceInv
    <3> QED
      BY <1>2, <1>6, <3>1, <3>2 DEF Elements
  <2>2. \A n \in DOMAIN frames' : \A m \in DOMAIN frames' :
           m # n => (HeldBy(frames[m]) \cap HeldBy(frames[n]) = {})'
    <3> SUFFICES ASSUME NEW n \in DOMAIN frames', NEW m \in DOMAIN frames', m # n
                 PROVE  (HeldBy(frames[m]) \cap HeldBy(frames[n]) = {})'
      OBVIOUS
    <3> QED
      BY <1>2, <1>6 DEF PlaceInv
  <2>3. Distinct(pending)'
    BY <1>4 DEF Distinct
  <2> QED
    BY <2>1, <2>2, <2>3 DEF PlaceInv
<1>12. t \notin cancelled /\ t \notin cleared
  BY <1>1 DEF KnownInv
<1>13. ClearedInv'
  <2>1. cleared' \cap Elements(pending') = {}
    BY <1>2, <1>4, <1>12 DEF ClearedInv
  <2>2. \A u \in cancelled' \ forgotten' : u \in cleared' \/ ~Held(u)'
    BY <1>2, <1>7, <1>12 DEF ClearedInv
  <2> QED
    BY <2>1, <2>2 DEF ClearedInv, Elements
<1>14. GoneInv'
  <2> SUFFICES ASSUME NEW u \in 1 .. timers'
               PROVE  /\ ~interval'[u] /\ u \in fired' => ~Held(u)'
                      /\ ~Held(u)' => u \in cancelled' \cup lost' \cup {v \in fired' : ~interval'[v]}
    BY DEF GoneInv
  <2>1. CASE u = t
    BY <2>1, <1>1, <1>2, <1>7 DEF KnownInv
  <2>2. CASE u # t
    <3>1. u \in 1 .. timers
      BY <2>2, <1>2 DEF TypeOK
    <3> QED
      BY <2>2, <3>1, <1>2, <1>3, <1>7 DEF GoneInv
  <2> QED
    BY <2>1, <2>2
<1>15. OrderInv'
  <2>1. AsSet(pending)'
    <3> SUFFICES ASSUME NEW k \in DOMAIN pending', NEW l \in DOMAIN pending', k < l,
                        ~interval'[pending'[k]], ~interval'[pending'[l]]
                 PROVE  pending'[k] < pending'[l]
      BY DEF AsSet
    <3>1. k \in DOMAIN pending /\ pending'[k] = pending[k] /\ pending[k] \in 1 .. timers
      BY <1>4 DEF KnownInv, Elements
    <3>2. CASE l \in DOMAIN pending /\ pending'[l] = pending[l]
      <4>1. pending[l] \in 1 .. timers
        BY <3>2 DEF KnownInv, Elements
      <4> QED
        BY <3>1, <3>2, <4>1, <1>3 DEF OrderInv, AsSet
    <3>3. CASE pending'[l] = t
      BY <3>1, <3>3, <1>1
    <3> QED
      BY <3>2, <3>3, <1>4
  <2>2. ASSUME NEW n \in DOMAIN frames
        PROVE  /\ ByDelay(frames[n].batch)'
               /\ (\A u \in Timeouts(pending), v \in Timeouts(frames[n].batch) : v < u)'
    <3>1. \A k \in DOMAIN frames[n].batch : frames[n].batch[k] \in 1 .. timers
      BY <1>5 DEF Elements
    <3>2. ByDelay(frames[n].batch)
      BY DEF OrderInv
    <3>3. ByDelay(frames[n].batch)'
      BY <3>1, <3>2, <1>2, <1>3 DEF ByDelay, Precedes
    <3>4. Timeouts(frames[n].batch)' = Timeouts(frames[n].batch)
      BY <1>2, <1>3, <1>5 DEF Timeouts, Elements
    <3>5. Timeouts(pending)' \subseteq Timeouts(pending) \cup {t}
      <4>1. \A u \in Elements(pending') : ~interval'[u] => u \in Timeouts(pending) \cup {t}
        BY <1>3, <1>4 DEF Timeouts, KnownInv
      <4> QED
        BY <4>1 DEF Timeouts, Elements
    <3>6. \A v \in Timeouts(frames[n].batch) : v < t
      BY <1>1, <1>5 DEF Timeouts
    <3> QED
      BY <3>3, <3>4, <3>5, <3>6 DEF OrderInv
  <2> QED
    BY <1>2, <2>1, <2>2 DEF OrderInv
<1> QED
  BY <1>8, <1>9, <1>10, <1>11, <1>13, <1>14, <1>15

LEMMA ClearStep ==
    ASSUME IInv, NEW t \in Timer, Clear(t)
    PROVE  IInv'
<1> USE DEF IInv, Clear
<1>1. /\ pending' \in Seq(Timer) /\ Elements(pending') = Elements(pending) \ {t} /\ Distinct(pending')
      /\ \A i, j \in DOMAIN pending' : i < j =>
            \E k, l \in DOMAIN pending : k < l /\ pending'[i] = pending[k] /\ pending'[j] = pending[l]
  BY WithoutFacts DEF PlaceInv, TypeOK
<1>2. /\ UNCHANGED <<timers, delay, interval, runs, frames, fired, lost>>
      /\ cleared' = cleared \cup {t} /\ cancelled' = cancelled \cup {t} /\ forgotten' = forgotten \ {t}
      /\ t \in 1 .. timers
  BY DEF registered, TypeOK, Timer
<1>3. ASSUME NEW n \in DOMAIN frames
      PROVE  Running(frames[n])' = Running(frames[n]) /\ HeldBy(frames[n])' = HeldBy(frames[n])
  BY <1>2 DEF Running, HeldBy, Elements
<1>4. ASSUME NEW u
      PROVE  /\ Held(u)' => Held(u)
             /\ u # t /\ Held(u) => Held(u)'
  <2>1. \A n \in DOMAIN frames : u \in HeldBy(frames[n])' <=> u \in HeldBy(frames[n])
    BY <1>3
  <2>2. Held(u)' <=> u \in Elements(pending') \/ \E n \in DOMAIN frames : u \in HeldBy(frames[n])'
    BY <1>2 DEF Held, Elements
  <2> QED
    BY <1>1, <2>1, <2>2 DEF Held
<1>5. TypeOK'
  BY <1>1, <1>2 DEF TypeOK
<1>6. KnownInv'
  <2>1. Elements(pending') \subseteq 1 .. timers /\ cancelled' \subseteq 1 .. timers /\ cleared' \subseteq cancelled'
    BY <1>1, <1>2 DEF KnownInv
  <2> QED
    BY <1>2, <2>1 DEF KnownInv, Elements
<1>7. PhaseInv'
  BY <1>2 DEF PhaseInv
<1>8. PlaceInv'
  <2>1. \A n \in DOMAIN frames' :
           /\ Distinct(frames[n].batch)' /\ (Elements(frames[n].batch) \cap Running(frames[n]) = {})'
           /\ (HeldBy(frames[n]) \cap Elements(pending) = {})'
    <3> TAKE n \in DOMAIN frames'
    <3>1. Distinct(frames[n].batch)' /\ (Elements(frames[n].batch) \cap Running(frames[n]) = {})'
      BY <1>2, <1>3 DEF PlaceInv, Distinct, Elements
    <3>2. HeldBy(frames[n]) \cap Elements(pending') = {}
      BY <1>1, <1>2 DEF PlaceInv
    <3> QED
      BY <1>2, <1>3, <3>1, <3>2 DEF Elements
  <2>2. \A n \in DOMAIN frames' : \A m \in DOMAIN frames' :
           m # n => (HeldBy(frames[m]) \cap HeldBy(frames[n]) = {})'
    <3> SUFFICES ASSUME NEW n \in DOMAIN frames', NEW m \in DOMAIN frames', m # n
                 PROVE  (HeldBy(frames[m]) \cap HeldBy(frames[n]) = {})'
      OBVIOUS
    <3> QED
      BY <1>2, <1>3 DEF PlaceInv
  <2>3. Distinct(pending)'
    BY <1>1 DEF Distinct
  <2> QED
    BY <2>1, <2>2, <2>3 DEF PlaceInv
<1>9. ClearedInv'
  <2>1. cleared' \cap Elements(pending') = {}
    BY <1>1, <1>2 DEF ClearedInv
  <2>2. \A u \in cancelled' \ forgotten' : u \in cleared' \/ ~Held(u)'
    BY <1>2, <1>4 DEF ClearedInv
  <2> QED
    BY <2>1, <2>2 DEF ClearedInv, Elements
<1>10. GoneInv'
  <2> SUFFICES ASSUME NEW u \in 1 .. timers
               PROVE  /\ ~interval[u] /\ u \in fired => ~Held(u)'
                      /\ ~Held(u)' => u \in cancelled' \cup lost \cup {v \in fired : ~interval[v]}
    BY <1>2 DEF GoneInv
  <2> QED
    BY <1>2, <1>4 DEF GoneInv
<1>11. OrderInv'
  <2>1. AsSet(pending')
    <3> SUFFICES ASSUME NEW i \in DOMAIN pending', NEW j \in DOMAIN pending', i < j,
                        ~interval[pending'[i]], ~interval[pending'[j]]
                 PROVE  pending'[i] < pending'[j]
      BY DEF AsSet
    <3>1. PICK k \in DOMAIN pending, l \in DOMAIN pending :
             k < l /\ pending'[i] = pending[k] /\ pending'[j] = pending[l]
      BY <1>1
    <3> QED
      BY <3>1 DEF OrderInv, AsSet
  <2>2. Timeouts(pending') \subseteq Timeouts(pending)
    BY <1>1 DEF Timeouts
  <2>3. AsSet(pending)' /\ Timeouts(pending)' = Timeouts(pending')
    BY <1>2, <2>1 DEF AsSet, Timeouts, Elements
  <2>4. ASSUME NEW n \in DOMAIN frames
        PROVE  /\ ByDelay(frames[n].batch)'
               /\ (\A u \in Timeouts(pending), v \in Timeouts(frames[n].batch) : v < u)'
    <3>1. ByDelay(frames[n].batch)' /\ Timeouts(frames[n].batch)' = Timeouts(frames[n].batch)
      BY <1>2 DEF OrderInv, ByDelay, Precedes, Timeouts, Elements
    <3> QED
      BY <2>2, <2>3, <3>1 DEF OrderInv
  <2> QED
    BY <1>2, <2>3, <2>4 DEF OrderInv
<1> QED
  BY <1>5, <1>6, <1>7, <1>8, <1>9, <1>10, <1>11

\* A new run holds nothing.
LEMMA RunStep ==
    ASSUME IInv, Run
    PROVE  IInv'
<1> USE DEF IInv, Run
<1>1. /\ Fresh \in Frame /\ Fresh.batch = <<>> /\ Fresh.timer = NoTimer /\ Fresh.at = "script"
  BY BoundsAssumption DEF Fresh, Frame, Phases
<1>2. /\ frames' \in Seq(Frame) /\ DOMAIN frames' = DOMAIN frames \cup {Len(frames) + 1}
      /\ frames'[Len(frames) + 1] = Fresh
      /\ \A n \in DOMAIN frames : frames'[n] = frames[n] /\ n # Len(frames) + 1
  <2>1. frames \in Seq(Frame)
    BY DEF TypeOK
  <2> QED
    BY <1>1, <2>1
<1>3. UNCHANGED <<timers, delay, interval, pending, cleared, fired, cancelled, forgotten, lost>>
  BY DEF registered, history
<1>4. HeldBy(Fresh) = {} /\ Running(Fresh) = {} /\ Elements(Fresh.batch) = {}
  BY <1>1 DEF HeldBy, Running, Elements, Timer, NoTimer
<1>5. ASSUME NEW n \in DOMAIN frames'
      PROVE  Running(frames[n])' = Running(frames'[n]) /\ HeldBy(frames[n])' = HeldBy(frames'[n])
  BY <1>3 DEF HeldBy, Running, Elements
<1>6. ASSUME NEW t
      PROVE  Held(t)' <=> Held(t)
  <2>1. \A n \in DOMAIN frames' : t \in HeldBy(frames[n])' <=> t \in HeldBy(frames'[n])
    BY <1>5
  <2>2. Held(t)' <=> t \in Elements(pending) \/ \E n \in DOMAIN frames' : t \in HeldBy(frames[n])'
    BY <1>3 DEF Held, Elements
  <2> QED
    BY <1>2, <1>4, <2>1, <2>2 DEF Held
<1>7. TypeOK'
  BY <1>2, <1>3, BoundsAssumption DEF TypeOK
<1>8. KnownInv'
  <2>1. \A n \in DOMAIN frames' :
           Elements(frames'[n].batch) \subseteq 1 .. timers /\ frames'[n].timer <= timers
    BY <1>1, <1>2, <1>4 DEF KnownInv, NoTimer, TypeOK
  <2> QED
    BY <1>3, <2>1 DEF KnownInv, Elements
<1>9. PhaseInv'
  BY <1>1, <1>2, <1>3 DEF PhaseInv
<1>10. PlaceInv'
  <2>1. \A n \in DOMAIN frames' :
           /\ Distinct(frames'[n].batch) /\ Elements(frames'[n].batch) \cap Running(frames'[n]) = {}
           /\ HeldBy(frames'[n]) \cap Elements(pending) = {}
    BY <1>1, <1>2, <1>4 DEF PlaceInv, Distinct
  <2>2. \A n \in DOMAIN frames' : \A m \in DOMAIN frames' :
           m # n => HeldBy(frames'[m]) \cap HeldBy(frames'[n]) = {}
    BY <1>2, <1>4 DEF PlaceInv
  <2>3. ASSUME NEW n \in DOMAIN frames'
        PROVE  /\ Distinct(frames[n].batch)' /\ (Elements(frames[n].batch) \cap Running(frames[n]) = {})'
               /\ (HeldBy(frames[n]) \cap Elements(pending) = {})'
    <3>1. Distinct(frames[n].batch)' /\ Elements(frames[n].batch)' = Elements(frames'[n].batch)
      BY <2>1 DEF Distinct, Elements
    <3>2. Elements(pending)' = Elements(pending)
      BY <1>3 DEF Elements
    <3> QED
      BY <1>5, <2>1, <3>1, <3>2
  <2>4. ASSUME NEW n \in DOMAIN frames', NEW m \in DOMAIN frames', m # n
        PROVE  (HeldBy(frames[m]) \cap HeldBy(frames[n]) = {})'
    BY <1>5, <2>2, <2>4
  <2>5. Distinct(pending)'
    BY <1>3 DEF PlaceInv, Distinct
  <2> QED
    BY <2>3, <2>4, <2>5 DEF PlaceInv
<1>11. ClearedInv'
  BY <1>3, <1>6 DEF ClearedInv, Elements
<1>12. GoneInv'
  BY <1>3, <1>6 DEF GoneInv
<1>13. OrderInv'
  <2>1. \A n \in DOMAIN frames' :
           /\ ByDelay(frames'[n].batch)
           /\ \A u \in Timeouts(pending), t \in Timeouts(frames'[n].batch) : t < u
    BY <1>1, <1>2, <1>4 DEF OrderInv, ByDelay, Timeouts
  <2>2. AsSet(pending)' /\ Timeouts(pending)' = Timeouts(pending)
    BY <1>3 DEF OrderInv, AsSet, Timeouts, Elements
  <2>3. ASSUME NEW n \in DOMAIN frames'
        PROVE  /\ ByDelay(frames[n].batch)'
               /\ (\A u \in Timeouts(pending), t \in Timeouts(frames[n].batch) : t < u)'
    <3>1. /\ ByDelay(frames[n].batch)' /\ Timeouts(frames[n].batch)' = Timeouts(frames'[n].batch)
      BY <1>3, <2>1 DEF ByDelay, Precedes, Timeouts, Elements
    <3> QED
      BY <2>1, <2>2, <3>1
  <2> QED
    BY <2>2, <2>3 DEF OrderInv
<1> QED
  BY <1>7, <1>8, <1>9, <1>10, <1>11, <1>12, <1>13

\* The innermost run goes; what it held counts as lost unless it was cleared.
LEMMA PopStep ==
    ASSUME IInv, frames # <<>>, frames' = Pop,
           UNCHANGED <<registered, pending, cleared, runs, fired, cancelled, forgotten>>,
           lost' = lost \cup (HeldBy(Top) \ cancelled)
    PROVE  IInv'
<1> USE DEF IInv
<1>1. /\ Len(frames) \in DOMAIN frames /\ Top = frames[Len(frames)] /\ Top \in Frame
      /\ frames' \in Seq(Frame) /\ DOMAIN frames' = DOMAIN frames \ {Len(frames)}
      /\ \A n \in DOMAIN frames' : frames'[n] = frames[n]
  BY TopFacts, PopFacts
<1>2. UNCHANGED <<timers, delay, interval, pending, cleared, fired, cancelled, forgotten>>
  BY DEF registered
<1>3. HeldBy(Top) \subseteq Timer
  <2>1. Elements(Top.batch) \subseteq Timer
    BY <1>1 DEF Frame, Elements
  <2> QED
    BY <2>1 DEF HeldBy, Running
<1>4. ASSUME NEW n \in DOMAIN frames'
      PROVE  Running(frames[n])' = Running(frames[n]) /\ HeldBy(frames[n])' = HeldBy(frames[n])
  BY <1>1, <1>2 DEF HeldBy, Running, Elements
<1>5. ASSUME NEW t
      PROVE  /\ Held(t)' => Held(t)
             /\ Held(t) /\ ~Held(t)' => t \in HeldBy(Top)
  <2>1. \A n \in DOMAIN frames' : t \in HeldBy(frames[n])' <=> t \in HeldBy(frames[n])
    BY <1>4
  <2>2. Held(t)' <=> t \in Elements(pending) \/ \E n \in DOMAIN frames' : t \in HeldBy(frames[n])'
    BY <1>2 DEF Held, Elements
  <2> QED
    BY <1>1, <2>1, <2>2 DEF Held
<1>6. TypeOK'
  BY <1>1, <1>3 DEF TypeOK, registered
<1>7. KnownInv'
  BY <1>1, <1>2 DEF KnownInv, Elements
<1>8. PhaseInv'
  BY <1>1, <1>2 DEF PhaseInv
<1>9. PlaceInv'
  <2>1. ASSUME NEW n \in DOMAIN frames'
        PROVE  /\ Distinct(frames[n].batch)' /\ (Elements(frames[n].batch) \cap Running(frames[n]) = {})'
               /\ (HeldBy(frames[n]) \cap Elements(pending) = {})'
    BY <1>1, <1>2, <1>4 DEF PlaceInv, Distinct, Elements
  <2>2. ASSUME NEW n \in DOMAIN frames', NEW m \in DOMAIN frames', m # n
        PROVE  (HeldBy(frames[m]) \cap HeldBy(frames[n]) = {})'
    BY <1>1, <1>4, <2>2 DEF PlaceInv
  <2>3. Distinct(pending)'
    BY <1>2 DEF PlaceInv, Distinct
  <2> QED
    BY <2>1, <2>2, <2>3 DEF PlaceInv
<1>10. ClearedInv'
  BY <1>2, <1>5 DEF ClearedInv, Elements
<1>11. GoneInv'
  <2> SUFFICES ASSUME NEW u \in 1 .. timers
               PROVE  /\ ~interval[u] /\ u \in fired => ~Held(u)'
                      /\ ~Held(u)' => u \in cancelled \cup lost' \cup {v \in fired : ~interval[v]}
    BY <1>2 DEF GoneInv
  <2> QED
    BY <1>5 DEF GoneInv
<1>12. OrderInv'
  <2>1. AsSet(pending)' /\ Timeouts(pending)' = Timeouts(pending)
    BY <1>2 DEF OrderInv, AsSet, Timeouts, Elements
  <2>2. ASSUME NEW n \in DOMAIN frames'
        PROVE  /\ ByDelay(frames[n].batch)'
               /\ (\A u \in Timeouts(pending), t \in Timeouts(frames[n].batch) : t < u)'
    <3>1. /\ ByDelay(frames[n].batch)' /\ Timeouts(frames[n].batch)' = Timeouts(frames[n].batch)
      BY <1>1, <1>2 DEF OrderInv, ByDelay, Precedes, Timeouts, Elements
    <3> QED
      BY <1>1, <2>1, <3>1 DEF OrderInv
  <2> QED
    BY <2>1, <2>2 DEF OrderInv
<1> QED
  BY <1>6, <1>7, <1>8, <1>9, <1>10, <1>11, <1>12

LEMMA ThrowsStep ==
    ASSUME IInv, Throws
    PROVE  IInv'
<1> DEFINE dropped == Elements(Top.batch) \cup {t \in {Top.timer} \ {NoTimer} : interval[t]}
<1>1. frames # <<>> /\ Top \in Frame
  BY TopFacts DEF Throws, JsRuns, IInv
<1>2. Top.timer \in Timer \cup {NoTimer}
  BY <1>1 DEF Frame
<1>3. dropped = HeldBy(Top)
  BY <1>2 DEF HeldBy, Running, Timer, NoTimer
<1> QED
  BY <1>1, <1>3, PopStep DEF Throws

LEMMA RunEndsStep ==
    ASSUME IInv, RunEnds
    PROVE  IInv'
<1>1. frames # <<>> /\ Len(frames) \in DOMAIN frames /\ Top = frames[Len(frames)]
  BY TopFacts DEF RunEnds, At, IInv
<1>2. Top.timer = NoTimer /\ Top.batch = <<>>
  BY <1>1 DEF RunEnds, At, IInv, PhaseInv
<1>3. HeldBy(Top) = {}
  BY <1>2 DEF HeldBy, Running, Elements, Timer, NoTimer
<1>4. lost' = lost \cup (HeldBy(Top) \ cancelled)
  BY <1>3 DEF RunEnds, history
<1> QED
  BY <1>1, <1>4, PopStep DEF RunEnds, history

LEMMA NextIInv == IInv /\ [Next]_vars => IInv'
<1> SUFFICES ASSUME IInv, [Next]_vars PROVE IInv'
  OBVIOUS
<1>1. ASSUME NEW d \in Delays, NEW i \in BOOLEAN, Set(d, i)
      PROVE  IInv'
  BY <1>1, SetStep
<1>2. ASSUME NEW t \in Timer, Clear(t)
      PROVE  IInv'
  BY <1>2, ClearStep
<1>3. CASE Run
  BY <1>3, RunStep
<1>4. CASE Throws
  BY <1>4, ThrowsStep
<1>5. CASE ScriptEnds \/ JobsEnd \/ CallbackEnds
  BY <1>5, PhaseEndsStep
<1>6. CASE RunEnds
  BY <1>6, RunEndsStep
<1>7. CASE TakeBatch
  BY <1>7, TakeBatchStep
<1>8. CASE SkipCleared
  BY <1>8, SkipClearedStep
<1>9. CASE Fire
  BY <1>9, FireStep
<1>10. CASE Requeue
  BY <1>10, RequeueStep
<1>11. CASE DrainEnds
  BY <1>11, DrainEndsStep
<1>12. CASE UNCHANGED vars
  <2>1. UNCHANGED <<timers, delay, interval, pending, cleared, runs, frames, fired, cancelled, forgotten, lost>>
    BY <1>12 DEF vars, registered, history
  <2>2. TypeOK' /\ KnownInv' /\ PhaseInv'
    BY <2>1 DEF IInv, TypeOK, KnownInv, PhaseInv, Elements
  <2>3. PlaceInv'
    BY <2>1 DEF IInv, PlaceInv, Distinct, Elements, HeldBy, Running
  <2>4. ClearedInv' /\ GoneInv'
    BY <2>1 DEF IInv, ClearedInv, GoneInv, Held, HeldBy, Running, Elements
  <2>5. OrderInv'
    BY <2>1 DEF IInv, OrderInv, AsSet, ByDelay, Precedes, Timeouts, Elements
  <2> QED
    BY <2>2, <2>3, <2>4, <2>5 DEF IInv
<1> QED
  BY <1>1, <1>2, <1>3, <1>4, <1>5, <1>6, <1>7, <1>8, <1>9, <1>10, <1>11, <1>12
  DEF Next, Javascript, PhaseEnds, Drain

LEMMA Inductive == Spec => []IInv
  BY InitIInv, NextIInv, PTL DEF Spec

----------------------------------------------------------------------------
(* What the invariant gives.                                                *)

\* The queues, the batches and the stack of runs are well typed, for any
\* number of timers, runs, rounds and delays.
THEOREM TypeCorrect == Spec => []TypeOK
<1>1. IInv => TypeOK
  BY DEF IInv
<1> QED
  BY <1>1, Inductive, PTL

\* A timer is never in two places.
LEMMA OnePlace ==
    ASSUME IInv, NEW t \in Timer, NEW x \in Places(t), NEW y \in Places(t)
    PROVE  x = y
<1> USE DEF IInv
<1> DEFINE InQueue(p) == \E i \in DOMAIN pending : pending[i] = t /\ p = <<0, i>>
           InBatch(p, n) == \E i \in DOMAIN frames[n].batch : frames[n].batch[i] = t /\ p = <<n, i>>
           AsRunning(p, n) == frames[n].timer = t /\ interval[t] /\ p = <<n, 0>>
<1>1. \A p \in Places(t) : InQueue(p) \/ \E n \in DOMAIN frames : InBatch(p, n) \/ AsRunning(p, n)
  BY DEF Places
<1>2. ASSUME NEW p, InQueue(p)
      PROVE  t \in Elements(pending)
  BY <1>2 DEF Elements
<1>3. ASSUME NEW p, NEW n \in DOMAIN frames, InBatch(p, n)
      PROVE  t \in Elements(frames[n].batch) /\ t \in HeldBy(frames[n])
  BY <1>3 DEF Elements, HeldBy
<1>4. ASSUME NEW p, NEW n \in DOMAIN frames, AsRunning(p, n)
      PROVE  t \in Running(frames[n]) /\ t \in HeldBy(frames[n])
  BY <1>4 DEF Running, HeldBy
<1>5. CASE InQueue(x) /\ InQueue(y)
  BY <1>5 DEF PlaceInv, Distinct
<1>6. CASE \/ InQueue(x) /\ ~InQueue(y)
           \/ ~InQueue(x) /\ InQueue(y)
  <2>1. t \in Elements(pending) /\ \E n \in DOMAIN frames : t \in HeldBy(frames[n])
    BY <1>1, <1>2, <1>3, <1>4, <1>6
  <2> QED
    BY <2>1 DEF PlaceInv
<1>7. CASE ~InQueue(x) /\ ~InQueue(y)
  <2>1. PICK n \in DOMAIN frames : InBatch(x, n) \/ AsRunning(x, n)
    BY <1>1, <1>7
  <2>2. PICK m \in DOMAIN frames : InBatch(y, m) \/ AsRunning(y, m)
    BY <1>1, <1>7
  <2>3. m = n
    <3>1. t \in HeldBy(frames[n]) /\ t \in HeldBy(frames[m])
      BY <2>1, <2>2, <1>3, <1>4
    <3> QED
      BY <3>1 DEF PlaceInv
  <2>4. CASE InBatch(x, n) /\ InBatch(y, n)
    BY <2>4 DEF PlaceInv, Distinct
  <2>5. CASE AsRunning(x, n) /\ AsRunning(y, n)
    BY <2>5
  <2>6. CASE \/ InBatch(x, n) /\ AsRunning(y, n)
             \/ AsRunning(x, n) /\ InBatch(y, n)
    <3>1. t \in Elements(frames[n].batch) /\ t \in Running(frames[n])
      BY <2>6, <1>3, <1>4
    <3> QED
      BY <3>1 DEF PlaceInv
  <2> QED
    BY <2>1, <2>2, <2>3, <2>4, <2>5, <2>6
<1> QED
  BY <1>5, <1>6, <1>7

LEMMA PlacesHeld ==
    ASSUME TypeOK, NEW t \in Timer
    PROVE  Places(t) = {} <=> ~Held(t)
<1>1. ASSUME NEW p \in Places(t)
      PROVE  Held(t)
  BY DEF Places, Held, HeldBy, Running, Elements
<1>2. ASSUME Held(t)
      PROVE  \E p : p \in Places(t)
  <2>1. CASE t \in Elements(pending)
    <3>1. PICK i \in DOMAIN pending : pending[i] = t
      BY <2>1 DEF Elements
    <3>2. <<0, i>> \in Places(t)
      BY <3>1 DEF Places
    <3> QED
      BY <3>2
  <2>2. ASSUME NEW n \in DOMAIN frames, t \in Elements(frames[n].batch)
        PROVE  \E p : p \in Places(t)
    <3>1. PICK i \in DOMAIN frames[n].batch : frames[n].batch[i] = t
      BY <2>2 DEF Elements
    <3>2. <<n, i>> \in Places(t)
      BY <3>1 DEF Places
    <3> QED
      BY <3>2
  <2>3. ASSUME NEW n \in DOMAIN frames, t \in Running(frames[n])
        PROVE  \E p : p \in Places(t)
    <3>1. <<n, 0>> \in Places(t)
      BY <2>3 DEF Places, Running
    <3> QED
      BY <3>1
  <2> QED
    BY <1>2, <2>1, <2>2, <2>3 DEF Held, HeldBy
<1> QED
  BY <1>1, <1>2

\* A timer is in one place only until it has fired, was cleared or lost with
\* a batch, so it fires once when it is due (vm.rs:46800-46821).
THEOREM NoneLostOrDoubled == Spec => []Accounted
<1>1. IInv => Accounted
  <2> SUFFICES ASSUME IInv, NEW t \in 1 .. timers
               PROVE  /\ Cardinality(Places(t)) <= 1
                      /\ ~interval[t] /\ t \in fired => Places(t) = {}
                      /\ Places(t) = {} =>
                             t \in cancelled \cup lost \cup {u \in fired : ~interval[u]}
    BY DEF Accounted
  <2>1. t \in Timer
    BY BoundsAssumption DEF IInv, TypeOK, Timer
  <2>2. Cardinality(Places(t)) <= 1
    <3>1. CASE Places(t) = {}
      BY <3>1, FS_EmptySet
    <3>2. CASE Places(t) # {}
      <4>1. PICK p : p \in Places(t)
        BY <3>2
      <4>2. Places(t) = {p}
        BY <2>1, <4>1, OnePlace
      <4>3. Cardinality({p}) = 1
        BY FS_Singleton
      <4> QED
        BY <4>2, <4>3
    <3> QED
      BY <3>1, <3>2
  <2>3. Places(t) = {} <=> ~Held(t)
    BY <2>1, PlacesHeld DEF IInv
  <2> QED
    BY <2>2, <2>3 DEF IInv, GoneInv
<1> QED
  BY <1>1, Inductive, PTL

\* The steps that fire a timer are those of Fire, and it is the head of the
\* innermost batch.
LEMMA FiresFacts ==
    ASSUME IInv, [Next]_vars, NEW t, Fires(t)
    PROVE  Fire /\ t = Head(Top.batch) /\ Top.batch # <<>> /\ t \notin cleared
           /\ Len(frames) \in DOMAIN frames /\ Top = frames[Len(frames)] /\ Top \in Frame
<1> USE DEF IInv
<1>1. /\ Len(frames) \in DOMAIN frames /\ Top = frames[Len(frames)] /\ Top \in Frame
      /\ frames # <<>> /\ Top.at = "rounds"
  BY TopFacts DEF Fires, At
<1>2. frames' # <<>> /\ Len(frames') = Len(frames) /\ Top' = frames'[Len(frames)] /\ Top'.at = "callback" /\ Top'.timer = t
  BY DEF Fires, At, Top
<1>3. ASSUME NEW f \in Frame, frames' = SetTop(f)
      PROVE  f.at = "callback" /\ f.timer = t
  BY <1>1, <1>2, <1>3, SetTopFacts
<1>4. CASE Fire
  <2>1. Top.batch \in Seq(Timer) /\ Top.batch # <<>> /\ Distinct(Top.batch)
    BY <1>1, <1>4 DEF Fire, Frame, PlaceInv
  <2>2. Head(Top.batch) \in Timer /\ Tail(Top.batch) \in Seq(Timer)
    BY <2>1, TailFacts
  <2>3. [Top EXCEPT !.at = "callback", !.batch = Tail(@), !.timer = Head(Top.batch)] \in Frame
    BY <1>1, <2>2 DEF Frame, Phases
  <2>4. t = Head(Top.batch)
    BY <1>1, <1>3, <1>4, <2>3 DEF Fire, Frame
  <2> QED
    BY <1>1, <1>4, <2>1, <2>4 DEF Fire
<1>5. ASSUME frames' = frames
      PROVE  FALSE
  BY <1>1, <1>2, <1>5
<1>6. ASSUME frames' = Pop
      PROVE  FALSE
  <2>1. DOMAIN frames' = DOMAIN frames \ {Len(frames)} /\ frames' \in Seq(Frame)
    BY <1>1, <1>6, PopFacts
  <2> QED
    BY <1>1, <1>2, <2>1
<1>7. CASE TakeBatch
  <2>1. Sorted(pending) \in Seq(Timer) /\ Top.round + 1 \in 0 .. MaxRounds
    BY SMTT(30), <1>1, <1>7, SortedFacts, BoundsAssumption DEF TakeBatch, RoundsLeft, Frame, TypeOK
  <2>2. [Top EXCEPT !.batch = Sorted(pending), !.round = @ + 1] \in Frame
    BY <1>1, <2>1 DEF Frame
  <2> QED
    BY <1>1, <1>3, <1>7, <2>2 DEF TakeBatch, Frame
<1>8. CASE SkipCleared
  <2>1. Tail(Top.batch) \in Seq(Timer)
    BY <1>1, <1>8, TailFacts DEF SkipCleared, Frame, PlaceInv
  <2>2. [Top EXCEPT !.batch = Tail(@)] \in Frame
    BY <1>1, <2>1 DEF Frame
  <2> QED
    BY <1>1, <1>3, <1>8, <2>2 DEF SkipCleared, Frame
<1>9. CASE DrainEnds
  <2>1. [Top EXCEPT !.at = "last"] \in Frame
    BY <1>1 DEF Frame, Phases
  <2> QED
    BY <1>1, <1>3, <1>9, <2>1 DEF DrainEnds, Frame
<1>10. CASE Javascript
  BY <1>1, <1>5, <1>6, <1>10 DEF Javascript, Set, Clear, Run, Throws, JsRuns
<1>11. CASE PhaseEnds \/ Requeue
  BY <1>1, <1>11 DEF PhaseEnds, ScriptEnds, JobsEnd, CallbackEnds, RunEnds, Requeue, At
<1>12. CASE UNCHANGED vars
  BY <1>5, <1>12 DEF vars
<1> QED
  BY <1>4, <1>7, <1>8, <1>9, <1>10, <1>11, <1>12 DEF Next, Drain

\* A timer that was cleared does not fire, unless a run inside the batch
\* emptied cleared_timers (vm.rs:46804, 46814, 46825).
THEOREM ClearedStaysQuiet == Spec => ClearedIsQuiet
<1>1. IInv /\ [Next]_vars => [\A t \in cancelled \ forgotten : ~Fires(t)]_vars
  <2> SUFFICES ASSUME IInv, [Next]_vars, NEW t \in cancelled \ forgotten, Fires(t)
               PROVE  FALSE
    OBVIOUS
  <2>1. /\ t = Head(Top.batch) /\ Top.batch # <<>> /\ t \notin cleared
        /\ Len(frames) \in DOMAIN frames /\ Top = frames[Len(frames)] /\ Top \in Frame
    BY FiresFacts
  <2>2. t \in Elements(Top.batch)
    BY <2>1 DEF Elements, Frame
  <2>3. Held(t)
    BY <2>1, <2>2 DEF Held, HeldBy
  <2> QED
    BY <2>1, <2>3 DEF IInv, ClearedInv
<1> QED
  BY <1>1, Inductive, PTL DEF Spec, ClearedIsQuiet

\* Timeouts fire by delay, and those with the same delay as they were set
\* (vm.rs:46800-46801).
THEOREM FireInOrder == Spec => NoOvertaking
<1> DEFINE Ordered(t) == Fires(t) /\ ~interval[t] =>
                            /\ \A u \in Timeouts(Top.batch) : ~Precedes(u, t)
                            /\ \A u \in Timeouts(pending) : u < t => ~Precedes(u, t)
<1>1. IInv /\ [Next]_vars => [\A t \in Timer : Ordered(t)]_vars
  <2> SUFFICES ASSUME IInv, [Next]_vars, NEW t \in Timer, Fires(t), ~interval[t]
               PROVE  /\ \A u \in Timeouts(Top.batch) : ~Precedes(u, t)
                      /\ \A u \in Timeouts(pending) : u < t => ~Precedes(u, t)
    OBVIOUS
  <2>1. /\ t = Head(Top.batch) /\ Top.batch # <<>>
        /\ Len(frames) \in DOMAIN frames /\ Top = frames[Len(frames)] /\ Top \in Frame
    BY FiresFacts
  <2>2. Top.batch \in Seq(Timer) /\ ByDelay(Top.batch)
    BY <2>1 DEF IInv, OrderInv, Frame
  <2>3. 1 \in DOMAIN Top.batch /\ t = Top.batch[1] /\ \A i \in DOMAIN Top.batch : i = 1 \/ 1 < i
    BY <2>1, <2>2
  <2>4. ASSUME NEW u \in Timeouts(Top.batch)
        PROVE  ~Precedes(u, t)
    <3>1. PICK i \in DOMAIN Top.batch : u = Top.batch[i] /\ ~interval[Top.batch[i]]
      BY DEF Timeouts, Elements
    <3>2. CASE i = 1
      <4>1. delay[t] \in Nat /\ t \in Nat
        BY DelayFacts DEF IInv, Timer
      <4> QED
        BY <2>3, <3>1, <3>2, <4>1 DEF Precedes
    <3>3. CASE 1 < i
      BY <2>2, <2>3, <3>1, <3>3 DEF ByDelay
    <3> QED
      BY <2>3, <3>2, <3>3
  <2>5. ASSUME NEW u \in Timeouts(pending), u < t
        PROVE  FALSE
    <3>1. t \in Timeouts(Top.batch)
      BY <2>3 DEF Timeouts, Elements
    <3>2. t < u
      BY <2>1, <3>1 DEF IInv, OrderInv
    <3>3. u \in Timer
      BY DEF Timeouts, Elements, IInv, TypeOK
    <3> QED
      BY <2>5, <3>2, <3>3 DEF Timer
  <2> QED
    BY <2>4, <2>5
<1> QED
  BY <1>1, Inductive, PTL DEF Spec, NoOvertaking
=============================================================================
