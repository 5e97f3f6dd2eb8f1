---------------------- MODULE PromiseCombinatorsProofs ----------------------
(***************************************************************************)
(* The combinators for any number of elements and answers: their slots and *)
(* counters compute the outcome that the log of what happened has.         *)
(***************************************************************************)
EXTENDS PromiseCombinators, FiniteSetTheorems, SequenceTheorems, TLAPS

----------------------------------------------------------------------------
(* Logs that grow by an event.                                              *)

LEMMA MinIs ==
    ASSUME NEW S \in SUBSET Nat, NEW k \in S, \A j \in S : k <= j
    PROVE  Min(S) = k
<1>1. \A x \in S : (\A y \in S : x <= y) => x = k
  OBVIOUS
<1>2. \E x \in S : \A y \in S : x <= y
  OBVIOUS
<1>3. /\ Min(S) \in S
      /\ \A y \in S : Min(S) <= y
  BY <1>2 DEF Min
<1> QED
  BY <1>1, <1>3

LEMMA AppendFacts ==
    ASSUME NEW S, NEW l \in Seq(S), NEW e \in S
    PROVE  LET m == Append(l, e) IN
           /\ m \in Seq(S) /\ Len(m) = Len(l) + 1 /\ Len(l) \in Nat
           /\ DOMAIN l = 1 .. Len(l) /\ DOMAIN m = 1 .. (Len(l) + 1)
           /\ \A k \in DOMAIN l : m[k] = l[k]
           /\ m[Len(l) + 1] = e
  OBVIOUS

LEMMA Prefixes ==
    ASSUME NEW S, NEW l \in Seq(S), NEW e \in S
    PROVE  /\ SubSeq(Append(l, e), 1, Len(l) + 1) = Append(l, e)
           /\ \A k \in DOMAIN l : SubSeq(Append(l, e), 1, k) = SubSeq(l, 1, k)
           /\ l # <<>> => Len(l) \in DOMAIN l /\ SubSeq(l, 1, Len(l)) = l
<1> DEFINE m == Append(l, e)
<1>1. m \in Seq(S) /\ Len(m) = Len(l) + 1
  BY AppendFacts
<1>2. SubSeq(m, 1, Len(l) + 1) = m
  BY <1>1, SubSeqFull
<1>3. ASSUME NEW k \in DOMAIN l
      PROVE  SubSeq(m, 1, k) = SubSeq(l, 1, k)
  <2>1. k \in 1 .. Len(l) /\ Len(l) \in Nat
    OBVIOUS
  <2>2. \A i \in 1 .. k : m[i] = l[i]
    BY <2>1, AppendFacts
  <2>3. SubSeq(m, 1, k) = [i \in 1 .. k |-> m[i]]
    BY <2>1, <1>1, <2>2
  <2>4. SubSeq(l, 1, k) = [i \in 1 .. k |-> l[i]]
    BY <2>1
  <2> HIDE DEF m
  <2> QED
    BY <2>2, <2>3, <2>4
<1>4. l # <<>> => Len(l) \in DOMAIN l /\ SubSeq(l, 1, Len(l)) = l
  BY SubSeqFull
<1> QED
  BY <1>2, <1>3, <1>4

LEMMA EventsGrow ==
    ASSUME NEW S, NEW l \in Seq(S), NEW e \in S, NEW w
    PROVE  /\ Events(l, w) \subseteq DOMAIN l
           /\ Len(l) + 1 \notin Events(l, w)
           /\ Events(Append(l, e), w) =
                IF e[1] = w THEN Events(l, w) \cup {Len(l) + 1} ELSE Events(l, w)
<1> DEFINE m == Append(l, e)
<1>1. /\ Len(l) \in Nat /\ DOMAIN l = 1 .. Len(l) /\ DOMAIN m = 1 .. (Len(l) + 1)
      /\ \A k \in DOMAIN l : m[k] = l[k]
      /\ m[Len(l) + 1] = e
  BY AppendFacts
<1> HIDE DEF m
<1> QED
  BY <1>1 DEF Events, m

----------------------------------------------------------------------------
(* The definitions of PromiseCombinators for a kind of combinator kd and a  *)
(* log l, free of the state.                                                *)

FillsIn(kd, status) ==
    \/ kd \in Settling
    \/ kd \in {"all", "allKeyed"} /\ status = "fulfilled"
    \/ kd = "any" /\ status = "rejected"
AnswersIn(kd, l, i) == {k \in Events(l, "answer") : l[k][2] = i /\ FillsIn(kd, l[k][3][1])}
GatheredIn(kd, l) ==
    [i \in 1 .. Cardinality(Events(l, "element")) |-> l[Min(AnswersIn(kd, l, i))][3]]
AloneIn(kd, ev) ==
    \/ ev[1] = "answer" /\ ~FillsIn(kd, ev[3][1])
    \/ ev[1] = "failed"
CompleteIn(kd, l) ==
    /\ kd # "race" /\ Events(l, "done") # {}
    /\ \A i \in 1 .. Cardinality(Events(l, "element")) : AnswersIn(kd, l, i) # {}
DecidingIn(kd, l) == {k \in DOMAIN l : AloneIn(kd, l[k]) \/ CompleteIn(kd, SubSeq(l, 1, k))}
ThrownIn(l, k) ==
    LET left == Events(l, "left") IN IF left = {} THEN l[k][2] ELSE l[Min(left)][2]
AllIn(kd, s) == <<IF kd = "any" THEN "rejected" ELSE "fulfilled", "all", s>>

\* The outcome when the k-th event decides.
DecidedBy(kd, l, k) ==
    CASE l[k][1] = "failed" -> One(<<"rejected", ThrownIn(l, k)>>)
      [] AloneIn(kd, l[k]) /\ l[k][1] = "answer" -> One(l[k][3])
      [] OTHER -> AllIn(kd, GatheredIn(kd, SubSeq(l, 1, k)))
OutcomeIn(kd, l) ==
    IF DecidingIn(kd, l) = {} THEN Pending ELSE DecidedBy(kd, l, Min(DecidingIn(kd, l)))

LEMMA StateFree ==
    /\ \A s : Fills(s) <=> FillsIn(kind, s)
    /\ \A i : AnswersOf(log, i) = AnswersIn(kind, log, i)
    /\ Gathered(log) = GatheredIn(kind, log)
    /\ Complete(log) <=> CompleteIn(kind, log)
    /\ \A s : All(s) = AllIn(kind, s)
    /\ Deciding = DecidingIn(kind, log)
    /\ OutcomeOfLog = OutcomeIn(kind, log)
<1>1. \A s : Fills(s) <=> FillsIn(kind, s)
  BY DEF Fills, FillsIn
<1>2. \A l, i : AnswersOf(l, i) = AnswersIn(kind, l, i)
  BY <1>1 DEF AnswersOf, AnswersIn
<1>3. \A l : Gathered(l) = GatheredIn(kind, l)
  BY <1>2 DEF Gathered, GatheredIn
<1>4. \A l : Complete(l) <=> CompleteIn(kind, l)
  BY <1>2 DEF Complete, CompleteIn
<1>5. \A l, k : DecidesAlone(l, k) <=> AloneIn(kind, l[k])
  BY <1>1 DEF DecidesAlone, AloneIn
<1>6. \A s : All(s) = AllIn(kind, s)
  BY DEF All, AllIn
<1>7. Deciding = DecidingIn(kind, log)
  BY <1>4, <1>5 DEF Deciding, DecidingIn
<1>8. OutcomeOfLog = OutcomeIn(kind, log)
  BY <1>3, <1>5, <1>6, <1>7 DEF OutcomeOfLog, OutcomeIn, DecidedBy, Thrown, ThrownIn
<1> QED
  BY <1>1, <1>2, <1>3, <1>4, <1>6, <1>7, <1>8

LEMMA AnswersGrow ==
    ASSUME NEW kd, NEW S, NEW l \in Seq(S), NEW ev \in S, NEW i
    PROVE  AnswersIn(kd, Append(l, ev), i) =
             IF ev[1] = "answer" /\ ev[2] = i /\ FillsIn(kd, ev[3][1])
             THEN AnswersIn(kd, l, i) \cup {Len(l) + 1} ELSE AnswersIn(kd, l, i)
<1> DEFINE m == Append(l, ev)
<1>1. (\A k \in DOMAIN l : m[k] = l[k]) /\ m[Len(l) + 1] = ev
  BY AppendFacts
<1>2. /\ Events(l, "answer") \subseteq DOMAIN l
      /\ Events(m, "answer") = IF ev[1] = "answer" THEN Events(l, "answer") \cup {Len(l) + 1}
                               ELSE Events(l, "answer")
  BY EventsGrow
<1> HIDE DEF m
<1> QED
  BY <1>1, <1>2 DEF AnswersIn, m

LEMMA DecidingGrows ==
    ASSUME NEW kd, NEW S, NEW l \in Seq(S), NEW ev \in S
    PROVE  /\ DecidingIn(kd, l) \subseteq 1 .. Len(l) /\ Len(l) \in Nat
           /\ DecidingIn(kd, Append(l, ev)) =
                IF AloneIn(kd, ev) \/ CompleteIn(kd, Append(l, ev))
                THEN DecidingIn(kd, l) \cup {Len(l) + 1} ELSE DecidingIn(kd, l)
<1> DEFINE m == Append(l, ev)
<1>1. /\ \A k \in DOMAIN l : m[k] = l[k]
      /\ m[Len(l) + 1] = ev
      /\ DOMAIN l = 1 .. Len(l) /\ DOMAIN m = 1 .. (Len(l) + 1) /\ Len(l) \in Nat
  BY AppendFacts
<1>2. /\ SubSeq(m, 1, Len(l) + 1) = m
      /\ \A k \in DOMAIN l : SubSeq(m, 1, k) = SubSeq(l, 1, k)
  BY Prefixes
<1> HIDE DEF m
<1>3. \A k : k \in DOMAIN m <=> k \in DOMAIN l \/ k = Len(l) + 1
  BY <1>1
<1>4. \A k \in DOMAIN l : k \in DecidingIn(kd, m) <=> k \in DecidingIn(kd, l)
  BY <1>1, <1>2, <1>3 DEF DecidingIn
<1>5. Len(l) + 1 \in DecidingIn(kd, m) <=> AloneIn(kd, ev) \/ CompleteIn(kd, m)
  BY <1>1, <1>2, <1>3 DEF DecidingIn
<1>6. DecidingIn(kd, m) \subseteq DOMAIN m /\ DecidingIn(kd, l) \subseteq DOMAIN l
  BY DEF DecidingIn
<1> DEFINE decides == AloneIn(kd, ev) \/ CompleteIn(kd, m)
           new == DecidingIn(kd, m)
           old == DecidingIn(kd, l)
<1>7. /\ new \subseteq DOMAIN m /\ old \subseteq DOMAIN l
      /\ \A k \in DOMAIN l : k \in new <=> k \in old
      /\ Len(l) + 1 \in new <=> decides
  BY <1>4, <1>5, <1>6
<1> HIDE DEF decides, new, old
<1>8. new = IF decides THEN old \cup {Len(l) + 1} ELSE old
  <2>1. \A k : k \in new <=> k \in old \/ (decides /\ k = Len(l) + 1)
    BY <1>1, <1>3, <1>7
  <2>2. CASE decides
    <3>1. new = old \cup {Len(l) + 1}
      BY <2>1, <2>2
    <3> QED
      BY <2>2, <3>1
  <2>3. CASE ~decides
    <3>1. new = old
      BY <2>1, <2>3
    <3> QED
      BY <2>3, <3>1
  <2> QED
    BY <2>2, <2>3
<1> QED
  BY <1>1, <1>7, <1>8 DEF m, decides, new, old

LEMMA NotPending ==
    /\ \A a : One(a) # Pending
    /\ \A kd, s : AllIn(kd, s) # Pending
<1>1. \A a, b, c : <<a, b, c>> # <<"pending">>
  OBVIOUS
<1> QED
  BY <1>1 DEF One, AllIn, Pending

\* A log that is not decided is not complete.
LEMMA Undecided ==
    ASSUME NEW kd, NEW S, NEW l \in Seq(S), DecidingIn(kd, l) = {}
    PROVE  ~CompleteIn(kd, l)
<1>1. CASE l = <<>>
  BY <1>1 DEF CompleteIn, Events
<1>2. CASE l # <<>>
  <2>1. Len(l) \in DOMAIN l /\ SubSeq(l, 1, Len(l)) = l
    BY <1>2, SubSeqFull
  <2> QED
    BY <2>1 DEF DecidingIn
<1> QED
  BY <1>1, <1>2

\* The first event that decides goes on deciding, and the same.
LEMMA StaysDecided ==
    ASSUME NEW kd, NEW S, NEW l \in Seq(S), NEW ev \in S,
           NEW k \in DecidingIn(kd, l), \A j \in DecidingIn(kd, l) : k <= j,
           ev[1] = "left" => Events(l, "failed") = {},
           \A x, y \in Events(l, "left") : x = y
    PROVE  /\ k \in DecidingIn(kd, Append(l, ev))
           /\ \A j \in DecidingIn(kd, Append(l, ev)) : k <= j
           /\ OutcomeIn(kd, Append(l, ev)) = OutcomeIn(kd, l)
           /\ OutcomeIn(kd, l) # Pending
<1> DEFINE m == Append(l, ev)
<1>1. /\ DOMAIN l = 1 .. Len(l) /\ Len(l) \in Nat
      /\ \A i \in DOMAIN l : m[i] = l[i]
  BY AppendFacts
<1>2. SubSeq(m, 1, k) = SubSeq(l, 1, k) /\ k \in DOMAIN l
  BY <1>1, Prefixes, DecidingGrows
<1>3. /\ DecidingIn(kd, l) \subseteq 1 .. Len(l)
      /\ DecidingIn(kd, m) = DecidingIn(kd, l)
           \/ DecidingIn(kd, m) = DecidingIn(kd, l) \cup {Len(l) + 1}
  BY DecidingGrows
<1>4. ev[1] # "left" => Events(m, "left") = Events(l, "left")
  BY EventsGrow
<1>5. Events(l, "left") \subseteq DOMAIN l
  BY DEF Events
<1> HIDE DEF m
<1>6. k \in DecidingIn(kd, m) /\ \A j \in DecidingIn(kd, m) : k <= j
  BY <1>1, <1>2, <1>3
<1>7. Min(DecidingIn(kd, m)) = k /\ Min(DecidingIn(kd, l)) = k
  <2>1. DecidingIn(kd, m) \in SUBSET Nat /\ DecidingIn(kd, l) \in SUBSET Nat
    BY <1>1, <1>3
  <2> QED
    BY <1>6, <2>1, MinIs
<1>8. l[k][1] = "failed" => ThrownIn(m, k) = ThrownIn(l, k)
  <2> SUFFICES ASSUME l[k][1] = "failed"
               PROVE  ThrownIn(m, k) = ThrownIn(l, k)
    OBVIOUS
  <2>1. Events(m, "left") = Events(l, "left")
    BY <1>2, <1>4 DEF Events
  <2>2. CASE Events(l, "left") = {}
    BY <1>1, <1>2, <2>1, <2>2 DEF ThrownIn
  <2>3. CASE Events(l, "left") # {}
    <3>1. Min(Events(l, "left")) \in DOMAIN l
      <4>1. PICK x \in Events(l, "left") : \A y \in Events(l, "left") : x = y
        BY <2>3
      <4>2. Events(l, "left") \in SUBSET Nat /\ \A y \in Events(l, "left") : x <= y
        BY <1>1, <1>5, <4>1
      <4>3. Min(Events(l, "left")) = x
        BY <4>1, <4>2, MinIs
      <4> QED
        BY <1>5, <4>3
    <3> QED
      BY <1>1, <2>1, <2>3, <3>1 DEF ThrownIn
  <2> QED
    BY <2>2, <2>3
<1>9. DecidedBy(kd, m, k) = DecidedBy(kd, l, k)
  BY <1>1, <1>2, <1>8 DEF DecidedBy
<1>10. DecidedBy(kd, l, k) # Pending
  BY NotPending DEF DecidedBy
<1>11. OutcomeIn(kd, m) = DecidedBy(kd, m, k) /\ OutcomeIn(kd, l) = DecidedBy(kd, l, k)
  BY <1>6, <1>7 DEF OutcomeIn
<1> QED
  BY <1>6, <1>9, <1>10, <1>11 DEF m

LEMMA StaysOpen ==
    ASSUME NEW kd, NEW S, NEW l \in Seq(S), NEW ev \in S,
           DecidingIn(kd, l) = {}, ~AloneIn(kd, ev), ~CompleteIn(kd, Append(l, ev))
    PROVE  DecidingIn(kd, Append(l, ev)) = {} /\ OutcomeIn(kd, Append(l, ev)) = Pending
BY DecidingGrows DEF OutcomeIn

LEMMA Decides ==
    ASSUME NEW kd, NEW S, NEW l \in Seq(S), NEW ev \in S,
           DecidingIn(kd, l) = {}, AloneIn(kd, ev) \/ CompleteIn(kd, Append(l, ev))
    PROVE  LET m == Append(l, ev)
               k == Len(l) + 1
           IN /\ k \in DecidingIn(kd, m) /\ \A j \in DecidingIn(kd, m) : k <= j
              /\ ev[1] = "failed" => OutcomeIn(kd, m) = One(<<"rejected", ThrownIn(m, k)>>)
              /\ ev[1] = "answer" /\ AloneIn(kd, ev) => OutcomeIn(kd, m) = One(ev[3])
              /\ ~AloneIn(kd, ev) => OutcomeIn(kd, m) = AllIn(kd, GatheredIn(kd, m))
<1> DEFINE m == Append(l, ev)
           k == Len(l) + 1
<1>1. m[k] = ev /\ k \in Nat /\ SubSeq(m, 1, k) = m
  BY AppendFacts, Prefixes
<1>2. DecidingIn(kd, m) = {k}
  BY DecidingGrows
<1> HIDE DEF m, k
<1>3. Min(DecidingIn(kd, m)) = k
  BY <1>1, <1>2, MinIs
<1>4. OutcomeIn(kd, m) = DecidedBy(kd, m, k)
  BY <1>2, <1>3 DEF OutcomeIn
<1>5. ev[1] = "failed" => AloneIn(kd, ev)
  BY DEF AloneIn
<1>6. /\ ev[1] = "failed" => OutcomeIn(kd, m) = One(<<"rejected", ThrownIn(m, k)>>)
      /\ ev[1] = "answer" /\ AloneIn(kd, ev) => OutcomeIn(kd, m) = One(ev[3])
      /\ ~AloneIn(kd, ev) => OutcomeIn(kd, m) = AllIn(kd, GatheredIn(kd, m))
  BY <1>1, <1>4, <1>5 DEF DecidedBy
<1>7. k \in DecidingIn(kd, m) /\ \A j \in DecidingIn(kd, m) : k <= j
  BY <1>1, <1>2
<1> QED
  BY <1>6, <1>7 DEF m, k

----------------------------------------------------------------------------
(* The invariant: what the state has to do with the log.                    *)

Event == {<<"element">>, <<"done">>} \cup ({"failed", "left"} \X Errors)
           \cup ({"answer"} \X Nat \X Answer)

\* What has been logged at which stage of the walk.
LogInv ==
    /\ log \in Seq(Event)
    /\ stage # "over" => Events(log, "done") = {} /\ Events(log, "failed") = {}
    /\ stage \notin {"closing", "over"} => Events(log, "left") = {}
    /\ stage = "closing" => \E k \in Events(log, "left") : log[k][2] = error[1]
    /\ \A x, y \in Events(log, "left") : x = y
    /\ \A k \in Events(log, "answer") : log[k][2] \in 1 .. given

\* An element has a slot from when it comes, and functions a little later.
WalkInv ==
    /\ stage = "resolving" => given < MaxElements
    /\ kind = "race" => slots = <<>> /\ remaining = 1
    /\ kind # "race" =>
          /\ Len(slots) \in {given, given + 1}
          /\ stage \in {"begin", "next", "then"} => Len(slots) = given
          /\ stage = "resolving" => Len(slots) = given + 1
          /\ IsFiniteSet(Events(log, "element"))
          /\ Cardinality(Events(log, "element")) = Len(slots)

\* A slot holds the first answer of its element.
FirstIn(l, A, v) == \E k \in A : (\A j \in A : k <= j) /\ v = l[k][3]
SlotInv ==
    \A i \in 1 .. Len(slots) :
        /\ called[i] <=> AnswersIn(kind, log, i) # {}
        /\ called[i] => FirstIn(log, AnswersIn(kind, log, i), slots[i])

\* What remains is the open slots, and the walk.
Open == {i \in 1 .. Len(slots) : ~called[i]}
CountInv ==
    kind # "race" =>
        remaining = Cardinality(Open) + (IF Events(log, "done") = {} THEN 1 ELSE 0)

OutcomeInv ==
    /\ outcome = OutcomeIn(kind, log)
    /\ DecidingIn(kind, log) # {} =>
         \E k \in DecidingIn(kind, log) : \A j \in DecidingIn(kind, log) : k <= j

StateInv == TypeOK /\ LogInv /\ WalkInv /\ SlotInv /\ CountInv
IInv == StateInv /\ OutcomeInv

LEMMA CompleteWhenNoneRemains ==
    StateInv => /\ CompleteIn(kind, log) <=> kind # "race" /\ remaining = 0
                /\ CompleteIn(kind, log) => slots = GatheredIn(kind, log)
<1> SUFFICES ASSUME StateInv
             PROVE  /\ CompleteIn(kind, log) <=> kind # "race" /\ remaining = 0
                    /\ CompleteIn(kind, log) => slots = GatheredIn(kind, log)
  OBVIOUS
<1> USE DEF StateInv
<1>1. CASE kind = "race"
  BY <1>1 DEF CompleteIn
<1>2. CASE kind # "race"
  <2>1. /\ Cardinality(Events(log, "element")) = Len(slots)
        /\ Len(slots) \in Nat /\ DOMAIN slots = 1 .. Len(slots)
    BY <1>2 DEF WalkInv, TypeOK
  <2>2. IsFiniteSet(Open) /\ Cardinality(Open) \in Nat
        /\ (Cardinality(Open) = 0 <=> Open = {})
    <3>1. IsFiniteSet(1 .. Len(slots))
      BY <2>1, FS_Interval
    <3>2. Open \subseteq 1 .. Len(slots)
      BY DEF Open
    <3>3. IsFiniteSet(Open)
      BY <3>1, <3>2, FS_Subset
    <3> QED
      BY <3>3, FS_CardinalityType, FS_EmptySet
  <2>3. remaining = 0 <=> Open = {} /\ Events(log, "done") # {}
    BY <1>2, <2>2 DEF CountInv
  <2>4. Open = {} <=> \A i \in 1 .. Len(slots) : AnswersIn(kind, log, i) # {}
    BY DEF Open, SlotInv
  <2>5. CompleteIn(kind, log) <=> remaining = 0
    BY <1>2, <2>1, <2>3, <2>4 DEF CompleteIn
  <2>6. ASSUME CompleteIn(kind, log), NEW i \in 1 .. Len(slots)
        PROVE  slots[i] = log[Min(AnswersIn(kind, log, i))][3]
    <3>1. AnswersIn(kind, log, i) # {}
      BY <2>1, <2>6 DEF CompleteIn
    <3>2. PICK k \in AnswersIn(kind, log, i) :
              (\A j \in AnswersIn(kind, log, i) : k <= j) /\ slots[i] = log[k][3]
      BY <3>1 DEF SlotInv, FirstIn
    <3>3. AnswersIn(kind, log, i) \in SUBSET Nat
      BY DEF AnswersIn, Events, LogInv
    <3>4. Min(AnswersIn(kind, log, i)) = k
      BY <3>2, <3>3, MinIs
    <3> QED
      BY <3>2, <3>4
  <2>7. CompleteIn(kind, log) => slots = GatheredIn(kind, log)
    <3> SUFFICES ASSUME CompleteIn(kind, log)
                 PROVE  slots = GatheredIn(kind, log)
      OBVIOUS
    <3>1. slots = [i \in 1 .. Len(slots) |-> slots[i]]
      BY <2>1 DEF TypeOK
    <3> QED
      BY <2>1, <2>6, <3>1 DEF GatheredIn
  <2> QED
    BY <1>2, <2>5, <2>7
<1> QED
  BY <1>1, <1>2

----------------------------------------------------------------------------
(* Every step keeps what StateInv says of log and walk.                     *)

LEMMA EventKinds ==
    /\ <<"element">> \in Event /\ <<"done">> \in Event
    /\ \A e \in Errors : <<"failed", e>> \in Event /\ <<"left", e>> \in Event
    /\ \A i \in Nat, a \in Answer : <<"answer", i, a>> \in Event
BY DEF Event

LEMMA Logged ==
    ASSUME log \in Seq(Event), NEW ev \in Event, log' = Append(log, ev)
    PROVE  /\ log' \in Seq(Event)
           /\ Len(log) \in Nat
           /\ \A k \in 1 .. Len(log) : log'[k] = log[k]
           /\ log'[Len(log) + 1] = ev
           /\ \A w : /\ Events(log, w) \subseteq 1 .. Len(log)
                     /\ Events(log', w) = IF ev[1] = w THEN Events(log, w) \cup {Len(log) + 1}
                                          ELSE Events(log, w)
<1>1. DOMAIN log = 1 .. Len(log)
  OBVIOUS
<1>2. /\ log' \in Seq(Event) /\ Len(log) \in Nat
      /\ \A k \in DOMAIN log : log'[k] = log[k]
      /\ log'[Len(log) + 1] = ev
  BY AppendFacts
<1>3. \A w : /\ Events(log, w) \subseteq DOMAIN log
             /\ Events(log', w) = IF ev[1] = w THEN Events(log, w) \cup {Len(log) + 1}
                                  ELSE Events(log, w)
  BY EventsGrow
<1> QED
  BY <1>1, <1>2, <1>3

LEMMA LogNext == StateInv /\ [Next]_vars => LogInv'
<1> SUFFICES ASSUME StateInv, [Next]_vars
             PROVE  LogInv'
  OBVIOUS
<1> USE DEF StateInv
<1>0. /\ log \in Seq(Event) /\ given \in Nat
      /\ \A w : Events(log, w) \subseteq 1 .. Len(log)
  <2>1. \A w : Events(log, w) \subseteq DOMAIN log
    BY DEF Events
  <2> QED
    BY <2>1 DEF LogInv, TypeOK
<1>1. CASE Begin
  BY <1>1 DEF Begin, StaysSo, LogInv
<1>2. CASE NextElement
  <2>1. log' = Append(log, <<"element">>)
    BY <1>2 DEF NextElement, Happens
  <2>2. \A w \in {"done", "failed", "left", "answer"} : Events(log', w) = Events(log, w)
    BY <1>0, <2>1, EventKinds, Logged
  <2>3. log' \in Seq(Event) /\ \A k \in 1 .. Len(log) : log'[k] = log[k]
    BY <1>0, <2>1, EventKinds, Logged
  <2> QED
    BY <1>0, <1>2, <2>2, <2>3 DEF NextElement, LogInv
<1>3. CASE GivenFunctions
  BY <1>0, <1>3 DEF GivenFunctions, LogInv
<1>4. CASE ThenReturns
  BY <1>4 DEF ThenReturns, StaysSo, LogInv
<1>5. CASE WalkEnds
  <2>1. log' = Append(log, <<"done">>)
    BY <1>5 DEF WalkEnds, Happens
  <2>2. \A w \in {"failed", "left", "answer"} : Events(log', w) = Events(log, w)
    BY <1>0, <2>1, EventKinds, Logged
  <2>3. log' \in Seq(Event) /\ \A k \in 1 .. Len(log) : log'[k] = log[k]
    BY <1>0, <2>1, EventKinds, Logged
  <2> QED
    BY <1>0, <1>5, <2>2, <2>3 DEF WalkEnds, LogInv
<1>6. ASSUME NEW e \in Errors, log' = Append(log, <<"failed", e>>),
             stage' = "over", given' = given
      PROVE  LogInv'
  <2>0. <<"failed", e>> \in Event
    BY EventKinds
  <2>1. \A w \in {"left", "answer"} : Events(log', w) = Events(log, w)
    BY <1>0, <1>6, <2>0, Logged
  <2>2. log' \in Seq(Event) /\ \A k \in 1 .. Len(log) : log'[k] = log[k]
    BY <1>0, <1>6, <2>0, Logged
  <2> QED
    BY <1>0, <1>6, <2>1, <2>2 DEF LogInv
<1>7. CASE \E e \in Errors : IteratorThrows(e) \/ Closed(e)
  BY <1>6, <1>7 DEF IteratorThrows, Closed, Happens, Rejects
<1>8. ASSUME NEW e \in Errors, ElementThrows(e)
      PROVE  LogInv'
  <2>1. CASE kind \in Keyed
    BY <1>6, <1>8, <2>1 DEF ElementThrows, Happens, Rejects
  <2>2. CASE kind \notin Keyed
    <3>1. /\ log' = Append(log, <<"left", e>>) /\ stage' = "closing" /\ error' = <<e>>
          /\ stage \in {"resolving", "then"} /\ given' = given
      BY <1>8, <2>2 DEF ElementThrows, Happens, StaysSo
    <3>0. <<"left", e>> \in Event
      BY EventKinds
    <3>2. /\ \A w \in {"done", "failed", "answer"} : Events(log', w) = Events(log, w)
          /\ Events(log', "left") = Events(log, "left") \cup {Len(log) + 1}
      BY <1>0, <3>0, <3>1, Logged
    <3>3. /\ log' \in Seq(Event) /\ \A k \in 1 .. Len(log) : log'[k] = log[k]
          /\ log'[Len(log) + 1] = <<"left", e>>
      BY <1>0, <3>0, <3>1, Logged
    <3> QED
      BY <1>0, <3>1, <3>2, <3>3 DEF LogInv
  <2> QED
    BY <2>1, <2>2
<1>9. ASSUME NEW i \in 1 .. MaxElements, NEW a \in Answer, Answers(i, a)
      PROVE  LogInv'
  <2>1. log' = Append(log, <<"answer", i, a>>) /\ i \in 1 .. given
        /\ UNCHANGED <<stage, error, given>>
    BY <1>0, <1>9 DEF Answers, Happens
  <2>2. <<"answer", i, a>> \in Event
    BY <1>0, <2>1, EventKinds
  <2>3. /\ \A w \in {"done", "failed", "left"} : Events(log', w) = Events(log, w)
        /\ Events(log', "answer") = Events(log, "answer") \cup {Len(log) + 1}
    BY <1>0, <2>1, <2>2, Logged
  <2>4. /\ log' \in Seq(Event) /\ \A k \in 1 .. Len(log) : log'[k] = log[k]
        /\ log'[Len(log) + 1] = <<"answer", i, a>>
    BY <1>0, <2>1, <2>2, Logged
  <2>5. \A k \in Events(log', "answer") : log'[k][2] \in 1 .. given'
    BY <1>0, <2>1, <2>3, <2>4 DEF LogInv
  <2>6. \A k \in Events(log', "left") : log'[k] = log[k]
    BY <1>0, <2>3, <2>4
  <2> QED
    BY <2>1, <2>3, <2>4, <2>5, <2>6 DEF LogInv
<1>10. CASE UNCHANGED vars
  BY <1>10 DEF vars, LogInv
<1> QED
  BY <1>1, <1>2, <1>3, <1>4, <1>5, <1>7, <1>8, <1>9, <1>10 DEF Next

LEMMA FirstStays ==
    ASSUME log \in Seq(Event), NEW ev \in Event, log' = Append(log, ev),
           NEW A \in SUBSET (1 .. Len(log)), NEW v, FirstIn(log, A, v)
    PROVE  FirstIn(log', A, v) /\ FirstIn(log', A \cup {Len(log) + 1}, v)
<1>1. Len(log) \in Nat /\ \A k \in 1 .. Len(log) : log'[k] = log[k]
  BY Logged
<1>2. PICK k \in A : (\A j \in A : k <= j) /\ v = log[k][3]
  BY DEF FirstIn
<1>3. \A j \in A \cup {Len(log) + 1} : k <= j
  BY <1>1, <1>2
<1>4. v = log'[k][3]
  BY <1>1, <1>2
<1> QED
  BY <1>2, <1>3, <1>4 DEF FirstIn

LEMMA AnswersLogged ==
    ASSUME log \in Seq(Event), NEW ev \in Event, log' = Append(log, ev), kind' = kind
    PROVE  \A i : /\ AnswersIn(kind, log, i) \subseteq 1 .. Len(log)
                  /\ AnswersIn(kind', log', i) =
                       IF ev[1] = "answer" /\ ev[2] = i /\ FillsIn(kind, ev[3][1])
                       THEN AnswersIn(kind, log, i) \cup {Len(log) + 1}
                       ELSE AnswersIn(kind, log, i)
<1>1. \A i : AnswersIn(kind, log, i) \subseteq 1 .. Len(log)
  BY Logged DEF AnswersIn
<1> QED
  BY <1>1, AnswersGrow

\* An event that fills no slot: no answer, or one that does not count.
LEMMA SlotsKept ==
    ASSUME StateInv, NEW ev \in Event, log' = Append(log, ev),
           UNCHANGED <<kind, slots, called>>,
           ev[1] = "answer" /\ FillsIn(kind, ev[3][1]) => called[ev[2]]
    PROVE  SlotInv'
<1> USE DEF StateInv
<1>1. log \in Seq(Event)
  BY DEF LogInv
<1> SUFFICES ASSUME NEW i \in 1 .. Len(slots)
             PROVE  /\ called[i] <=> AnswersIn(kind', log', i) # {}
                    /\ called[i] => FirstIn(log', AnswersIn(kind', log', i), slots[i])
  BY DEF SlotInv
<1>2. /\ called[i] <=> AnswersIn(kind, log, i) # {}
      /\ called[i] => FirstIn(log, AnswersIn(kind, log, i), slots[i])
  BY DEF SlotInv
<1>3. AnswersIn(kind, log, i) \in SUBSET (1 .. Len(log))
  BY <1>1, AnswersLogged
<1>4. CASE AnswersIn(kind', log', i) = AnswersIn(kind, log, i)
  BY <1>1, <1>2, <1>3, <1>4, FirstStays
<1>5. CASE /\ ev[1] = "answer" /\ ev[2] = i /\ FillsIn(kind, ev[3][1])
           /\ AnswersIn(kind', log', i) = AnswersIn(kind, log, i) \cup {Len(log) + 1}
  BY <1>1, <1>2, <1>3, <1>5, FirstStays
<1> QED
  BY <1>1, <1>4, <1>5, AnswersLogged

LEMMA SlotNext == StateInv /\ [Next]_vars => SlotInv'
<1> SUFFICES ASSUME StateInv, [Next]_vars
             PROVE  SlotInv'
  OBVIOUS
<1> USE DEF StateInv
<1>0. /\ log \in Seq(Event) /\ given \in Nat
      /\ slots \in Seq(Answer \cup {Empty}) /\ called \in Seq(BOOLEAN)
      /\ Len(called) = Len(slots) /\ Len(slots) \in Nat
  BY DEF LogInv, TypeOK
<1>1. CASE UNCHANGED <<kind, slots, called, log>>
  BY <1>1 DEF SlotInv
<1>2. CASE Begin \/ GivenFunctions \/ ThenReturns \/ UNCHANGED vars
  BY <1>1, <1>2 DEF Begin, GivenFunctions, ThenReturns, StaysSo, vars
<1>3. CASE NextElement
  <2>1. CASE kind = "race"
    <3>1. slots = <<>>
      BY <2>1 DEF WalkInv
    <3> QED
      BY <1>3, <2>1, <3>1 DEF NextElement, SlotInv
  <2>2. CASE kind # "race"
    <3>1. /\ log' = Append(log, <<"element">>) /\ kind' = kind
          /\ slots' = Append(slots, Empty) /\ called' = Append(called, FALSE)
          /\ Len(slots) = given
      BY <1>3, <2>2 DEF NextElement, Happens, WalkInv
    <3>2. Len(slots') = Len(slots) + 1 /\ called'[Len(slots) + 1] = FALSE
          /\ \A i \in 1 .. Len(slots) : slots'[i] = slots[i] /\ called'[i] = called[i]
      <4>1. Empty \in Answer \cup {Empty} /\ FALSE \in BOOLEAN
        OBVIOUS
      <4>2. DOMAIN slots = 1 .. Len(slots) /\ DOMAIN called = 1 .. Len(slots)
        BY <1>0
      <4>3. Len(slots') = Len(slots) + 1 /\ \A i \in 1 .. Len(slots) : slots'[i] = slots[i]
        BY <1>0, <3>1, <4>1, <4>2, AppendFacts
      <4>4. /\ called'[Len(slots) + 1] = FALSE
            /\ \A i \in 1 .. Len(slots) : called'[i] = called[i]
        <5> DEFINE b == FALSE
        <5>1. called' = Append(called, b) /\ b \in BOOLEAN /\ b = FALSE
          BY <3>1
        <5>2. called \in Seq(BOOLEAN) /\ Len(called) = Len(slots)
          BY <1>0
        <5> HIDE DEF b
        <5>3. /\ \A i \in DOMAIN called : called'[i] = called[i]
              /\ called'[Len(called) + 1] = b
          BY <5>1, <5>2, AppendFacts
        <5> QED
          BY <4>2, <5>1, <5>2, <5>3
      <4> QED
        BY <4>3, <4>4
    <3>3. \A i : /\ AnswersIn(kind', log', i) = AnswersIn(kind, log, i)
                 /\ AnswersIn(kind, log, i) \in SUBSET (1 .. Len(log))
      BY <1>0, <3>1, EventKinds, AnswersLogged
    <3>4. AnswersIn(kind, log, Len(slots) + 1) = {}
      BY <1>0, <3>1 DEF AnswersIn, LogInv
    <3>5. ASSUME NEW i \in 1 .. Len(slots)
          PROVE  /\ called'[i] <=> AnswersIn(kind', log', i) # {}
                 /\ called'[i] => FirstIn(log', AnswersIn(kind', log', i), slots'[i])
      <4>1. /\ called[i] <=> AnswersIn(kind, log, i) # {}
            /\ called[i] => FirstIn(log, AnswersIn(kind, log, i), slots[i])
        BY DEF SlotInv
      <4> QED
        BY <1>0, <3>1, <3>2, <3>3, <4>1, EventKinds, FirstStays
    <3> QED
      BY <1>0, <3>2, <3>3, <3>4, <3>5 DEF SlotInv
  <2> QED
    BY <2>1, <2>2
<1>4. CASE WalkEnds
  <2>1. log' = Append(log, <<"done">>) /\ UNCHANGED <<kind, slots, called>>
    BY <1>4 DEF WalkEnds, Happens
  <2> QED
    BY <2>1, EventKinds, SlotsKept
<1>5. ASSUME NEW e \in Errors, IteratorThrows(e) \/ ElementThrows(e) \/ Closed(e)
      PROVE  SlotInv'
  <2>1. UNCHANGED <<kind, slots, called>>
    BY <1>5 DEF IteratorThrows, ElementThrows, Closed, Rejects, StaysSo
  <2>2. log' = Append(log, <<"failed", e>>) \/ log' = Append(log, <<"left", e>>)
    BY <1>5 DEF IteratorThrows, ElementThrows, Closed, Happens
  <2>3. <<"failed", e>> \in Event /\ <<"left", e>> \in Event
    BY EventKinds
  <2>4. CASE log' = Append(log, <<"failed", e>>)
    BY <2>1, <2>3, <2>4, SlotsKept
  <2>5. CASE log' = Append(log, <<"left", e>>)
    BY <2>1, <2>3, <2>5, SlotsKept
  <2> QED
    BY <2>2, <2>4, <2>5
<1>6. ASSUME NEW i \in 1 .. MaxElements, NEW a \in Answer, Answers(i, a)
      PROVE  SlotInv'
  <2> DEFINE ev == <<"answer", i, a>>
  <2>1. log' = Append(log, ev) /\ kind' = kind /\ i \in 1 .. given
    BY <1>0, <1>6 DEF Answers, Happens
  <2>2. ev \in Event /\ ev[1] = "answer" /\ ev[2] = i /\ ev[3] = a
    BY <1>0, <2>1, EventKinds
  <2> HIDE DEF ev
  <2>3. Fills(a[1]) <=> FillsIn(kind, a[1])
    BY StateFree
  <2>4. CASE ~Fills(a[1]) \/ called[i]
    <3>1. UNCHANGED <<slots, called>>
      BY <1>6, <2>4 DEF Answers, Fill
    <3> QED
      BY <2>1, <2>2, <2>3, <2>4, <3>1, SlotsKept
  <2>5. CASE Fills(a[1]) /\ ~called[i]
    <3>1. /\ called' = [called EXCEPT ![i] = TRUE]
          /\ slots' = [slots EXCEPT ![i] = a]
      BY <1>6, <2>5 DEF Answers, Fill
    <3>2. kind # "race"
      BY <2>5 DEF Fills, Settling
    <3>3. i \in 1 .. Len(slots)
      BY <1>0, <2>1, <3>2 DEF WalkInv
    <3>4. /\ Len(slots') = Len(slots) /\ slots'[i] = a /\ called'[i] = TRUE
          /\ \A j \in 1 .. Len(slots) : j # i => slots'[j] = slots[j] /\ called'[j] = called[j]
      BY <1>0, <3>1, <3>3
    <3>5. AnswersIn(kind, log, i) = {}
      BY <2>5, <3>3 DEF SlotInv
    <3>6. AnswersIn(kind', log', i) = {Len(log) + 1} /\ log'[Len(log) + 1] = ev
          /\ Len(log) \in Nat
      BY <1>0, <2>1, <2>2, <2>3, <2>5, <3>5, AnswersLogged, Logged
    <3>7. FirstIn(log', AnswersIn(kind', log', i), slots'[i])
      BY <2>2, <3>4, <3>6 DEF FirstIn
    <3>8. ASSUME NEW j \in 1 .. Len(slots), j # i
          PROVE  /\ called'[j] <=> AnswersIn(kind', log', j) # {}
                 /\ called'[j] => FirstIn(log', AnswersIn(kind', log', j), slots'[j])
      <4>1. /\ AnswersIn(kind', log', j) = AnswersIn(kind, log, j)
            /\ AnswersIn(kind, log, j) \in SUBSET (1 .. Len(log))
        BY <1>0, <2>1, <2>2, <3>8, AnswersLogged
      <4>2. /\ called[j] <=> AnswersIn(kind, log, j) # {}
            /\ called[j] => FirstIn(log, AnswersIn(kind, log, j), slots[j])
        BY DEF SlotInv
      <4> QED
        BY <1>0, <2>1, <2>2, <3>4, <3>8, <4>1, <4>2, FirstStays
    <3> QED
      BY <3>4, <3>6, <3>7, <3>8 DEF SlotInv
  <2> QED
    BY <2>4, <2>5
<1> QED
  BY <1>2, <1>3, <1>4, <1>5, <1>6 DEF Next

LEMMA WalkNext == StateInv /\ [Next]_vars => WalkInv'
<1> SUFFICES ASSUME StateInv, [Next]_vars
             PROVE  WalkInv'
  OBVIOUS
<1> USE DEF StateInv
<1>0. /\ log \in Seq(Event) /\ given \in Nat /\ Len(slots) \in Nat
      /\ slots \in Seq(Answer \cup {Empty}) /\ MaxElements \in Nat
  BY BoundsAssumption DEF LogInv, TypeOK
<1>1. CASE Begin \/ GivenFunctions \/ ThenReturns \/ UNCHANGED vars
  BY <1>0, <1>1 DEF Begin, GivenFunctions, ThenReturns, StaysSo, vars, WalkInv
<1>2. CASE NextElement
  <2>1. CASE kind = "race"
    BY <1>2, <2>1 DEF NextElement, WalkInv
  <2>2. CASE kind # "race"
    <3>1. /\ log' = Append(log, <<"element">>) /\ kind' = kind /\ given' = given
          /\ slots' = Append(slots, Empty) /\ stage = "next" /\ stage' = "resolving"
          /\ given < MaxElements
      BY <1>2, <2>2 DEF NextElement, Happens
    <3>2. Events(log', "element") = Events(log, "element") \cup {Len(log) + 1}
      BY <1>0, <3>1, EventKinds, Logged
    <3>3. Len(log) + 1 \notin Events(log, "element")
      BY <1>0, <3>1, EventKinds, EventsGrow
    <3>4. /\ IsFiniteSet(Events(log, "element"))
          /\ Cardinality(Events(log, "element")) = Len(slots) /\ Len(slots) = given
      BY <2>2, <3>1 DEF WalkInv
    <3>5. /\ IsFiniteSet(Events(log', "element"))
          /\ Cardinality(Events(log', "element")) = Len(slots) + 1
      BY <3>2, <3>3, <3>4, FS_AddElement
    <3>6. Len(slots') = Len(slots) + 1
      BY <1>0, <3>1
    <3> QED
      BY <1>0, <2>2, <3>1, <3>4, <3>5, <3>6 DEF WalkInv
  <2> QED
    BY <2>1, <2>2
<1>3. ASSUME UNCHANGED <<kind, given>>, stage' \in {"closing", "over"},
             Len(slots') = Len(slots), kind = "race" => slots' = slots /\ remaining' = remaining,
             Events(log', "element") = Events(log, "element")
      PROVE  WalkInv'
  BY <1>3 DEF WalkInv
<1>4. CASE WalkEnds
  <2>1. log' = Append(log, <<"done">>)
    BY <1>4 DEF WalkEnds, Happens
  <2>2. Events(log', "element") = Events(log, "element")
    BY <1>0, <2>1, EventKinds, Logged
  <2> QED
    BY <1>3, <1>4, <2>2 DEF WalkEnds
<1>5. ASSUME NEW e \in Errors, IteratorThrows(e) \/ ElementThrows(e) \/ Closed(e)
      PROVE  WalkInv'
  <2>1. /\ UNCHANGED <<kind, given, slots, remaining>> /\ stage' \in {"closing", "over"}
    BY <1>5 DEF IteratorThrows, ElementThrows, Closed, Rejects, StaysSo
  <2>2. log' = Append(log, <<"failed", e>>) \/ log' = Append(log, <<"left", e>>)
    BY <1>5 DEF IteratorThrows, ElementThrows, Closed, Happens
  <2>3. <<"failed", e>> \in Event /\ <<"left", e>> \in Event
    BY EventKinds
  <2>4. Events(log', "element") = Events(log, "element")
    BY <1>0, <2>2, <2>3, Logged
  <2> QED
    BY <1>3, <2>1, <2>4
<1>6. ASSUME NEW i \in 1 .. MaxElements, NEW a \in Answer, Answers(i, a)
      PROVE  WalkInv'
  <2>1. /\ log' = Append(log, <<"answer", i, a>>) /\ UNCHANGED <<kind, stage, given>>
        /\ i \in Nat /\ <<"answer", i, a>> \in Event
    BY <1>0, <1>6, EventKinds DEF Answers, Happens
  <2>2. Events(log', "element") = Events(log, "element")
    BY <1>0, <2>1, Logged
  <2>3. Len(slots') = Len(slots)
    BY <1>0, <1>6 DEF Answers, Fill
  <2>4. kind = "race" => UNCHANGED <<slots, remaining>>
    BY <1>6 DEF Answers, Fills, Settling
  <2> QED
    BY <2>1, <2>2, <2>3, <2>4 DEF WalkInv
<1> QED
  BY <1>1, <1>2, <1>4, <1>5, <1>6 DEF Next

LEMMA OpenFinite ==
    ASSUME Len(slots) \in Nat
    PROVE  IsFiniteSet(Open) /\ Cardinality(Open) \in Nat
<1>1. IsFiniteSet(1 .. Len(slots)) /\ Open \subseteq 1 .. Len(slots)
  BY FS_Interval DEF Open
<1> QED
  BY <1>1, FS_Subset, FS_CardinalityType

LEMMA CountNext == StateInv /\ [Next]_vars => CountInv'
<1> SUFFICES ASSUME StateInv, [Next]_vars, kind' # "race"
             PROVE  CountInv'
  BY DEF CountInv
<1> USE DEF StateInv
<1>0. /\ log \in Seq(Event) /\ given \in Nat /\ Len(slots) \in Nat /\ kind' = kind
      /\ slots \in Seq(Answer \cup {Empty}) /\ called \in Seq(BOOLEAN)
      /\ Len(called) = Len(slots)
      /\ remaining = Cardinality(Open) + (IF Events(log, "done") = {} THEN 1 ELSE 0)
      /\ IsFiniteSet(Open) /\ Cardinality(Open) \in Nat
  <2>1. kind' = kind
    BY DEF Next, Begin, NextElement, GivenFunctions, ThenReturns, WalkEnds, IteratorThrows,
           ElementThrows, Closed, Answers, vars
  <2> QED
    BY <2>1, OpenFinite DEF LogInv, TypeOK, CountInv
<1>1. CASE Begin \/ GivenFunctions \/ ThenReturns \/ UNCHANGED vars
  BY <1>0, <1>1 DEF Begin, GivenFunctions, ThenReturns, StaysSo, vars, CountInv, Open
<1>2. ASSUME UNCHANGED <<slots, called, remaining>>,
             Events(log', "done") = Events(log, "done")
      PROVE  CountInv'
  BY <1>0, <1>2 DEF CountInv, Open
<1>3. CASE NextElement
  <2>1. /\ log' = Append(log, <<"element">>) /\ remaining' = remaining + 1
        /\ slots' = Append(slots, Empty) /\ called' = Append(called, FALSE)
    BY <1>0, <1>3 DEF NextElement, Happens
  <2>2. Events(log', "done") = Events(log, "done")
    BY <1>0, <2>1, EventKinds, Logged
  <2>3. Len(slots') = Len(slots) + 1
    BY <1>0, <2>1
  <2>4. \A i \in 1 .. Len(slots) : called'[i] <=> called[i]
    BY <1>0, <2>1
  <2>5. ~called'[Len(slots) + 1]
    BY <1>0, <2>1
  <2>6. Open' = Open \cup {Len(slots) + 1} /\ Len(slots) + 1 \notin Open
    BY <1>0, <2>3, <2>4, <2>5 DEF Open
  <2>7. Cardinality(Open') = Cardinality(Open) + 1
    BY <1>0, <2>6, FS_AddElement
  <2> QED
    BY <1>0, <2>1, <2>2, <2>7 DEF CountInv
<1>4. CASE WalkEnds
  <2>1. /\ log' = Append(log, <<"done">>) /\ remaining' = remaining - 1
        /\ UNCHANGED <<slots, called>> /\ Events(log, "done") = {}
    BY <1>0, <1>4 DEF WalkEnds, Happens, CountDown, LogInv
  <2>2. Events(log', "done") # {}
    <3>1. <<"done">> \in Event
      BY EventKinds
    <3>2. Events(log', "done") = Events(log, "done") \cup {Len(log) + 1}
      BY <1>0, <2>1, <3>1, Logged
    <3> QED
      BY <3>2
  <2> QED
    BY <1>0, <2>1, <2>2 DEF CountInv, Open
<1>5. ASSUME NEW e \in Errors, IteratorThrows(e) \/ ElementThrows(e) \/ Closed(e)
      PROVE  CountInv'
  <2>1. UNCHANGED <<slots, called, remaining>>
    BY <1>5 DEF IteratorThrows, ElementThrows, Closed, Rejects, StaysSo
  <2>2. log' = Append(log, <<"failed", e>>) \/ log' = Append(log, <<"left", e>>)
    BY <1>5 DEF IteratorThrows, ElementThrows, Closed, Happens
  <2>3. <<"failed", e>> \in Event /\ <<"left", e>> \in Event
    BY EventKinds
  <2>4. Events(log', "done") = Events(log, "done")
    BY <1>0, <2>2, <2>3, Logged
  <2> QED
    BY <1>2, <2>1, <2>4
<1>6. ASSUME NEW i \in 1 .. MaxElements, NEW a \in Answer, Answers(i, a)
      PROVE  CountInv'
  <2>1. /\ log' = Append(log, <<"answer", i, a>>) /\ i \in 1 .. given
        /\ <<"answer", i, a>> \in Event
    BY <1>0, <1>6, EventKinds DEF Answers, Happens
  <2>2. Events(log', "done") = Events(log, "done")
    BY <1>0, <2>1, Logged
  <2>3. CASE ~Fills(a[1]) \/ called[i]
    <3>1. UNCHANGED <<slots, called, remaining>>
      BY <1>6, <2>3 DEF Answers, Fill
    <3> QED
      BY <1>2, <2>2, <3>1
  <2>4. CASE Fills(a[1]) /\ ~called[i]
    <3>1. /\ called' = [called EXCEPT ![i] = TRUE] /\ remaining' = remaining - 1
          /\ slots' = [slots EXCEPT ![i] = a]
      BY <1>6, <2>4 DEF Answers, Fill, CountDown
    <3>2. i \in 1 .. Len(slots)
      BY <1>0, <2>1 DEF WalkInv
    <3>3. /\ Len(slots') = Len(slots) /\ called'[i]
          /\ \A j \in 1 .. Len(slots) : j # i => (called'[j] <=> called[j])
      BY <1>0, <3>1, <3>2
    <3>4. Open' = Open \ {i} /\ i \in Open
      BY <2>4, <3>2, <3>3 DEF Open
    <3>5. Cardinality(Open') = Cardinality(Open) - 1
      BY <1>0, <3>4, FS_RemoveElement
    <3> QED
      BY <1>0, <2>2, <3>1, <3>5 DEF CountInv
  <2> QED
    BY <2>3, <2>4
<1> QED
  BY <1>1, <1>3, <1>4, <1>5, <1>6 DEF Next

LEMMA ReplacedIn ==
    ASSUME NEW S, NEW s \in Seq(S), NEW i, NEW v \in S
    PROVE  [s EXCEPT ![i] = v] \in Seq(S) /\ Len([s EXCEPT ![i] = v]) = Len(s)
<1> DEFINE t == [s EXCEPT ![i] = v]
<1>1. Len(s) \in Nat /\ s \in [1 .. Len(s) -> S]
  OBVIOUS
<1>2. t \in [1 .. Len(s) -> S]
  BY <1>1
<1>3. t \in Seq(S)
  BY <1>1, <1>2
<1>4. Len(t) = Len(s)
  BY <1>1, <1>2, <1>3, LenProperties
<1> QED
  BY <1>3, <1>4

LEMMA TypeNext == StateInv /\ [Next]_vars => TypeOK'
<1> SUFFICES ASSUME StateInv, [Next]_vars
             PROVE  TypeOK'
  OBVIOUS
<1> USE DEF StateInv
<1>0. TypeOK /\ given \in Nat /\ Len(slots) \in Nat /\ MaxElements \in Nat
  BY BoundsAssumption DEF TypeOK
<1> DEFINE Rest ==
    /\ kind \in Kinds
    /\ stage \in {"begin", "next", "resolving", "then", "closing", "over"}
    /\ error \in {NoError} \cup {<<e>> : e \in Errors}
    /\ slots \in Seq(Answer \cup {Empty}) /\ called \in Seq(BOOLEAN)
    /\ Len(slots) = Len(called)
    /\ given \in 0 .. MaxElements
<1>1. Rest
  BY DEF TypeOK
<1>2. Rest'
  <2>1. CASE Begin \/ GivenFunctions \/ ThenReturns \/ UNCHANGED vars
    BY <1>0, <1>1, <2>1 DEF Begin, GivenFunctions, ThenReturns, StaysSo, vars, WalkInv
  <2>2. CASE NextElement
    <3>1. CASE kind = "race"
      BY <1>1, <2>2, <3>1 DEF NextElement
    <3>2. CASE kind # "race"
      <4>1. slots' = Append(slots, Empty) /\ called' = Append(called, FALSE)
        BY <2>2, <3>2 DEF NextElement
      <4>2. /\ slots' \in Seq(Answer \cup {Empty}) /\ called' \in Seq(BOOLEAN)
            /\ Len(slots') = Len(called')
        BY <1>1, <4>1
      <4> QED
        BY <1>1, <2>2, <4>2 DEF NextElement
    <3> QED
      BY <3>1, <3>2
  <2>3. CASE WalkEnds
    BY <1>1, <2>3 DEF WalkEnds
  <2>4. ASSUME NEW e \in Errors, IteratorThrows(e) \/ ElementThrows(e) \/ Closed(e)
        PROVE  Rest'
    <3>1. /\ UNCHANGED <<kind, given, slots, called>> /\ stage' \in {"closing", "over"}
          /\ error' \in {error, <<e>>}
      BY <2>4 DEF IteratorThrows, ElementThrows, Closed, Rejects, StaysSo
    <3> QED
      BY <1>1, <3>1
  <2>5. ASSUME NEW i \in 1 .. MaxElements, NEW a \in Answer, Answers(i, a)
        PROVE  Rest'
    <3>1. UNCHANGED <<kind, stage, error, given>>
      BY <2>5 DEF Answers
    <3>2. /\ slots' \in Seq(Answer \cup {Empty}) /\ called' \in Seq(BOOLEAN)
          /\ Len(slots') = Len(called')
      <4>1. CASE UNCHANGED <<slots, called>>
        BY <1>1, <4>1
      <4>2. CASE /\ slots' = [slots EXCEPT ![i] = a]
                 /\ called' = [called EXCEPT ![i] = TRUE]
        <5>1. slots' \in Seq(Answer \cup {Empty}) /\ Len(slots') = Len(slots)
          <6> DEFINE Slot == Answer \cup {Empty}
          <6>1. slots \in Seq(Slot) /\ a \in Slot
            BY <1>1
          <6> HIDE DEF Slot
          <6>2. slots' \in Seq(Slot) /\ Len(slots') = Len(slots)
            BY SMTT(30), <4>2, <6>1, ReplacedIn
          <6> QED
            BY <6>2 DEF Slot
        <5>2. called' \in Seq(BOOLEAN) /\ Len(called') = Len(called)
          <6> DEFINE b == TRUE
          <6>1. called' = [called EXCEPT ![i] = b] /\ b \in BOOLEAN
            BY <4>2
          <6>2. called \in Seq(BOOLEAN)
            BY <1>1
          <6> HIDE DEF b
          <6> QED
            BY <6>1, <6>2, ReplacedIn
        <5> QED
          BY <1>1, <5>1, <5>2
      <4> QED
        BY <2>5, <4>1, <4>2 DEF Answers, Fill
    <3> QED
      BY <1>1, <3>1, <3>2
  <2> QED
    BY <2>1, <2>2, <2>3, <2>4, <2>5 DEF Next
<1>3. remaining' \in Nat
  <2>1. CASE kind' = "race"
    BY <2>1, WalkNext DEF WalkInv
  <2>2. CASE kind' # "race"
    <3>1. IsFiniteSet(1 .. Len(slots')) /\ Open' \subseteq 1 .. Len(slots')
      BY <1>2, FS_Interval DEF Open
    <3>2. Cardinality(Open') \in Nat
      BY <3>1, FS_Subset, FS_CardinalityType
    <3> QED
      BY <2>2, <3>2, CountNext DEF CountInv
  <2> QED
    BY <2>1, <2>2
<1> QED
  BY <1>2, <1>3 DEF TypeOK

LEMMA StateNext == StateInv /\ [Next]_vars => StateInv'
BY TypeNext, LogNext, WalkNext, SlotNext, CountNext DEF StateInv

LEMMA StateInit == Init => StateInv
<1> SUFFICES ASSUME Init
             PROVE  StateInv
  OBVIOUS
<1>1. /\ Len(slots) = 0 /\ slots \in Seq(Answer \cup {Empty}) /\ called \in Seq(BOOLEAN)
      /\ Len(called) = 0 /\ log \in Seq(Event)
      /\ \A w : Events(log, w) = {}
  BY DEF Init, Events
<1>2. Cardinality({}) = 0 /\ IsFiniteSet({})
  BY FS_EmptySet
<1>3. TypeOK
  BY <1>1, BoundsAssumption DEF Init, TypeOK
<1>4. LogInv
  BY <1>1 DEF Init, LogInv
<1>5. WalkInv
  BY <1>1, <1>2 DEF Init, WalkInv
<1>6. SlotInv
  BY <1>1 DEF SlotInv
<1>7. CountInv
  <2>1. Open = {}
    BY <1>1 DEF Open
  <2> QED
    BY <1>1, <1>2, <2>1 DEF Init, CountInv
<1> QED
  BY <1>3, <1>4, <1>5, <1>6, <1>7 DEF StateInv

----------------------------------------------------------------------------
(* Every step settles the result as the log says.                           *)

LEMMA OutcomeStep ==
    ASSUME IInv, StateInv', NEW ev \in Event, log' = Append(log, ev), kind' = kind,
           ev[1] = "left" => stage # "over",
           outcome # Pending => outcome' = outcome,
           outcome = Pending /\ ev[1] = "failed" =>
               outcome' = One(<<"rejected", ThrownIn(log', Len(log) + 1)>>),
           outcome = Pending /\ ev[1] = "answer" /\ AloneIn(kind, ev) => outcome' = One(ev[3]),
           outcome = Pending /\ ~AloneIn(kind, ev) /\ (kind = "race" \/ remaining # 0) =>
               outcome' = IF kind # "race" /\ remaining' = 0 THEN AllIn(kind, slots') ELSE Pending
    PROVE  OutcomeInv'
<1>1. /\ log \in Seq(Event)
      /\ ev[1] = "left" => Events(log, "failed") = {}
      /\ \A x, y \in Events(log, "left") : x = y
  BY DEF IInv, StateInv, LogInv
<1>2. /\ CompleteIn(kind, log) <=> kind # "race" /\ remaining = 0
      /\ CompleteIn(kind', log') <=> kind' # "race" /\ remaining' = 0
      /\ CompleteIn(kind', log') => slots' = GatheredIn(kind', log')
  <2>1. StateInv /\ StateInv'
    BY DEF IInv
  <2>2. (StateInv => /\ CompleteIn(kind, log) <=> kind # "race" /\ remaining = 0
                     /\ CompleteIn(kind, log) => slots = GatheredIn(kind, log))'
    BY CompleteWhenNoneRemains, PTL
  <2> QED
    BY <2>1, <2>2, CompleteWhenNoneRemains
<1>3. /\ outcome = OutcomeIn(kind, log)
      /\ DecidingIn(kind, log) # {} =>
           \E k \in DecidingIn(kind, log) : \A j \in DecidingIn(kind, log) : k <= j
  BY DEF IInv, OutcomeInv
<1>4. CASE DecidingIn(kind, log) # {}
  <2>1. PICK k \in DecidingIn(kind, log) : \A j \in DecidingIn(kind, log) : k <= j
    BY <1>3, <1>4
  <2>2. /\ k \in DecidingIn(kind, log') /\ \A j \in DecidingIn(kind, log') : k <= j
        /\ OutcomeIn(kind, log') = OutcomeIn(kind, log) /\ OutcomeIn(kind, log) # Pending
    BY <1>1, <2>1, StaysDecided
  <2> QED
    BY <1>3, <2>2 DEF OutcomeInv
<1>5. CASE DecidingIn(kind, log) = {}
  <2>1. outcome = Pending /\ (kind = "race" \/ remaining # 0)
    BY <1>1, <1>2, <1>3, <1>5, Undecided DEF OutcomeIn
  <2>2. CASE ~AloneIn(kind, ev) /\ ~CompleteIn(kind, log')
    <3>1. DecidingIn(kind, log') = {} /\ OutcomeIn(kind, log') = Pending
      BY <1>1, <1>5, <2>2, StaysOpen
    <3> QED
      BY <1>2, <2>1, <2>2, <3>1 DEF OutcomeInv
  <2>3. CASE AloneIn(kind, ev) \/ CompleteIn(kind, log')
    <3>1. /\ \E k \in DecidingIn(kind, log') : \A j \in DecidingIn(kind, log') : k <= j
          /\ ev[1] = "failed" =>
               OutcomeIn(kind, log') = One(<<"rejected", ThrownIn(log', Len(log) + 1)>>)
          /\ ev[1] = "answer" /\ AloneIn(kind, ev) => OutcomeIn(kind, log') = One(ev[3])
          /\ ~AloneIn(kind, ev) => OutcomeIn(kind, log') = AllIn(kind, GatheredIn(kind, log'))
      BY <1>1, <1>5, <2>3, Decides
    <3>2. AloneIn(kind, ev) => ev[1] \in {"failed", "answer"}
      BY DEF AloneIn
    <3>3. outcome' = OutcomeIn(kind, log')
      BY <1>2, <2>1, <2>3, <3>1, <3>2
    <3> QED
      BY <3>1, <3>3 DEF OutcomeInv
  <2> QED
    BY <2>2, <2>3
<1> QED
  BY <1>4, <1>5

LEMMA ThrownAlone ==
    ASSUME log \in Seq(Event), NEW e \in Errors, log' = Append(log, <<"failed", e>>)
    PROVE  /\ Events(log, "left") = {} => ThrownIn(log', Len(log) + 1) = e
           /\ \A k \in Events(log, "left") :
                (\A x, y \in Events(log, "left") : x = y)
                => ThrownIn(log', Len(log) + 1) = log[k][2]
<1>1. <<"failed", e>> \in Event
  BY EventKinds
<1>2. /\ Events(log, "left") \subseteq 1 .. Len(log) /\ Len(log) \in Nat
      /\ Events(log', "left") = Events(log, "left")
      /\ \A k \in 1 .. Len(log) : log'[k] = log[k]
      /\ log'[Len(log) + 1] = <<"failed", e>>
  BY <1>1, Logged
<1>3. ASSUME NEW k \in Events(log, "left"), \A x, y \in Events(log, "left") : x = y
      PROVE  ThrownIn(log', Len(log) + 1) = log[k][2]
  <2>1. Events(log, "left") \in SUBSET Nat /\ \A j \in Events(log, "left") : k <= j
    BY <1>2, <1>3
  <2>2. Min(Events(log, "left")) = k
    BY <2>1, MinIs
  <2> QED
    BY <1>2, <2>2 DEF ThrownIn
<1>4. Events(log, "left") = {} => ThrownIn(log', Len(log) + 1) = e
  <2>1. log'[Len(log) + 1][2] = e
    BY <1>2
  <2> QED
    BY <1>2, <2>1 DEF ThrownIn
<1> QED
  BY <1>3, <1>4

LEMMA OutcomeNext == IInv /\ [Next]_vars => OutcomeInv'
<1> SUFFICES ASSUME IInv, [Next]_vars
             PROVE  OutcomeInv'
  OBVIOUS
<1>0. /\ StateInv' /\ log \in Seq(Event) /\ remaining \in Nat /\ given \in Nat
      /\ MaxElements \in Nat
      /\ \A s : Fills(s) <=> FillsIn(kind, s)
      /\ \A s : All(s) = AllIn(kind, s)
  BY StateNext, StateFree, BoundsAssumption DEF IInv, StateInv, TypeOK, LogInv
<1>1. CASE UNCHANGED <<kind, log, outcome>>
  BY <1>1 DEF IInv, OutcomeInv
<1>2. CASE Begin \/ GivenFunctions \/ ThenReturns \/ UNCHANGED vars
  BY <1>1, <1>2 DEF Begin, GivenFunctions, ThenReturns, StaysSo, vars
<1>3. CASE NextElement
  <2> DEFINE ev == <<"element">>
  <2>1. /\ ev \in Event /\ log' = Append(log, ev) /\ kind' = kind /\ outcome' = outcome
        /\ ev[1] = "element"
    BY <1>3, EventKinds DEF NextElement, Happens
  <2>2. kind # "race" => remaining' = remaining + 1
    BY <1>3 DEF NextElement
  <2> HIDE DEF ev
  <2> QED
    BY <1>0, <2>1, <2>2, OutcomeStep
<1>4. CASE WalkEnds
  <2> DEFINE ev == <<"done">>
  <2>1. /\ ev \in Event /\ log' = Append(log, ev) /\ kind' = kind
        /\ ev[1] = "done"
        /\ kind = "race" => outcome' = outcome
    BY <1>4, EventKinds DEF WalkEnds, Happens
  <2>2. kind # "race" =>
          /\ remaining' = remaining - 1 /\ slots' = slots
          /\ outcome # Pending => outcome' = outcome
          /\ outcome = Pending =>
               outcome' = IF remaining = 1 THEN AllIn(kind, slots) ELSE Pending
    BY <1>0, <1>4 DEF WalkEnds, CountDown, Settle
  <2> HIDE DEF ev
  <2> QED
    BY <1>0, <2>1, <2>2, OutcomeStep
<1>5. ASSUME NEW e \in Errors, NEW thrown,
             log' = Append(log, <<"failed", e>>), kind' = kind, Rejects(thrown),
             ThrownIn(log', Len(log) + 1) = thrown
      PROVE  OutcomeInv'
  <2> DEFINE ev == <<"failed", e>>
  <2>1. /\ ev \in Event /\ log' = Append(log, ev) /\ ev[1] = "failed"
        /\ AloneIn(kind, ev)
    BY <1>5, EventKinds DEF AloneIn
  <2>2. /\ outcome # Pending => outcome' = outcome
        /\ outcome = Pending => outcome' = One(<<"rejected", thrown>>)
    BY <1>5 DEF Rejects, Settle
  <2> HIDE DEF ev
  <2> QED
    BY <1>0, <1>5, <2>1, <2>2, OutcomeStep
<1>6. ASSUME NEW e \in Errors, IteratorThrows(e) \/ (ElementThrows(e) /\ kind \in Keyed)
      PROVE  OutcomeInv'
  <2>1. /\ log' = Append(log, <<"failed", e>>) /\ kind' = kind /\ Rejects(e)
        /\ stage \notin {"closing", "over"}
    BY <1>6 DEF IteratorThrows, ElementThrows, Happens
  <2>2. Events(log, "left") = {}
    BY <2>1 DEF IInv, StateInv, LogInv
  <2> QED
    BY <1>0, <1>5, <2>1, <2>2, ThrownAlone
<1>7. ASSUME NEW e \in Errors, ElementThrows(e), kind \notin Keyed
      PROVE  OutcomeInv'
  <2> DEFINE ev == <<"left", e>>
  <2>1. /\ ev \in Event /\ log' = Append(log, ev) /\ kind' = kind /\ stage # "over"
        /\ UNCHANGED <<outcome, remaining, slots>> /\ ev[1] = "left"
    BY <1>7, EventKinds DEF ElementThrows, Happens, StaysSo
  <2> HIDE DEF ev
  <2> QED
    BY <1>0, <2>1, OutcomeStep
<1>8. ASSUME NEW e \in Errors, Closed(e)
      PROVE  OutcomeInv'
  <2>1. /\ log' = Append(log, <<"failed", e>>) /\ kind' = kind /\ Rejects(error[1])
        /\ stage = "closing"
    BY <1>8 DEF Closed, Happens
  <2>2. PICK k \in Events(log, "left") : log[k][2] = error[1]
    BY <2>1 DEF IInv, StateInv, LogInv
  <2>3. \A x, y \in Events(log, "left") : x = y
    BY DEF IInv, StateInv, LogInv
  <2>4. ThrownIn(log', Len(log) + 1) = error[1]
    BY <1>0, <2>1, <2>2, <2>3, ThrownAlone
  <2> QED
    BY <1>5, <2>1, <2>4
<1>9. ASSUME NEW i \in 1 .. MaxElements, NEW a \in Answer, Answers(i, a)
      PROVE  OutcomeInv'
  <2> DEFINE ev == <<"answer", i, a>>
  <2>1. /\ ev \in Event /\ log' = Append(log, ev) /\ kind' = kind
        /\ ev[1] = "answer" /\ ev[3] = a
        /\ AloneIn(kind, ev) <=> ~FillsIn(kind, a[1])
    BY <1>0, <1>9, EventKinds DEF Answers, Happens, AloneIn
  <2>2. CASE ~FillsIn(kind, a[1])
    <3>1. /\ outcome # Pending => outcome' = outcome
          /\ outcome = Pending => outcome' = One(a)
      BY <1>0, <1>9, <2>2 DEF Answers, Settle
    <3> HIDE DEF ev
    <3> QED
      BY <1>0, <2>1, <2>2, <3>1, OutcomeStep
  <2>3. CASE FillsIn(kind, a[1]) /\ called[i]
    <3>1. UNCHANGED <<outcome, remaining>>
      BY <1>0, <1>9, <2>3 DEF Answers, Fill
    <3> HIDE DEF ev
    <3> QED
      BY <1>0, <2>1, <2>3, <3>1, OutcomeStep
  <2>4. CASE FillsIn(kind, a[1]) /\ ~called[i]
    <3>1. /\ remaining' = remaining - 1 /\ kind # "race"
          /\ outcome # Pending => outcome' = outcome
          /\ outcome = Pending =>
               outcome' = IF remaining = 1 THEN AllIn(kind, slots') ELSE Pending
      BY <1>0, <1>9, <2>4 DEF Answers, Fill, CountDown, Settle, FillsIn, Settling
    <3> HIDE DEF ev
    <3> QED
      BY <1>0, <2>1, <2>4, <3>1, OutcomeStep
  <2> QED
    BY <2>2, <2>3, <2>4
<1> QED
  BY <1>2, <1>3, <1>4, <1>6, <1>7, <1>8, <1>9 DEF Next

LEMMA Inductive == /\ Init => IInv
                   /\ IInv /\ [Next]_vars => IInv'
<1>1. ASSUME Init PROVE OutcomeInv
  <2>1. DecidingIn(kind, log) = {}
    BY <1>1 DEF Init, DecidingIn
  <2> QED
    BY <1>1, <2>1 DEF Init, OutcomeInv, OutcomeIn
<1> QED
  BY <1>1, StateInit, StateNext, OutcomeNext DEF IInv

----------------------------------------------------------------------------

\* The slots, the flags and the counter keep their types: the counter does
\* not pass zero, whatever the elements call (vm.rs:13739-13814).
THEOREM TypeCorrect == Spec => []TypeOK
<1>1. IInv => TypeOK
  BY DEF IInv, StateInv
<1> QED
  BY <1>1, Inductive, PTL DEF Spec

\* However many elements there are, and whenever and however often they call
\* their functions, the result has the outcome that ECMAScript gives to what
\* happened (vm.rs:13739-13814, 14217-14306).
THEOREM Gathers == Spec => []AsGathered
<1>1. IInv => AsGathered
  BY StateFree DEF IInv, OutcomeInv, AsGathered
<1> QED
  BY <1>1, Inductive, PTL DEF Spec
=============================================================================
