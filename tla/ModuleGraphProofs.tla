-------------------------- MODULE ModuleGraphProofs --------------------------
(***************************************************************************)
(* The safety of ModuleGraph for any modules, programs, and numbers of     *)
(* awaits and imports.  StackInv describes the stack: what calls what, who *)
(* may be thrown at, which status the module of a call has, that a module  *)
(* is evaluated by one call, and that a suspended one is held in one       *)
(* place.  SettledInv adds that nothing is left suspended between two      *)
(* walks, RoundInv what a round does until it has run something.  What     *)
(* callbacks may not do in the middle of a suspension                      *)
(* (ImportsInSuspension) is a hypothesis of FullInv, that what is          *)
(* evaluated has run to its end, and of OrderInv, that what a module       *)
(* requests comes before it.                                               *)
(***************************************************************************)
EXTENDS ModuleGraph, FiniteSetTheorems, WellFoundedInduction, TLAPS

LEMMA NumbersFrom ==
    ASSUME NEW P, 0 \in P, \A n \in Nat : n \in P => n + 1 \in P
    PROVE  Nat \subseteq P
<1> DEFINE T == {n \in Nat : n \notin P}
<1> SUFFICES ASSUME T # {} PROVE FALSE
    OBVIOUS
<1> DEFINE R == OpToRel(<, Nat)
<1>1. IsWellFoundedOn(R, Nat) /\ \A y, x \in Nat : y < x => <<y, x>> \in R
    <2>1. \A y, x \in Nat : y < x => <<y, x>> \in R
        BY DEF OpToRel
    <2> QED
        BY <2>1, NatLessThanWellFounded, Zenon
<1> HIDE DEF R
<1>2. PICK x \in T : \A y \in T : ~(<<y, x>> \in R)
    <2>1. T \subseteq Nat
        OBVIOUS
    <2> HIDE DEF T
    <2> QED
        <3>1. IsWellFoundedOn(R, Nat)
            BY <1>1
        <3>2. T # {}
            OBVIOUS
        <3> QED
            BY <2>1, <3>1, <3>2, WFMin, Zenon
<1>3. x \in Nat /\ x # 0
    OBVIOUS
<1>4. x - 1 \in Nat /\ x - 1 < x /\ (x - 1) + 1 = x
    BY <1>3
<1>5. x - 1 \notin T
    BY <1>1, <1>2, <1>3, <1>4
<1>6. x \in P
    BY <1>4, <1>5
<1> QED
    BY <1>6

\* f begins with x and goes on by F, N times.
Repeats(f, x, F, N) == f[0] = x /\ \A n \in 1 .. N : f[n] = F[<<n, f[n - 1]>>]

LEMMA Recursion ==
    ASSUME NEW N \in Nat, NEW S, NEW x \in S, NEW F \in [(1 .. N) \X S -> S]
    PROVE  \E f \in [0 .. N -> S] : Repeats(f, x, F, N)
<1> DEFINE Is(f, n) == f[0] = x /\ \A k \in 1 .. n : f[k] = F[<<k, f[k - 1]>>]
           P == {n \in Nat : n <= N => \E f \in [0 .. n -> S] : Is(f, n)}
<1>1. 0 \in P
    <2>1. [k \in 0 .. 0 |-> x] \in [0 .. 0 -> S] /\ Is([k \in 0 .. 0 |-> x], 0)
        OBVIOUS
    <2> QED
        BY <2>1
<1>2. ASSUME NEW n \in Nat, n \in P PROVE n + 1 \in P
    <2> SUFFICES ASSUME n + 1 <= N PROVE \E f \in [0 .. n + 1 -> S] : Is(f, n + 1)
        OBVIOUS
    <2>1. PICK f \in [0 .. n -> S] : Is(f, n)
        BY <1>2
    <2> DEFINE g == [k \in 0 .. n + 1 |-> IF k = n + 1 THEN F[<<n + 1, f[n]>>] ELSE f[k]]
    <2>2. F[<<n + 1, f[n]>>] \in S
        OBVIOUS
    <2>3. g \in [0 .. n + 1 -> S]
        BY <2>2
    <2>4. g[0] = x
        BY <2>1
    <2>5. ASSUME NEW k \in 1 .. n + 1 PROVE g[k] = F[<<k, g[k - 1]>>]
        <3>1. CASE k = n + 1
            BY <3>1, SMTT(30)
        <3>2. CASE k # n + 1
            <4>1. k \in 1 .. n /\ k - 1 \in 0 .. n /\ k - 1 # n + 1
                BY <3>2
            <4>2. f[k] = F[<<k, f[k - 1]>>]
                BY <2>1, <4>1
            <4>3. g[k] = f[k] /\ g[k - 1] = f[k - 1]
                BY <4>1, <3>2
            <4> QED
                BY <4>2, <4>3
        <3> QED
            BY <3>1, <3>2
    <2> QED
        BY <2>3, <2>4, <2>5
<1>3. Nat \subseteq P
    <2> HIDE DEF P
    <2> QED
        BY <1>1, <1>2, NumbersFrom, Zenon
<1> QED
    BY <1>3 DEF Repeats

LEMMA ElementsAppend ==
    ASSUME NEW s \in Seq(Modules), NEW m \in Modules
    PROVE  Append(s, m) \in Seq(Modules) /\ Elements(Append(s, m)) = Elements(s) \cup {m}
<1>1. Append(s, m) \in Seq(Modules) /\ DOMAIN Append(s, m) = 1 .. Len(s) + 1
    OBVIOUS
<1>2. Append(s, m)[Len(s) + 1] = m
    OBVIOUS
<1>3. \A i \in 1 .. Len(s) : Append(s, m)[i] = s[i]
    OBVIOUS
<1>4. DOMAIN s = 1 .. Len(s)
    OBVIOUS
<1>5. \A x \in Elements(Append(s, m)) : x \in Elements(s) \cup {m}
    <2> SUFFICES ASSUME NEW i \in 1 .. Len(s) + 1 PROVE Append(s, m)[i] \in Elements(s) \cup {m}
        BY <1>1 DEF Elements
    <2>1. i = Len(s) + 1 \/ i \in 1 .. Len(s)
        OBVIOUS
    <2> QED
        BY <2>1, <1>2, <1>3, <1>4 DEF Elements
<1>6. \A i \in 1 .. Len(s) : s[i] \in Elements(Append(s, m))
    BY <1>1, <1>3 DEF Elements
<1>7. m \in Elements(Append(s, m))
    <2>1. Len(s) + 1 \in 1 .. Len(s) + 1
        OBVIOUS
    <2> QED
        BY <2>1, <1>1, <1>2 DEF Elements
<1> QED
    BY <1>1, <1>4, <1>5, <1>6, <1>7 DEF Elements

LEMMA ScheduledFacts ==
    ASSUME NEW list \in Seq(Modules), NEW ms \in Seq(Modules)
    PROVE  /\ Scheduled(list, ms) \in Seq(Modules)
           /\ Elements(list) \subseteq Elements(Scheduled(list, ms))
           /\ Elements(ms) \subseteq Elements(Scheduled(list, ms))
<1> DEFINE N == Len(ms)
           Longer(l, n) == IF ms[n] \in Elements(l) THEN l ELSE Append(l, ms[n])
           F == [c \in (1 .. N) \X Seq(Modules) |-> Longer(c[2], c[1])]
           G(f) == [n \in 0 .. N |-> IF n = 0 THEN list ELSE Longer(f[n - 1], n)]
           with == CHOOSE f : f = G(f)
<1>1. Scheduled(list, ms) = with[N]
    BY Zenon DEF Scheduled
<1>2. F \in [(1 .. N) \X Seq(Modules) -> Seq(Modules)]
    OBVIOUS
<1>3. PICK f \in [0 .. N -> Seq(Modules)] : Repeats(f, list, F, N)
    <2>1. N \in Nat
        OBVIOUS
    <2> HIDE DEF F
    <2> QED
        BY <1>2, <2>1, Recursion, Zenon
<1>4. f = G(f)
    <2>1. ASSUME NEW n \in 0 .. N PROVE f[n] = G(f)[n]
        <3>1. CASE n = 0
            BY <3>1, <1>3 DEF Repeats
        <3>2. CASE n # 0
            <4>1. n \in 1 .. N /\ n - 1 \in 0 .. N
                BY <3>2
            <4>2. f[n] = F[<<n, f[n - 1]>>] /\ f[n - 1] \in Seq(Modules)
                BY <4>1, <1>3 DEF Repeats
            <4>3. F[<<n, f[n - 1]>>] = Longer(f[n - 1], n)
                BY <4>1, <4>2
            <4>4. G(f)[n] = Longer(f[n - 1], n)
                BY <3>2
            <4> QED
                BY <4>2, <4>3, <4>4
        <3> QED
            BY <3>1, <3>2
    <2> QED
        BY <2>1
<1>5. with = G(with)
    <2> HIDE DEF G
    <2> QED
        BY <1>4
<1>6. with[0] = list /\ \A n \in 1 .. N : with[n] = Longer(with[n - 1], n)
    <2>1. \A n \in 0 .. N : G(with)[n] = IF n = 0 THEN list ELSE Longer(with[n - 1], n)
        OBVIOUS
    <2> HIDE DEF with, Longer, G
    <2>2. \A n \in 0 .. N : with[n] = IF n = 0 THEN list ELSE Longer(with[n - 1], n)
        BY <1>5, <2>1
    <2> QED
        BY <2>2
<1> HIDE DEF with, F, G
<1> DEFINE P == {n \in Nat : n <= N => /\ with[n] \in Seq(Modules)
                                       /\ Elements(list) \subseteq Elements(with[n])
                                       /\ \A k \in 1 .. n : ms[k] \in Elements(with[n])}
<1>7. 0 \in P
    BY <1>6
<1>8. ASSUME NEW n \in Nat, n \in P PROVE n + 1 \in P
    <2> SUFFICES ASSUME n + 1 <= N
                 PROVE  /\ with[n + 1] \in Seq(Modules)
                        /\ Elements(list) \subseteq Elements(with[n + 1])
                        /\ \A k \in 1 .. n + 1 : ms[k] \in Elements(with[n + 1])
        OBVIOUS
    <2>1. with[n + 1] = Longer(with[n], n + 1) /\ ms[n + 1] \in Modules
        BY <1>6
    <2>2. /\ with[n] \in Seq(Modules)
          /\ Elements(list) \subseteq Elements(with[n])
          /\ \A k \in 1 .. n : ms[k] \in Elements(with[n])
        BY <1>8
    <2>3. CASE ms[n + 1] \in Elements(with[n])
        BY <2>1, <2>2, <2>3
    <2>4. CASE ms[n + 1] \notin Elements(with[n])
        <3>1. with[n + 1] = Append(with[n], ms[n + 1])
            BY <2>1, <2>4
        <3>2. Elements(with[n + 1]) = Elements(with[n]) \cup {ms[n + 1]}
            <4> HIDE DEF with
            <4> QED
                BY <3>1, <2>1, <2>2, ElementsAppend
        <3> QED
            BY <3>1, <3>2, <2>1, <2>2, ElementsAppend
    <2> QED
        BY <2>3, <2>4
<1>9. N \in P
    <2> HIDE DEF P
    <2> QED
        BY <1>7, <1>8, NumbersFrom
<1> QED
    <2>1. \A k \in 1 .. Len(ms) : ms[k] \in Elements(with[N])
        BY <1>9
    <2>2. Elements(ms) \subseteq Elements(with[N])
        BY <2>1 DEF Elements
    <2> QED
        BY <1>1, <1>9, <2>2

LEMMA ProgramFacts ==
    ASSUME program \in Programs, NEW m \in Modules
    PROVE  /\ Requests(m) \in Seq(Request)
           /\ Wanted(m) \subseteq Modules
           /\ [i \in DOMAIN Requests(m) |-> Requests(m)[i].to] \in Seq(Modules)
<1>1. Requests(m) \in Seq(Request)
    BY ProgramsAssumption DEF Requests
<1> HIDE DEF Requests
<1>2. \A i \in DOMAIN Requests(m) : Requests(m)[i] \in Request
    BY <1>1
<1>3. \A i \in DOMAIN Requests(m) : Requests(m)[i].to \in Modules
    BY <1>2 DEF Request
<1>4. DOMAIN Requests(m) = 1 .. Len(Requests(m)) /\ Len(Requests(m)) \in Nat
    BY <1>1
<1> QED
    BY <1>1, <1>3, <1>4 DEF Wanted

LEMMA CallsType == program \in Programs => Calls \in Nat
<1> SUFFICES ASSUME program \in Programs PROVE Calls \in Nat
    OBVIOUS
<1> DEFINE of(m) == {m} \X DOMAIN Requests(m)
           all == {of(m) : m \in Modules}
<1>1. ASSUME NEW m \in Modules PROVE IsFiniteSet(of(m))
    <2>1. DOMAIN Requests(m) = 1 .. Len(Requests(m)) /\ Len(Requests(m)) \in Nat
        BY ProgramFacts
    <2>2. IsFiniteSet(DOMAIN Requests(m))
        BY <2>1, FS_Interval
    <2>3. IsFiniteSet({m})
        BY FS_Singleton
    <2> QED
        BY <2>2, <2>3, FS_Product
<1>2. IsFiniteSet(all)
    <2> DEFINE f == [m \in Modules |-> of(m)]
    <2>1. f \in [Modules -> all]
        OBVIOUS
    <2>2. \A S \in all : \E m \in Modules : f[m] = S
        OBVIOUS
    <2>3. f \in Surjection(Modules, all)
        BY <2>1, <2>2 DEF Surjection
    <2> HIDE DEF f, all
    <2> QED
        BY <2>3, ModulesAssumption, FS_Surjection
<1>3. IsFiniteSet(UNION all)
    <2>1. \A S \in all : IsFiniteSet(S)
        BY <1>1
    <2> HIDE DEF all
    <2> QED
        BY <1>2, <2>1, FS_UNION
<1>4. Cardinality(UNION all) \in Nat
    <2> HIDE DEF all
    <2> QED
        BY <1>3, FS_CardinalityType
<1>5. Calls = 1 + Cardinality(UNION all)
    BY DEF Calls
<1> QED
    BY <1>4, <1>5

LEMMA AsyncFacts ==
    ASSUME program \in Programs, NEW st, NEW m \in Modules
    PROVE  AsyncDependencies(st, m) \in Seq(Modules)
<1> DEFINE S == [work : Seq(Modules), seen : SUBSET Modules, found : Seq(Modules)]
           N == Calls
           x == [work |-> <<m>>, seen |-> {}, found |-> <<>>]
           Goes(c) == IF c.work = <<>> THEN c ELSE Collect(st, c)
           F == [c \in (1 .. N) \X S |-> Goes(c[2])]
           G(f) == [n \in 0 .. N |-> IF n = 0 THEN x ELSE Goes(f[n - 1])]
           after == CHOOSE f : f = G(f)
<1>1. AsyncDependencies(st, m) = after[N].found
    BY Zenon DEF AsyncDependencies
<1>2. ASSUME NEW c \in S PROVE Goes(c) \in S
    <2> SUFFICES ASSUME c.work # <<>> PROVE Collect(st, c) \in S
        OBVIOUS
    <2>1. /\ Head(c.work) \in Modules /\ Tail(c.work) \in Seq(Modules)
          /\ c.seen \cup {Head(c.work)} \in SUBSET Modules
          /\ c.found \in Seq(Modules)
        OBVIOUS
    <2>2. Append(c.found, Head(c.work)) \in Seq(Modules)
        BY <2>1
    <2>3. [i \in DOMAIN Requests(Head(c.work)) |-> Requests(Head(c.work))[i].to] \o Tail(c.work)
             \in Seq(Modules)
        BY <2>1, ProgramFacts
    <2> QED
        BY <2>1, <2>2, <2>3 DEF Collect
<1>3. F \in [(1 .. N) \X S -> S] /\ N \in Nat /\ x \in S
    <2>1. N \in Nat
        BY CallsType
    <2>2. x \in S
        OBVIOUS
    <2> HIDE DEF Goes, S
    <2> QED
        BY <1>2, <2>1, <2>2
<1>4. PICK f \in [0 .. N -> S] : Repeats(f, x, F, N)
    <2>1. N \in Nat
        BY <1>3
    <2>2. x \in S
        BY <1>3
    <2>3. F \in [(1 .. N) \X S -> S]
        BY <1>3
    <2> HIDE DEF F, N, S, x
    <2> QED
        BY <2>1, <2>2, <2>3, Recursion, Zenon
<1> HIDE DEF S, Goes, x
<1>5. f = G(f)
    <2>1. ASSUME NEW n \in 0 .. N PROVE f[n] = G(f)[n]
        <3>1. CASE n = 0
            BY <3>1, <1>4 DEF Repeats
        <3>2. CASE n # 0
            <4>1. n \in 1 .. N /\ n - 1 \in 0 .. N
                BY <3>2, <1>3
            <4>2. f[n] = F[<<n, f[n - 1]>>] /\ f[n - 1] \in S
                BY <4>1, <1>4 DEF Repeats
            <4>3. F[<<n, f[n - 1]>>] = Goes(f[n - 1])
                BY <4>1, <4>2
            <4>4. G(f)[n] = Goes(f[n - 1])
                BY <3>2
            <4> QED
                BY <4>2, <4>3, <4>4
        <3> QED
            BY <3>1, <3>2
    <2> QED
        BY <2>1
<1>6. after = G(after)
    <2> HIDE DEF G
    <2> QED
        BY <1>5
<1>7. after[0] = x /\ \A n \in 1 .. N : after[n] = Goes(after[n - 1])
    <2>1. \A n \in 0 .. N : G(after)[n] = IF n = 0 THEN x ELSE Goes(after[n - 1])
        OBVIOUS
    <2> HIDE DEF after, G
    <2>2. \A n \in 0 .. N : after[n] = IF n = 0 THEN x ELSE Goes(after[n - 1])
        BY <1>6, <2>1
    <2> QED
        BY <2>2, <1>3
<1> HIDE DEF after, F, G, N
<1> DEFINE P == {n \in Nat : n <= N => after[n] \in S}
<1>8. 0 \in P
    BY <1>7, <1>3
<1>9. ASSUME NEW n \in Nat, n \in P PROVE n + 1 \in P
    <2> SUFFICES ASSUME n + 1 <= N PROVE after[n + 1] \in S
        OBVIOUS
    <2>1. after[n] \in S
        BY <1>3, <1>9
    <2>2. after[n + 1] = Goes(after[n])
        BY <1>3, <1>7
    <2> QED
        BY <2>1, <2>2, <1>2
<1>10. N \in P
    <2> HIDE DEF P
    <2> QED
        BY <1>3, <1>8, <1>9, NumbersFrom
<1>11. after[N] \in S
    BY <1>3, <1>10
<1> QED
    BY <1>1, <1>11 DEF S

LEMMA ListFacts ==
    ASSUME program \in Programs, NEW st, NEW requests \in Seq(Request)
    PROVE  /\ EvaluationList(st, requests) \in Seq(Modules)
           /\ \A i \in DOMAIN requests : requests[i].phase = "evaluation"
                 => requests[i].to \in Elements(EvaluationList(st, requests))
<1> DEFINE S == Seq(Modules)
           N == Len(requests)
           Longer(l, n) == Scheduled(l, AskedBy(st, requests[n]))
           F == [c \in (1 .. N) \X S |-> Longer(c[2], c[1])]
           G(f) == [n \in 0 .. N |-> IF n = 0 THEN <<>> ELSE Longer(f[n - 1], n)]
           list == CHOOSE f : f = G(f)
<1>1. EvaluationList(st, requests) = list[N]
    BY Zenon DEF EvaluationList
<1>2. ASSUME NEW n \in 1 .. N
      PROVE  /\ AskedBy(st, requests[n]) \in S
             /\ requests[n].phase = "evaluation" => requests[n].to \in Elements(AskedBy(st, requests[n]))
    <2>1. requests[n] \in Request
        OBVIOUS
    <2>2. requests[n].to \in Modules
        BY <2>1 DEF Request
    <2>3. AsyncDependencies(st, requests[n].to) \in S
        BY <2>2, AsyncFacts
    <2>4. <<requests[n].to>> \in S /\ requests[n].to \in Elements(<<requests[n].to>>)
        BY <2>2 DEF Elements
    <2> QED
        BY <2>3, <2>4 DEF AskedBy
<1>3. ASSUME NEW n \in 1 .. N, NEW l \in S
      PROVE  /\ Longer(l, n) \in S
             /\ Elements(l) \subseteq Elements(Longer(l, n))
             /\ Elements(AskedBy(st, requests[n])) \subseteq Elements(Longer(l, n))
    BY <1>2, ScheduledFacts
<1>4. F \in [(1 .. N) \X S -> S] /\ N \in Nat /\ <<>> \in S
    <2>1. N \in Nat /\ <<>> \in S
        OBVIOUS
    <2> HIDE DEF Longer, S, N
    <2> QED
        BY <1>3, <2>1
<1>5. PICK f \in [0 .. N -> S] : Repeats(f, <<>>, F, N)
    <2>1. N \in Nat
        BY <1>4
    <2>2. <<>> \in S
        BY <1>4
    <2>3. F \in [(1 .. N) \X S -> S]
        BY <1>4
    <2> HIDE DEF F, N, S
    <2> QED
        BY <2>1, <2>2, <2>3, Recursion, Zenon
<1> HIDE DEF S, Longer
<1>6. f = G(f)
    <2>1. ASSUME NEW n \in 0 .. N PROVE f[n] = G(f)[n]
        <3>1. CASE n = 0
            BY <3>1, <1>5 DEF Repeats
        <3>2. CASE n # 0
            <4>1. n \in 1 .. N /\ n - 1 \in 0 .. N
                BY <3>2, <1>4
            <4>2. f[n] = F[<<n, f[n - 1]>>] /\ f[n - 1] \in S
                BY <4>1, <1>5 DEF Repeats
            <4>3. F[<<n, f[n - 1]>>] = Longer(f[n - 1], n)
                BY <4>1, <4>2
            <4>4. G(f)[n] = Longer(f[n - 1], n)
                BY <3>2
            <4> QED
                BY <4>2, <4>3, <4>4
        <3> QED
            BY <3>1, <3>2
    <2> QED
        BY <2>1
<1>7. list = G(list)
    <2> HIDE DEF G
    <2> QED
        BY <1>6
<1>8. list[0] = <<>> /\ \A n \in 1 .. N : list[n] = Longer(list[n - 1], n)
    <2>1. \A n \in 0 .. N : G(list)[n] = IF n = 0 THEN <<>> ELSE Longer(list[n - 1], n)
        OBVIOUS
    <2> HIDE DEF list, G
    <2>2. \A n \in 0 .. N : list[n] = IF n = 0 THEN <<>> ELSE Longer(list[n - 1], n)
        BY <1>7, <2>1
    <2> QED
        BY <2>2, <1>4
<1> HIDE DEF list, F, G, N
<1> DEFINE Has(k, n) == requests[k].phase = "evaluation" => requests[k].to \in Elements(list[n])
           P == {n \in Nat : n <= N => list[n] \in S /\ \A k \in 1 .. n : Has(k, n)}
<1>9. 0 \in P
    BY <1>8, <1>4
<1>10. ASSUME NEW n \in Nat, n \in P PROVE n + 1 \in P
    <2> SUFFICES ASSUME n + 1 <= N PROVE list[n + 1] \in S /\ \A k \in 1 .. n + 1 : Has(k, n + 1)
        OBVIOUS
    <2>1. list[n] \in S /\ \A k \in 1 .. n : Has(k, n)
        BY <1>4, <1>10
    <2>2. list[n + 1] = Longer(list[n], n + 1) /\ n + 1 \in 1 .. N
        BY <1>4, <1>8
    <2>3. /\ list[n + 1] \in S
          /\ Elements(list[n]) \subseteq Elements(list[n + 1])
          /\ Elements(AskedBy(st, requests[n + 1])) \subseteq Elements(list[n + 1])
        BY <2>1, <2>2, <1>3
    <2>4. Has(n + 1, n + 1)
        BY <2>2, <2>3, <1>2
    <2>5. ASSUME NEW k \in 1 .. n PROVE Has(k, n + 1)
        BY <2>1, <2>3
    <2> QED
        BY <2>3, <2>4, <2>5
<1>11. N \in P
    <2> HIDE DEF P
    <2> QED
        BY <1>4, <1>9, <1>10, NumbersFrom
<1>12. list[N] \in S /\ \A k \in 1 .. N : Has(k, N)
    BY <1>4, <1>11
<1> QED
    BY <1>1, <1>12 DEF S, N

----------------------------------------------------------------------------
(* The inductive invariant.                                                 *)

CallType == [k : Kinds, of : Modules, list : Seq(Modules), resumed : BOOLEAN]

TypeInv ==
    /\ program \in Programs
    /\ status \in [Modules -> Statuses]
    /\ errors \subseteq Modules /\ throwing \in BOOLEAN
    /\ suspended \in Seq(Modules)
    /\ suspendOnAwait \in BOOLEAN /\ awaitSuspended \in BOOLEAN
    /\ calls \in Seq(CallType)
    /\ awaits \in [Modules -> 0 .. MaxAwaits] /\ imports \in 0 .. MaxImports
    /\ starts \in [Modules -> Nat]
    /\ ended \subseteq Modules /\ lateErrors \subseteq Modules /\ orphaned \in BOOLEAN

Height == Len(calls)

\* The calls that evaluate the module they are of, or are about to, and those
\* that stand for a module which is under way.
Evaluates(call) == call.k \in {"ensure", "body", "drain"}
StandsFor(call, m) == call.of = m /\ call.k \in {"host", "ensure", "body", "drain"}

\* What calls what.
FitsOn(b, c) ==
    /\ c.k # "host"
    /\ c.k \in {"walk", "resume"} => b.k \in {"host", "ensure", "import"}
    /\ c.k \in {"import", "touch"} => b.k \in {"body", "drain"}
    /\ Evaluates(c) => c.of # Main
    /\ Evaluates(c) /\ ~c.resumed => b.k \in {"walk", "touch"}
    /\ Evaluates(c) /\ c.resumed => b.k = "resume" /\ c.k # "ensure"
    /\ Evaluates(c) /\ b.k = "touch" => c.of = b.of

AdjacentInv ==
    calls # <<>> =>
        /\ calls[1].of = Main /\ calls[1].k \in {"host", "body", "drain"} /\ ~calls[1].resumed
        /\ \A i \in 2 .. Height : FitsOn(calls[i - 1], calls[i])

\* What is thrown is on its way up.
ThrowInv == throwing => At("walk") \/ At("ensure") \/ At("import") \/ At("touch") \/ At("host")

\* The main module is never requested again: it has been under way from the start.
MainInv ==
    /\ status[Main] \in {"none", "Evaluating", "Evaluated"}
    /\ status[Main] = "none" => ~throwing /\ Height = 1 /\ calls[1].k = "host"
    /\ status[Main] = "Evaluated" => calls = <<>>

\* A module is evaluated by one call at a time.
OneCallEach ==
    \A i, j \in 1 .. Height :
        Evaluates(calls[i]) /\ Evaluates(calls[j]) /\ calls[i].of = calls[j].of => i = j

StatusInv ==
    /\ \A i \in 1 .. Height :
          Evaluates(calls[i]) /\ ~calls[i].resumed => status[calls[i].of] = "Evaluating"
    /\ \A m \in Modules : status[m] = "Evaluating" /\ calls # <<>> =>
          \E i \in 1 .. Height : StandsFor(calls[i], m)

\* The modules that are held at a call of the stack; the queue is site 0.
Held(call) ==
    IF call.k = "resume" THEN Elements(call.list)
    ELSE IF IsResumed(call) THEN {call.of} ELSE {}
Site(i) == IF i = 0 THEN Elements(suspended) ELSE Held(calls[i])

OnceEach(s) == \A i, j \in DOMAIN s : s[i] = s[j] => i = j

HeldInv ==
    /\ OnceEach(suspended)
    /\ \A i \in 1 .. Height : calls[i].k = "resume" => OnceEach(calls[i].list)
    /\ \A i, j \in 0 .. Height, m \in Modules : m \in Site(i) /\ m \in Site(j) => i = j
    /\ \A m \in Modules : status[m] = "EvaluatingAsync" <=> \E i \in 0 .. Height : m \in Site(i)

\* Who has a record has loaded what it requests.
LoadInv == \A m \in Modules : HasRecord(m) => \A d \in Wanted(m) : HasRecord(d) \/ d \in errors

StackInv ==
    TypeInv /\ AdjacentInv /\ ThrowInv /\ MainInv /\ OneCallEach /\ StatusInv /\ HeldInv /\ LoadInv

----------------------------------------------------------------------------
(* The stack after a step.                                                  *)

Same(k) == \A i \in 1 .. k : calls'[i] = calls[i]

LEMMA TopFacts ==
    ASSUME TypeInv, calls # <<>>
    PROVE  /\ Height \in Nat \ {0} /\ Top = calls[Height] /\ Top \in CallType
           /\ DOMAIN calls = 1 .. Height
           /\ \A i \in 1 .. Height : calls[i] \in CallType
BY DEF TypeInv, Height, Top

LEMMA BelowFacts ==
    ASSUME TypeInv, calls # <<>>
    PROVE  /\ Below \in Seq(CallType) /\ Len(Below) = Height - 1
           /\ \A i \in 1 .. Height - 1 : Below[i] = calls[i]
<1>1. calls \in Seq(CallType) /\ Height \in Nat \ {0}
    BY DEF TypeInv, Height
<1>2. 1 \in Nat /\ Height - 1 \in Nat /\ Height - 1 <= Len(calls)
    BY <1>1 DEF Height
<1> DEFINE n == Height - 1
           f == [i \in 1 .. n |-> calls[i]]
<1>3. Below = f
    BY <1>1, <1>2 DEF Below, Height
<1>4. \A i \in 1 .. n : calls[i] \in CallType
    BY <1>1, <1>2 DEF Height
<1>5. n \in Nat
    BY <1>2
<1> HIDE DEF n
<1>6. f \in Seq(CallType) /\ Len(f) = n
    BY <1>4, <1>5
<1> QED
    BY <1>3, <1>6 DEF n

LEMMA Pops ==
    ASSUME TypeInv, calls # <<>>, calls' = Below
    PROVE  calls' \in Seq(CallType) /\ Len(calls') = Height - 1 /\ Same(Height - 1)
BY BelowFacts DEF Same

LEMMA Replaces ==
    ASSUME TypeInv, calls # <<>>, NEW c \in CallType, calls' = Becomes(c)
    PROVE  /\ calls' \in Seq(CallType) /\ Len(calls') = Height /\ Same(Height - 1)
           /\ calls'[Height] = c
BY BelowFacts, TopFacts DEF Becomes, Same

LEMMA ReplacesAndPushes ==
    ASSUME TypeInv, calls # <<>>, NEW c \in CallType, NEW d \in CallType,
           calls' = Becomes(c) \o <<d>>
    PROVE  /\ calls' \in Seq(CallType) /\ Len(calls') = Height + 1 /\ Same(Height - 1)
           /\ calls'[Height] = c /\ calls'[Height + 1] = d
BY BelowFacts, TopFacts DEF Becomes, Same

LEMMA ReplacesAndPushesTwo ==
    ASSUME TypeInv, calls # <<>>, NEW c \in CallType, NEW d \in CallType, NEW e \in CallType,
           calls' = Becomes(c) \o <<d, e>>
    PROVE  /\ calls' \in Seq(CallType) /\ Len(calls') = Height + 2 /\ Same(Height - 1)
           /\ calls'[Height] = c /\ calls'[Height + 1] = d /\ calls'[Height + 2] = e
BY BelowFacts, TopFacts DEF Becomes, Same

LEMMA PushesTwo ==
    ASSUME TypeInv, calls # <<>>, NEW c \in CallType, NEW d \in CallType,
           calls' = calls \o <<c, d>>
    PROVE  /\ calls' \in Seq(CallType) /\ Len(calls') = Height + 2 /\ Same(Height)
           /\ calls'[Height + 1] = c /\ calls'[Height + 2] = d
BY DEF TypeInv, Height, Same

LEMMA PushesThree ==
    ASSUME TypeInv, calls # <<>>,
           NEW c \in CallType, NEW d \in CallType, NEW e \in CallType,
           calls' = calls \o <<c, d, e>>
    PROVE  /\ calls' \in Seq(CallType) /\ Len(calls') = Height + 3 /\ Same(Height)
           /\ calls'[Height + 1] = c /\ calls'[Height + 2] = d /\ calls'[Height + 3] = e
BY DEF TypeInv, Height, Same

LEMMA Pushes ==
    ASSUME TypeInv, calls # <<>>, NEW c \in CallType, calls' = Append(calls, c)
    PROVE  /\ calls' \in Seq(CallType) /\ Len(calls') = Height + 1 /\ Same(Height)
           /\ calls'[Height + 1] = c
BY DEF TypeInv, Height, Same

----------------------------------------------------------------------------
(* What each action does to the stack.                                      *)

LEMMA CallsOf ==
    ASSUME NEW k \in Kinds, NEW m \in Modules, NEW list \in Seq(Modules)
    PROVE  /\ Call(k, m, list) \in CallType
           /\ Call(k, m, list).k = k /\ Call(k, m, list).of = m
           /\ Call(k, m, list).list = list /\ ~Call(k, m, list).resumed
BY DEF Call, CallType

LEMMA NewCall ==
    ASSUME NEW k \in Kinds, NEW m \in Modules
    PROVE  /\ Call(k, m, <<>>) \in CallType
           /\ Call(k, m, <<>>).k = k /\ Call(k, m, <<>>).of = m
           /\ ~Call(k, m, <<>>).resumed
<1>1. <<>> \in Seq(Modules)
    OBVIOUS
<1> DEFINE Fits(c) == c \in CallType /\ c.k = k /\ c.of = m /\ ~c.resumed
<1>2. \A list \in Seq(Modules) : Fits(Call(k, m, list))
    BY CallsOf
<1>3. Fits(Call(k, m, <<>>))
    <2> HIDE DEF Fits
    <2> QED
        BY <1>1, <1>2, Zenon
<1> QED
    BY <1>3, Zenon

LEMMA LoadFacts ==
    ASSUME TypeInv, NEW S \in SUBSET Modules, NEW st \in [Modules -> Statuses], Load(S, st)
    PROVE  /\ status' \in [Modules -> Statuses]
           /\ errors \subseteq errors' /\ errors' \subseteq Modules
           /\ \A m \in Modules : st[m] # "none" => status'[m] = st[m]
           /\ \A m \in Modules : st[m] = "none" => status'[m] \in {"none", "Linked"}
           /\ \A m \in Modules : st[m] = "none" /\ status'[m] = "Linked" => m \notin errors'
           /\ \A m \in errors' : m \in errors \/ (st[m] = "none" /\ status'[m] = "none")
           /\ \A m \in S : status'[m] # "none" \/ m \in errors'
           /\ \A m \in Modules : st[m] = "none" /\ status'[m] # "none" =>
                 \A d \in Wanted(m) : status'[d] # "none" \/ d \in errors'
<1> DEFINE new == {m \in Modules : st[m] = "none" /\ m \notin errors}
           closed(T) == /\ S \cap new \subseteq T
                        /\ \A l \in T \ program.broken : Wanted(l) \cap new \subseteq T
           fresh == {m \in new : \A T \in SUBSET new : closed(T) => m \in T}
<1>1. Loaded(S, st) = fresh
    BY DEF Loaded
<1>2. /\ status' = [m \in Modules |-> IF m \in fresh \ program.broken THEN "Linked" ELSE st[m]]
      /\ errors' = errors \cup (fresh \cap program.broken)
    BY <1>1 DEF Load
<1>3. fresh \subseteq new /\ S \cap new \subseteq fresh
    OBVIOUS
<1>4. ASSUME NEW l \in fresh \ program.broken, NEW d \in Wanted(l), d \in new PROVE d \in fresh
    <2> SUFFICES ASSUME NEW T \in SUBSET new, closed(T) PROVE d \in T
        BY <1>4
    <2>1. l \in T
        BY <1>4
    <2> QED
        BY <2>1, <1>4
<1>5. \A m \in Modules : Wanted(m) \subseteq Modules
    BY ProgramFacts DEF TypeInv
<1>6. errors \subseteq Modules
    BY DEF TypeInv
<1> HIDE DEF fresh
<1>7. status' \in [Modules -> Statuses]
    BY <1>2 DEF Statuses
<1>8. \A m \in Modules : status'[m] = IF m \in fresh \ program.broken THEN "Linked" ELSE st[m]
    BY <1>2
<1>9. \A m \in Modules : m \in new => m \in fresh \/ m \notin S
    BY <1>3
<1>10. \A m \in Modules : st[m] = "none" /\ status'[m] # "none" =>
                 \A d \in Wanted(m) : status'[d] # "none" \/ d \in errors'
    <2> SUFFICES ASSUME NEW m \in Modules, st[m] = "none", status'[m] # "none",
                        NEW d \in Wanted(m), d \notin errors'
                 PROVE  status'[d] # "none"
        OBVIOUS
    <2>1. m \in fresh \ program.broken /\ d \in Modules
        BY <1>5, <1>8
    <2>2. CASE d \in new
        <3>1. d \in fresh
            BY <1>4, <2>1, <2>2
        <3> QED
            BY <3>1, <2>1, <1>2, <1>8
    <2>3. CASE d \notin new
        BY <2>1, <2>3, <1>2, <1>8, <1>3
    <2> QED
        BY <2>2, <2>3
<1>11. \A m \in S : status'[m] # "none" \/ m \in errors'
    BY <1>2, <1>8, <1>9
<1>12. \A m \in fresh : st[m] = "none" /\ m \notin errors
    BY <1>3
<1>13. /\ \A m \in Modules : st[m] # "none" => status'[m] = st[m]
       /\ \A m \in Modules : st[m] = "none" => status'[m] \in {"none", "Linked"}
    BY <1>8, <1>12
<1>14. \A m \in Modules : st[m] = "none" /\ status'[m] = "Linked" => m \notin errors'
    <2> SUFFICES ASSUME NEW m \in Modules, st[m] = "none", status'[m] = "Linked" PROVE m \notin errors'
        OBVIOUS
    <2>1. m \in fresh \ program.broken
        BY <1>8
    <2> QED
        BY <2>1, <1>2, <1>12
<1>15. \A m \in errors' : m \in errors \/ (st[m] = "none" /\ status'[m] = "none")
    <2>1. ASSUME NEW m \in errors', m \notin errors PROVE st[m] = "none" /\ status'[m] = "none"
        <3>1. m \in fresh \cap program.broken /\ m \in Modules
            BY <2>1, <1>2, <1>3
        <3> QED
            BY <3>1, <1>8, <1>12
    <2> QED
        BY <2>1, Zenon
<1>16. errors \subseteq errors' /\ errors' \subseteq Modules
    BY <1>2, <1>3, <1>6
<1> QED
    BY <1>7, <1>10, <1>11, <1>13, <1>14, <1>15, <1>16

LEMMA WalkFacts ==
    ASSUME program \in Programs, NEW st, NEW m \in Modules
    PROVE  /\ Walk(st, m, Requests(m)) \in CallType
           /\ Walk(st, m, Requests(m)).k = "walk" /\ ~Walk(st, m, Requests(m)).resumed
           /\ \A i \in DOMAIN Requests(m) : Requests(m)[i].phase = "evaluation"
                 => Requests(m)[i].to \in Elements(Walk(st, m, Requests(m)).list)
<1>1. Requests(m) \in Seq(Request)
    BY ProgramFacts
<1> HIDE DEF Requests
<1>2. EvaluationList(st, Requests(m)) \in Seq(Modules)
    BY <1>1, ListFacts
<1>3. "walk" \in Kinds
    BY DEF Kinds
<1> QED
    BY <1>1, <1>2, <1>3, ListFacts, CallsOf DEF Walk

LEMMA ImportWalk ==
    ASSUME program \in Programs, NEW st, NEW m \in Modules
    PROVE  LET w == Walk(st, m, <<[to |-> m, phase |-> "evaluation"]>>)
           IN  w \in CallType /\ w.k = "walk" /\ ~w.resumed
<1>1. <<[to |-> m, phase |-> "evaluation"]>> \in Seq(Request)
    BY DEF Request, Phase
<1>2. EvaluationList(st, <<[to |-> m, phase |-> "evaluation"]>>) \in Seq(Modules)
    BY <1>1, ListFacts
<1>3. "walk" \in Kinds
    BY DEF Kinds
<1> QED
    BY <1>2, <1>3, CallsOf DEF Walk

LEMMA ListHead ==
    ASSUME NEW s \in Seq(Modules), s # <<>>
    PROVE  /\ Head(s) \in Modules /\ Tail(s) \in Seq(Modules)
           /\ Elements(s) = {Head(s)} \cup Elements(Tail(s))
           /\ OnceEach(s) => OnceEach(Tail(s)) /\ Head(s) \notin Elements(Tail(s))
<1>1. /\ Head(s) \in Modules /\ Tail(s) \in Seq(Modules) /\ Head(s) = s[1]
      /\ DOMAIN s = 1 .. Len(s) /\ DOMAIN Tail(s) = 1 .. Len(s) - 1 /\ Len(s) \in Nat \ {0}
    OBVIOUS
<1>2. \A i \in 1 .. Len(s) - 1 : Tail(s)[i] = s[i + 1]
    OBVIOUS
<1>3. \A x \in Elements(s) : x \in {Head(s)} \cup Elements(Tail(s))
    <2> SUFFICES ASSUME NEW i \in 1 .. Len(s), i # 1 PROVE s[i] \in Elements(Tail(s))
        BY <1>1 DEF Elements
    <2>1. i - 1 \in 1 .. Len(s) - 1 /\ (i - 1) + 1 = i
        BY <1>1
    <2>2. Tail(s)[i - 1] = s[i]
        BY <2>1, <1>2
    <2> QED
        BY <2>1, <2>2, <1>1 DEF Elements
<1>4. \A i \in 1 .. Len(s) - 1 : i + 1 \in 1 .. Len(s)
    BY <1>1
<1>5. \A x \in Elements(Tail(s)) : x \in Elements(s)
    BY <1>1, <1>2, <1>4 DEF Elements
<1>6. Head(s) \in Elements(s)
    BY <1>1 DEF Elements
<1>7. ASSUME OnceEach(s) PROVE OnceEach(Tail(s)) /\ Head(s) \notin Elements(Tail(s))
    BY <1>1, <1>2, <1>4, <1>7 DEF OnceEach, Elements
<1> QED
    BY <1>1, <1>3, <1>5, <1>6, <1>7

LEMMA WalkPassesFacts ==
    ASSUME TypeInv, WalkPasses
    PROVE  /\ calls # <<>> /\ Top.k = "walk" /\ ~throwing /\ Top.list # <<>>
           /\ Passed(Head(Top.list))
           /\ calls' \in Seq(CallType) /\ Len(calls') = Height /\ Same(Height - 1)
           /\ calls'[Height].k = "walk" /\ calls'[Height].of = Top.of
           /\ calls'[Height].list = Tail(Top.list) /\ calls'[Height].resumed = Top.resumed
           /\ UNCHANGED <<program, status, errors, throwing, suspended, flags, imports,
                          awaits, history>>
<1>1. calls # <<>> /\ Top.k = "walk" /\ ~throwing /\ Top.list # <<>> /\ Passed(Head(Top.list))
    BY DEF WalkPasses, At
<1>2. Top \in CallType
    BY <1>1, TopFacts
<1> DEFINE c == [Top EXCEPT !.list = Tail(@)]
<1>3. c \in CallType /\ c.k = Top.k /\ c.of = Top.of /\ c.list = Tail(Top.list)
      /\ c.resumed = Top.resumed
    BY <1>1, <1>2 DEF CallType
<1>4. calls' = Becomes(c)
    BY DEF WalkPasses
<1> HIDE DEF c
<1>5. calls' \in Seq(CallType) /\ Len(calls') = Height /\ Same(Height - 1) /\ calls'[Height] = c
    BY <1>1, <1>3, <1>4, Replaces
<1> QED
    BY <1>1, <1>3, <1>5 DEF WalkPasses

LEMMA WalkBreaksFacts ==
    ASSUME TypeInv, WalkBreaks
    PROVE  /\ calls # <<>> /\ Top.k = "walk" /\ ~throwing /\ throwing'
           /\ UNCHANGED <<calls, program, status, errors, suspended, flags, imports,
                          awaits, history>>
BY DEF WalkBreaks, At

LEMMA WalkEntersFacts ==
    ASSUME TypeInv, WalkEnters
    PROVE  LET m == Head(Top.list) IN
           /\ calls # <<>> /\ Top.k = "walk" /\ ~throwing /\ Top.list # <<>>
           /\ m \in Modules /\ status[m] = "Linked" /\ m \notin errors
           /\ status' = [status EXCEPT ![m] = "Evaluating"]
           /\ calls' \in Seq(CallType) /\ Len(calls') = Height + 2 /\ Same(Height - 1)
           /\ calls'[Height].k = "walk" /\ calls'[Height].of = Top.of
           /\ calls'[Height].list = Tail(Top.list) /\ calls'[Height].resumed = Top.resumed
           /\ calls'[Height + 1].k = "ensure" /\ calls'[Height + 1].of = m
           /\ ~calls'[Height + 1].resumed
           /\ calls'[Height + 2].k = "walk" /\ ~calls'[Height + 2].resumed
           /\ \A i \in DOMAIN Requests(m) : Requests(m)[i].phase = "evaluation"
                 => Requests(m)[i].to \in Elements(calls'[Height + 2].list)
           /\ UNCHANGED <<program, errors, throwing, suspended, flags, imports, awaits, history>>
<1> DEFINE m == Head(Top.list)
           c == [Top EXCEPT !.list = Tail(@)]
           d == Call("ensure", m, <<>>)
           e == Walk(status', m, Requests(m))
<1>1. calls # <<>> /\ Top.k = "walk" /\ ~throwing /\ Top.list # <<>>
    BY DEF WalkEnters, At
<1>2. Top \in CallType
    BY <1>1, TopFacts
<1>3. Top.list \in Seq(Modules) /\ Top.list # <<>>
    BY <1>1, <1>2 DEF CallType
<1>4. m \in Modules /\ Tail(Top.list) \in Seq(Modules)
    BY <1>3
<1>5. c \in CallType /\ c.k = Top.k /\ c.of = Top.of /\ c.list = Tail(Top.list)
      /\ c.resumed = Top.resumed
    BY <1>2, <1>4 DEF CallType
<1>6. d \in CallType /\ d.k = "ensure" /\ d.of = m /\ ~d.resumed
    <2>1. "ensure" \in Kinds
        BY DEF Kinds
    <2>2. m \in Modules
        BY <1>4
    <2> QED
        BY <2>1, <2>2, NewCall, Zenon
<1>7. e \in CallType /\ e.k = "walk" /\ ~e.resumed
      /\ \A i \in DOMAIN Requests(m) : Requests(m)[i].phase = "evaluation"
            => Requests(m)[i].to \in Elements(e.list)
    <2>1. program \in Programs
        BY DEF TypeInv
    <2> HIDE DEF m
    <2> QED
        BY <1>4, <2>1, WalkFacts
<1>8. calls' = Becomes(c) \o <<d, e>>
    BY DEF WalkEnters
<1> HIDE DEF c, d, e
<1>9. /\ calls' \in Seq(CallType) /\ Len(calls') = Height + 2 /\ Same(Height - 1)
      /\ calls'[Height] = c /\ calls'[Height + 1] = d /\ calls'[Height + 2] = e
    BY <1>1, <1>5, <1>6, <1>7, <1>8, ReplacesAndPushesTwo
<1>10. status[m] = "Linked" /\ m \notin errors /\ status' = [status EXCEPT ![m] = "Evaluating"]
       /\ UNCHANGED <<program, errors, throwing, suspended, flags, imports, awaits, history>>
    BY DEF WalkEnters
<1> QED
    BY <1>1, <1>4, <1>5, <1>6, <1>7, <1>9, <1>10

NoWalks(n) == \A i \in 1 .. n : calls[i].k # "walk"

LEMMA DepthFacts ==
    ASSUME TypeInv, calls # <<>>
    PROVE  Depth(Below) = 0 <=> NoWalks(Height - 1)
<1> DEFINE W == {i \in DOMAIN Below : Below[i].k = "walk"}
<1>1. Below \in Seq(CallType) /\ Len(Below) = Height - 1
      /\ \A i \in 1 .. Height - 1 : Below[i] = calls[i]
    BY BelowFacts
<1>2. DOMAIN Below = 1 .. Height - 1 /\ Height - 1 \in Nat
    BY <1>1, TopFacts
<1>3. IsFiniteSet(W)
    <2>1. IsFiniteSet(1 .. Height - 1)
        BY <1>2, FS_Interval
    <2> QED
        BY <2>1, <1>2, FS_Subset
<1>4. W = {} <=> NoWalks(Height - 1)
    BY <1>1, <1>2 DEF NoWalks
<1>5. Depth(Below) = Cardinality(W)
    BY DEF Depth
<1> HIDE DEF W
<1>6. Cardinality(W) = 0 <=> W = {}
    BY <1>3, FS_EmptySet
<1> QED
    BY <1>4, <1>5, <1>6

LEMMA WalkEndsFacts ==
    ASSUME TypeInv, WalkEnds
    PROVE  /\ calls # <<>> /\ Top.k = "walk" /\ (Top.list = <<>> \/ throwing)
           /\ calls' \in Seq(CallType) /\ Same(Height - 1)
           /\ \/ /\ NoWalks(Height - 1) /\ ~throwing /\ suspended # <<>>
                 /\ Len(calls') = Height
                 /\ calls'[Height].k = "resume" /\ calls'[Height].of = Main
                 /\ calls'[Height].list = suspended /\ ~calls'[Height].resumed
                 /\ suspended' = <<>> /\ UNCHANGED orphaned
              \/ /\ ~NoWalks(Height - 1) \/ throwing \/ suspended = <<>>
                 /\ Len(calls') = Height - 1 /\ UNCHANGED suspended
                 /\ orphaned' = (orphaned \/ (NoWalks(Height - 1) /\ throwing /\ suspended # <<>>))
           /\ UNCHANGED <<program, status, errors, throwing, flags, imports, awaits,
                          starts, ended, lateErrors>>
<1>1. calls # <<>> /\ Top.k = "walk" /\ (Top.list = <<>> \/ throwing)
    BY DEF WalkEnds, At
<1>2. Depth(Below) = 0 <=> NoWalks(Height - 1)
    BY <1>1, DepthFacts
<1>3. orphaned' = (orphaned \/ (NoWalks(Height - 1) /\ throwing /\ suspended # <<>>))
    BY <1>2, Zenon DEF WalkEnds
<1>4. UNCHANGED <<program, status, errors, throwing, flags, imports, awaits,
                  starts, ended, lateErrors>>
    BY DEF WalkEnds
<1>5. orphaned \in BOOLEAN
    BY DEF TypeInv
<1>6. CASE NoWalks(Height - 1) /\ ~throwing /\ suspended # <<>>
    <2> DEFINE c == Call("resume", Main, suspended)
    <2>1. calls' = Becomes(c) /\ suspended' = <<>>
        BY <1>2, <1>6 DEF WalkEnds
    <2>2. "resume" \in Kinds /\ suspended \in Seq(Modules) /\ Main \in Modules
        BY MainAssumption DEF Kinds, TypeInv
    <2>3. c \in CallType /\ c.k = "resume" /\ c.of = Main /\ c.list = suspended /\ ~c.resumed
        BY <2>2, CallsOf
    <2> HIDE DEF c
    <2>4. calls' \in Seq(CallType) /\ Len(calls') = Height /\ Same(Height - 1) /\ calls'[Height] = c
        BY <1>1, <2>1, <2>3, Replaces
    <2>5. orphaned' = orphaned
        BY <1>3, <1>5, <1>6
    <2> QED
        BY <1>1, <1>4, <1>6, <2>1, <2>3, <2>4, <2>5
<1>7. CASE ~(NoWalks(Height - 1) /\ ~throwing /\ suspended # <<>>)
    <2>1. calls' = Below /\ suspended' = suspended
        BY <1>2, <1>7 DEF WalkEnds
    <2>2. calls' \in Seq(CallType) /\ Len(calls') = Height - 1 /\ Same(Height - 1)
        BY <1>1, <2>1, Pops
    <2> QED
        BY <1>1, <1>3, <1>4, <1>7, <2>1, <2>2
<1> QED
    BY <1>6, <1>7

LEMMA EnsureFailsFacts ==
    ASSUME TypeInv, EnsureFails
    PROVE  /\ calls # <<>> /\ Top.k = "ensure" /\ throwing
           /\ calls' \in Seq(CallType) /\ Len(calls') = Height - 1 /\ Same(Height - 1)
           /\ status' = [status EXCEPT ![Top.of] = "Linked"] /\ lateErrors' = FailsNow
           /\ UNCHANGED <<program, errors, throwing, suspended, flags, imports, awaits,
                          starts, ended, orphaned>>
<1>1. calls # <<>> /\ Top.k = "ensure" /\ throwing /\ calls' = Below
    BY DEF EnsureFails, At
<1>2. calls' \in Seq(CallType) /\ Len(calls') = Height - 1 /\ Same(Height - 1)
    BY <1>1, Pops
<1> QED
    BY <1>1, <1>2 DEF EnsureFails

LEMMA EnsureWaitsFacts ==
    ASSUME TypeInv, EnsureWaits
    PROVE  /\ calls # <<>> /\ Top.k = "ensure" /\ ~throwing /\ HasAsyncDependency(Top.of)
           /\ calls' \in Seq(CallType) /\ Len(calls') = Height - 1 /\ Same(Height - 1)
           /\ suspended' = Append(suspended, Top.of)
           /\ status' = [status EXCEPT ![Top.of] = "EvaluatingAsync"]
           /\ UNCHANGED <<program, errors, throwing, flags, imports, awaits, history>>
<1>1. calls # <<>> /\ Top.k = "ensure" /\ ~throwing /\ HasAsyncDependency(Top.of) /\ calls' = Below
    BY DEF EnsureWaits, At
<1>2. calls' \in Seq(CallType) /\ Len(calls') = Height - 1 /\ Same(Height - 1)
    BY <1>1, Pops
<1> QED
    BY <1>1, <1>2 DEF EnsureWaits, Suspend

LEMMA EnsureRunsFacts ==
    ASSUME TypeInv, EnsureRuns
    PROVE  /\ calls # <<>> /\ Top.k = "ensure" /\ ~throwing /\ ~HasAsyncDependency(Top.of)
           /\ calls' \in Seq(CallType) /\ Len(calls') = Height /\ Same(Height - 1)
           /\ calls'[Height].k = "body" /\ calls'[Height].of = Top.of /\ ~calls'[Height].resumed
           /\ suspendOnAwait' = TRUE
           /\ starts' = [starts EXCEPT ![Top.of] = @ + 1]
           /\ UNCHANGED <<program, status, errors, throwing, suspended, awaitSuspended,
                          imports, awaits, ended, lateErrors, orphaned>>
<1> DEFINE m == Top.of
           c == Call("body", m, <<>>)
<1>1. calls # <<>> /\ Top.k = "ensure" /\ ~throwing /\ ~HasAsyncDependency(Top.of)
      /\ calls' = Becomes(c)
    BY DEF EnsureRuns, At
<1>2. c \in CallType /\ c.k = "body" /\ c.of = m /\ ~c.resumed
    <2>1. "body" \in Kinds
        BY DEF Kinds
    <2>2. m \in Modules
        BY <1>1, TopFacts DEF CallType
    <2> HIDE DEF m
    <2> QED
        BY <2>1, <2>2, NewCall, Zenon
<1> HIDE DEF c
<1>3. calls' \in Seq(CallType) /\ Len(calls') = Height /\ Same(Height - 1) /\ calls'[Height] = c
    BY <1>1, <1>2, Replaces
<1> QED
    BY <1>1, <1>2, <1>3 DEF EnsureRuns

LEMMA AwaitFacts ==
    ASSUME TypeInv, Await
    PROVE  /\ calls # <<>> /\ Top.k = "body" /\ HasTla(Top.of) /\ awaits[Top.of] < MaxAwaits
           /\ awaits' = [awaits EXCEPT ![Top.of] = @ + 1]
           /\ \/ /\ suspendOnAwait /\ ~suspendOnAwait' /\ awaitSuspended'
                 /\ calls' \in Seq(CallType) /\ Len(calls') = Height /\ Same(Height - 1)
                 /\ calls'[Height].k = "drain" /\ calls'[Height].of = Top.of
                 /\ calls'[Height].resumed = Top.resumed
              \/ UNCHANGED <<flags, calls>>
           /\ UNCHANGED <<program, status, errors, throwing, suspended, imports, history>>
<1> DEFINE c == [Top EXCEPT !.k = "drain"]
<1>1. calls # <<>> /\ Top.k = "body" /\ HasTla(Top.of) /\ awaits[Top.of] < MaxAwaits
    BY DEF Await, At
<1>2. c \in CallType /\ c.k = "drain" /\ c.of = Top.of /\ c.resumed = Top.resumed
    BY <1>1, TopFacts DEF CallType, Kinds
<1>3. CASE suspendOnAwait
    <2>1. calls' = Becomes(c) /\ ~suspendOnAwait' /\ awaitSuspended'
        BY <1>3 DEF Await
    <2> HIDE DEF c
    <2>2. calls' \in Seq(CallType) /\ Len(calls') = Height /\ Same(Height - 1) /\ calls'[Height] = c
        BY <1>1, <1>2, <2>1, Replaces
    <2> QED
        BY <1>1, <1>2, <1>3, <2>1, <2>2 DEF Await
<1>4. CASE ~suspendOnAwait
    BY <1>1, <1>4 DEF Await
<1> QED
    BY <1>3, <1>4

LEMMA BodyEndsFacts ==
    ASSUME TypeInv, BodyEnds
    PROVE  /\ calls # <<>> /\ Top.k = "body"
           /\ ended' = ended \cup {Top.of}
           /\ calls' \in Seq(CallType) /\ Len(calls') = Height /\ Same(Height - 1)
           /\ calls'[Height].k = "drain" /\ calls'[Height].of = Top.of
           /\ calls'[Height].resumed = Top.resumed
           /\ UNCHANGED <<program, status, errors, throwing, suspended, flags, imports,
                          awaits, starts, lateErrors, orphaned>>
<1> DEFINE c == [Top EXCEPT !.k = "drain"]
<1>1. calls # <<>> /\ Top.k = "body" /\ calls' = Becomes(c)
    BY DEF BodyEnds, At
<1>2. c \in CallType /\ c.k = "drain" /\ c.of = Top.of /\ c.resumed = Top.resumed
    BY <1>1, TopFacts DEF CallType, Kinds
<1> HIDE DEF c
<1>3. calls' \in Seq(CallType) /\ Len(calls') = Height /\ Same(Height - 1) /\ calls'[Height] = c
    BY <1>1, <1>2, Replaces
<1> QED
    BY <1>1, <1>2, <1>3 DEF BodyEnds

LEMMA BodyThrowsFacts ==
    ASSUME TypeInv, BodyThrows
    PROVE  /\ calls # <<>> /\ (Top.k = "body" \/ (Top.k = "drain" /\ ~awaitSuspended))
           /\ Top.of # Main
           /\ status' = [status EXCEPT ![Top.of] = "Linked"]
           /\ errors' = errors \cup {Top.of}
           /\ throwing' = ~Top.resumed
           /\ lateErrors' = FailsNow
           /\ ~awaitSuspended'
           /\ calls' \in Seq(CallType) /\ Len(calls') = Height - 1 /\ Same(Height - 1)
           /\ UNCHANGED <<program, suspended, suspendOnAwait, imports, awaits, starts, ended,
                          orphaned>>
<1>1. calls # <<>> /\ (Top.k = "body" \/ (Top.k = "drain" /\ ~awaitSuspended)) /\ calls' = Below
    BY Zenon DEF BodyThrows, At
<1>2. calls' \in Seq(CallType) /\ Len(calls') = Height - 1 /\ Same(Height - 1)
    BY <1>1, Pops
<1> QED
    BY <1>1, <1>2 DEF BodyThrows, Propagates

LEMMA RunSuspendsFacts ==
    ASSUME TypeInv, RunSuspends
    PROVE  /\ calls # <<>> /\ Top.k = "drain" /\ Top.of # Main /\ awaitSuspended
           /\ ~awaitSuspended'
           /\ suspended' = Append(suspended, Top.of)
           /\ status' = [status EXCEPT ![Top.of] = "EvaluatingAsync"]
           /\ calls' \in Seq(CallType) /\ Len(calls') = Height - 1 /\ Same(Height - 1)
           /\ UNCHANGED <<program, errors, throwing, suspendOnAwait, imports, awaits, history>>
<1>1. calls # <<>> /\ Top.k = "drain" /\ Top.of # Main /\ awaitSuspended /\ calls' = Below
    BY DEF RunSuspends, At
<1>2. calls' \in Seq(CallType) /\ Len(calls') = Height - 1 /\ Same(Height - 1)
    BY <1>1, Pops
<1> QED
    BY <1>1, <1>2 DEF RunSuspends, Suspend

LEMMA RunFinishesFacts ==
    ASSUME TypeInv, RunFinishes
    PROVE  /\ calls # <<>> /\ Top.k = "drain" /\ (Top.of = Main \/ ~awaitSuspended)
           /\ status' = [status EXCEPT ![Top.of] = "Evaluated"]
           /\ errors' = errors \ {Top.of}
           /\ calls' \in Seq(CallType) /\ Len(calls') = Height - 1 /\ Same(Height - 1)
           /\ UNCHANGED <<program, throwing, suspended, flags, imports, awaits, history>>
<1>1. calls # <<>> /\ Top.k = "drain" /\ (Top.of = Main \/ ~awaitSuspended) /\ calls' = Below
    BY DEF RunFinishes, At
<1>2. calls' \in Seq(CallType) /\ Len(calls') = Height - 1 /\ Same(Height - 1)
    BY <1>1, Pops
<1> QED
    BY <1>1, <1>2 DEF RunFinishes, Finalize

LEMMA CallReturnsFacts ==
    ASSUME TypeInv, CallReturns
    PROVE  /\ calls # <<>> /\ Top.k \in {"import", "touch"} /\ ~throwing'
           /\ calls' \in Seq(CallType) /\ Len(calls') = Height - 1 /\ Same(Height - 1)
           /\ UNCHANGED <<program, status, errors, suspended, flags, imports, awaits, history>>
<1>1. calls # <<>> /\ Top.k \in {"import", "touch"} /\ calls' = Below
    BY Zenon DEF CallReturns, At
<1>2. calls' \in Seq(CallType) /\ Len(calls') = Height - 1 /\ Same(Height - 1)
    BY <1>1, Pops
<1> QED
    BY <1>1, <1>2 DEF CallReturns

LEMMA ResumeKeepsFacts ==
    ASSUME TypeInv, ResumeKeeps
    PROVE  /\ calls # <<>> /\ Top.k = "resume" /\ Top.list # <<>>
           /\ StillWaits(Head(Top.list))
           /\ suspended' = Append(suspended, Head(Top.list))
           /\ calls' \in Seq(CallType) /\ Len(calls') = Height /\ Same(Height - 1)
           /\ calls'[Height].k = "resume" /\ calls'[Height].of = Top.of
           /\ calls'[Height].list = Tail(Top.list) /\ calls'[Height].resumed = Top.resumed
           /\ UNCHANGED <<program, status, errors, throwing, flags, imports, awaits, history>>
<1> DEFINE c == [Top EXCEPT !.list = Tail(@)]
<1>1. calls # <<>> /\ Top.k = "resume" /\ Top.list # <<>> /\ calls' = Becomes(c)
    BY DEF ResumeKeeps, At
<1>2. Top \in CallType
    BY <1>1, TopFacts
<1>3. c \in CallType /\ c.k = Top.k /\ c.of = Top.of /\ c.list = Tail(Top.list)
      /\ c.resumed = Top.resumed
    BY <1>1, <1>2 DEF CallType
<1> HIDE DEF c
<1>4. calls' \in Seq(CallType) /\ Len(calls') = Height /\ Same(Height - 1) /\ calls'[Height] = c
    BY <1>1, <1>3, Replaces
<1> QED
    BY <1>1, <1>3, <1>4 DEF ResumeKeeps

LEMMA ResumeRunsFacts ==
    ASSUME TypeInv, ResumeRuns
    PROVE  LET m == Head(Top.list) IN
           /\ calls # <<>> /\ Top.k = "resume" /\ Top.list # <<>> /\ m \in Modules
           /\ ~StillWaits(m)
           /\ suspendOnAwait' = TRUE
           /\ starts' = [starts EXCEPT ![m] = IF awaits[m] = 0 THEN @ + 1 ELSE @]
           /\ calls' \in Seq(CallType) /\ Len(calls') = Height + 1 /\ Same(Height - 1)
           /\ calls'[Height].k = "resume" /\ calls'[Height].of = Top.of
           /\ calls'[Height].list = Tail(Top.list) /\ calls'[Height].resumed
           /\ calls'[Height + 1].k = "body" /\ calls'[Height + 1].of = m
           /\ calls'[Height + 1].resumed
           /\ UNCHANGED <<program, status, errors, throwing, suspended, awaitSuspended,
                          imports, awaits, ended, lateErrors, orphaned>>
<1> DEFINE m == Head(Top.list)
           c == [Top EXCEPT !.list = Tail(@), !.resumed = TRUE]
           d == Resumption(m)
<1>1. calls # <<>> /\ Top.k = "resume" /\ Top.list # <<>> /\ calls' = Becomes(c) \o <<d>>
    BY DEF ResumeRuns, At
<1>2. Top \in CallType
    BY <1>1, TopFacts
<1>3. m \in Modules /\ Tail(Top.list) \in Seq(Modules)
    BY <1>1, <1>2 DEF CallType
<1>4. c \in CallType /\ c.k = Top.k /\ c.of = Top.of /\ c.list = Tail(Top.list) /\ c.resumed
    BY <1>2, <1>3 DEF CallType
<1>5. d \in CallType /\ d.k = "body" /\ d.of = m /\ d.resumed
    <2> HIDE DEF m
    <2>1. <<>> \in Seq(Modules)
        OBVIOUS
    <2> QED
        BY <1>3, <2>1 DEF Resumption, CallType, Kinds
<1>6. /\ ~StillWaits(m) /\ suspendOnAwait' = TRUE
      /\ starts' = [starts EXCEPT ![m] = IF awaits[m] = 0 THEN @ + 1 ELSE @]
      /\ UNCHANGED <<program, status, errors, throwing, suspended, awaitSuspended,
                     imports, awaits, ended, lateErrors, orphaned>>
    BY DEF ResumeRuns
<1> HIDE DEF c, d
<1>7. calls' \in Seq(CallType) /\ Len(calls') = Height + 1 /\ Same(Height - 1)
      /\ calls'[Height] = c /\ calls'[Height + 1] = d
    BY <1>1, <1>4, <1>5, ReplacesAndPushes
<1> QED
    BY <1>1, <1>3, <1>4, <1>5, <1>6, <1>7

LEMMA ResumeEndsFacts ==
    ASSUME TypeInv, ResumeEnds
    PROVE  /\ calls # <<>> /\ Top.k = "resume" /\ Top.list = <<>>
           /\ calls' \in Seq(CallType) /\ Same(Height - 1)
           /\ \/ /\ Len(calls') = Height /\ suspended' = <<>>
                 /\ calls'[Height].k = "resume" /\ calls'[Height].of = Main
                 /\ calls'[Height].list = suspended /\ ~calls'[Height].resumed
              \/ /\ Len(calls') = Height - 1 /\ suspended' = suspended
                 /\ ~Top.resumed \/ suspended = <<>>
           /\ UNCHANGED <<program, status, errors, throwing, flags, imports, awaits, history>>
<1>1. calls # <<>> /\ Top.k = "resume" /\ Top.list = <<>>
    BY DEF ResumeEnds, At
<1>2. UNCHANGED <<program, status, errors, throwing, flags, imports, awaits, history>>
    BY DEF ResumeEnds
<1>3. CASE AnotherRound
    <2> DEFINE c == Call("resume", Main, suspended)
    <2>1. calls' = Becomes(c) /\ suspended' = <<>>
        BY <1>3 DEF ResumeEnds
    <2>2. "resume" \in Kinds /\ suspended \in Seq(Modules) /\ Main \in Modules
        BY MainAssumption DEF Kinds, TypeInv
    <2>3. c \in CallType /\ c.k = "resume" /\ c.of = Main /\ c.list = suspended /\ ~c.resumed
        BY <2>2, CallsOf
    <2> HIDE DEF c
    <2>4. calls' \in Seq(CallType) /\ Len(calls') = Height /\ Same(Height - 1) /\ calls'[Height] = c
        BY <1>1, <2>1, <2>3, Replaces
    <2> QED
        BY <1>1, <1>2, <2>1, <2>3, <2>4
<1>4. CASE ~AnotherRound
    <2>1. calls' = Below /\ suspended' = suspended
        BY <1>4 DEF ResumeEnds
    <2>2. calls' \in Seq(CallType) /\ Len(calls') = Height - 1 /\ Same(Height - 1)
        BY <1>1, <2>1, Pops
    <2> QED
        BY <1>1, <1>2, <1>4, <2>1, <2>2 DEF AnotherRound
<1> QED
    BY <1>3, <1>4

LEMMA HostLoadsFacts ==
    ASSUME TypeInv, HostLoads
    PROVE  LET st == [status EXCEPT ![Main] = "Evaluating"] IN
           /\ calls # <<>> /\ Top.k = "host" /\ status[Main] = "none"
           /\ st \in [Modules -> Statuses] /\ Wanted(Main) \subseteq Modules
           /\ Load(Wanted(Main), st)
           /\ \/ calls' = <<>>
              \/ /\ calls' \in Seq(CallType) /\ Len(calls') = Height + 1 /\ Same(Height)
                 /\ calls'[Height + 1].k = "walk" /\ ~calls'[Height + 1].resumed
                 /\ \A i \in DOMAIN Requests(Main) : Requests(Main)[i].phase = "evaluation"
                      => Requests(Main)[i].to \in Elements(calls'[Height + 1].list)
           /\ UNCHANGED <<program, throwing, suspended, flags, imports, awaits, history>>
<1> DEFINE st == [status EXCEPT ![Main] = "Evaluating"]
           c == Walk(status', Main, Requests(Main))
<1>1. calls # <<>> /\ Top.k = "host" /\ status[Main] = "none" /\ Load(Wanted(Main), st)
      /\ UNCHANGED <<program, throwing, suspended, flags, imports, awaits, history>>
    BY DEF HostLoads, At
<1>2. Main \in Modules /\ program \in Programs
    BY MainAssumption DEF TypeInv
<1>3. st \in [Modules -> Statuses] /\ Wanted(Main) \subseteq Modules
    <2>1. "Evaluating" \in Statuses
        BY DEF Statuses
    <2> QED
        BY <2>1, <1>2, ProgramFacts DEF TypeInv
<1>4. c \in CallType /\ c.k = "walk" /\ ~c.resumed
      /\ \A i \in DOMAIN Requests(Main) : Requests(Main)[i].phase = "evaluation"
            => Requests(Main)[i].to \in Elements(c.list)
    BY <1>2, WalkFacts
<1>5. calls' = <<>> \/ calls' = Append(calls, c)
    BY DEF HostLoads
<1> HIDE DEF c, st
<1>6. ASSUME calls' = Append(calls, c)
      PROVE  calls' \in Seq(CallType) /\ Len(calls') = Height + 1 /\ Same(Height)
             /\ calls'[Height + 1] = c
    BY <1>1, <1>4, <1>6, Pushes
<1> QED
    BY <1>1, <1>3, <1>4, <1>5, <1>6 DEF st

LEMMA HostRunsFacts ==
    ASSUME TypeInv, HostRuns
    PROVE  /\ calls # <<>> /\ Top.k = "host" /\ status[Main] = "Evaluating" /\ ~throwing
           /\ calls' \in Seq(CallType) /\ Len(calls') = 1
           /\ calls'[1].k = "body" /\ calls'[1].of = Main /\ ~calls'[1].resumed
           /\ starts' = [starts EXCEPT ![Main] = @ + 1]
           /\ UNCHANGED <<program, status, errors, throwing, suspended, flags, imports, awaits,
                          ended, lateErrors, orphaned>>
<1> DEFINE c == Call("body", Main, <<>>)
<1>1. c \in CallType /\ c.k = "body" /\ c.of = Main /\ ~c.resumed
    <2>1. "body" \in Kinds
        BY DEF Kinds
    <2> QED
        BY <2>1, MainAssumption, NewCall, Zenon
<1>2. calls # <<>> /\ Top.k = "host" /\ status[Main] = "Evaluating" /\ ~throwing /\ calls' = <<c>>
    BY DEF HostRuns, At
<1> HIDE DEF c
<1>3. calls' \in Seq(CallType) /\ Len(calls') = 1 /\ calls'[1] = c
    BY <1>1, <1>2
<1> QED
    BY <1>1, <1>2, <1>3 DEF HostRuns

LEMMA HostFailsFacts ==
    ASSUME TypeInv, HostFails
    PROVE  /\ calls # <<>>
           /\ (Top.k = "host" /\ throwing) \/ (Top.k \in {"body", "drain"} /\ Top.of = Main)
           /\ calls' = <<>> /\ ~throwing'
           /\ UNCHANGED <<program, status, errors, suspended, flags, imports, awaits, history>>
BY Zenon DEF HostFails, At

\* JavaScript runs, and nothing is thrown meanwhile.
LEMMA JsRunsFacts ==
    ASSUME JsRuns
    PROVE  /\ calls # <<>> /\ Top.k \in {"body", "drain"} /\ imports < MaxImports
           /\ Top.k = "drain" /\ awaitSuspended => ImportsInSuspension
<1>1. calls # <<>> /\ Top.k \in {"body", "drain"} /\ imports < MaxImports
    BY Zenon DEF JsRuns, At
<1>2. Top.k = "drain" /\ awaitSuspended => ImportsInSuspension
    BY DEF JsRuns, At
<1> QED
    BY <1>1, <1>2

LEMMA ImportFacts ==
    ASSUME TypeInv, NEW m \in Modules, Import(m)
    PROVE  /\ calls # <<>> /\ Top.k \in {"body", "drain"}
           /\ Top.k = "drain" /\ awaitSuspended => ImportsInSuspension
           /\ status[m] # "Evaluated" /\ imports < MaxImports /\ imports' = imports + 1
           /\ Load({m}, status)
           /\ \/ calls' = calls
              \/ /\ calls' \in Seq(CallType) /\ Len(calls') = Height + 2 /\ Same(Height)
                 /\ calls'[Height + 1].k = "import"
                 /\ calls'[Height + 2].k = "walk" /\ ~calls'[Height + 2].resumed
           /\ UNCHANGED <<program, throwing, suspended, flags, awaits, history>>
<1> DEFINE c == Call("import", m, <<>>)
           d == Walk(status', m, <<[to |-> m, phase |-> "evaluation"]>>)
<1>1. JsRuns /\ status[m] # "Evaluated" /\ imports' = imports + 1 /\ Load({m}, status)
      /\ UNCHANGED <<program, throwing, suspended, flags, awaits, history>>
    BY DEF Import
<1>2. c \in CallType /\ c.k = "import"
    <2>1. "import" \in Kinds
        BY DEF Kinds
    <2> QED
        BY <2>1, NewCall, Zenon
<1>3. d \in CallType /\ d.k = "walk" /\ ~d.resumed
    <2>1. program \in Programs
        BY DEF TypeInv
    <2> QED
        BY <2>1, ImportWalk
<1>4. calls' = calls \/ calls' = calls \o <<c, d>>
    BY DEF Import
<1>5. calls # <<>>
    BY <1>1, JsRunsFacts
<1> HIDE DEF c, d
<1>6. ASSUME calls' = calls \o <<c, d>>
      PROVE  calls' \in Seq(CallType) /\ Len(calls') = Height + 2 /\ Same(Height)
             /\ calls'[Height + 1] = c /\ calls'[Height + 2] = d
    BY <1>2, <1>3, <1>5, <1>6, PushesTwo
<1> QED
    BY <1>1, <1>2, <1>3, <1>4, <1>6, JsRunsFacts

LEMMA TouchFacts ==
    ASSUME TypeInv, NEW m \in Modules, Touch(m)
    PROVE  /\ calls # <<>> /\ Top.k \in {"body", "drain"}
           /\ Top.k = "drain" /\ awaitSuspended => ImportsInSuspension
           /\ m \notin errors /\ status[m] = "Linked" /\ Ready(m)
           /\ imports < MaxImports /\ imports' = imports + 1
           /\ status' = [status EXCEPT ![m] = "Evaluating"]
           /\ calls' \in Seq(CallType) /\ Len(calls') = Height + 3 /\ Same(Height)
           /\ calls'[Height + 1].k = "touch" /\ calls'[Height + 1].of = m
           /\ calls'[Height + 2].k = "ensure" /\ calls'[Height + 2].of = m
           /\ ~calls'[Height + 2].resumed
           /\ calls'[Height + 3].k = "walk" /\ ~calls'[Height + 3].resumed
           /\ \A i \in DOMAIN Requests(m) : Requests(m)[i].phase = "evaluation"
                 => Requests(m)[i].to \in Elements(calls'[Height + 3].list)
           /\ UNCHANGED <<program, errors, throwing, suspended, flags, awaits, history>>
<1> DEFINE c == Call("touch", m, <<>>)
           d == Call("ensure", m, <<>>)
           e == Walk(status', m, Requests(m))
<1>1. /\ JsRuns /\ m \notin errors /\ status[m] = "Linked" /\ Ready(m) /\ imports' = imports + 1
      /\ status' = [status EXCEPT ![m] = "Evaluating"] /\ calls' = calls \o <<c, d, e>>
      /\ UNCHANGED <<program, errors, throwing, suspended, flags, awaits, history>>
    BY DEF Touch
<1>2. c \in CallType /\ c.k = "touch" /\ c.of = m
    <2>1. "touch" \in Kinds
        BY DEF Kinds
    <2> QED
        BY <2>1, NewCall, Zenon
<1>3. d \in CallType /\ d.k = "ensure" /\ d.of = m /\ ~d.resumed
    <2>1. "ensure" \in Kinds
        BY DEF Kinds
    <2> QED
        BY <2>1, NewCall, Zenon
<1>4. e \in CallType /\ e.k = "walk" /\ ~e.resumed
      /\ \A i \in DOMAIN Requests(m) : Requests(m)[i].phase = "evaluation"
            => Requests(m)[i].to \in Elements(e.list)
    <2>1. program \in Programs
        BY DEF TypeInv
    <2> QED
        BY <2>1, WalkFacts
<1>5. calls # <<>>
    BY <1>1, JsRunsFacts
<1> HIDE DEF c, d, e
<1>6. calls' \in Seq(CallType) /\ Len(calls') = Height + 3 /\ Same(Height)
      /\ calls'[Height + 1] = c /\ calls'[Height + 2] = d /\ calls'[Height + 3] = e
    BY <1>1, <1>2, <1>3, <1>4, <1>5, PushesThree
<1> QED
    BY <1>1, <1>2, <1>3, <1>4, <1>6, JsRunsFacts

----------------------------------------------------------------------------
(* Types.                                                                   *)

LEMMA StatusesFacts ==
    /\ "none" \in Statuses /\ "Linked" \in Statuses /\ "Evaluating" \in Statuses
    /\ "EvaluatingAsync" \in Statuses /\ "Evaluated" \in Statuses
BY DEF Statuses

LEMMA TopTypes ==
    ASSUME TypeInv, calls # <<>>
    PROVE  /\ Top.of \in Modules /\ Top.list \in Seq(Modules) /\ Top.k \in Kinds
           /\ FailsNow \subseteq Modules
<1>1. Top.of \in Modules /\ Top.list \in Seq(Modules) /\ Top.k \in Kinds
    BY TopFacts DEF CallType
<1>2. FailsNow \subseteq Modules
    BY <1>1 DEF FailsNow, TypeInv
<1> QED
    BY <1>1, <1>2

LEMMA EmptyFacts == <<>> \in Seq(Modules) /\ <<>> \in Seq(CallType) /\ Elements(<<>>) = {}
<1>1. <<>> \in Seq(Modules) /\ <<>> \in Seq(CallType)
    OBVIOUS
<1>2. DOMAIN <<>> = {}
    OBVIOUS
<1> QED
    BY <1>1, <1>2, Zenon DEF Elements

LEMMA Counts ==
    ASSUME NEW f \in [Modules -> Nat], NEW m \in Modules
    PROVE  [f EXCEPT ![m] = @ + 1] \in [Modules -> Nat]
OBVIOUS

LEMMA TypeInit == Init => TypeInv
<1> SUFFICES ASSUME Init PROVE TypeInv
    OBVIOUS
<1>1. calls \in Seq(CallType)
    <2> DEFINE c == [k |-> "host", of |-> Main, list |-> <<>>, resumed |-> FALSE]
    <2>1. c \in CallType
        BY MainAssumption DEF CallType, Kinds
    <2>2. calls = <<c>>
        BY DEF Init
    <2> HIDE DEF c
    <2> QED
        BY <2>1, <2>2
<1>2. awaits \in [Modules -> 0 .. MaxAwaits] /\ imports \in 0 .. MaxImports
      /\ starts \in [Modules -> Nat]
    BY BoundsAssumption DEF Init
<1>3. status \in [Modules -> Statuses]
    BY StatusesFacts DEF Init
<1> QED
    BY <1>1, <1>2, <1>3, EmptyFacts DEF Init, TypeInv, flags, history

LEMMA TypeStep ==
    ASSUME TypeInv, [Next]_vars
    PROVE  TypeInv'
<1> USE DEF flags, history
<1>1. CASE UNCHANGED vars
    BY <1>1 DEF TypeInv, vars
<1>2. CASE WalkPasses
    BY <1>2, WalkPassesFacts DEF TypeInv
<1>3. CASE WalkBreaks
    BY <1>3, WalkBreaksFacts DEF TypeInv
<1>4. CASE WalkEnters
    <2>1. status' \in [Modules -> Statuses]
        BY <1>4, WalkEntersFacts, StatusesFacts DEF TypeInv
    <2> QED
        BY <1>4, <2>1, WalkEntersFacts DEF TypeInv
<1>5. CASE WalkEnds
    <2>1. calls' \in Seq(CallType) /\ suspended' \in Seq(Modules)
        BY <1>5, WalkEndsFacts, EmptyFacts DEF TypeInv
    <2>2. orphaned' \in BOOLEAN
        BY <1>5, Zenon DEF WalkEnds
    <2> QED
        BY <1>5, <2>1, <2>2, WalkEndsFacts DEF TypeInv
<1>6. CASE EnsureFails
    <2>1. status' \in [Modules -> Statuses] /\ lateErrors' \subseteq Modules
        BY <1>6, EnsureFailsFacts, StatusesFacts, TopTypes DEF TypeInv
    <2> QED
        BY <1>6, <2>1, EnsureFailsFacts DEF TypeInv
<1>7. CASE EnsureWaits
    <2>1. status' \in [Modules -> Statuses] /\ suspended' \in Seq(Modules)
        <3>1. calls # <<>> /\ suspended' = Append(suspended, Top.of)
              /\ status' = [status EXCEPT ![Top.of] = "EvaluatingAsync"]
            BY <1>7, EnsureWaitsFacts
        <3>2. Top.of \in Modules /\ suspended \in Seq(Modules) /\ status \in [Modules -> Statuses]
            BY <3>1, TopTypes DEF TypeInv
        <3> QED
            BY <3>1, <3>2, StatusesFacts, ElementsAppend
    <2> QED
        BY <1>7, <2>1, EnsureWaitsFacts DEF TypeInv
<1>8. CASE EnsureRuns
    <2>1. starts' \in [Modules -> Nat]
        <3>1. calls # <<>> /\ starts' = [starts EXCEPT ![Top.of] = @ + 1]
            BY <1>8, EnsureRunsFacts
        <3>2. Top.of \in Modules /\ starts \in [Modules -> Nat]
            BY <3>1, TopTypes DEF TypeInv
        <3> QED
            BY <3>1, <3>2, Counts
    <2> QED
        BY <1>8, <2>1, EnsureRunsFacts DEF TypeInv
<1>9. CASE ResumeKeeps
    <2>1. suspended' \in Seq(Modules)
        <3>1. calls # <<>> /\ Top.list # <<>> /\ suspended' = Append(suspended, Head(Top.list))
            BY <1>9, ResumeKeepsFacts
        <3>2. Top.list \in Seq(Modules) /\ suspended \in Seq(Modules)
            BY <3>1, TopTypes DEF TypeInv
        <3>3. Head(Top.list) \in Modules
            BY <3>1, <3>2, ListHead
        <3> QED
            BY <3>1, <3>2, <3>3, ElementsAppend
    <2> QED
        BY <1>9, <2>1, ResumeKeepsFacts DEF TypeInv
<1>10. CASE ResumeRuns
    <2>1. starts' \in [Modules -> Nat]
        <3> DEFINE m == Head(Top.list)
        <3>1. m \in Modules /\ starts' = [starts EXCEPT ![m] = IF awaits[m] = 0 THEN @ + 1 ELSE @]
            BY <1>10, ResumeRunsFacts
        <3>2. starts \in [Modules -> Nat]
            BY DEF TypeInv
        <3> HIDE DEF m
        <3>3. CASE awaits[m] = 0
            BY <3>1, <3>2, <3>3, Counts
        <3>4. CASE awaits[m] # 0
            BY <3>1, <3>2, <3>4
        <3> QED
            BY <3>3, <3>4
    <2> QED
        BY <1>10, <2>1, ResumeRunsFacts DEF TypeInv
<1>11. CASE ResumeEnds
    <2>1. suspended' \in Seq(Modules)
        BY <1>11, ResumeEndsFacts, EmptyFacts DEF TypeInv
    <2> QED
        BY <1>11, <2>1, ResumeEndsFacts DEF TypeInv
<1>12. CASE RunSuspends
    <2>1. status' \in [Modules -> Statuses] /\ suspended' \in Seq(Modules)
        <3>1. calls # <<>> /\ suspended' = Append(suspended, Top.of)
              /\ status' = [status EXCEPT ![Top.of] = "EvaluatingAsync"]
            BY <1>12, RunSuspendsFacts
        <3>2. Top.of \in Modules /\ suspended \in Seq(Modules) /\ status \in [Modules -> Statuses]
            BY <3>1, TopTypes DEF TypeInv
        <3> QED
            BY <3>1, <3>2, StatusesFacts, ElementsAppend
    <2>2. awaitSuspended' \in BOOLEAN
        BY <1>12, RunSuspendsFacts, Zenon DEF RunSuspends
    <2> QED
        BY <1>12, <2>1, <2>2, RunSuspendsFacts DEF TypeInv
<1>13. CASE RunFinishes
    <2>1. status' \in [Modules -> Statuses] /\ errors' \subseteq Modules
        BY <1>13, RunFinishesFacts, StatusesFacts, TopTypes DEF TypeInv
    <2> QED
        BY <1>13, <2>1, RunFinishesFacts DEF TypeInv
<1>14. CASE CallReturns
    <2>1. throwing' \in BOOLEAN
        BY <1>14 DEF CallReturns
    <2> QED
        BY <1>14, <2>1, CallReturnsFacts DEF TypeInv
<1>15. CASE HostLoads
    <2> DEFINE st == [status EXCEPT ![Main] = "Evaluating"]
    <2>1. st \in [Modules -> Statuses] /\ Wanted(Main) \in SUBSET Modules /\ Load(Wanted(Main), st)
        BY <1>15, HostLoadsFacts
    <2> HIDE DEF st
    <2>2. status' \in [Modules -> Statuses] /\ errors' \subseteq Modules
        BY <2>1, LoadFacts
    <2>3. calls' \in Seq(CallType)
        BY <1>15, HostLoadsFacts, EmptyFacts
    <2> QED
        BY <1>15, <2>2, <2>3, HostLoadsFacts DEF TypeInv
<1>16. CASE HostRuns
    <2>1. starts' \in [Modules -> Nat]
        BY <1>16, HostRunsFacts, MainAssumption DEF TypeInv
    <2> QED
        BY <1>16, <2>1, HostRunsFacts DEF TypeInv
<1>17. CASE Await
    <2>1. awaits' \in [Modules -> 0 .. MaxAwaits]
        <3>1. calls # <<>> /\ awaits[Top.of] < MaxAwaits /\ awaits' = [awaits EXCEPT ![Top.of] = @ + 1]
            BY <1>17, AwaitFacts
        <3>2. Top.of \in Modules
            BY <3>1, TopTypes
        <3>3. awaits[Top.of] + 1 \in 0 .. MaxAwaits
            BY <3>1, <3>2, BoundsAssumption DEF TypeInv
        <3> QED
            BY <3>1, <3>2, <3>3 DEF TypeInv
    <2>2. suspendOnAwait' \in BOOLEAN /\ awaitSuspended' \in BOOLEAN
        BY <1>17 DEF Await, TypeInv
    <2>3. calls' \in Seq(CallType)
        BY <1>17, AwaitFacts DEF TypeInv
    <2> QED
        BY <1>17, <2>1, <2>2, <2>3, AwaitFacts DEF TypeInv
<1>18. CASE BodyEnds
    <2>1. ended' \subseteq Modules
        BY <1>18, BodyEndsFacts, TopTypes DEF TypeInv
    <2> QED
        BY <1>18, <2>1, BodyEndsFacts DEF TypeInv
<1>19. CASE BodyThrows
    <2>1. status' \in [Modules -> Statuses] /\ lateErrors' \subseteq Modules /\ errors' \subseteq Modules
        BY <1>19, BodyThrowsFacts, StatusesFacts, TopTypes DEF TypeInv
    <2>2. throwing' \in BOOLEAN /\ awaitSuspended' \in BOOLEAN
        BY <1>19, Zenon DEF BodyThrows, Propagates
    <2> QED
        BY <1>19, <2>1, <2>2, BodyThrowsFacts DEF TypeInv
<1>20. CASE HostFails
    <2>1. calls' \in Seq(CallType) /\ throwing' \in BOOLEAN
        BY <1>20, EmptyFacts DEF HostFails
    <2> QED
        BY <1>20, <2>1, HostFailsFacts DEF TypeInv
<1>21. ASSUME NEW m \in Modules, Import(m) PROVE TypeInv'
    <2>1. Load({m}, status) /\ status \in [Modules -> Statuses] /\ {m} \in SUBSET Modules
        BY <1>21, ImportFacts DEF TypeInv
    <2>2. status' \in [Modules -> Statuses] /\ errors' \subseteq Modules
        BY <2>1, LoadFacts
    <2>3. imports' \in 0 .. MaxImports
        <3>1. imports < MaxImports /\ imports' = imports + 1
            BY <1>21, ImportFacts
        <3> QED
            BY <3>1, BoundsAssumption DEF TypeInv
    <2>4. calls' \in Seq(CallType)
        BY <1>21, ImportFacts DEF TypeInv
    <2> QED
        BY <1>21, <2>2, <2>3, <2>4, ImportFacts DEF TypeInv
<1>22. ASSUME NEW m \in Modules, Touch(m) PROVE TypeInv'
    <2>1. status' \in [Modules -> Statuses]
        <3>1. status' = [status EXCEPT ![m] = "Evaluating"]
            BY <1>22, TouchFacts
        <3> QED
            BY <3>1, StatusesFacts DEF TypeInv
    <2>2. imports' \in 0 .. MaxImports
        BY <1>22, TouchFacts, BoundsAssumption DEF TypeInv
    <2> QED
        BY <1>22, <2>1, <2>2, TouchFacts DEF TypeInv
<1> QED
    BY <1>1, <1>2, <1>3, <1>4, <1>5, <1>6, <1>7, <1>8, <1>9, <1>10, <1>11, <1>12, <1>13, <1>14,
       <1>15, <1>16, <1>17, <1>18, <1>19, <1>20, <1>21, <1>22
       DEF Next, Evaluate, Javascript

----------------------------------------------------------------------------
(* The stack of calls.                                                      *)

Bottom(c) == c.of = Main /\ c.k \in {"host", "body", "drain"} /\ ~c.resumed

LEMMA PlaceOnStack ==
    ASSUME TypeInv, AdjacentInv, calls # <<>>
    PROVE  /\ Height = 1 => Bottom(Top)
           /\ Height > 1 => FitsOn(calls[Height - 1], Top)
           /\ Top.k = "host" => Height = 1
           /\ Evaluates(Top) => (Height = 1 <=> Top.of = Main)
           /\ Top.k \in {"walk", "resume", "import", "touch", "ensure"} => Height > 1
           /\ Top.resumed /\ Evaluates(Top) => Height > 1
<1>1. Height \in Nat \ {0} /\ Top = calls[Height]
    BY TopFacts
<1>2. Height = 1 => Bottom(Top)
    BY <1>1 DEF AdjacentInv, Bottom
<1>3. Height > 1 => FitsOn(calls[Height - 1], Top)
    BY <1>1 DEF AdjacentInv
<1>4. Top.k = "host" => ~(Height > 1)
    BY <1>3 DEF FitsOn
<1>5. Evaluates(Top) /\ Height > 1 => Top.of # Main
    BY <1>3 DEF FitsOn
<1> QED
    BY <1>1, <1>2, <1>3, <1>4, <1>5 DEF Bottom

LEMMA AdjacentPops ==
    ASSUME TypeInv, AdjacentInv, calls # <<>>,
           calls' \in Seq(CallType), Len(calls') = Height - 1, Same(Height - 1)
    PROVE  AdjacentInv'
<1> SUFFICES ASSUME calls' # <<>>
             PROVE  /\ Bottom(calls'[1])
                    /\ \A i \in 2 .. Height - 1 : FitsOn(calls'[i - 1], calls'[i])
    BY DEF AdjacentInv, Height, Bottom
<1>1. Height \in Nat \ {0} /\ Height > 1
    BY TopFacts
<1>2. calls'[1] = calls[1] /\ \A i \in 2 .. Height - 1 : calls'[i] = calls[i] /\ calls'[i - 1] = calls[i - 1]
    BY <1>1 DEF Same
<1>3. Bottom(calls[1]) /\ \A i \in 2 .. Height : FitsOn(calls[i - 1], calls[i])
    BY DEF AdjacentInv, Bottom
<1> QED
    BY <1>1, <1>2, <1>3

LEMMA AdjacentGrows ==
    ASSUME TypeInv, AdjacentInv, calls # <<>>,
           calls' \in Seq(CallType), Len(calls') >= Height, Same(Height - 1),
           Height = 1 => Bottom(calls'[1]),
           Height > 1 => FitsOn(calls[Height - 1], calls'[Height]),
           \A i \in Height + 1 .. Len(calls') : FitsOn(calls'[i - 1], calls'[i])
    PROVE  AdjacentInv'
<1> DEFINE n == Len(calls')
<1>1. Height \in Nat \ {0} /\ n \in Nat
    BY TopFacts
<1> SUFFICES Bottom(calls'[1]) /\ \A i \in 2 .. n : FitsOn(calls'[i - 1], calls'[i])
    BY DEF AdjacentInv, Height, Bottom
<1>2. Bottom(calls[1]) /\ \A i \in 2 .. Height : FitsOn(calls[i - 1], calls[i])
    BY DEF AdjacentInv, Bottom
<1>3. Bottom(calls'[1])
    BY <1>1, <1>2 DEF Same
<1>4. ASSUME NEW i \in 2 .. n PROVE FitsOn(calls'[i - 1], calls'[i])
    <2>1. CASE i < Height
        <3>1. calls'[i] = calls[i] /\ calls'[i - 1] = calls[i - 1]
            BY <1>1, <2>1 DEF Same
        <3> QED
            BY <1>1, <1>2, <2>1, <3>1
    <2>2. CASE i = Height
        <3>1. calls'[i - 1] = calls[i - 1] /\ Height > 1
            BY <1>1, <2>2 DEF Same
        <3> QED
            BY <2>2, <3>1
    <2>3. CASE i > Height
        BY <1>1, <2>3
    <2> QED
        BY <1>1, <2>1, <2>2, <2>3
<1> QED
    BY <1>3, <1>4

\* Who is about to be evaluated is not the main module.
LEMMA NotMain ==
    ASSUME TypeInv, MainInv, HeldInv
    PROVE  /\ \A m \in Modules : status[m] = "Linked" => m # Main
           /\ calls # <<>> /\ Top.k = "resume" => \A m \in Elements(Top.list) : m # Main
<1>1. status[Main] # "Linked" /\ status[Main] # "EvaluatingAsync"
    BY DEF MainInv
<1>2. ASSUME calls # <<>>, Top.k = "resume", NEW m \in Elements(Top.list) PROVE m # Main
    <2>1. Height \in Nat \ {0} /\ Top = calls[Height] /\ Top.list \in Seq(Modules)
        BY <1>2, TopFacts, TopTypes
    <2>2. m \in Modules
        BY <2>1, <1>2 DEF Elements
    <2>3. Height \in 0 .. Height /\ m \in Site(Height)
        BY <2>1, <1>2 DEF Site, Held
    <2>4. status[m] = "EvaluatingAsync"
        BY <2>2, <2>3 DEF HeldInv
    <2> QED
        BY <2>4, <1>1
<1> QED
    BY <1>1, <1>2

LEMMA AdjacentStep ==
    ASSUME TypeInv, AdjacentInv, MainInv, HeldInv, Next
    PROVE  AdjacentInv'
<1> USE DEF Evaluates
<1>1. CASE calls' = calls
    BY <1>1 DEF AdjacentInv, Height
<1>2. CASE WalkPasses
    <2>1. /\ calls # <<>> /\ Top.k = "walk" /\ calls' \in Seq(CallType) /\ Len(calls') = Height
          /\ Same(Height - 1) /\ calls'[Height].k = "walk" /\ calls'[Height].of = Top.of
          /\ calls'[Height].resumed = Top.resumed
        BY <1>2, WalkPassesFacts
    <2>2. Height \in Nat /\ Height > 1 /\ FitsOn(calls[Height - 1], Top)
        BY <2>1, PlaceOnStack, TopFacts
    <2>3. FitsOn(calls[Height - 1], calls'[Height])
        BY <2>1, <2>2 DEF FitsOn
    <2> QED
        BY <2>1, <2>2, <2>3, AdjacentGrows
<1>3. CASE WalkEnters
    <2>1. /\ calls # <<>> /\ Top.k = "walk" /\ calls' \in Seq(CallType) /\ Len(calls') = Height + 2
          /\ Same(Height - 1) /\ calls'[Height].k = "walk" /\ calls'[Height].of = Top.of
          /\ calls'[Height].resumed = Top.resumed
          /\ calls'[Height + 1].k = "ensure" /\ ~calls'[Height + 1].resumed
          /\ calls'[Height + 2].k = "walk" /\ ~calls'[Height + 2].resumed
        BY <1>3, WalkEntersFacts
    <2>2. Height \in Nat /\ Height > 1 /\ FitsOn(calls[Height - 1], Top)
        BY <2>1, PlaceOnStack, TopFacts
    <2>3. FitsOn(calls[Height - 1], calls'[Height])
        BY <2>1, <2>2 DEF FitsOn
    <2>4. calls'[Height + 1].of # Main
        BY <1>3, WalkEntersFacts, NotMain
    <2>5. FitsOn(calls'[Height], calls'[Height + 1]) /\ FitsOn(calls'[Height + 1], calls'[Height + 2])
        BY <2>1, <2>4 DEF FitsOn
    <2>6. ASSUME NEW i \in Height + 1 .. Len(calls') PROVE FitsOn(calls'[i - 1], calls'[i])
        <3>1. (i = Height + 1 /\ i - 1 = Height) \/ (i = Height + 2 /\ i - 1 = Height + 1)
            BY <2>1, <2>2
        <3> QED
            BY <3>1, <2>5
    <2> QED
        BY <2>1, <2>2, <2>3, <2>6, AdjacentGrows
<1>4. CASE WalkEnds
    <2>1. /\ calls # <<>> /\ Top.k = "walk" /\ calls' \in Seq(CallType) /\ Same(Height - 1)
          /\ \/ Len(calls') = Height - 1
             \/ Len(calls') = Height /\ calls'[Height].k = "resume"
        BY <1>4, WalkEndsFacts
    <2>2. Height \in Nat /\ Height > 1 /\ FitsOn(calls[Height - 1], Top)
        BY <2>1, PlaceOnStack, TopFacts
    <2>3. CASE Len(calls') = Height - 1
        BY <2>1, <2>3, AdjacentPops
    <2>4. CASE Len(calls') = Height /\ calls'[Height].k = "resume"
        <3>1. FitsOn(calls[Height - 1], calls'[Height])
            BY <2>1, <2>2, <2>4 DEF FitsOn
        <3> QED
            BY <2>1, <2>2, <2>4, <3>1, AdjacentGrows
    <2> QED
        BY <2>1, <2>3, <2>4
<1>5. CASE EnsureRuns
    <2>1. /\ calls # <<>> /\ Top.k = "ensure" /\ calls' \in Seq(CallType) /\ Len(calls') = Height
          /\ Same(Height - 1) /\ calls'[Height].k = "body" /\ calls'[Height].of = Top.of
          /\ ~calls'[Height].resumed
        BY <1>5, EnsureRunsFacts
    <2>2. Height \in Nat /\ Height > 1 /\ FitsOn(calls[Height - 1], Top)
        BY <2>1, PlaceOnStack, TopFacts
    <2>3. FitsOn(calls[Height - 1], calls'[Height])
        BY <2>1, <2>2 DEF FitsOn
    <2> QED
        BY <2>1, <2>2, <2>3, AdjacentGrows
<1>6. CASE ResumeKeeps
    <2>1. /\ calls # <<>> /\ Top.k = "resume" /\ calls' \in Seq(CallType) /\ Len(calls') = Height
          /\ Same(Height - 1) /\ calls'[Height].k = "resume"
        BY <1>6, ResumeKeepsFacts
    <2>2. Height \in Nat /\ Height > 1 /\ FitsOn(calls[Height - 1], Top)
        BY <2>1, PlaceOnStack, TopFacts
    <2>3. FitsOn(calls[Height - 1], calls'[Height])
        BY <2>1, <2>2 DEF FitsOn
    <2> QED
        BY <2>1, <2>2, <2>3, AdjacentGrows
<1>7. CASE ResumeRuns
    <2>1. /\ calls # <<>> /\ Top.k = "resume" /\ Top.list # <<>>
          /\ calls' \in Seq(CallType) /\ Len(calls') = Height + 1
          /\ Same(Height - 1) /\ calls'[Height].k = "resume" /\ calls'[Height + 1].k = "body"
          /\ calls'[Height + 1].of = Head(Top.list) /\ calls'[Height + 1].resumed
        BY <1>7, ResumeRunsFacts
    <2>2. Height \in Nat /\ Height > 1 /\ FitsOn(calls[Height - 1], Top)
        BY <2>1, PlaceOnStack, TopFacts
    <2>3. FitsOn(calls[Height - 1], calls'[Height])
        BY <2>1, <2>2 DEF FitsOn
    <2>4. calls'[Height + 1].of # Main
        <3>1. Top.list \in Seq(Modules)
            BY <2>1, TopTypes
        <3>2. Head(Top.list) \in Elements(Top.list)
            BY <2>1, <3>1, ListHead
        <3> QED
            BY <2>1, <3>2, NotMain
    <2>5. FitsOn(calls'[Height], calls'[Height + 1])
        BY <2>1, <2>4 DEF FitsOn
    <2>6. ASSUME NEW i \in Height + 1 .. Len(calls') PROVE FitsOn(calls'[i - 1], calls'[i])
        <3>1. i = Height + 1 /\ i - 1 = Height
            BY <2>1, <2>2
        <3> QED
            BY <3>1, <2>5
    <2> QED
        BY <2>1, <2>2, <2>3, <2>6, AdjacentGrows
<1>8. CASE ResumeEnds
    <2>1. /\ calls # <<>> /\ Top.k = "resume" /\ calls' \in Seq(CallType) /\ Same(Height - 1)
          /\ \/ Len(calls') = Height - 1
             \/ Len(calls') = Height /\ calls'[Height].k = "resume"
        BY <1>8, ResumeEndsFacts
    <2>2. Height \in Nat /\ Height > 1 /\ FitsOn(calls[Height - 1], Top)
        BY <2>1, PlaceOnStack, TopFacts
    <2>3. CASE Len(calls') = Height - 1
        BY <2>1, <2>3, AdjacentPops
    <2>4. CASE Len(calls') = Height /\ calls'[Height].k = "resume"
        <3>1. FitsOn(calls[Height - 1], calls'[Height])
            BY <2>1, <2>2, <2>4 DEF FitsOn
        <3> QED
            BY <2>1, <2>2, <2>4, <3>1, AdjacentGrows
    <2> QED
        BY <2>1, <2>3, <2>4
<1>9. CASE EnsureFails \/ EnsureWaits \/ RunSuspends \/ RunFinishes \/ CallReturns \/ BodyThrows
    <2>1. calls # <<>> /\ calls' \in Seq(CallType) /\ Len(calls') = Height - 1 /\ Same(Height - 1)
        BY <1>9, EnsureFailsFacts, EnsureWaitsFacts, RunSuspendsFacts, RunFinishesFacts,
           CallReturnsFacts, BodyThrowsFacts
    <2> QED
        BY <2>1, AdjacentPops
<1>10. CASE HostLoads
    <2>1. /\ calls # <<>> /\ Top.k = "host"
          /\ \/ calls' = <<>>
             \/ /\ calls' \in Seq(CallType) /\ Len(calls') = Height + 1 /\ Same(Height)
                /\ calls'[Height + 1].k = "walk"
        BY <1>10, HostLoadsFacts
    <2>2. CASE calls' = <<>>
        BY <2>2 DEF AdjacentInv
    <2>3. CASE calls' # <<>>
        <3>1. Height = 1 /\ Bottom(Top) /\ Top = calls[Height]
            BY <2>1, PlaceOnStack, TopFacts
        <3>2. calls'[1] = Top /\ Len(calls') = 2 /\ Same(0)
            BY <2>1, <2>3, <3>1 DEF Same
        <3>3. FitsOn(calls'[1], calls'[2])
            BY <2>1, <2>3, <3>1, <3>2 DEF FitsOn
        <3>4. ASSUME NEW i \in Height + 1 .. Len(calls') PROVE FitsOn(calls'[i - 1], calls'[i])
            <4>1. i = 2 /\ i - 1 = 1
                BY <3>1, <3>2
            <4> QED
                BY <4>1, <3>3
        <3> QED
            BY <2>1, <2>3, <3>1, <3>2, <3>4, AdjacentGrows
    <2> QED
        BY <2>2, <2>3
<1>11. CASE HostRuns
    <2>1. /\ calls' \in Seq(CallType) /\ Len(calls') = 1
          /\ calls'[1].k = "body" /\ calls'[1].of = Main /\ ~calls'[1].resumed
        BY <1>11, HostRunsFacts
    <2> QED
        BY <2>1 DEF AdjacentInv, Height
<1>12. CASE HostFails
    BY <1>12, HostFailsFacts DEF AdjacentInv
<1>13. CASE (Await \/ BodyEnds) /\ calls' # calls
    <2>1. /\ calls # <<>> /\ Top.k = "body" /\ calls' \in Seq(CallType) /\ Len(calls') = Height
          /\ Same(Height - 1) /\ calls'[Height].k = "drain" /\ calls'[Height].of = Top.of
          /\ calls'[Height].resumed = Top.resumed
        <3>1. CASE Await
            BY <1>13, <3>1, AwaitFacts
        <3>2. CASE BodyEnds
            BY <3>2, BodyEndsFacts
        <3> QED
            BY <1>13, <3>1, <3>2
    <2>2. Height = 1 => Bottom(calls'[1])
        BY <2>1, PlaceOnStack DEF Bottom
    <2>3. Height > 1 => FitsOn(calls[Height - 1], calls'[Height])
        BY <2>1, PlaceOnStack DEF FitsOn
    <2>4. \A i \in Height + 1 .. Len(calls') : FitsOn(calls'[i - 1], calls'[i])
        BY <2>1, TopFacts
    <2>5. Len(calls') >= Height
        BY <2>1, TopFacts
    <2> QED
        BY <2>1, <2>2, <2>3, <2>4, <2>5, AdjacentGrows
<1>14. ASSUME NEW m \in Modules, Import(m), calls' # calls PROVE AdjacentInv'
    <2>1. /\ calls # <<>> /\ Top.k \in {"body", "drain"}
          /\ calls' \in Seq(CallType) /\ Len(calls') = Height + 2 /\ Same(Height)
          /\ calls'[Height + 1].k = "import" /\ calls'[Height + 2].k = "walk"
        BY <1>14, ImportFacts
    <2>2. Height \in Nat \ {0} /\ Top = calls[Height]
        BY <2>1, TopFacts
    <2>3. calls'[Height] = Top /\ Same(Height - 1)
        BY <2>1, <2>2 DEF Same
    <2>4. FitsOn(calls'[Height], calls'[Height + 1]) /\ FitsOn(calls'[Height + 1], calls'[Height + 2])
        BY <2>1, <2>3 DEF FitsOn
    <2>5. ASSUME NEW i \in Height + 1 .. Len(calls') PROVE FitsOn(calls'[i - 1], calls'[i])
        <3>1. (i = Height + 1 /\ i - 1 = Height) \/ (i = Height + 2 /\ i - 1 = Height + 1)
            BY <2>1, <2>2
        <3> QED
            BY <3>1, <2>4
    <2> QED
        BY <2>1, <2>2, <2>3, <2>5, PlaceOnStack, AdjacentGrows
<1>15. ASSUME NEW m \in Modules, Touch(m) PROVE AdjacentInv'
    <2>1. /\ calls # <<>> /\ Top.k \in {"body", "drain"} /\ status[m] = "Linked"
          /\ calls' \in Seq(CallType) /\ Len(calls') = Height + 3 /\ Same(Height)
          /\ calls'[Height + 1].k = "touch" /\ calls'[Height + 1].of = m
          /\ calls'[Height + 2].k = "ensure" /\ calls'[Height + 2].of = m
          /\ ~calls'[Height + 2].resumed
          /\ calls'[Height + 3].k = "walk"
        BY <1>15, TouchFacts
    <2>2. Height \in Nat \ {0} /\ Top = calls[Height] /\ m # Main
        BY <2>1, TopFacts, NotMain
    <2>3. calls'[Height] = Top /\ Same(Height - 1)
        BY <2>1, <2>2 DEF Same
    <2>4. /\ FitsOn(calls'[Height], calls'[Height + 1])
          /\ FitsOn(calls'[Height + 1], calls'[Height + 2])
          /\ FitsOn(calls'[Height + 2], calls'[Height + 3])
        BY <2>1, <2>2, <2>3 DEF FitsOn
    <2>5. ASSUME NEW i \in Height + 1 .. Len(calls') PROVE FitsOn(calls'[i - 1], calls'[i])
        <3>1. \/ i = Height + 1 /\ i - 1 = Height
              \/ i = Height + 2 /\ i - 1 = Height + 1
              \/ i = Height + 3 /\ i - 1 = Height + 2
            BY <2>1, <2>2
        <3> QED
            BY <3>1, <2>4
    <2> QED
        BY <2>1, <2>2, <2>3, <2>5, PlaceOnStack, AdjacentGrows
<1>16. CASE WalkBreaks
    BY <1>1, <1>16, WalkBreaksFacts
<1> QED
    BY <1>1, <1>2, <1>3, <1>4, <1>5, <1>6, <1>7, <1>8, <1>9, <1>10, <1>11, <1>12, <1>13, <1>14,
       <1>15, <1>16 DEF Next, Evaluate, Javascript

LEMMA AdjacentInit == Init => AdjacentInv
BY DEF Init, AdjacentInv, Height

----------------------------------------------------------------------------
(* What is thrown, and the main module.                                     *)

\* The call that is on top after a return.
LEMMA Returns ==
    ASSUME TypeInv, AdjacentInv, calls # <<>>, Height > 1,
           calls' \in Seq(CallType), Len(calls') = Height - 1, Same(Height - 1)
    PROVE  /\ calls' # <<>> /\ Top' = calls[Height - 1] /\ FitsOn(Top', Top)
<1>1. Height \in Nat /\ FitsOn(calls[Height - 1], Top)
    BY TopFacts, PlaceOnStack
<1>2. Top' = calls'[Height - 1] /\ calls' # <<>>
    BY <1>1 DEF Top
<1>3. calls'[Height - 1] = calls[Height - 1]
    BY <1>1 DEF Same
<1> QED
    BY <1>1, <1>2, <1>3

LEMMA ThrowStep ==
    ASSUME TypeInv, AdjacentInv, MainInv, ThrowInv, Next
    PROVE  ThrowInv'
<1> SUFFICES ASSUME throwing'
             PROVE  calls' # <<>> /\ Top'.k \in {"walk", "ensure", "import", "touch", "host"}
    BY DEF ThrowInv, At
<1>1. throwing => calls # <<>> /\ Top.k \in {"walk", "ensure", "import", "touch", "host"}
    BY Zenon DEF ThrowInv, At
<1>2. CASE WalkBreaks
    BY <1>2, WalkBreaksFacts DEF Top
<1>3. CASE WalkEnds
    <2>1. throwing /\ calls # <<>> /\ Top.k = "walk" /\ Height > 1
          /\ calls' \in Seq(CallType) /\ Len(calls') = Height - 1 /\ Same(Height - 1)
        BY <1>3, WalkEndsFacts, PlaceOnStack
    <2> QED
        BY <2>1, Returns DEF FitsOn
<1>4. CASE EnsureFails
    <2>1. calls # <<>> /\ Top.k = "ensure" /\ Height > 1
          /\ calls' \in Seq(CallType) /\ Len(calls') = Height - 1 /\ Same(Height - 1)
        BY <1>4, EnsureFailsFacts, PlaceOnStack
    <2> QED
        BY <2>1, Returns DEF FitsOn, Evaluates
<1>5. CASE BodyThrows
    <2>1. calls # <<>> /\ Top.k \in {"body", "drain"} /\ Top.of # Main /\ ~Top.resumed
          /\ calls' \in Seq(CallType) /\ Len(calls') = Height - 1 /\ Same(Height - 1)
        BY <1>5, BodyThrowsFacts
    <2>2. Height > 1
        BY <2>1, PlaceOnStack, TopFacts DEF Bottom
    <2> QED
        BY <2>1, <2>2, Returns DEF FitsOn, Evaluates
<1>6. ASSUME NEW m \in Modules, Import(m) PROVE FALSE
    BY <1>1, <1>6, ImportFacts
<1>7. ASSUME NEW m \in Modules, Touch(m) PROVE FALSE
    BY <1>1, <1>7, TouchFacts
<1>8. ~(CallReturns \/ HostFails)
    BY CallReturnsFacts, HostFailsFacts
<1>9. ~(WalkPasses \/ WalkEnters \/ EnsureWaits \/ EnsureRuns \/ HostRuns)
    BY WalkPassesFacts, WalkEntersFacts, EnsureWaitsFacts, EnsureRunsFacts, HostRunsFacts
<1>10. ~(Await \/ BodyEnds \/ RunSuspends \/ RunFinishes)
    BY <1>1, AwaitFacts, BodyEndsFacts, RunSuspendsFacts, RunFinishesFacts
<1>11. ~(ResumeKeeps \/ ResumeRuns \/ ResumeEnds)
    BY <1>1, ResumeKeepsFacts, ResumeRunsFacts, ResumeEndsFacts
<1>12. ~HostLoads
    BY HostLoadsFacts DEF MainInv
<1> QED
    BY <1>2, <1>3, <1>4, <1>5, <1>6, <1>7, <1>8, <1>9, <1>10, <1>11, <1>12
       DEF Next, Evaluate, Javascript

\* A module of a call that is not at the bottom is not the main one.
LEMMA NotMainOnTop ==
    ASSUME TypeInv, AdjacentInv, calls # <<>>, Evaluates(Top), Top.of # Main \/ Top.k = "ensure"
    PROVE  Top.of # Main /\ Height > 1
BY TopFacts, PlaceOnStack DEF Bottom

LEMMA MainStep ==
    ASSUME TypeInv, AdjacentInv, MainInv, HeldInv, Next
    PROVE  MainInv'
<1>1. calls # <<>> /\ status[Main] # "Evaluated"
    <2>1. calls # <<>>
        <3>1. ASSUME NEW m \in Modules PROVE ~(calls = <<>> /\ (Import(m) \/ Touch(m)))
            BY ImportFacts, TouchFacts
        <3> QED
            BY <3>1, WalkPassesFacts, WalkBreaksFacts, WalkEntersFacts, WalkEndsFacts,
               EnsureFailsFacts, EnsureWaitsFacts, EnsureRunsFacts, ResumeKeepsFacts,
               ResumeRunsFacts, ResumeEndsFacts, RunSuspendsFacts, RunFinishesFacts,
               CallReturnsFacts, HostLoadsFacts, HostRunsFacts, AwaitFacts, BodyEndsFacts,
               BodyThrowsFacts, HostFailsFacts
               DEF Next, Evaluate, Javascript
    <2> QED
        BY <2>1 DEF MainInv
<1>2. Main \in Modules /\ status \in [Modules -> Statuses]
    BY MainAssumption DEF TypeInv
<1>3. CASE HostLoads
    <2> DEFINE st == [status EXCEPT ![Main] = "Evaluating"]
    <2>1. st \in [Modules -> Statuses] /\ Wanted(Main) \in SUBSET Modules /\ Load(Wanted(Main), st)
          /\ st[Main] = "Evaluating"
        BY <1>2, <1>3, HostLoadsFacts
    <2> HIDE DEF st
    <2>2. \A m \in Modules : st[m] # "none" => status'[m] = st[m]
        BY <2>1, LoadFacts
    <2>3. status'[Main] = "Evaluating"
        BY <2>1, <2>2, <1>2
    <2> QED
        BY <2>3 DEF MainInv
<1>4. CASE ~HostLoads
    <2>1. status[Main] # "none"
        <3> SUFFICES ASSUME status[Main] = "none" PROVE FALSE
            OBVIOUS
        <3>1. ~throwing /\ Top.k = "host"
            BY <1>1, TopFacts DEF MainInv
        <3>2. ASSUME NEW m \in Modules PROVE ~(Import(m) \/ Touch(m))
            BY <3>1, ImportFacts, TouchFacts
        <3>3. ~HostRuns /\ ~HostFails
            BY <3>1, HostRunsFacts, HostFailsFacts
        <3> QED
            BY <1>4, <3>1, <3>2, <3>3, WalkPassesFacts, WalkBreaksFacts, WalkEntersFacts,
               WalkEndsFacts, EnsureFailsFacts, EnsureWaitsFacts, EnsureRunsFacts,
               ResumeKeepsFacts, ResumeRunsFacts, ResumeEndsFacts, RunSuspendsFacts,
               RunFinishesFacts, CallReturnsFacts, AwaitFacts, BodyEndsFacts, BodyThrowsFacts
               DEF Next, Evaluate, Javascript
    <2>2. status[Main] = "Evaluating"
        BY <1>1, <2>1 DEF MainInv
    <2>3. CASE RunFinishes
        <3>1. /\ Top.k = "drain" /\ status' = [status EXCEPT ![Top.of] = "Evaluated"]
              /\ calls' \in Seq(CallType) /\ Len(calls') = Height - 1 /\ Top.of \in Modules
            BY <1>1, <2>3, RunFinishesFacts, TopTypes
        <3>2. CASE Top.of = Main
            <4>1. Height = 1
                BY <1>1, <3>1, <3>2, PlaceOnStack DEF Evaluates
            <4>2. calls' = <<>>
                BY <3>1, <4>1
            <4>3. status'[Main] = "Evaluated"
                BY <1>2, <3>1, <3>2
            <4> QED
                BY <4>2, <4>3 DEF MainInv
        <3>3. CASE Top.of # Main
            <4>1. status'[Main] = "Evaluating"
                BY <1>2, <2>2, <3>1, <3>3
            <4> QED
                BY <4>1 DEF MainInv
        <3> QED
            BY <3>2, <3>3
    <2>4. CASE ~RunFinishes
        <3> SUFFICES status'[Main] = "Evaluating"
            BY DEF MainInv
        <3>1. CASE EnsureFails \/ EnsureWaits
            <4>1. Top.of # Main
                BY <1>1, <3>1, EnsureFailsFacts, EnsureWaitsFacts, NotMainOnTop DEF Evaluates
            <4> QED
                BY <1>1, <1>2, <2>2, <3>1, <4>1, EnsureFailsFacts, EnsureWaitsFacts, TopTypes
        <3>2. CASE RunSuspends \/ BodyThrows
            BY <1>1, <1>2, <2>2, <3>2, RunSuspendsFacts, BodyThrowsFacts, TopTypes
        <3>3. CASE WalkEnters
            BY <1>2, <2>2, <3>3, WalkEntersFacts
        <3>4. ASSUME NEW m \in Modules, Import(m) PROVE status'[Main] = "Evaluating"
            <4>1. Load({m}, status) /\ {m} \in SUBSET Modules
                BY <3>4, ImportFacts
            <4> QED
                BY <1>2, <2>2, <4>1, LoadFacts
        <3>5. ASSUME NEW m \in Modules, Touch(m) PROVE status'[Main] = "Evaluating"
            BY <1>2, <2>2, <3>5, TouchFacts
        <3>6. CASE UNCHANGED status
            BY <2>2, <3>6
        <3> QED
            BY <1>4, <2>4, <3>1, <3>2, <3>3, <3>4, <3>5, <3>6, WalkPassesFacts, WalkBreaksFacts,
               WalkEndsFacts, EnsureRunsFacts, ResumeKeepsFacts, ResumeRunsFacts,
               ResumeEndsFacts, CallReturnsFacts, HostRunsFacts, AwaitFacts, BodyEndsFacts,
               HostFailsFacts
               DEF Next, Evaluate, Javascript
    <2> QED
        BY <2>3, <2>4
<1> QED
    BY <1>3, <1>4

----------------------------------------------------------------------------
(* Who evaluates what.                                                      *)

LEMMA StatusOfCall ==
    ASSUME TypeInv, AdjacentInv, StatusInv, HeldInv, NEW i \in 1 .. Height, Evaluates(calls[i])
    PROVE  /\ calls[i].of \in Modules
           /\ ~calls[i].resumed => status[calls[i].of] = "Evaluating"
           /\ calls[i].resumed => status[calls[i].of] = "EvaluatingAsync" /\ IsResumed(calls[i])
<1>1. Height \in Nat /\ calls # <<>> /\ calls[i] \in CallType
    <2>1. calls # <<>>
        BY DEF Height
    <2> QED
        BY <2>1, TopFacts
<1>2. calls[i].of \in Modules
    BY <1>1 DEF CallType
<1>3. ASSUME calls[i].resumed PROVE status[calls[i].of] = "EvaluatingAsync" /\ IsResumed(calls[i])
    <2>1. i # 1
        BY <1>1, <1>3 DEF AdjacentInv
    <2>2. FitsOn(calls[i - 1], calls[i])
        BY <1>1, <2>1 DEF AdjacentInv
    <2>3. IsResumed(calls[i])
        BY <1>3, <2>2 DEF FitsOn, Evaluates, IsResumed
    <2>4. calls[i].of \in Site(i) /\ i \in 0 .. Height
        BY <1>1, <2>3 DEF Site, Held, IsResumed
    <2> QED
        BY <1>2, <2>3, <2>4 DEF HeldInv
<1> QED
    BY <1>2, <1>3 DEF StatusInv

LEMMA OneCallGrows ==
    ASSUME TypeInv, OneCallEach, NEW k \in 0 .. Height, NEW e \in Nat,
           Len(calls') \in Nat, Same(k),
           \A i \in k + 1 .. Len(calls') : Evaluates(calls'[i]) => i = e,
           \A i \in 1 .. k : e > k /\ e <= Len(calls') /\ Evaluates(calls'[e]) /\ Evaluates(calls[i])
              => calls[i].of # calls'[e].of
    PROVE  OneCallEach'
<1> DEFINE n == Len(calls')
<1>1. Height \in Nat
    BY DEF TypeInv, Height
<1> SUFFICES ASSUME NEW i \in 1 .. n, NEW j \in 1 .. n, Evaluates(calls'[i]), Evaluates(calls'[j]),
                    calls'[i].of = calls'[j].of
             PROVE  i = j
    BY DEF OneCallEach, Height
<1>2. CASE i <= k /\ j <= k
    <2>1. calls'[i] = calls[i] /\ calls'[j] = calls[j] /\ i \in 1 .. Height /\ j \in 1 .. Height
        BY <1>1, <1>2 DEF Same
    <2> QED
        BY <2>1 DEF OneCallEach
<1>3. CASE i <= k /\ j > k
    <2>1. calls'[i] = calls[i] /\ j = e
        BY <1>1, <1>3 DEF Same
    <2> QED
        BY <1>1, <1>3, <2>1
<1>4. CASE i > k /\ j <= k
    <2>1. calls'[j] = calls[j] /\ i = e
        BY <1>1, <1>4 DEF Same
    <2> QED
        BY <1>1, <1>4, <2>1
<1>5. CASE i > k /\ j > k
    BY <1>1, <1>5
<1> QED
    BY <1>1, <1>2, <1>3, <1>4, <1>5

\* Nobody evaluates a module that waits to be evaluated.
LEMMA NoCallYet ==
    ASSUME TypeInv, AdjacentInv, StatusInv, HeldInv, NEW m \in Modules,
           \/ status[m] = "Linked"
           \/ calls # <<>> /\ Top.k = "resume" /\ m \in Elements(Top.list)
    PROVE  \A i \in 1 .. Height : Evaluates(calls[i]) => calls[i].of # m
<1> SUFFICES ASSUME NEW i \in 1 .. Height, Evaluates(calls[i]), calls[i].of = m PROVE FALSE
    OBVIOUS
<1>1. \/ ~calls[i].resumed /\ status[m] = "Evaluating"
      \/ status[m] = "EvaluatingAsync" /\ IsResumed(calls[i])
    <2>1. calls[i] \in CallType
        BY TopFacts DEF Height
    <2>2. calls[i].resumed \in BOOLEAN
        BY <2>1 DEF CallType
    <2> QED
        BY <2>2, StatusOfCall
<1>2. CASE status[m] = "Linked"
    BY <1>1, <1>2
<1>3. CASE calls # <<>> /\ Top.k = "resume" /\ m \in Elements(Top.list)
    <2>1. Height \in 0 .. Height /\ i \in 0 .. Height /\ Top = calls[Height] /\ Height # 0
        BY <1>3, TopFacts
    <2>2. m \in Site(Height)
        BY <1>3, <2>1 DEF Site, Held
    <2>3. status[m] = "EvaluatingAsync"
        BY <2>1, <2>2 DEF HeldInv
    <2>4. m \in Site(i)
        BY <1>1, <2>1, <2>3 DEF Site, Held, IsResumed
    <2>5. i = Height
        BY <2>1, <2>2, <2>4 DEF HeldInv
    <2> QED
        BY <1>3, <2>1, <2>5 DEF Evaluates
<1> QED
    BY <1>2, <1>3

LEMMA OneCallPushed ==
    ASSUME TypeInv, OneCallEach, calls # <<>>,
           calls' \in Seq(CallType), Len(calls') >= Height, Same(Height - 1),
           \A i \in (Height - 1) + 1 .. Len(calls') : Evaluates(calls'[i]) => i = Height + 1,
           \A i \in 1 .. Height - 1 : Evaluates(calls[i]) => calls[i].of # calls'[Height + 1].of
    PROVE  OneCallEach'
<1> DEFINE k == Height - 1
           e == Height + 1
<1>1. Height \in Nat \ {0}
    BY TopFacts
<1>2. k \in 0 .. Height /\ e \in Nat /\ Len(calls') \in Nat
    BY <1>1
<1>3. Same(k) /\ \A i \in k + 1 .. Len(calls') : Evaluates(calls'[i]) => i = e
    OBVIOUS
<1>4. \A i \in 1 .. k : e > k /\ e <= Len(calls') /\ Evaluates(calls'[e]) /\ Evaluates(calls[i])
          => calls[i].of # calls'[e].of
    OBVIOUS
<1> HIDE DEF k, e
<1> QED
    BY <1>2, <1>3, <1>4, OneCallGrows

LEMMA OneCallStep ==
    ASSUME TypeInv, AdjacentInv, StatusInv, HeldInv, OneCallEach, Next
    PROVE  OneCallEach'
<1>1. CASE UNCHANGED calls
    BY <1>1 DEF OneCallEach, Height
<1>2. CASE calls' = <<>>
    BY <1>2 DEF OneCallEach, Height
<1>3. ASSUME calls # <<>> PROVE Height \in Nat \ {0} /\ Height - 1 \in 0 .. Height
    BY <1>3, TopFacts
<1>4. ASSUME calls # <<>>, calls' \in Seq(CallType), Len(calls') = Height - 1, Same(Height - 1)
      PROVE  OneCallEach'
    <2>1. \A i \in (Height - 1) + 1 .. Len(calls') : Evaluates(calls'[i]) => i = 0
        BY <1>3, <1>4
    <2> QED
        BY <1>3, <1>4, <2>1, OneCallGrows
<1>5. ASSUME calls # <<>>, calls' \in Seq(CallType), Len(calls') = Height, Same(Height - 1),
             Evaluates(calls'[Height]) => Evaluates(Top) /\ Top.of = calls'[Height].of
      PROVE  OneCallEach'
    <2>1. \A i \in (Height - 1) + 1 .. Len(calls') : Evaluates(calls'[i]) => i = Height
        BY <1>3, <1>5
    <2>2. ASSUME NEW i \in 1 .. Height - 1, Evaluates(calls'[Height]), Evaluates(calls[i])
          PROVE  calls[i].of # calls'[Height].of
        <3>1. i # Height /\ i \in 1 .. Height /\ Height \in 1 .. Height /\ Top = calls[Height]
            BY <1>3, <1>5, TopFacts
        <3> QED
            BY <1>5, <2>2, <3>1 DEF OneCallEach
    <2> QED
        BY <1>3, <1>5, <2>1, <2>2, OneCallGrows
<1>6. CASE WalkPasses
    BY <1>5, <1>6, WalkPassesFacts DEF Evaluates
<1>7. CASE WalkEnters
    <2>1. /\ calls # <<>> /\ Top.k = "walk" /\ Head(Top.list) \in Modules
          /\ status[Head(Top.list)] = "Linked"
          /\ calls' \in Seq(CallType) /\ Len(calls') = Height + 2 /\ Same(Height - 1)
          /\ calls'[Height].k = "walk" /\ calls'[Height + 1].k = "ensure"
          /\ calls'[Height + 1].of = Head(Top.list)
          /\ calls'[Height + 2].k = "walk"
        BY <1>7, WalkEntersFacts
    <2>2. \A i \in (Height - 1) + 1 .. Len(calls') : Evaluates(calls'[i]) => i = Height + 1
        <3> SUFFICES ASSUME NEW i \in (Height - 1) + 1 .. Len(calls'), Evaluates(calls'[i])
                     PROVE  i = Height + 1
            OBVIOUS
        <3>1. i = Height \/ i = Height + 1 \/ i = Height + 2
            BY <1>3, <2>1
        <3> QED
            BY <2>1, <3>1 DEF Evaluates
    <2>3. \A i \in 1 .. Height - 1 : Evaluates(calls[i]) => calls[i].of # calls'[Height + 1].of
        BY <1>3, <2>1, NoCallYet
    <2>4. Len(calls') >= Height
        BY <1>3, <2>1
    <2> QED
        BY <2>1, <2>2, <2>3, <2>4, OneCallPushed
<1>8. CASE WalkEnds
    BY <1>4, <1>5, <1>8, WalkEndsFacts DEF Evaluates
<1>9. CASE EnsureRuns
    BY <1>5, <1>9, EnsureRunsFacts DEF Evaluates
<1>10. CASE ResumeKeeps \/ ResumeEnds
    BY <1>4, <1>5, <1>10, ResumeKeepsFacts, ResumeEndsFacts DEF Evaluates
<1>11. CASE ResumeRuns
    <2>1. /\ calls # <<>> /\ Top.k = "resume" /\ Top.list # <<>> /\ Head(Top.list) \in Modules
          /\ calls' \in Seq(CallType) /\ Len(calls') = Height + 1 /\ Same(Height - 1)
          /\ calls'[Height].k = "resume" /\ calls'[Height + 1].of = Head(Top.list)
        BY <1>11, ResumeRunsFacts
    <2>2. \A i \in (Height - 1) + 1 .. Len(calls') : Evaluates(calls'[i]) => i = Height + 1
        <3> SUFFICES ASSUME NEW i \in (Height - 1) + 1 .. Len(calls'), Evaluates(calls'[i])
                     PROVE  i = Height + 1
            OBVIOUS
        <3>1. i = Height \/ i = Height + 1
            BY <1>3, <2>1
        <3> QED
            BY <2>1, <3>1 DEF Evaluates
    <2>3. Head(Top.list) \in Elements(Top.list)
        BY <2>1, TopTypes, ListHead
    <2>4. \A i \in 1 .. Height - 1 : Evaluates(calls[i]) => calls[i].of # calls'[Height + 1].of
        BY <1>3, <2>1, <2>3, NoCallYet
    <2>5. Len(calls') >= Height
        BY <1>3, <2>1
    <2> QED
        BY <2>1, <2>2, <2>4, <2>5, OneCallPushed
<1>12. CASE EnsureFails \/ EnsureWaits \/ RunSuspends \/ RunFinishes \/ CallReturns \/ BodyThrows
    BY <1>4, <1>12, EnsureFailsFacts, EnsureWaitsFacts, RunSuspendsFacts, RunFinishesFacts,
       CallReturnsFacts, BodyThrowsFacts
<1>13. CASE HostLoads /\ calls' # <<>>
    <2>1. /\ calls # <<>> /\ calls' \in Seq(CallType) /\ Len(calls') = Height + 1 /\ Same(Height)
          /\ calls'[Height + 1].k = "walk"
        BY <1>13, HostLoadsFacts
    <2>2. \A i \in Height + 1 .. Len(calls') : Evaluates(calls'[i]) => i = 0
        BY <1>3, <2>1 DEF Evaluates
    <2> QED
        BY <1>3, <2>1, <2>2, OneCallGrows
<1>14. CASE HostRuns
    <2>1. Len(calls') = 1
        BY <1>14, HostRunsFacts
    <2> QED
        BY <2>1 DEF OneCallEach, Height
<1>15. CASE Await \/ BodyEnds
    BY <1>1, <1>5, <1>15, AwaitFacts, BodyEndsFacts DEF Evaluates
<1>16. ASSUME NEW m \in Modules, Import(m), calls' # calls PROVE OneCallEach'
    <2>1. /\ calls # <<>> /\ calls' \in Seq(CallType) /\ Len(calls') = Height + 2 /\ Same(Height)
          /\ calls'[Height + 1].k = "import" /\ calls'[Height + 2].k = "walk"
        BY <1>16, ImportFacts
    <2>2. \A i \in Height + 1 .. Len(calls') : Evaluates(calls'[i]) => i = 0
        <3> SUFFICES ASSUME NEW i \in Height + 1 .. Len(calls') PROVE ~Evaluates(calls'[i])
            OBVIOUS
        <3>1. i = Height + 1 \/ i = Height + 2
            BY <1>3, <2>1
        <3> QED
            BY <2>1, <3>1 DEF Evaluates
    <2> QED
        BY <1>3, <2>1, <2>2, OneCallGrows
<1>17. ASSUME NEW m \in Modules, Touch(m) PROVE OneCallEach'
    <2>1. /\ calls # <<>> /\ status[m] = "Linked"
          /\ calls' \in Seq(CallType) /\ Len(calls') = Height + 3 /\ Same(Height)
          /\ calls'[Height + 1].k = "touch" /\ calls'[Height + 2].of = m
          /\ calls'[Height + 3].k = "walk"
        BY <1>17, TouchFacts
    <2>2. \A i \in Height + 1 .. Len(calls') : Evaluates(calls'[i]) => i = Height + 2
        <3> SUFFICES ASSUME NEW i \in Height + 1 .. Len(calls'), Evaluates(calls'[i])
                     PROVE  i = Height + 2
            OBVIOUS
        <3>1. i = Height + 1 \/ i = Height + 2 \/ i = Height + 3
            BY <1>3, <2>1
        <3> QED
            BY <2>1, <3>1 DEF Evaluates
    <2>3. \A i \in 1 .. Height : Evaluates(calls[i]) => calls[i].of # calls'[Height + 2].of
        BY <2>1, NoCallYet
    <2>4. Height \in 0 .. Height /\ Height + 2 \in Nat /\ Len(calls') \in Nat
        BY <1>3, <2>1
    <2> QED
        BY <2>1, <2>2, <2>3, <2>4, OneCallGrows
<1>18. CASE HostFails
    BY <1>2, <1>18, HostFailsFacts
<1>19. CASE WalkBreaks
    BY <1>1, <1>19, WalkBreaksFacts
<1> QED
    BY <1>1, <1>2, <1>6, <1>7, <1>8, <1>9, <1>10, <1>11, <1>12, <1>13, <1>14, <1>15, <1>16, <1>17,
       <1>18, <1>19 DEF Next, Evaluate, Javascript

----------------------------------------------------------------------------
(* Who is Evaluating has a call.                                            *)

LEMMA StatusGrows ==
    ASSUME TypeInv, StatusInv, calls # <<>>, NEW k \in 0 .. Height, Len(calls') \in Nat,
           k <= Len(calls'), Same(k),
           \A m \in Modules : status[m] = "Evaluating" =>
              \/ status'[m] = "Evaluating"
              \/ \A i \in 1 .. k : Evaluates(calls[i]) => calls[i].of # m,
           \A i \in k + 1 .. Len(calls') :
              Evaluates(calls'[i]) /\ ~calls'[i].resumed => status'[calls'[i].of] = "Evaluating",
           \A m \in Modules : status'[m] = "Evaluating" =>
              \/ status[m] = "Evaluating" /\ \A i \in k + 1 .. Height : ~StandsFor(calls[i], m)
              \/ \E i \in k + 1 .. Len(calls') : StandsFor(calls'[i], m)
    PROVE  StatusInv'
<1> DEFINE n == Len(calls')
<1>1. Height \in Nat \ {0} /\ \A i \in 1 .. Height : calls[i].of \in Modules
    BY TopFacts DEF CallType
<1>2. ASSUME NEW i \in 1 .. n, Evaluates(calls'[i]), ~calls'[i].resumed
      PROVE  status'[calls'[i].of] = "Evaluating"
    <2>1. CASE i <= k
        <3>1. calls'[i] = calls[i] /\ i \in 1 .. k /\ i \in 1 .. Height
            BY <1>1, <2>1 DEF Same
        <3>2. status[calls[i].of] = "Evaluating"
            BY <1>2, <3>1 DEF StatusInv
        <3> QED
            BY <1>1, <1>2, <3>1, <3>2
    <2>2. CASE i > k
        BY <1>1, <1>2, <2>2
    <2> QED
        BY <1>1, <2>1, <2>2
<1>3. ASSUME NEW m \in Modules, status'[m] = "Evaluating"
      PROVE  \E i \in 1 .. n : StandsFor(calls'[i], m)
    <2>1. CASE \E i \in k + 1 .. n : StandsFor(calls'[i], m)
        BY <1>1, <2>1
    <2>2. CASE status[m] = "Evaluating" /\ \A i \in k + 1 .. Height : ~StandsFor(calls[i], m)
        <3>1. PICK i \in 1 .. Height : StandsFor(calls[i], m)
            BY <2>2 DEF StatusInv
        <3>2. i \in 1 .. k
            BY <1>1, <2>2, <3>1
        <3>3. calls'[i] = calls[i] /\ i \in 1 .. n
            BY <1>1, <3>2 DEF Same
        <3> QED
            BY <3>1, <3>3
    <2> QED
        BY <1>3, <2>1, <2>2
<1> QED
    BY <1>2, <1>3 DEF StatusInv, Height

\* The call on top is the only one that evaluates its module.
LEMMA TopAlone ==
    ASSUME TypeInv, OneCallEach, calls # <<>>, Evaluates(Top)
    PROVE  \A i \in 1 .. Height - 1 : Evaluates(calls[i]) => calls[i].of # Top.of
<1> SUFFICES ASSUME NEW i \in 1 .. Height - 1, Evaluates(calls[i]), calls[i].of = Top.of PROVE FALSE
    OBVIOUS
<1>1. Height \in Nat \ {0} /\ Top = calls[Height]
    BY TopFacts
<1>2. i \in 1 .. Height /\ Height \in 1 .. Height /\ i # Height
    BY <1>1
<1> QED
    BY <1>1, <1>2 DEF OneCallEach

LEMMA StatusPops ==
    ASSUME TypeInv, StatusInv, calls # <<>>,
           calls' \in Seq(CallType), Len(calls') = Height - 1, Same(Height - 1),
           \/ status' = status /\ Top.k \in {"walk", "resume", "import", "touch"}
           \/ /\ OneCallEach /\ Evaluates(Top)
              /\ \E s \in Statuses \ {"Evaluating"} : status' = [status EXCEPT ![Top.of] = s]
    PROVE  StatusInv'
<1>1. Height \in Nat \ {0} /\ Top = calls[Height] /\ Top.of \in Modules
    BY TopFacts, TopTypes
<1>2. /\ Height - 1 \in 0 .. Height /\ Len(calls') \in Nat
      /\ \A i \in (Height - 1) + 1 .. Height : calls[i] = Top
      /\ ~\E i \in (Height - 1) + 1 .. Len(calls') : TRUE
    BY <1>1
<1>3. status \in [Modules -> Statuses]
    BY DEF TypeInv
<1>4. CASE status' = status /\ Top.k \in {"walk", "resume", "import", "touch"}
    <2>1. \A m \in Modules : status'[m] = "Evaluating" =>
              status[m] = "Evaluating" /\ \A i \in (Height - 1) + 1 .. Height : ~StandsFor(calls[i], m)
        BY <1>2, <1>4 DEF StandsFor
    <2> QED
        BY <1>2, <1>4, <2>1, StatusGrows
<1>5. CASE /\ OneCallEach /\ Evaluates(Top)
           /\ \E s \in Statuses \ {"Evaluating"} : status' = [status EXCEPT ![Top.of] = s]
    <2>1. status'[Top.of] # "Evaluating" /\ \A m \in Modules : m # Top.of => status'[m] = status[m]
        BY <1>1, <1>3, <1>5
    <2>2. \A m \in Modules : status'[m] = "Evaluating" =>
              status[m] = "Evaluating" /\ \A i \in (Height - 1) + 1 .. Height : ~StandsFor(calls[i], m)
        BY <1>2, <2>1 DEF StandsFor
    <2>3. \A m \in Modules : status[m] = "Evaluating" =>
              \/ status'[m] = "Evaluating"
              \/ \A i \in 1 .. Height - 1 : Evaluates(calls[i]) => calls[i].of # m
        BY <1>5, <2>1, TopAlone
    <2> QED
        BY <1>2, <2>2, <2>3, StatusGrows
<1> QED
    BY <1>4, <1>5

LEMMA StatusReplaces ==
    ASSUME TypeInv, StatusInv, calls # <<>>,
           calls' \in Seq(CallType), Len(calls') = Height, Same(Height - 1), status' = status,
           \A m \in Modules : StandsFor(Top, m) => StandsFor(calls'[Height], m),
           Evaluates(calls'[Height]) /\ ~calls'[Height].resumed
              => Evaluates(Top) /\ ~Top.resumed /\ Top.of = calls'[Height].of
    PROVE  StatusInv'
<1>1. Height \in Nat \ {0} /\ Top = calls[Height] /\ Top.of \in Modules
    BY TopFacts, TopTypes
<1>2. /\ Height - 1 \in 0 .. Height /\ Len(calls') \in Nat
      /\ \A i \in (Height - 1) + 1 .. Height : calls[i] = Top
      /\ \A i \in (Height - 1) + 1 .. Len(calls') : i = Height
    BY <1>1
<1>3. \A m \in Modules : status'[m] = "Evaluating" =>
          \/ status[m] = "Evaluating" /\ \A i \in (Height - 1) + 1 .. Height : ~StandsFor(calls[i], m)
          \/ \E i \in (Height - 1) + 1 .. Len(calls') : StandsFor(calls'[i], m)
    <2> SUFFICES ASSUME NEW m \in Modules, status'[m] = "Evaluating", StandsFor(Top, m)
                 PROVE  \E i \in (Height - 1) + 1 .. Len(calls') : StandsFor(calls'[i], m)
        BY <1>2
    <2>1. Height \in (Height - 1) + 1 .. Len(calls')
        BY <1>1
    <2> QED
        BY <2>1
<1>4. \A i \in (Height - 1) + 1 .. Len(calls') :
          Evaluates(calls'[i]) /\ ~calls'[i].resumed => status'[calls'[i].of] = "Evaluating"
    <2>1. Evaluates(Top) /\ ~Top.resumed => status[Top.of] = "Evaluating"
        BY <1>1 DEF StatusInv
    <2> QED
        BY <1>2, <2>1
<1> QED
    BY <1>2, <1>3, <1>4, StatusGrows

LEMMA StatusStep ==
    ASSUME TypeInv, AdjacentInv, MainInv, OneCallEach, StatusInv, HeldInv, Next
    PROVE  StatusInv'
<1> USE DEF Evaluates, StandsFor
<1>1. CASE UNCHANGED <<calls, status>>
    BY <1>1 DEF StatusInv, Height
<1>2. CASE calls' = <<>>
    BY <1>2 DEF StatusInv, Height
<1>3. CASE WalkPasses
    BY <1>3, WalkPassesFacts, StatusReplaces
<1>4. CASE WalkEnters
    <2> DEFINE m == Head(Top.list)
    <2>1. /\ calls # <<>> /\ Top.k = "walk" /\ m \in Modules /\ status[m] = "Linked"
          /\ status' = [status EXCEPT ![m] = "Evaluating"]
          /\ calls' \in Seq(CallType) /\ Len(calls') = Height + 2 /\ Same(Height - 1)
          /\ calls'[Height].k = "walk"
          /\ calls'[Height + 1].k = "ensure" /\ calls'[Height + 1].of = m
          /\ calls'[Height + 2].k = "walk"
        BY <1>4, WalkEntersFacts
    <2> HIDE DEF m
    <2>2. /\ Height \in Nat \ {0} /\ Height - 1 \in 0 .. Height /\ Len(calls') \in Nat
          /\ Height - 1 <= Len(calls')
          /\ \A i \in (Height - 1) + 1 .. Height : calls[i] = Top
          /\ \A i \in (Height - 1) + 1 .. Len(calls') : i \in {Height, Height + 1, Height + 2}
          /\ Height + 1 \in (Height - 1) + 1 .. Len(calls')
        BY <2>1, TopFacts
    <2>3. status'[m] = "Evaluating" /\ \A l \in Modules : l # m => status'[l] = status[l]
        BY <2>1 DEF TypeInv
    <2>4. \A l \in Modules : status[l] = "Evaluating" => status'[l] = "Evaluating"
        BY <2>3
    <2>5. \A i \in (Height - 1) + 1 .. Len(calls') :
              Evaluates(calls'[i]) /\ ~calls'[i].resumed => status'[calls'[i].of] = "Evaluating"
        BY <2>1, <2>2, <2>3
    <2>6. \A l \in Modules : status'[l] = "Evaluating" =>
              \/ status[l] = "Evaluating" /\ \A i \in (Height - 1) + 1 .. Height : ~StandsFor(calls[i], l)
              \/ \E i \in (Height - 1) + 1 .. Len(calls') : StandsFor(calls'[i], l)
        BY <2>1, <2>2, <2>3
    <2> QED
        BY <2>1, <2>2, <2>4, <2>5, <2>6, StatusGrows
<1>5. CASE WalkEnds
    BY <1>5, WalkEndsFacts, StatusPops, StatusReplaces
<1>6. CASE EnsureFails \/ EnsureWaits \/ RunSuspends \/ RunFinishes \/ BodyThrows
    <2>1. /\ calls # <<>> /\ Evaluates(Top)
          /\ calls' \in Seq(CallType) /\ Len(calls') = Height - 1 /\ Same(Height - 1)
        BY <1>6, EnsureFailsFacts, EnsureWaitsFacts, RunSuspendsFacts, RunFinishesFacts,
           BodyThrowsFacts
    <2>2. \E s \in Statuses \ {"Evaluating"} : status' = [status EXCEPT ![Top.of] = s]
        BY <1>6, StatusesFacts, EnsureFailsFacts, EnsureWaitsFacts, RunSuspendsFacts,
           RunFinishesFacts, BodyThrowsFacts
    <2> QED
        BY <2>1, <2>2, StatusPops
<1>7. CASE CallReturns
    BY <1>7, CallReturnsFacts, StatusPops
<1>8. CASE EnsureRuns
    <2>1. /\ calls # <<>> /\ Top.k = "ensure" /\ Height > 1
          /\ calls' \in Seq(CallType) /\ Len(calls') = Height /\ Same(Height - 1)
          /\ calls'[Height].k = "body" /\ calls'[Height].of = Top.of /\ status' = status
        BY <1>8, EnsureRunsFacts, PlaceOnStack
    <2>2. ~Top.resumed
        BY <2>1, PlaceOnStack DEF FitsOn
    <2> QED
        BY <2>1, <2>2, StatusReplaces
<1>9. CASE ResumeKeeps
    BY <1>9, ResumeKeepsFacts, StatusReplaces
<1>10. CASE ResumeEnds
    BY <1>10, ResumeEndsFacts, StatusPops, StatusReplaces
<1>11. CASE ResumeRuns
    <2>1. /\ calls # <<>> /\ Top.k = "resume" /\ status' = status
          /\ calls' \in Seq(CallType) /\ Len(calls') = Height + 1 /\ Same(Height - 1)
          /\ calls'[Height].k = "resume" /\ calls'[Height + 1].resumed
        BY <1>11, ResumeRunsFacts
    <2>2. /\ Height \in Nat \ {0} /\ Height - 1 \in 0 .. Height /\ Len(calls') \in Nat
          /\ Height - 1 <= Len(calls')
          /\ \A i \in (Height - 1) + 1 .. Height : calls[i] = Top
          /\ \A i \in (Height - 1) + 1 .. Len(calls') : i \in {Height, Height + 1}
        BY <2>1, TopFacts
    <2>3. \A i \in (Height - 1) + 1 .. Len(calls') :
              Evaluates(calls'[i]) /\ ~calls'[i].resumed => status'[calls'[i].of] = "Evaluating"
        BY <2>1, <2>2
    <2>4. \A l \in Modules : status'[l] = "Evaluating" =>
              status[l] = "Evaluating" /\ \A i \in (Height - 1) + 1 .. Height : ~StandsFor(calls[i], l)
        BY <2>1, <2>2
    <2> QED
        BY <2>1, <2>2, <2>3, <2>4, StatusGrows
<1>12. CASE HostLoads /\ calls' # <<>>
    <2> DEFINE st == [status EXCEPT ![Main] = "Evaluating"]
    <2>1. /\ calls # <<>> /\ Top.k = "host" /\ status[Main] = "none"
          /\ st \in [Modules -> Statuses] /\ Wanted(Main) \in SUBSET Modules
          /\ Load(Wanted(Main), st)
          /\ calls' \in Seq(CallType) /\ Len(calls') = Height + 1 /\ Same(Height)
          /\ calls'[Height + 1].k = "walk"
        BY <1>12, HostLoadsFacts
    <2>2. /\ \A l \in Modules : l # Main => st[l] = status[l]
          /\ st[Main] = "Evaluating"
        BY MainAssumption DEF TypeInv
    <2> HIDE DEF st
    <2>3. /\ \A l \in Modules : st[l] # "none" => status'[l] = st[l]
          /\ \A l \in Modules : st[l] = "none" => status'[l] \in {"none", "Linked"}
        <3>1. Wanted(Main) \in SUBSET Modules
            BY <2>1
        <3>2. st \in [Modules -> Statuses]
            BY <2>1
        <3>3. Load(Wanted(Main), st)
            BY <2>1
        <3> QED
            BY <3>1, <3>2, <3>3, LoadFacts, ZenonT(30)
    <2>4. /\ Height = 1 /\ calls'[1] = calls[1] /\ calls[1] = Top /\ Top.of = Main
        BY <2>1, PlaceOnStack, TopFacts DEF Same, Bottom
    <2>5. Height \in 0 .. Height /\ Len(calls') \in Nat /\ Height <= Len(calls')
          /\ \A i \in Height + 1 .. Len(calls') : i = Height + 1
        BY <2>1, <2>4
    <2>6. StandsFor(calls'[1], Main) /\ Len(calls') = 2
        BY <2>1, <2>4
    <2>7. ASSUME NEW l \in Modules, status'[l] = "Evaluating" PROVE l = Main
        <3> SUFFICES ASSUME l # Main PROVE FALSE
            OBVIOUS
        <3>1. status[l] = "Evaluating"
            BY <2>2, <2>3, <2>7
        <3>2. PICK i \in 1 .. Height : StandsFor(calls[i], l)
            BY <2>1, <3>1 DEF StatusInv
        <3>3. i = 1
            BY <2>4
        <3> QED
            BY <2>4, <3>2, <3>3
    <2>8. \A i \in 1 .. Len(calls') : ~Evaluates(calls'[i])
        <3> SUFFICES ASSUME NEW i \in 1 .. Len(calls') PROVE ~Evaluates(calls'[i])
            OBVIOUS
        <3>1. i = 1 \/ i = 2
            BY <2>6
        <3> QED
            BY <2>1, <2>4, <3>1
    <2>9. 1 \in 1 .. Len(calls')
        BY <2>6
    <2> QED
        BY <2>6, <2>7, <2>8, <2>9 DEF StatusInv, Height
<1>13. CASE HostRuns
    <2>1. /\ calls # <<>> /\ Top.k = "host" /\ status' = status /\ status[Main] = "Evaluating"
          /\ calls' \in Seq(CallType) /\ Len(calls') = 1
          /\ calls'[1].k = "body" /\ calls'[1].of = Main
        BY <1>13, HostRunsFacts
    <2>2. Height = 1 /\ Top = calls[1] /\ Top.of = Main
        BY <2>1, PlaceOnStack, TopFacts DEF Bottom
    <2>3. ASSUME NEW l \in Modules, status[l] = "Evaluating" PROVE StandsFor(calls'[1], l)
        <3>1. PICK i \in 1 .. Height : StandsFor(calls[i], l)
            BY <2>1, <2>3 DEF StatusInv
        <3> QED
            BY <2>1, <2>2, <3>1
    <2>4. 1 \in 1 .. Len(calls') /\ \A i \in 1 .. Len(calls') : i = 1
        BY <2>1
    <2> QED
        BY <2>1, <2>3, <2>4 DEF StatusInv, Height
<1>14. CASE Await \/ BodyEnds
    BY <1>1, <1>14, AwaitFacts, BodyEndsFacts, StatusReplaces DEF history
<1>15. ASSUME NEW m \in Modules, Import(m) PROVE StatusInv'
    <2>1. /\ calls # <<>> /\ Load({m}, status) /\ {m} \in SUBSET Modules
          /\ status \in [Modules -> Statuses]
        BY <1>15, ImportFacts DEF TypeInv
    <2>2. /\ \A l \in Modules : status[l] # "none" => status'[l] = status[l]
          /\ \A l \in Modules : status[l] = "none" => status'[l] \in {"none", "Linked"}
        BY <2>1, LoadFacts
    <2>3. /\ \A l \in Modules : status[l] = "Evaluating" => status'[l] = "Evaluating"
          /\ \A l \in Modules : status'[l] = "Evaluating" => status[l] = "Evaluating"
        BY <2>2
    <2>4. Height \in Nat \ {0} /\ Height \in 0 .. Height
        BY <2>1, TopFacts
    <2>5. CASE calls' = calls
        <3>1. /\ Len(calls') \in Nat /\ Height <= Len(calls') /\ Same(Height)
              /\ ~\E i \in Height + 1 .. Len(calls') : TRUE
            BY <2>4, <2>5 DEF Height, Same
        <3>2. ~\E i \in Height + 1 .. Height : TRUE
            BY <2>4
        <3> QED
            BY <2>1, <2>3, <2>4, <3>1, <3>2, StatusGrows
    <2>6. CASE calls' # calls
        <3>1. /\ calls' \in Seq(CallType) /\ Len(calls') = Height + 2 /\ Same(Height)
              /\ calls'[Height + 1].k = "import" /\ calls'[Height + 2].k = "walk"
            BY <1>15, <2>6, ImportFacts
        <3>2. /\ Len(calls') \in Nat /\ Height <= Len(calls')
              /\ \A i \in Height + 1 .. Len(calls') : i \in {Height + 1, Height + 2}
              /\ ~\E i \in Height + 1 .. Height : TRUE
            BY <2>4, <3>1
        <3>3. \A i \in Height + 1 .. Len(calls') : ~Evaluates(calls'[i])
            BY <3>1, <3>2
        <3> QED
            BY <2>1, <2>3, <2>4, <3>1, <3>2, <3>3, StatusGrows
    <2> QED
        BY <2>5, <2>6
<1>16. ASSUME NEW m \in Modules, Touch(m) PROVE StatusInv'
    <2>1. /\ calls # <<>> /\ status[m] = "Linked"
          /\ status' = [status EXCEPT ![m] = "Evaluating"]
          /\ calls' \in Seq(CallType) /\ Len(calls') = Height + 3 /\ Same(Height)
          /\ calls'[Height + 1].k = "touch" /\ calls'[Height + 2].k = "ensure"
          /\ calls'[Height + 2].of = m /\ calls'[Height + 3].k = "walk"
        BY <1>16, TouchFacts
    <2>2. /\ Height \in Nat \ {0} /\ Height \in 0 .. Height /\ Len(calls') \in Nat
          /\ Height <= Len(calls')
          /\ ~\E i \in Height + 1 .. Height : TRUE
          /\ \A i \in Height + 1 .. Len(calls') : i \in {Height + 1, Height + 2, Height + 3}
          /\ Height + 2 \in Height + 1 .. Len(calls')
        BY <2>1, TopFacts
    <2>3. status'[m] = "Evaluating" /\ \A l \in Modules : l # m => status'[l] = status[l]
        BY <2>1 DEF TypeInv
    <2>4. \A l \in Modules : status[l] = "Evaluating" => status'[l] = "Evaluating"
        BY <2>3
    <2>5. \A i \in Height + 1 .. Len(calls') :
              Evaluates(calls'[i]) /\ ~calls'[i].resumed => status'[calls'[i].of] = "Evaluating"
        BY <2>1, <2>2, <2>3
    <2>6. \A l \in Modules : status'[l] = "Evaluating" =>
              \/ status[l] = "Evaluating" /\ \A i \in Height + 1 .. Height : ~StandsFor(calls[i], l)
              \/ \E i \in Height + 1 .. Len(calls') : StandsFor(calls'[i], l)
        BY <2>1, <2>2, <2>3
    <2> QED
        BY <2>1, <2>2, <2>4, <2>5, <2>6, StatusGrows
<1>17. CASE HostFails
    BY <1>2, <1>17, HostFailsFacts
<1>18. CASE WalkBreaks
    BY <1>1, <1>18, WalkBreaksFacts
<1> QED
    BY <1>1, <1>2, <1>3, <1>4, <1>5, <1>6, <1>7, <1>8, <1>9, <1>10, <1>11, <1>12, <1>13, <1>14,
       <1>15, <1>16, <1>17, <1>18 DEF Next, Evaluate, Javascript

----------------------------------------------------------------------------
(* Where the suspended modules are.                                         *)

NewSite(i) == IF i = 0 THEN Elements(suspended') ELSE Held(calls'[i])

\* Only the sites above k change, and the queue.
LEMMA SitesMove ==
    ASSUME TypeInv, HeldInv, NEW k \in 0 .. Height, Len(calls') \in Nat, k <= Len(calls'), Same(k),
           OnceEach(suspended'),
           \A i \in k + 1 .. Len(calls') : calls'[i].k = "resume" => OnceEach(calls'[i].list),
           \A i, j \in {0} \cup (k + 1 .. Len(calls')), m \in Modules :
              m \in NewSite(i) /\ m \in NewSite(j) => i = j,
           \A i \in {0} \cup (k + 1 .. Len(calls')), m \in Modules : m \in NewSite(i) =>
              \/ status[m] # "EvaluatingAsync"
              \/ \E j \in {0} \cup (k + 1 .. Height) : m \in Site(j),
           \A m \in Modules : status'[m] = "EvaluatingAsync" <=>
              \/ \E i \in {0} \cup (k + 1 .. Len(calls')) : m \in NewSite(i)
              \/ /\ status[m] = "EvaluatingAsync"
                 /\ \A j \in {0} \cup (k + 1 .. Height) : m \notin Site(j)
    PROVE  HeldInv'
<1> DEFINE n == Len(calls')
           N == {0} \cup (k + 1 .. n)
           O == {0} \cup (k + 1 .. Height)
<1>1. Height \in Nat
    BY DEF TypeInv, Height
<1>2. \A i \in 1 .. k : NewSite(i) = Site(i) /\ calls'[i] = calls[i] /\ i \in 0 .. Height /\ i \notin O
    BY <1>1 DEF NewSite, Site, Same
<1>3. \A i \in 0 .. n : i \in N \/ i \in 1 .. k
    BY <1>1
<1>4. \A i \in 0 .. Height : i \in O \/ i \in 1 .. k
    BY <1>1
<1>5. N \subseteq 0 .. n /\ O \subseteq 0 .. Height /\ 1 .. k \subseteq 0 .. n
    BY <1>1
<1> HIDE DEF N, O
<1>6. ASSUME NEW i \in 1 .. n, calls'[i].k = "resume" PROVE OnceEach(calls'[i].list)
    <2>1. CASE i \in 1 .. k
        BY <1>1, <1>2, <1>6, <2>1 DEF HeldInv
    <2>2. CASE i \in k + 1 .. n
        BY <1>6, <2>2
    <2> QED
        BY <1>1, <2>1, <2>2
<1>7. ASSUME NEW i \in 1 .. k, NEW m \in Modules, m \in NewSite(i)
      PROVE  /\ status[m] = "EvaluatingAsync"
             /\ \A j \in O : m \notin Site(j)
             /\ \A j \in N : m \notin NewSite(j)
    <2>1. m \in Site(i) /\ i \in 0 .. Height /\ i \notin O
        BY <1>2, <1>7
    <2>2. status[m] = "EvaluatingAsync"
        BY <2>1 DEF HeldInv
    <2>3. \A j \in O : m \notin Site(j)
        BY <1>5, <2>1 DEF HeldInv
    <2>4. \A j \in N : m \notin NewSite(j)
        BY <2>2, <2>3 DEF N, O
    <2> QED
        BY <2>2, <2>3, <2>4
<1>8. ASSUME NEW i \in 0 .. n, NEW j \in 0 .. n, NEW m \in Modules, m \in NewSite(i), m \in NewSite(j)
      PROVE  i = j
    <2>1. CASE i \in 1 .. k /\ j \in 1 .. k
        BY <1>2, <1>8, <2>1 DEF HeldInv
    <2>2. CASE i \in N /\ j \in N
        BY <1>8, <2>2 DEF N
    <2> QED
        BY <1>3, <1>7, <1>8, <2>1, <2>2
<1>9. ASSUME NEW m \in Modules
      PROVE  status'[m] = "EvaluatingAsync" <=> \E i \in 0 .. n : m \in NewSite(i)
    <2>1. status'[m] = "EvaluatingAsync" <=>
              \/ \E i \in N : m \in NewSite(i)
              \/ status[m] = "EvaluatingAsync" /\ \A j \in O : m \notin Site(j)
        BY DEF N, O
    <2>2. ASSUME status[m] = "EvaluatingAsync", \A j \in O : m \notin Site(j)
          PROVE  \E i \in 0 .. n : m \in NewSite(i)
        <3>1. PICK i \in 0 .. Height : m \in Site(i)
            BY <2>2 DEF HeldInv
        <3>2. i \in 1 .. k
            BY <1>4, <2>2, <3>1
        <3> QED
            BY <1>2, <1>5, <3>1, <3>2
    <2>3. ASSUME NEW i \in 1 .. k, m \in NewSite(i)
          PROVE  status[m] = "EvaluatingAsync" /\ \A j \in O : m \notin Site(j)
        BY <1>7, <2>3
    <2> QED
        BY <1>3, <1>5, <2>1, <2>2, <2>3
<1> QED
    BY <1>6, <1>8, <1>9 DEF HeldInv, Height, Site, NewSite

\* No call that comes or goes holds a module.
LEMMA SitesStay ==
    ASSUME TypeInv, HeldInv, NEW k \in 0 .. Height, Len(calls') \in Nat, k <= Len(calls'), Same(k),
           suspended' = suspended,
           \A i \in k + 1 .. Len(calls') : calls'[i].k # "resume" /\ Held(calls'[i]) = {},
           \A i \in k + 1 .. Height : Held(calls[i]) = {},
           \A m \in Modules : status'[m] = "EvaluatingAsync" <=> status[m] = "EvaluatingAsync"
    PROVE  HeldInv'
<1>1. Height \in Nat /\ k \in Nat
    BY DEF TypeInv, Height
<1>2. /\ NewSite(0) = Site(0)
      /\ \A i \in k + 1 .. Len(calls') : i # 0 /\ NewSite(i) = {}
      /\ \A i \in k + 1 .. Height : i # 0 /\ Site(i) = {}
    <2>1. NewSite(0) = Site(0)
        BY DEF NewSite, Site
    <2>2. ASSUME NEW i \in k + 1 .. Len(calls') PROVE i # 0 /\ NewSite(i) = {}
        <3>1. i # 0
            BY <1>1
        <3> QED
            BY <3>1 DEF NewSite
    <2>3. ASSUME NEW i \in k + 1 .. Height PROVE i # 0 /\ Site(i) = {}
        <3>1. i # 0
            BY <1>1
        <3> QED
            BY <3>1 DEF Site
    <2> QED
        BY <2>1, <2>2, <2>3
<1>3. OnceEach(suspended')
    BY DEF HeldInv
<1>4. \A i, j \in {0} \cup (k + 1 .. Len(calls')), m \in Modules :
          m \in NewSite(i) /\ m \in NewSite(j) => i = j
    BY <1>2
<1>5. \A i \in {0} \cup (k + 1 .. Len(calls')), m \in Modules : m \in NewSite(i) =>
          \/ status[m] # "EvaluatingAsync"
          \/ \E j \in {0} \cup (k + 1 .. Height) : m \in Site(j)
    BY <1>2
<1>6. \A m \in Modules : m \in Site(0) => status[m] = "EvaluatingAsync"
    BY <1>1 DEF HeldInv
<1>7. \A m \in Modules : status'[m] = "EvaluatingAsync" <=>
          \/ \E i \in {0} \cup (k + 1 .. Len(calls')) : m \in NewSite(i)
          \/ /\ status[m] = "EvaluatingAsync"
             /\ \A j \in {0} \cup (k + 1 .. Height) : m \notin Site(j)
    BY <1>2, <1>6
<1> QED
    BY <1>3, <1>4, <1>5, <1>7, SitesMove

\* The call on top is replaced by one that holds the same.
LEMMA SitesReplaced ==
    ASSUME TypeInv, HeldInv, calls # <<>>,
           Len(calls') = Height, Same(Height - 1), suspended' = suspended, status' = status,
           calls'[Height].k # "resume", Held(calls'[Height]) = Held(Top)
    PROVE  HeldInv'
<1>1. Height \in Nat \ {0} /\ Top = calls[Height] /\ calls \in Seq(CallType)
    BY TopFacts DEF TypeInv
<1>2. \A i \in 1 .. Height : i # Height => calls'[i] = calls[i]
    BY <1>1 DEF Same
<1>3. \A i \in 0 .. Height : NewSite(i) = Site(i)
    BY <1>1, <1>2 DEF NewSite, Site
<1>4. \A i \in 1 .. Height : calls'[i].k = "resume" => OnceEach(calls'[i].list)
    BY <1>1, <1>2 DEF HeldInv
<1> QED
    BY <1>1, <1>3, <1>4 DEF HeldInv, Height, NewSite, Site

LEMMA OnceEachAppend ==
    ASSUME NEW s \in Seq(Modules), NEW m \in Modules, OnceEach(s), m \notin Elements(s)
    PROVE  OnceEach(Append(s, m))
<1>1. /\ DOMAIN s = 1 .. Len(s) /\ DOMAIN Append(s, m) = 1 .. Len(s) + 1 /\ Len(s) \in Nat
      /\ Append(s, m)[Len(s) + 1] = m
      /\ \A i \in 1 .. Len(s) : Append(s, m)[i] = s[i]
    OBVIOUS
<1>2. \A i \in 1 .. Len(s) : s[i] # m
    BY <1>1 DEF Elements
<1>3. \A i \in 1 .. Len(s) + 1 : i = Len(s) + 1 \/ i \in 1 .. Len(s)
    BY <1>1
<1> QED
    BY <1>1, <1>2, <1>3 DEF OnceEach

\* A module whose call is on top is not in the queue.
LEMMA TopHeld ==
    ASSUME TypeInv, AdjacentInv, StatusInv, HeldInv, calls # <<>>, Evaluates(Top)
    PROVE  /\ Top.of \in Modules /\ Top.of \notin Elements(suspended)
           /\ ~Top.resumed => Held(Top) = {} /\ status[Top.of] = "Evaluating"
           /\ Top.resumed => Held(Top) = {Top.of} /\ status[Top.of] = "EvaluatingAsync"
<1>1. Height \in Nat \ {0} /\ Top = calls[Height] /\ Height \in 1 .. Height /\ Top.of \in Modules
    BY TopFacts, TopTypes
<1>2. /\ ~Top.resumed => status[Top.of] = "Evaluating"
      /\ Top.resumed => status[Top.of] = "EvaluatingAsync" /\ IsResumed(Top)
    BY <1>1, StatusOfCall
<1>3. /\ ~Top.resumed => Held(Top) = {}
      /\ Top.resumed => Held(Top) = {Top.of}
    BY <1>2 DEF Held, IsResumed, Evaluates
<1>4. Site(0) = Elements(suspended) /\ Site(Height) = Held(Top)
    BY <1>1 DEF Site
<1>5. 0 \in 0 .. Height /\ Height \in 0 .. Height
    BY <1>1
<1>6. CASE ~Top.resumed
    <2>1. Top.of \notin Site(0)
        BY <1>1, <1>2, <1>5, <1>6 DEF HeldInv
    <2> QED
        BY <1>1, <1>2, <1>3, <1>4, <1>6, <2>1
<1>7. CASE Top.resumed
    <2>1. Top.of \in Site(Height)
        BY <1>3, <1>4, <1>7
    <2>2. Top.of \notin Site(0)
        BY <1>1, <1>5, <2>1 DEF HeldInv
    <2> QED
        BY <1>1, <1>2, <1>3, <1>4, <1>7, <2>2
<1> QED
    BY <1>6, <1>7

LEMMA SitesDrop ==
    ASSUME TypeInv, AdjacentInv, StatusInv, HeldInv, calls # <<>>, Evaluates(Top),
           calls' \in Seq(CallType), Len(calls') = Height - 1, Same(Height - 1),
           suspended' = suspended, NEW s \in Statuses \ {"EvaluatingAsync"},
           status' = [status EXCEPT ![Top.of] = s]
    PROVE  HeldInv'
<1> DEFINE k == Height - 1
<1>1. /\ Top.of \in Modules /\ Top.of \notin Elements(suspended)
      /\ ~Top.resumed => Held(Top) = {} /\ status[Top.of] = "Evaluating"
      /\ Top.resumed => Held(Top) = {Top.of} /\ status[Top.of] = "EvaluatingAsync"
    BY TopHeld
<1>2. Height \in Nat \ {0} /\ Top = calls[Height]
    BY TopFacts
<1>3. k \in 0 .. Height /\ Len(calls') = k /\ Len(calls') \in Nat /\ Same(k)
    BY <1>2
<1>4. /\ {0} \cup (k + 1 .. Len(calls')) = {0}
      /\ {0} \cup (k + 1 .. Height) = {0, Height}
    BY <1>2
<1>5. NewSite(0) = Elements(suspended) /\ Site(0) = Elements(suspended) /\ Site(Height) = Held(Top)
    BY <1>2 DEF NewSite, Site
<1>6. status'[Top.of] # "EvaluatingAsync" /\ \A m \in Modules : m # Top.of => status'[m] = status[m]
    BY <1>1 DEF TypeInv
<1>7. \A m \in Modules : m \in Site(0) => status[m] = "EvaluatingAsync"
    BY <1>2 DEF HeldInv
<1>8. Top.resumed \in BOOLEAN
    BY TopFacts DEF CallType
<1>9. ASSUME NEW m \in Modules
      PROVE  status'[m] = "EvaluatingAsync" <=>
                \/ m \in NewSite(0)
                \/ status[m] = "EvaluatingAsync" /\ m \notin Site(0) /\ m \notin Site(Height)
    BY <1>1, <1>5, <1>6, <1>7, <1>8
<1>10. OnceEach(suspended')
    BY DEF HeldInv
<1>11. \A i \in k + 1 .. Len(calls') : calls'[i].k = "resume" => OnceEach(calls'[i].list)
    BY <1>3
<1> HIDE DEF k
<1> QED
    BY <1>3, <1>4, <1>5, <1>9, <1>10, <1>11, SitesMove

LEMMA SitesQueue ==
    ASSUME TypeInv, AdjacentInv, StatusInv, HeldInv, calls # <<>>, Evaluates(Top),
           calls' \in Seq(CallType), Len(calls') = Height - 1, Same(Height - 1),
           suspended' = Append(suspended, Top.of),
           status' = [status EXCEPT ![Top.of] = "EvaluatingAsync"]
    PROVE  HeldInv'
<1> DEFINE k == Height - 1
<1>1. /\ Top.of \in Modules /\ Top.of \notin Elements(suspended)
      /\ ~Top.resumed => Held(Top) = {} /\ status[Top.of] = "Evaluating"
      /\ Top.resumed => Held(Top) = {Top.of} /\ status[Top.of] = "EvaluatingAsync"
    BY TopHeld
<1>2. Height \in Nat \ {0} /\ Top = calls[Height] /\ suspended \in Seq(Modules)
    BY TopFacts DEF TypeInv
<1>3. k \in 0 .. Height /\ Len(calls') = k /\ Len(calls') \in Nat /\ Same(k)
    BY <1>2
<1>4. /\ {0} \cup (k + 1 .. Len(calls')) = {0}
      /\ {0} \cup (k + 1 .. Height) = {0, Height}
    BY <1>2
<1>5. Elements(suspended') = Elements(suspended) \cup {Top.of} /\ OnceEach(suspended')
    BY <1>1, <1>2, ElementsAppend, OnceEachAppend DEF HeldInv
<1>6. /\ NewSite(0) = Elements(suspended) \cup {Top.of} /\ Site(0) = Elements(suspended)
      /\ Site(Height) = Held(Top)
    BY <1>2, <1>5 DEF NewSite, Site
<1>7. status'[Top.of] = "EvaluatingAsync" /\ \A m \in Modules : m # Top.of => status'[m] = status[m]
    BY <1>1 DEF TypeInv
<1>8. \A m \in Modules : m \in Site(0) => status[m] = "EvaluatingAsync"
    BY <1>2 DEF HeldInv
<1>9. Top.resumed \in BOOLEAN
    BY TopFacts DEF CallType
<1>10. ASSUME NEW m \in Modules
       PROVE  /\ status'[m] = "EvaluatingAsync" <=>
                    \/ m \in NewSite(0)
                    \/ status[m] = "EvaluatingAsync" /\ m \notin Site(0) /\ m \notin Site(Height)
              /\ m \in NewSite(0) => status[m] # "EvaluatingAsync" \/ m \in Site(0) \/ m \in Site(Height)
    BY <1>1, <1>6, <1>7, <1>8, <1>9
<1>11. \A i \in k + 1 .. Len(calls') : calls'[i].k = "resume" => OnceEach(calls'[i].list)
    BY <1>3
<1> HIDE DEF k
<1>12. \A i, j \in {0} \cup (k + 1 .. Len(calls')), m \in Modules :
           m \in NewSite(i) /\ m \in NewSite(j) => i = j
    BY <1>4
<1>13. \A i \in {0} \cup (k + 1 .. Len(calls')), m \in Modules : m \in NewSite(i) =>
           \/ status[m] # "EvaluatingAsync"
           \/ \E j \in {0} \cup (k + 1 .. Height) : m \in Site(j)
    BY <1>4, <1>10
<1>14. \A m \in Modules : status'[m] = "EvaluatingAsync" <=>
           \/ \E i \in {0} \cup (k + 1 .. Len(calls')) : m \in NewSite(i)
           \/ /\ status[m] = "EvaluatingAsync"
              /\ \A j \in {0} \cup (k + 1 .. Height) : m \notin Site(j)
    BY <1>4, <1>10
<1>15. k <= Len(calls')
    BY <1>3
<1> QED
    BY <1>3, <1>5, <1>11, <1>12, <1>13, <1>14, <1>15, SitesMove

LEMMA SitesBatch ==
    ASSUME TypeInv, HeldInv, calls # <<>>, Held(Top) = {}, status' = status,
           calls' \in Seq(CallType), Len(calls') = Height, Same(Height - 1),
           calls'[Height].k = "resume", calls'[Height].list = suspended, suspended' = <<>>
    PROVE  HeldInv'
<1> DEFINE k == Height - 1
<1>1. Height \in Nat \ {0} /\ Top = calls[Height]
    BY TopFacts
<1>2. k \in 0 .. Height /\ Len(calls') = Height /\ Len(calls') \in Nat /\ k <= Height /\ Same(k)
    BY <1>1
<1>3. /\ {0} \cup (k + 1 .. Height) = {0, Height}
      /\ \A i \in k + 1 .. Height : i = Height
    BY <1>1
<1>4. /\ NewSite(0) = {} /\ NewSite(Height) = Elements(suspended)
      /\ Site(0) = Elements(suspended) /\ Site(Height) = {}
    BY <1>1, EmptyFacts DEF NewSite, Site, Held
<1>5. OnceEach(suspended') /\ OnceEach(calls'[Height].list)
    BY DEF HeldInv, OnceEach
<1>6. \A m \in Modules : m \in Site(0) => status[m] = "EvaluatingAsync"
    BY <1>1 DEF HeldInv
<1> HIDE DEF k
<1> QED
    BY <1>2, <1>3, <1>4, <1>5, <1>6, SitesMove

\* What the batch on top holds.
LEMMA BatchHeld ==
    ASSUME TypeInv, HeldInv, calls # <<>>, Top.k = "resume", Top.list # <<>>
    PROVE  LET h == Head(Top.list)
               t == Elements(Tail(Top.list))
           IN  /\ h \in Modules /\ Tail(Top.list) \in Seq(Modules) /\ OnceEach(Tail(Top.list))
               /\ h \notin t /\ h \notin Elements(suspended) /\ status[h] = "EvaluatingAsync"
               /\ Site(Height) = {h} \cup t
<1>1. Height \in Nat \ {0} /\ Top = calls[Height] /\ Height \in 1 .. Height
    BY TopFacts
<1>2. Top.list \in Seq(Modules) /\ OnceEach(Top.list)
    BY <1>1, TopTypes DEF HeldInv
<1>3. Site(Height) = Elements(Top.list) /\ Site(0) = Elements(suspended)
    BY <1>1 DEF Site, Held
<1>4. /\ Head(Top.list) \in Modules /\ Tail(Top.list) \in Seq(Modules)
      /\ Elements(Top.list) = {Head(Top.list)} \cup Elements(Tail(Top.list))
      /\ OnceEach(Tail(Top.list)) /\ Head(Top.list) \notin Elements(Tail(Top.list))
    BY <1>2, ListHead
<1>5. Height \in 0 .. Height /\ 0 \in 0 .. Height /\ Height # 0
    BY <1>1
<1>6. Head(Top.list) \in Site(Height)
    BY <1>3, <1>4
<1>7. Head(Top.list) \notin Site(0) /\ status[Head(Top.list)] = "EvaluatingAsync"
    BY <1>4, <1>5, <1>6 DEF HeldInv
<1> QED
    BY <1>3, <1>4, <1>7

LEMMA SitesKept == ASSUME TypeInv, HeldInv, ResumeKeeps PROVE HeldInv'
<1> DEFINE k == Height - 1
           h == Head(Top.list)
           t == Elements(Tail(Top.list))
<1>1. /\ calls # <<>> /\ Top.k = "resume" /\ Top.list # <<>>
      /\ suspended' = Append(suspended, h) /\ status' = status
      /\ calls' \in Seq(CallType) /\ Len(calls') = Height /\ Same(Height - 1)
      /\ calls'[Height].k = "resume" /\ calls'[Height].list = Tail(Top.list)
    BY ResumeKeepsFacts
<1>2. /\ h \in Modules /\ OnceEach(Tail(Top.list))
      /\ h \notin t /\ h \notin Elements(suspended) /\ status[h] = "EvaluatingAsync"
      /\ Site(Height) = {h} \cup t
    BY <1>1, BatchHeld
<1>3. Height \in Nat \ {0} /\ Top = calls[Height] /\ suspended \in Seq(Modules)
    BY <1>1, TopFacts DEF TypeInv
<1>4. k \in 0 .. Height /\ Len(calls') = Height /\ Len(calls') \in Nat /\ k <= Height /\ Same(k)
    BY <1>1, <1>3
<1>5. /\ {0} \cup (k + 1 .. Height) = {0, Height} /\ Height # 0
      /\ \A i \in k + 1 .. Height : i = Height
    BY <1>3
<1> HIDE DEF k, h, t
<1>6. Elements(suspended') = Elements(suspended) \cup {h} /\ OnceEach(suspended')
    BY <1>1, <1>2, <1>3, ElementsAppend, OnceEachAppend DEF HeldInv
<1>7. /\ NewSite(0) = Elements(suspended) \cup {h} /\ NewSite(Height) = t
      /\ Site(0) = Elements(suspended)
    BY <1>1, <1>3, <1>6 DEF NewSite, Site, Held, t
<1>8. \A m \in Modules : m \in Site(0) \/ m \in Site(Height) => status[m] = "EvaluatingAsync"
    BY <1>3 DEF HeldInv
<1>9. \A m \in Modules : ~(m \in Site(0) /\ m \in Site(Height))
    <2>1. 0 \in 0 .. Height /\ Height \in 0 .. Height /\ Height # 0
        BY <1>3
    <2> QED
        BY <2>1 DEF HeldInv
<1>10. \A m \in Modules : ~(m \in NewSite(0) /\ m \in NewSite(Height))
    BY <1>2, <1>7, <1>9
<1>11. \A m \in Modules : m \in NewSite(0) \/ m \in NewSite(Height) <=> m \in Site(0) \/ m \in Site(Height)
    BY <1>2, <1>7
<1>12. OnceEach(calls'[Height].list)
    BY <1>1, <1>2
<1>13. \A i, j \in {0, Height}, m \in Modules : m \in NewSite(i) /\ m \in NewSite(j) => i = j
    BY <1>10
<1>14. \A i \in {0, Height}, m \in Modules : m \in NewSite(i) => \E j \in {0, Height} : m \in Site(j)
    BY <1>11
<1>15. \A m \in Modules : status'[m] = "EvaluatingAsync" <=>
           \/ \E i \in {0, Height} : m \in NewSite(i)
           \/ status[m] = "EvaluatingAsync" /\ \A j \in {0, Height} : m \notin Site(j)
    BY <1>1, <1>8, <1>11
<1> QED
    BY <1>4, <1>5, <1>6, <1>12, <1>13, <1>14, <1>15, SitesMove

LEMMA SitesRun == ASSUME TypeInv, HeldInv, ResumeRuns PROVE HeldInv'
<1> DEFINE k == Height - 1
           n == Height + 1
           h == Head(Top.list)
           t == Elements(Tail(Top.list))
<1>1. /\ calls # <<>> /\ Top.k = "resume" /\ Top.list # <<>>
      /\ suspended' = suspended /\ status' = status
      /\ calls' \in Seq(CallType) /\ Len(calls') = Height + 1 /\ Same(Height - 1)
      /\ calls'[Height].k = "resume" /\ calls'[Height].list = Tail(Top.list)
      /\ calls'[Height + 1].k = "body" /\ calls'[Height + 1].of = h /\ calls'[Height + 1].resumed
    BY ResumeRunsFacts
<1>2. /\ h \in Modules /\ OnceEach(Tail(Top.list))
      /\ h \notin t /\ h \notin Elements(suspended) /\ status[h] = "EvaluatingAsync"
      /\ Site(Height) = {h} \cup t
    BY <1>1, BatchHeld
<1>3. Height \in Nat \ {0} /\ Top = calls[Height]
    BY <1>1, TopFacts
<1>4. k \in 0 .. Height /\ Len(calls') = n /\ Len(calls') \in Nat /\ k <= n /\ Same(k)
    BY <1>1, <1>3
<1>5. /\ {0} \cup (k + 1 .. Height) = {0, Height} /\ Height # 0 /\ n # 0 /\ n # Height
      /\ {0} \cup (k + 1 .. n) = {0, Height, n}
      /\ \A i \in k + 1 .. n : i = Height \/ i = n
    BY <1>3
<1>6. /\ NewSite(0) = Elements(suspended) /\ NewSite(Height) = t /\ NewSite(n) = {h}
      /\ Site(0) = Elements(suspended) /\ calls'[n].k = "body"
    BY <1>1, <1>3, <1>5 DEF NewSite, Site, Held, IsResumed
<1> HIDE DEF k, n, h, t
<1>7. OnceEach(suspended')
    BY <1>1 DEF HeldInv
<1>8. \A m \in Modules : m \in Site(0) \/ m \in Site(Height) => status[m] = "EvaluatingAsync"
    BY <1>3 DEF HeldInv
<1>9. \A m \in Modules : ~(m \in Site(0) /\ m \in Site(Height))
    <2>1. 0 \in 0 .. Height /\ Height \in 0 .. Height /\ Height # 0
        BY <1>3
    <2> QED
        BY <2>1 DEF HeldInv
<1>10. \A i, j \in {0, Height, n}, m \in Modules : m \in NewSite(i) /\ m \in NewSite(j) => i = j
    BY <1>2, <1>6, <1>9
<1>11. \A m \in Modules : (\E i \in {0, Height, n} : m \in NewSite(i)) <=> m \in Site(0) \/ m \in Site(Height)
    BY <1>2, <1>6
<1>12. OnceEach(calls'[Height].list)
    BY <1>1, <1>2
<1>13. \A i \in {0, Height, n}, m \in Modules : m \in NewSite(i) => \E j \in {0, Height} : m \in Site(j)
    BY <1>11
<1>14. \A m \in Modules : status'[m] = "EvaluatingAsync" <=>
           \/ \E i \in {0, Height, n} : m \in NewSite(i)
           \/ status[m] = "EvaluatingAsync" /\ \A j \in {0, Height} : m \notin Site(j)
    BY <1>1, <1>8, <1>11
<1>15. \A i \in k + 1 .. Len(calls') : calls'[i].k = "resume" => OnceEach(calls'[i].list)
    BY <1>4, <1>5, <1>6, <1>12
<1> QED
    BY <1>4, <1>5, <1>7, <1>10, <1>13, <1>14, <1>15, SitesMove

LEMMA SitesPop ==
    ASSUME TypeInv, HeldInv, calls # <<>>, Held(Top) = {}, suspended' = suspended,
           status' = status, calls' \in Seq(CallType), Len(calls') = Height - 1, Same(Height - 1)
    PROVE  HeldInv'
<1> DEFINE k == Height - 1
<1>1. Height \in Nat \ {0} /\ Top = calls[Height]
    BY TopFacts
<1>2. k \in 0 .. Height /\ Len(calls') = k /\ Len(calls') \in Nat /\ Same(k)
      /\ \A i \in k + 1 .. Height : calls[i] = Top
    BY <1>1
<1>3. \A i \in k + 1 .. Len(calls') : calls'[i].k # "resume" /\ Held(calls'[i]) = {}
    BY <1>2
<1> HIDE DEF k
<1> QED
    BY <1>2, <1>3, SitesStay

\* The last call returns.
LEMMA SitesEmpty ==
    ASSUME TypeInv, HeldInv, calls # <<>>, Height = 1, Bottom(Top), calls' = <<>>,
           suspended' = suspended,
           \A m \in Modules : status'[m] = "EvaluatingAsync" <=> status[m] = "EvaluatingAsync"
    PROVE  HeldInv'
<1>1. Top = calls[1] /\ Held(Top) = {}
    BY TopFacts DEF Bottom, Held, IsResumed
<1>2. /\ 0 \in 0 .. Height /\ Len(calls') \in Nat /\ 0 <= Len(calls') /\ Same(0)
      /\ \A i \in 0 + 1 .. Height : i = 1
      /\ \A i \in 0 + 1 .. Len(calls') : calls'[i].k # "resume" /\ Held(calls'[i]) = {}
    BY DEF Same
<1> QED
    BY <1>1, <1>2, SitesStay

LEMMA HeldStep ==
    ASSUME TypeInv, AdjacentInv, MainInv, StatusInv, HeldInv, Next
    PROVE  HeldInv'
<1> USE DEF Held, IsResumed
<1>1. CASE UNCHANGED <<calls, status, suspended>>
    BY <1>1 DEF HeldInv, Height, Site
<1>2. CASE WalkPasses
    BY <1>2, WalkPassesFacts, SitesReplaced
<1>3. CASE WalkEnters
    <2> DEFINE m == Head(Top.list)
    <2>1. /\ calls # <<>> /\ Top.k = "walk" /\ m \in Modules /\ status[m] = "Linked"
          /\ status' = [status EXCEPT ![m] = "Evaluating"] /\ suspended' = suspended
          /\ calls' \in Seq(CallType) /\ Len(calls') = Height + 2 /\ Same(Height - 1)
          /\ calls'[Height].k = "walk" /\ calls'[Height + 1].k = "ensure"
          /\ calls'[Height + 2].k = "walk"
        BY <1>3, WalkEntersFacts
    <2> HIDE DEF m
    <2>2. /\ Height \in Nat \ {0} /\ Height - 1 \in 0 .. Height /\ Len(calls') \in Nat
          /\ Height - 1 <= Len(calls')
          /\ \A i \in (Height - 1) + 1 .. Height : calls[i] = Top
          /\ \A i \in (Height - 1) + 1 .. Len(calls') : i \in {Height, Height + 1, Height + 2}
        BY <2>1, TopFacts
    <2>3. \A l \in Modules : status'[l] = "EvaluatingAsync" <=> status[l] = "EvaluatingAsync"
        BY <2>1 DEF TypeInv
    <2>4. \A i \in (Height - 1) + 1 .. Len(calls') : calls'[i].k # "resume" /\ Held(calls'[i]) = {}
        BY <2>1, <2>2
    <2>5. \A i \in (Height - 1) + 1 .. Height : Held(calls[i]) = {}
        BY <2>1, <2>2
    <2> QED
        BY <2>1, <2>2, <2>3, <2>4, <2>5, SitesStay
<1>4. CASE WalkEnds
    <2>1. calls # <<>> /\ Held(Top) = {}
        BY <1>4, WalkEndsFacts
    <2> QED
        BY <1>4, <2>1, WalkEndsFacts, SitesBatch, SitesPop
<1>5. CASE EnsureFails \/ BodyThrows \/ RunFinishes
    <2>1. /\ calls # <<>> /\ Evaluates(Top) /\ suspended' = suspended
          /\ calls' \in Seq(CallType) /\ Len(calls') = Height - 1 /\ Same(Height - 1)
        BY <1>5, EnsureFailsFacts, BodyThrowsFacts, RunFinishesFacts DEF Evaluates
    <2>2. PICK s \in Statuses \ {"EvaluatingAsync"} : status' = [status EXCEPT ![Top.of] = s]
        BY <1>5, EnsureFailsFacts, BodyThrowsFacts, RunFinishesFacts, StatusesFacts
    <2> QED
        BY <2>1, <2>2, SitesDrop
<1>6. CASE EnsureWaits \/ RunSuspends
    <2>1. /\ calls # <<>> /\ Evaluates(Top) /\ suspended' = Append(suspended, Top.of)
          /\ calls' \in Seq(CallType) /\ Len(calls') = Height - 1 /\ Same(Height - 1)
          /\ status' = [status EXCEPT ![Top.of] = "EvaluatingAsync"]
        BY <1>6, EnsureWaitsFacts, RunSuspendsFacts DEF Evaluates
    <2> QED
        BY <2>1, SitesQueue
<1>7. CASE CallReturns
    <2>1. calls # <<>> /\ Held(Top) = {}
        BY <1>7, CallReturnsFacts
    <2> QED
        BY <1>7, <2>1, CallReturnsFacts, SitesPop
<1>8. CASE EnsureRuns
    BY <1>8, EnsureRunsFacts, SitesReplaced
<1>9. CASE ResumeKeeps
    BY <1>9, SitesKept
<1>10. CASE ResumeEnds
    <2>1. calls # <<>> /\ Held(Top) = {}
        BY <1>10, ResumeEndsFacts, EmptyFacts
    <2> QED
        BY <1>10, <2>1, ResumeEndsFacts, SitesBatch, SitesPop
<1>11. CASE ResumeRuns
    BY <1>11, SitesRun
<1>12. CASE HostLoads
    <2> DEFINE st == [status EXCEPT ![Main] = "Evaluating"]
    <2>1. /\ calls # <<>> /\ Top.k = "host" /\ status[Main] = "none" /\ suspended' = suspended
          /\ st \in [Modules -> Statuses] /\ Wanted(Main) \in SUBSET Modules
          /\ Load(Wanted(Main), st)
        BY <1>12, HostLoadsFacts
    <2>2. /\ \A l \in Modules : l # Main => st[l] = status[l]
          /\ st[Main] = "Evaluating"
        BY MainAssumption DEF TypeInv
    <2> HIDE DEF st
    <2>3. /\ \A l \in Modules : st[l] # "none" => status'[l] = st[l]
          /\ \A l \in Modules : st[l] = "none" => status'[l] \in {"none", "Linked"}
        <3>1. Wanted(Main) \in SUBSET Modules
            BY <2>1
        <3>2. st \in [Modules -> Statuses]
            BY <2>1
        <3>3. Load(Wanted(Main), st)
            BY <2>1
        <3> QED
            BY <3>1, <3>2, <3>3, LoadFacts, ZenonT(30)
    <2>4. \A l \in Modules : status'[l] = "EvaluatingAsync" <=> status[l] = "EvaluatingAsync"
        BY <2>1, <2>2, <2>3
    <2>5. Height = 1 /\ Bottom(Top)
        BY <2>1, PlaceOnStack
    <2>6. CASE calls' = <<>>
        BY <2>1, <2>4, <2>5, <2>6, SitesEmpty
    <2>7. CASE calls' # <<>>
        <3>1. /\ calls' \in Seq(CallType) /\ Len(calls') = Height + 1 /\ Same(Height)
              /\ calls'[Height + 1].k = "walk"
            BY <1>12, <2>7, HostLoadsFacts
        <3>2. /\ Height \in 0 .. Height /\ Len(calls') \in Nat /\ Height <= Len(calls')
              /\ \A i \in Height + 1 .. Len(calls') : i = Height + 1
              /\ ~\E i \in Height + 1 .. Height : TRUE
            BY <2>5, <3>1
        <3> QED
            BY <2>1, <2>4, <3>1, <3>2, SitesStay
    <2> QED
        BY <2>6, <2>7
<1>13. CASE HostRuns
    <2>1. /\ calls # <<>> /\ Top.k = "host" /\ status' = status /\ suspended' = suspended
          /\ calls' \in Seq(CallType) /\ Len(calls') = 1
          /\ calls'[1].k = "body" /\ ~calls'[1].resumed
        BY <1>13, HostRunsFacts DEF history
    <2>2. Height = 1 /\ Same(Height - 1)
        BY <2>1, PlaceOnStack DEF Same
    <2> QED
        BY <2>1, <2>2, SitesReplaced
<1>14. CASE HostFails
    <2>1. /\ calls # <<>> /\ calls' = <<>> /\ status' = status /\ suspended' = suspended
          /\ \/ Top.k = "host"
             \/ Top.k \in {"body", "drain"} /\ Top.of = Main
        BY <1>14, HostFailsFacts
    <2>2. Height = 1 /\ Bottom(Top)
        BY <2>1, PlaceOnStack DEF Evaluates
    <2> QED
        BY <2>1, <2>2, SitesEmpty
<1>15. CASE Await \/ BodyEnds
    BY <1>1, <1>15, AwaitFacts, BodyEndsFacts, SitesReplaced DEF history
<1>16. ASSUME NEW m \in Modules, Import(m) PROVE HeldInv'
    <2>1. /\ calls # <<>> /\ Load({m}, status) /\ {m} \in SUBSET Modules
          /\ status \in [Modules -> Statuses] /\ suspended' = suspended
        BY <1>16, ImportFacts DEF TypeInv
    <2>2. /\ \A l \in Modules : status[l] # "none" => status'[l] = status[l]
          /\ \A l \in Modules : status[l] = "none" => status'[l] \in {"none", "Linked"}
        BY <2>1, LoadFacts
    <2>3. \A l \in Modules : status'[l] = "EvaluatingAsync" <=> status[l] = "EvaluatingAsync"
        BY <2>2
    <2>4. Height \in Nat \ {0} /\ Height \in 0 .. Height /\ ~\E i \in Height + 1 .. Height : TRUE
        BY <2>1, TopFacts
    <2>5. CASE calls' = calls
        <3>1. /\ Len(calls') \in Nat /\ Height <= Len(calls') /\ Same(Height)
              /\ ~\E i \in Height + 1 .. Len(calls') : TRUE
            BY <2>4, <2>5 DEF Height, Same
        <3> QED
            BY <2>1, <2>3, <2>4, <3>1, SitesStay
    <2>6. CASE calls' # calls
        <3>1. /\ calls' \in Seq(CallType) /\ Len(calls') = Height + 2 /\ Same(Height)
              /\ calls'[Height + 1].k = "import" /\ calls'[Height + 2].k = "walk"
            BY <1>16, <2>6, ImportFacts
        <3>2. /\ Len(calls') \in Nat /\ Height <= Len(calls')
              /\ \A i \in Height + 1 .. Len(calls') : i \in {Height + 1, Height + 2}
            BY <2>4, <3>1
        <3>3. \A i \in Height + 1 .. Len(calls') : calls'[i].k # "resume" /\ Held(calls'[i]) = {}
            BY <3>1, <3>2
        <3> QED
            BY <2>1, <2>3, <2>4, <3>1, <3>2, <3>3, SitesStay
    <2> QED
        BY <2>5, <2>6
<1>17. ASSUME NEW m \in Modules, Touch(m) PROVE HeldInv'
    <2>1. /\ calls # <<>> /\ status[m] = "Linked" /\ suspended' = suspended
          /\ status' = [status EXCEPT ![m] = "Evaluating"]
          /\ calls' \in Seq(CallType) /\ Len(calls') = Height + 3 /\ Same(Height)
          /\ calls'[Height + 1].k = "touch" /\ calls'[Height + 2].k = "ensure"
          /\ calls'[Height + 3].k = "walk"
        BY <1>17, TouchFacts
    <2>2. /\ Height \in Nat \ {0} /\ Height \in 0 .. Height /\ Len(calls') \in Nat
          /\ Height <= Len(calls')
          /\ ~\E i \in Height + 1 .. Height : TRUE
          /\ \A i \in Height + 1 .. Len(calls') : i \in {Height + 1, Height + 2, Height + 3}
        BY <2>1, TopFacts
    <2>3. \A l \in Modules : status'[l] = "EvaluatingAsync" <=> status[l] = "EvaluatingAsync"
        BY <2>1 DEF TypeInv
    <2>4. \A i \in Height + 1 .. Len(calls') : calls'[i].k # "resume" /\ Held(calls'[i]) = {}
        BY <2>1, <2>2
    <2> QED
        BY <2>1, <2>2, <2>3, <2>4, SitesStay
<1> QED
    BY <1>1, <1>2, <1>3, <1>4, <1>5, <1>6, <1>7, <1>8, <1>9, <1>10, <1>11, <1>12, <1>13, <1>14,
       <1>15, <1>16, <1>17, WalkBreaksFacts DEF Next, Evaluate, Javascript

----------------------------------------------------------------------------
(* What is loaded.                                                          *)

LEMMA LoadStep ==
    ASSUME TypeInv, AdjacentInv, StatusInv, HeldInv, LoadInv, Next
    PROVE  LoadInv'
<1>1. \A m \in Modules : Wanted(m) \subseteq Modules
    BY ProgramFacts DEF TypeInv
<1>2. Main \in Modules /\ status \in [Modules -> Statuses]
    BY MainAssumption DEF TypeInv
<1>3. ASSUME NEW S \in SUBSET Modules, NEW st \in [Modules -> Statuses], Load(S, st),
             program' = program,
             st = status \/ (st = [status EXCEPT ![Main] = "Evaluating"] /\ S = Wanted(Main))
      PROVE  LoadInv'
    <2>1. /\ errors \subseteq errors'
          /\ \A m \in Modules : st[m] # "none" => status'[m] = st[m]
          /\ \A m \in S : status'[m] # "none" \/ m \in errors'
          /\ \A m \in Modules : st[m] = "none" /\ status'[m] # "none" =>
                 \A d \in Wanted(m) : status'[d] # "none" \/ d \in errors'
        BY <1>3, LoadFacts, ZenonT(30)
    <2>2. \A m \in Modules : status[m] # "none" => st[m] # "none"
        BY <1>2, <1>3
    <2>3. ASSUME NEW m \in Modules, status'[m] # "none", NEW d \in Wanted(m)
          PROVE  status'[d] # "none" \/ d \in errors'
        <3>1. CASE st[m] = "none"
            BY <2>1, <2>3, <3>1
        <3>2. CASE status[m] # "none"
            <4>1. status[d] # "none" \/ d \in errors
                BY <2>3, <3>2 DEF LoadInv, HasRecord
            <4> QED
                BY <1>1, <2>1, <2>2, <2>3, <4>1
        <3>3. CASE status[m] = "none" /\ st[m] # "none"
            <4>1. m = Main /\ S = Wanted(Main)
                BY <1>2, <1>3, <3>3
            <4> QED
                BY <2>1, <2>3, <4>1
        <3> QED
            BY <3>1, <3>2, <3>3
    <2>4. \A m \in Modules : Wanted(m)' = Wanted(m)
        BY <1>3 DEF Wanted, Requests
    <2> QED
        BY <2>3, <2>4 DEF LoadInv, HasRecord
<1>4. ASSUME program' = program,
             \A m \in Modules : status'[m] # "none" <=> status[m] # "none",
             \A m \in errors : m \in errors' \/ status'[m] # "none"
      PROVE  LoadInv'
    <2>1. \A m \in Modules : Wanted(m)' = Wanted(m)
        BY <1>4 DEF Wanted, Requests
    <2> QED
        BY <1>1, <1>4, <2>1 DEF LoadInv, HasRecord
<1>5. CASE HostLoads
    <2> DEFINE st == [status EXCEPT ![Main] = "Evaluating"]
    <2>1. /\ st \in [Modules -> Statuses] /\ Wanted(Main) \in SUBSET Modules
          /\ Load(Wanted(Main), st) /\ program' = program
        BY <1>5, HostLoadsFacts
    <2> QED
        BY <2>1, <1>3
<1>6. ASSUME NEW m \in Modules, Import(m) PROVE LoadInv'
    <2>1. Load({m}, status) /\ {m} \in SUBSET Modules /\ program' = program
        BY <1>6, ImportFacts
    <2> QED
        BY <1>2, <2>1, <1>3
<1>7. ASSUME NEW m \in Modules, status[m] # "none", NEW s \in Statuses \ {"none"},
             status' = [status EXCEPT ![m] = s], program' = program,
             \A d \in errors : d \in errors' \/ d = m
      PROVE  LoadInv'
    <2>1. \A l \in Modules : status'[l] # "none" <=> status[l] # "none"
        BY <1>2, <1>7
    <2>2. status'[m] # "none"
        BY <1>2, <1>7
    <2> QED
        BY <1>4, <1>7, <2>1, <2>2
<1>8. CASE EnsureFails \/ EnsureWaits \/ RunSuspends \/ RunFinishes \/ BodyThrows
    <2>1. /\ calls # <<>> /\ Evaluates(Top) /\ program' = program
          /\ \A d \in errors : d \in errors' \/ d = Top.of
        BY <1>8, EnsureFailsFacts, EnsureWaitsFacts, RunSuspendsFacts, RunFinishesFacts,
           BodyThrowsFacts DEF Evaluates
    <2>2. Top.of \in Modules /\ status[Top.of] # "none"
        <3>1. Top.resumed \in BOOLEAN
            BY <2>1, TopFacts DEF CallType
        <3> QED
            BY <2>1, <3>1, TopHeld
    <2>3. PICK s \in Statuses \ {"none"} : status' = [status EXCEPT ![Top.of] = s]
        BY <1>8, EnsureFailsFacts, EnsureWaitsFacts, RunSuspendsFacts, RunFinishesFacts,
           BodyThrowsFacts, StatusesFacts
    <2> QED
        BY <1>7, <2>1, <2>2, <2>3
<1>9. CASE WalkEnters
    <2>1. /\ Head(Top.list) \in Modules /\ status[Head(Top.list)] # "none"
          /\ status' = [status EXCEPT ![Head(Top.list)] = "Evaluating"]
          /\ program' = program /\ errors' = errors
        BY <1>9, WalkEntersFacts
    <2> QED
        BY <1>7, <2>1, StatusesFacts
<1>10. ASSUME NEW m \in Modules, Touch(m) PROVE LoadInv'
    <2>1. /\ status[m] # "none" /\ status' = [status EXCEPT ![m] = "Evaluating"]
          /\ program' = program /\ errors' = errors
        BY <1>10, TouchFacts
    <2> QED
        BY <1>7, <2>1, StatusesFacts
<1>11. CASE UNCHANGED <<program, status, errors>>
    BY <1>4, <1>11
<1> QED
    BY <1>5, <1>6, <1>8, <1>9, <1>10, <1>11, WalkPassesFacts, WalkBreaksFacts, WalkEndsFacts,
       EnsureRunsFacts, ResumeKeepsFacts, ResumeRunsFacts, ResumeEndsFacts, CallReturnsFacts,
       HostRunsFacts, AwaitFacts, BodyEndsFacts, HostFailsFacts DEF Next, Evaluate, Javascript

----------------------------------------------------------------------------
(* The invariant.                                                           *)

LEMMA StackInit == Init => StackInv
<1> SUFFICES ASSUME Init PROVE StackInv
    OBVIOUS
<1>1. TypeInv /\ AdjacentInv
    BY TypeInit, AdjacentInit
<1> DEFINE c == [k |-> "host", of |-> Main, list |-> <<>>, resumed |-> FALSE]
<1>2. /\ calls = <<c>> /\ ~throwing /\ suspended = <<>>
      /\ \A m \in Modules : status[m] = "none"
    BY DEF Init
<1>3. Height = 1 /\ calls[1] = c /\ \A i \in 1 .. Height : calls[i] = c
    <2>1. Len(calls) = 1 /\ calls[1] = c
        BY <1>2
    <2>2. \A i \in 1 .. 1 : i = 1
        OBVIOUS
    <2> QED
        BY <2>1, <2>2 DEF Height
<1>4. ThrowInv
    BY <1>2 DEF ThrowInv
<1>5. MainInv
    BY <1>2, <1>3, MainAssumption DEF MainInv
<1>6. OneCallEach
    BY <1>3 DEF OneCallEach, Evaluates
<1>7. StatusInv
    BY <1>2, <1>3 DEF StatusInv, Evaluates
<1>8. \A i \in 0 .. Height : Site(i) = {}
    <2>1. Site(0) = {}
        BY <1>2, EmptyFacts DEF Site
    <2>2. Site(1) = {}
        BY <1>3 DEF Site, Held, IsResumed
    <2>3. \A i \in 0 .. Height : i = 0 \/ i = 1
        BY <1>3
    <2> QED
        BY <2>1, <2>2, <2>3
<1>9. OnceEach(suspended) /\ \A i \in 1 .. Height : calls[i].k # "resume"
    BY <1>2, <1>3 DEF OnceEach
<1>10. HeldInv
    BY <1>2, <1>8, <1>9 DEF HeldInv
<1>11. LoadInv
    BY <1>2 DEF LoadInv, HasRecord
<1> QED
    BY <1>1, <1>4, <1>5, <1>6, <1>7, <1>10, <1>11 DEF StackInv

LEMMA StackStep == StackInv /\ [Next]_vars => StackInv'
<1> SUFFICES ASSUME StackInv, [Next]_vars PROVE StackInv'
    OBVIOUS
<1>1. TypeInv' /\ TypeInv /\ AdjacentInv /\ ThrowInv /\ MainInv /\ OneCallEach /\ StatusInv
      /\ HeldInv /\ LoadInv
    BY TypeStep DEF StackInv
<1>2. CASE Next
    BY <1>1, <1>2, AdjacentStep, ThrowStep, MainStep, OneCallStep, StatusStep, HeldStep, LoadStep
       DEF StackInv
<1>3. CASE UNCHANGED vars
    <2>1. AdjacentInv' /\ ThrowInv' /\ MainInv' /\ OneCallEach'
        BY <1>1, <1>3 DEF vars, AdjacentInv, ThrowInv, MainInv, OneCallEach, Height, At, Top
    <2>2. StatusInv' /\ LoadInv'
        BY <1>1, <1>3 DEF vars, StatusInv, LoadInv, Height, HasRecord, Wanted, Requests
    <2>3. HeldInv'
        BY <1>1, <1>3 DEF vars, HeldInv, Height, Site
    <2> QED
        BY <1>1, <2>1, <2>2, <2>3 DEF StackInv
<1> QED
    BY <1>2, <1>3

LEMMA StackAlways == Spec => []StackInv
<1>1. Init => StackInv
    BY StackInit
<1>2. StackInv /\ [Next]_vars => StackInv'
    BY StackStep
<1> QED
    BY <1>1, <1>2, PTL DEF Spec

\* The shape of the state; and what is thrown is on its way up, no body runs
\* while it is pending.
THEOREM TypeCorrect == Spec => []TypeOK
<1>1. StackInv => TypeOK
    <2> SUFFICES ASSUME StackInv PROVE TypeOK
        OBVIOUS
    <2>1. TypeInv /\ ThrowInv
        BY DEF StackInv
    <2>2. \A i \in DOMAIN calls : calls[i] \in CallType
        BY <2>1 DEF TypeInv
    <2>3. \A i \in DOMAIN calls :
              /\ calls[i].k \in Kinds /\ calls[i].of \in Modules
              /\ calls[i].list \in Seq(Modules)
        BY <2>2 DEF CallType
    <2> QED
        BY <2>1, <2>3, Zenon DEF TypeOK, TypeInv, ThrowInv
<1> QED
    BY <1>1, StackAlways, PTL

----------------------------------------------------------------------------
(* Evaluated in full, if no callback imports or touches anything between a  *)
(* suspension and the return of the run.                                    *)

\* Only the call on top is replaced.
LEMMA Lower ==
    ASSUME TypeInv, AdjacentInv, Next
    PROVE  /\ calls # <<>> /\ calls' \in Seq(CallType)
           /\ \A i \in 1 .. Len(calls') : i < Height => calls'[i] = calls[i]
<1> DEFINE Kept == /\ calls # <<>> /\ calls' \in Seq(CallType)
                   /\ \A i \in 1 .. Len(calls') : i < Height => calls'[i] = calls[i]
<1> SUFFICES Kept
    OBVIOUS
<1>1. ASSUME calls # <<>>, calls' \in Seq(CallType), Same(Height - 1) PROVE Kept
    <2>1. Height \in Nat
        BY <1>1, TopFacts
    <2> QED
        BY <1>1, <2>1 DEF Same
<1>2. ASSUME calls # <<>>, calls' \in Seq(CallType), Same(Height) PROVE Kept
    <2>1. Height \in Nat
        BY <1>2, TopFacts
    <2> QED
        BY <1>2, <2>1 DEF Same
<1>3. ASSUME calls # <<>>, calls' = <<>> PROVE Kept
    BY <1>3, EmptyFacts
<1>4. ASSUME calls # <<>>, calls' = calls PROVE Kept
    BY <1>4 DEF TypeInv
<1>5. CASE HostRuns
    <2>1. calls # <<>> /\ calls' \in Seq(CallType) /\ Height = 1
        BY <1>5, HostRunsFacts, PlaceOnStack
    <2> QED
        BY <1>1, <2>1 DEF Same
<1> HIDE DEF Kept
<1>6. CASE WalkPasses \/ WalkEnters \/ WalkEnds \/ EnsureFails \/ EnsureWaits \/ EnsureRuns
    BY <1>1, <1>6, WalkPassesFacts, WalkEntersFacts, WalkEndsFacts, EnsureFailsFacts,
       EnsureWaitsFacts, EnsureRunsFacts
<1>7. CASE ResumeKeeps \/ ResumeRuns \/ ResumeEnds \/ RunSuspends \/ RunFinishes \/ CallReturns
              \/ BodyThrows \/ BodyEnds
    BY <1>1, <1>7, ResumeKeepsFacts, ResumeRunsFacts, ResumeEndsFacts, RunSuspendsFacts,
       RunFinishesFacts, CallReturnsFacts, BodyThrowsFacts, BodyEndsFacts
<1>8. CASE WalkBreaks \/ HostFails \/ HostLoads \/ Await
    BY <1>1, <1>2, <1>3, <1>4, <1>8, WalkBreaksFacts, HostFailsFacts, HostLoadsFacts, AwaitFacts
<1>9. ASSUME NEW m \in Modules, Import(m) \/ Touch(m) PROVE Kept
    <2>1. CASE Import(m)
        BY <1>2, <1>4, <2>1, ImportFacts
    <2>2. CASE Touch(m)
        BY <1>2, <2>2, TouchFacts
    <2> QED
        BY <1>9, <2>1, <2>2
<1> QED
    BY <1>5, <1>6, <1>7, <1>8, <1>9 DEF Next, Evaluate, Javascript

\* The drains and the touches that were not there, or have been on top.
LEMMA FreshCalls ==
    ASSUME TypeInv, AdjacentInv, Next, NEW i \in 1 .. Len(calls'), i >= Height,
           calls'[i].k \in {"drain", "touch"}
    PROVE  \/ i = Height /\ calls'[i] = Top /\ JsRuns
           \/ i = Height /\ calls'[i].k = "drain" /\ calls'[i].of = Top.of /\ (Await \/ BodyEnds)
           \/ calls'[i].k = "touch" /\ Touch(calls'[i].of)
<1>1. calls # <<>> /\ Height \in Nat \ {0} /\ Top = calls[Height] /\ Len(calls') \in Nat
    BY Lower, TopFacts
<1>2. CASE WalkPasses \/ WalkEnds \/ EnsureFails \/ EnsureWaits \/ EnsureRuns
    <2>1. Len(calls') <= Height /\ (Len(calls') = Height => calls'[Height].k \in {"walk", "resume", "body"})
        <3>1. CASE WalkPasses
            BY <1>1, <3>1, WalkPassesFacts
        <3>2. CASE WalkEnds
            BY <1>1, <3>2, WalkEndsFacts
        <3>3. CASE EnsureFails \/ EnsureWaits
            BY <1>1, <3>3, EnsureFailsFacts, EnsureWaitsFacts
        <3>4. CASE EnsureRuns
            BY <1>1, <3>4, EnsureRunsFacts
        <3> QED
            BY <1>2, <3>1, <3>2, <3>3, <3>4
    <2> QED
        BY <1>1, <2>1
<1>3. CASE ResumeKeeps \/ ResumeEnds \/ RunSuspends \/ RunFinishes \/ CallReturns \/ BodyThrows
    <2>1. Len(calls') <= Height /\ (Len(calls') = Height => calls'[Height].k = "resume")
        BY <1>1, <1>3, ResumeKeepsFacts, ResumeEndsFacts, RunSuspendsFacts, RunFinishesFacts,
           CallReturnsFacts, BodyThrowsFacts
    <2> QED
        BY <1>1, <2>1
<1>4. CASE WalkEnters
    <2>1. Len(calls') = Height + 2 /\ calls'[Height].k = "walk" /\ calls'[Height + 1].k = "ensure"
          /\ calls'[Height + 2].k = "walk"
        BY <1>4, WalkEntersFacts
    <2>2. i = Height \/ i = Height + 1 \/ i = Height + 2
        BY <1>1, <2>1
    <2> QED
        BY <2>1, <2>2
<1>5. CASE ResumeRuns
    <2>1. Len(calls') = Height + 1 /\ calls'[Height].k = "resume" /\ calls'[Height + 1].k = "body"
        BY <1>5, ResumeRunsFacts
    <2>2. i = Height \/ i = Height + 1
        BY <1>1, <2>1
    <2> QED
        BY <2>1, <2>2
<1>6. CASE WalkBreaks
    <2>1. Top.k = "walk" /\ calls' = calls
        BY <1>6, WalkBreaksFacts
    <2>2. i = Height
        BY <1>1, <2>1 DEF Height
    <2> QED
        BY <1>1, <2>1, <2>2
<1>7. CASE HostFails
    BY <1>1, <1>7, HostFailsFacts
<1>8. CASE HostLoads
    <2>1. Top.k = "host"
          /\ (calls' # <<>> => Len(calls') = Height + 1 /\ Same(Height) /\ calls'[Height + 1].k = "walk")
        BY <1>8, HostLoadsFacts
    <2>2. calls' # <<>>
        BY <1>1
    <2>3. i = Height \/ i = Height + 1
        BY <1>1, <2>1, <2>2
    <2>4. calls'[Height] = Top
        BY <1>1, <2>1, <2>2 DEF Same
    <2> QED
        BY <2>1, <2>2, <2>3, <2>4
<1>9. CASE HostRuns
    <2>1. Len(calls') = 1 /\ calls'[1].k = "body"
        BY <1>9, HostRunsFacts
    <2> QED
        BY <2>1
<1>10. CASE Await \/ BodyEnds
    <2>1. \/ Top.k = "body" /\ calls' = calls
          \/ Len(calls') = Height /\ calls'[Height].k = "drain" /\ calls'[Height].of = Top.of
        BY <1>10, AwaitFacts, BodyEndsFacts
    <2>2. i = Height
        BY <1>1, <2>1 DEF Height
    <2> QED
        BY <1>1, <1>10, <2>1, <2>2
<1>11. ASSUME NEW m \in Modules, Import(m) PROVE i = Height /\ calls'[i] = Top /\ JsRuns
    <2>1. JsRuns
        BY <1>11 DEF Import
    <2>2. CASE calls' = calls
        BY <1>1, <2>1, <2>2 DEF Height
    <2>3. CASE calls' # calls
        <3>1. Len(calls') = Height + 2 /\ Same(Height) /\ calls'[Height + 1].k = "import"
              /\ calls'[Height + 2].k = "walk"
            BY <1>11, <2>3, ImportFacts
        <3>2. i = Height \/ i = Height + 1 \/ i = Height + 2
            BY <1>1, <3>1
        <3>3. calls'[Height] = Top
            BY <1>1, <3>1 DEF Same
        <3> QED
            BY <2>1, <3>1, <3>2, <3>3
    <2> QED
        BY <2>2, <2>3
<1>12. ASSUME NEW m \in Modules, Touch(m)
       PROVE  \/ i = Height /\ calls'[i] = Top /\ JsRuns
              \/ calls'[i].k = "touch" /\ calls'[i].of = m
    <2>1. /\ Len(calls') = Height + 3 /\ Same(Height) /\ calls'[Height + 1].of = m
          /\ calls'[Height + 2].k = "ensure" /\ calls'[Height + 3].k = "walk"
          /\ calls'[Height + 1].k = "touch"
        BY <1>12, TouchFacts
    <2>2. i = Height \/ i = Height + 1 \/ i = Height + 2 \/ i = Height + 3
        BY <1>1, <2>1
    <2>3. calls'[Height] = Top /\ JsRuns
        BY <1>1, <1>12, <2>1 DEF Same, Touch
    <2> QED
        BY <2>1, <2>2, <2>3
<1> QED
    BY <1>2, <1>3, <1>4, <1>5, <1>6, <1>7, <1>8, <1>9, <1>10, <1>11, <1>12
       DEF Next, Evaluate, Javascript

\* The actions that return.
LEMMA Shorter ==
    ASSUME TypeInv, AdjacentInv, Next, calls' # <<>>, Len(calls') < Height
    PROVE  /\ Len(calls') = Height - 1
           /\ WalkEnds \/ EnsureFails \/ EnsureWaits \/ ResumeEnds \/ RunSuspends \/ RunFinishes
              \/ CallReturns \/ BodyThrows
<1>1. calls # <<>> /\ Height \in Nat \ {0}
    BY Lower, TopFacts
<1>2. ~(WalkPasses \/ WalkEnters \/ EnsureRuns \/ ResumeKeeps \/ ResumeRuns \/ BodyEnds)
    <2>1. WalkPasses => Len(calls') = Height
        BY WalkPassesFacts
    <2>2. WalkEnters => Len(calls') = Height + 2
        BY WalkEntersFacts
    <2>3. EnsureRuns => Len(calls') = Height
        BY EnsureRunsFacts
    <2>4. BodyEnds => Len(calls') = Height
        BY BodyEndsFacts
    <2>5. ResumeKeeps => Len(calls') = Height
        BY ResumeKeepsFacts
    <2>6. ResumeRuns => Len(calls') = Height + 1
        BY ResumeRunsFacts
    <2> QED
        BY <1>1, <2>1, <2>2, <2>3, <2>4, <2>5, <2>6
<1>3. ~(WalkBreaks \/ Await)
    BY <1>1, WalkBreaksFacts, AwaitFacts DEF Height
<1>4. ~(HostLoads \/ HostFails)
    BY <1>1, HostLoadsFacts, HostFailsFacts
<1>5. ~HostRuns
    <2>1. HostRuns => Height = 1 /\ Len(calls') = 1
        BY HostRunsFacts, PlaceOnStack
    <2> QED
        BY <2>1
<1>6. ASSUME NEW m \in Modules PROVE ~(Import(m) \/ Touch(m))
    <2>1. ~Touch(m)
        BY <1>1, TouchFacts
    <2>2. ~Import(m)
        <3>1. calls' # calls
            BY <1>1 DEF Height
        <3>2. Import(m) => Len(calls') = Height + 2
            BY <3>1, ImportFacts
        <3> QED
            BY <1>1, <3>2
    <2> QED
        BY <2>1, <2>2
<1>7. WalkEnds \/ EnsureFails \/ EnsureWaits \/ ResumeEnds \/ RunSuspends \/ RunFinishes
              \/ CallReturns \/ BodyThrows
    BY <1>2, <1>3, <1>4, <1>5, <1>6 DEF Next, Evaluate, Javascript
<1>8. CASE WalkEnds \/ ResumeEnds
    BY <1>7, <1>8, WalkEndsFacts, ResumeEndsFacts
<1>9. CASE EnsureFails \/ EnsureWaits \/ RunSuspends \/ RunFinishes \/ CallReturns \/ BodyThrows
    BY <1>7, <1>9, EnsureFailsFacts, EnsureWaitsFacts, RunSuspendsFacts, RunFinishesFacts,
       CallReturnsFacts, BodyThrowsFacts
<1> QED
    BY <1>7, <1>8, <1>9

AwaitInv == awaitSuspended /\ calls # <<>> => At("drain") /\ HasTla(Top.of) /\ awaits[Top.of] > 0

\* A drain follows the end of the body, or its suspension.
DrainInv ==
    \A i \in 1 .. Height : calls[i].k = "drain" =>
        calls[i].of \in ended \/ (awaitSuspended /\ i = Height)

EndedInv == \A m \in Modules \ {Main} : status[m] = "Evaluated" => m \in ended

\* Nothing in S is suspended, and nothing that its evaluation comes to will be.
Quiet(S) ==
    \A l \in S :
        /\ status[l] # "EvaluatingAsync"
        /\ status[l] = "none" => l \in errors
        /\ status[l] \in {"Linked", "Evaluating"} => ~HasTla(l) /\ Wanted(l) \subseteq S

TouchInv ==
    /\ \A i \in 1 .. Height : calls[i].k = "touch" =>
          \E S \in SUBSET Modules : calls[i].of \in S /\ Quiet(S)
    /\ At("touch") /\ ~throwing => status[Top.of] = "Evaluated"

FullInv == AwaitInv /\ DrainInv /\ EndedInv /\ TouchInv

LEMMA AwaitStep ==
    ASSUME ~ImportsInSuspension, TypeInv, AdjacentInv, AwaitInv, Next
    PROVE  AwaitInv'
<1> SUFFICES ASSUME awaitSuspended', calls' # <<>>
             PROVE  /\ Top'.k = "drain" /\ HasTla(Top'.of) /\ awaits'[Top'.of] > 0
                    /\ program' = program
    BY DEF AwaitInv, At, HasTla
<1>1. calls # <<>>
    BY Lower
<1>2. awaitSuspended =>
          Top.k = "drain" /\ HasTla(Top.of) /\ awaits[Top.of] > 0
    BY <1>1 DEF AwaitInv, At
<1>3. CASE awaitSuspended
    <2>1. ~(WalkPasses \/ WalkBreaks \/ WalkEnters \/ WalkEnds)
        BY <1>2, <1>3, WalkPassesFacts, WalkBreaksFacts, WalkEntersFacts, WalkEndsFacts
    <2>2. ~(EnsureFails \/ EnsureWaits \/ EnsureRuns)
        BY <1>2, <1>3, EnsureFailsFacts, EnsureWaitsFacts, EnsureRunsFacts
    <2>3. ~(ResumeKeeps \/ ResumeRuns \/ ResumeEnds \/ HostLoads \/ HostRuns)
        BY <1>2, <1>3, ResumeKeepsFacts, ResumeRunsFacts, ResumeEndsFacts, HostLoadsFacts,
           HostRunsFacts
    <2>4. ~(Await \/ BodyEnds \/ BodyThrows \/ RunSuspends \/ CallReturns)
        BY <1>2, <1>3, AwaitFacts, BodyEndsFacts, BodyThrowsFacts, RunSuspendsFacts, CallReturnsFacts
    <2>5. ~HostFails
        BY HostFailsFacts
    <2>6. ASSUME NEW m \in Modules PROVE ~(Import(m) \/ Touch(m))
        BY <1>2, <1>3, ImportFacts, TouchFacts
    <2>7. ~RunFinishes
        <3> SUFFICES ASSUME RunFinishes PROVE FALSE
            OBVIOUS
        <3>1. Top.of = Main /\ Top.k = "drain" /\ Len(calls') = Height - 1 /\ calls' \in Seq(CallType)
            BY <1>3, RunFinishesFacts
        <3>2. Height = 1
            BY <1>1, <3>1, PlaceOnStack DEF Evaluates
        <3> QED
            BY <3>1, <3>2
    <2> QED
        BY <2>1, <2>2, <2>3, <2>4, <2>5, <2>6, <2>7 DEF Next, Evaluate, Javascript
<1>4. CASE ~awaitSuspended
    <2>1. Await
        <3>1. ASSUME NEW m \in Modules PROVE ~(Import(m) \/ Touch(m))
            BY <1>4, ImportFacts, TouchFacts DEF flags
        <3>2. ~(WalkPasses \/ WalkBreaks \/ WalkEnters \/ WalkEnds)
            BY <1>4, WalkPassesFacts, WalkBreaksFacts, WalkEntersFacts, WalkEndsFacts DEF flags
        <3>3. ~(EnsureFails \/ EnsureWaits \/ EnsureRuns)
            BY <1>4, EnsureFailsFacts, EnsureWaitsFacts, EnsureRunsFacts DEF flags
        <3>4. ~(ResumeKeeps \/ ResumeRuns \/ ResumeEnds \/ HostLoads \/ HostRuns)
            BY <1>4, ResumeKeepsFacts, ResumeRunsFacts, ResumeEndsFacts, HostLoadsFacts,
               HostRunsFacts DEF flags
        <3>5. ~(BodyEnds \/ BodyThrows \/ RunSuspends \/ CallReturns)
            BY <1>4, BodyEndsFacts, BodyThrowsFacts, RunSuspendsFacts, CallReturnsFacts DEF flags
        <3>6. ~(RunFinishes \/ HostFails)
            BY <1>4, RunFinishesFacts, HostFailsFacts DEF flags
        <3> QED
            BY <3>1, <3>2, <3>3, <3>4, <3>5, <3>6 DEF Next, Evaluate, Javascript
    <2>2. /\ HasTla(Top.of) /\ awaits' = [awaits EXCEPT ![Top.of] = @ + 1] /\ program' = program
          /\ calls' \in Seq(CallType) /\ Len(calls') = Height
          /\ calls'[Height].k = "drain" /\ calls'[Height].of = Top.of
        BY <1>4, <2>1, AwaitFacts DEF flags
    <2>3. Top' = calls'[Height]
        BY <2>2 DEF Top
    <2>4. awaits'[Top.of] > 0
        BY <1>1, <2>2, TopTypes DEF TypeInv
    <2> QED
        BY <2>2, <2>3, <2>4
<1> QED
    BY <1>3, <1>4

LEMMA DrainStep ==
    ASSUME ~ImportsInSuspension, TypeInv, AdjacentInv, AwaitInv, DrainInv, Next
    PROVE  DrainInv'
<1> SUFFICES ASSUME NEW i \in 1 .. Len(calls'), calls'[i].k = "drain"
             PROVE  calls'[i].of \in ended' \/ (awaitSuspended' /\ i = Len(calls'))
    BY DEF DrainInv, Height
<1>1. calls # <<>> /\ Height \in Nat \ {0} /\ Top = calls[Height] /\ Len(calls') \in Nat
    BY Lower, TopFacts
<1>2. ended \subseteq ended'
    <2>1. ended' = ended \/ BodyEnds
        BY DEF Next, Evaluate, Javascript, WalkPasses, WalkBreaks, WalkEnters, WalkEnds,
           EnsureFails, EnsureWaits, EnsureRuns, ResumeKeeps, ResumeRuns, ResumeEnds, RunSuspends,
           RunFinishes, CallReturns, HostLoads, HostRuns, Await, BodyThrows, HostFails, Import,
           Touch, history
    <2> QED
        BY <2>1, BodyEndsFacts
<1>3. CASE i < Height
    <2>1. calls'[i] = calls[i] /\ i \in 1 .. Height /\ i # Height
        BY <1>1, <1>3, Lower
    <2> QED
        BY <1>2, <2>1 DEF DrainInv
<1>4. CASE i >= Height
    <2>1. \/ i = Height /\ calls'[i] = Top /\ JsRuns
          \/ i = Height /\ calls'[i].of = Top.of /\ (Await \/ BodyEnds)
        BY <1>4, FreshCalls
    <2>2. CASE i = Height /\ calls'[i] = Top /\ JsRuns
        <3>1. ~awaitSuspended
            BY <2>2, JsRunsFacts
        <3>2. calls[i].k = "drain" /\ i \in 1 .. Height
            BY <1>1, <2>2
        <3> QED
            BY <1>1, <1>2, <2>2, <3>1, <3>2 DEF DrainInv
    <2>3. CASE i = Height /\ calls'[i].of = Top.of /\ BodyEnds
        BY <2>3, BodyEndsFacts
    <2>4. CASE i = Height /\ Await
        <3>1. calls' = calls \/ (awaitSuspended' /\ Len(calls') = Height)
            BY <2>4, AwaitFacts
        <3>2. calls' # calls
            BY <1>1, <2>4, AwaitFacts
        <3> QED
            BY <2>4, <3>1, <3>2
    <2> QED
        BY <2>1, <2>2, <2>3, <2>4
<1> QED
    BY <1>1, <1>3, <1>4

LEMMA EndedStep ==
    ASSUME TypeInv, AdjacentInv, DrainInv, EndedInv, Next
    PROVE  EndedInv'
<1> SUFFICES ASSUME NEW m \in Modules \ {Main}, status'[m] = "Evaluated" PROVE m \in ended'
    BY DEF EndedInv
<1>1. calls # <<>> /\ Height \in 1 .. Height /\ Top = calls[Height]
    BY Lower, TopFacts
<1>2. status[m] = "Evaluated" => m \in ended
    BY DEF EndedInv
<1>3. CASE RunFinishes
    <2>1. /\ Top.k = "drain" /\ (Top.of = Main \/ ~awaitSuspended) /\ ended' = ended
          /\ status' = [status EXCEPT ![Top.of] = "Evaluated"]
        BY <1>3, RunFinishesFacts DEF history
    <2>2. CASE m = Top.of
        BY <1>1, <2>1, <2>2 DEF DrainInv
    <2>3. CASE m # Top.of
        BY <1>2, <2>1, <2>3 DEF TypeInv
    <2> QED
        BY <2>2, <2>3
<1>4. CASE WalkEnters \/ EnsureFails \/ EnsureWaits \/ RunSuspends \/ BodyThrows
    <2>1. ended' = ended /\ \E l \in Modules, s \in Statuses \ {"Evaluated"} : status' = [status EXCEPT ![l] = s]
        BY <1>1, <1>4, WalkEntersFacts, EnsureFailsFacts, EnsureWaitsFacts, RunSuspendsFacts,
           BodyThrowsFacts, StatusesFacts, TopTypes DEF history
    <2>2. status[m] = "Evaluated"
        BY <2>1 DEF TypeInv
    <2> QED
        BY <1>2, <2>1, <2>2
<1>5. CASE HostLoads
    <2> DEFINE st == [status EXCEPT ![Main] = "Evaluating"]
    <2>1. /\ st \in [Modules -> Statuses] /\ ended' = ended /\ Wanted(Main) \in SUBSET Modules
          /\ Load(Wanted(Main), st) /\ st[m] = status[m]
        BY <1>5, HostLoadsFacts DEF history
    <2> HIDE DEF st
    <2>2. /\ \A l \in Modules : st[l] # "none" => status'[l] = st[l]
          /\ \A l \in Modules : st[l] = "none" => status'[l] \in {"none", "Linked"}
        <3>1. Wanted(Main) \in SUBSET Modules
            BY <2>1
        <3>2. st \in [Modules -> Statuses]
            BY <2>1
        <3>3. Load(Wanted(Main), st)
            BY <2>1
        <3> QED
            BY <3>1, <3>2, <3>3, LoadFacts, ZenonT(30)
    <2> QED
        BY <1>2, <2>1, <2>2
<1>6. ASSUME NEW l \in Modules, Import(l) PROVE m \in ended'
    <2>1. /\ Load({l}, status) /\ {l} \in SUBSET Modules /\ status \in [Modules -> Statuses]
          /\ ended' = ended
        BY <1>6, ImportFacts DEF TypeInv, history
    <2>2. /\ \A n \in Modules : status[n] # "none" => status'[n] = status[n]
          /\ \A n \in Modules : status[n] = "none" => status'[n] \in {"none", "Linked"}
        BY <2>1, LoadFacts, SMTT(30)
    <2> QED
        BY <1>2, <2>1, <2>2
<1>7. ASSUME NEW l \in Modules, Touch(l) PROVE m \in ended'
    <2>1. ended' = ended /\ status' = [status EXCEPT ![l] = "Evaluating"]
        BY <1>7, TouchFacts DEF history
    <2>2. status[m] = "Evaluated"
        BY <2>1 DEF TypeInv
    <2> QED
        BY <1>2, <2>1, <2>2
<1>8. CASE BodyEnds
    BY <1>2, <1>8, BodyEndsFacts
<1>9. CASE UNCHANGED <<status, ended>>
    BY <1>2, <1>9
<1> QED
    BY <1>3, <1>4, <1>5, <1>6, <1>7, <1>8, <1>9, WalkPassesFacts, WalkBreaksFacts, WalkEndsFacts,
       EnsureRunsFacts, ResumeKeepsFacts, ResumeRunsFacts, ResumeEndsFacts, CallReturnsFacts,
       HostRunsFacts, AwaitFacts, HostFailsFacts DEF Next, Evaluate, Javascript, history

\* A quiet set stays one.
LEMMA QuietStays ==
    ASSUME TypeInv, AdjacentInv, StatusInv, HeldInv, AwaitInv, Next, ~HostLoads,
           NEW S \in SUBSET Modules, Quiet(S)
    PROVE  Quiet(S)'
<1>1. /\ \A m \in Modules : HasTla(m)' = HasTla(m) /\ Wanted(m)' = Wanted(m)
      /\ program' = program
    <2>1. program' = program
        BY DEF Next, Evaluate, Javascript, WalkPasses, WalkBreaks, WalkEnters, WalkEnds,
           EnsureFails, EnsureWaits, EnsureRuns, ResumeKeeps, ResumeRuns, ResumeEnds, RunSuspends,
           RunFinishes, CallReturns, HostLoads, HostRuns, Await, BodyThrows, HostFails, Import,
           Touch, BodyEnds
    <2> QED
        BY <2>1 DEF HasTla, Wanted, Requests
<1>2. SUFFICES \A l \in S :
                  /\ status'[l] # "EvaluatingAsync"
                  /\ status'[l] = "none" => l \in errors'
                  /\ status'[l] \in {"Linked", "Evaluating"} => status[l] \in {"Linked", "Evaluating"}
    BY <1>1 DEF Quiet
<1>3. \A l \in S :
          /\ l \in Modules /\ status[l] # "EvaluatingAsync"
          /\ status[l] = "none" => l \in errors
          /\ status[l] \in {"Linked", "Evaluating"} => ~HasTla(l) /\ Wanted(l) \subseteq S
    BY DEF Quiet
<1>4. calls # <<>>
    BY Lower
<1>5. CASE EnsureFails \/ EnsureWaits \/ RunSuspends \/ RunFinishes \/ BodyThrows
    <2>1. /\ Evaluates(Top) /\ Top.of \in Modules
          /\ ~Top.resumed => status[Top.of] = "Evaluating"
          /\ Top.resumed => status[Top.of] = "EvaluatingAsync"
        BY <1>4, <1>5, TopHeld, EnsureFailsFacts, EnsureWaitsFacts, RunSuspendsFacts,
           RunFinishesFacts, BodyThrowsFacts DEF Evaluates
    <2>2. Top.resumed \in BOOLEAN
        BY <1>4, TopFacts DEF CallType
    <2>3. Top.of \in S => status[Top.of] = "Evaluating" /\ ~HasTla(Top.of) /\ Wanted(Top.of) \subseteq S
        BY <1>3, <2>1, <2>2
    <2>4. CASE EnsureWaits
        <3>1. Top.of \notin S
            <4>1. \E d \in Wanted(Top.of) : status[d] = "EvaluatingAsync"
                BY <2>4, EnsureWaitsFacts DEF HasAsyncDependency
            <4> QED
                BY <1>3, <2>3, <4>1
        <3>2. \A l \in S : status'[l] = status[l] /\ (l \in errors => l \in errors')
            BY <1>3, <2>1, <2>4, <3>1, EnsureWaitsFacts DEF TypeInv
        <3> QED
            BY <1>3, <3>2
    <2>5. CASE RunSuspends
        <3>1. Top.of \notin S
            BY <2>3, <2>5, RunSuspendsFacts DEF AwaitInv
        <3>2. \A l \in S : status'[l] = status[l] /\ (l \in errors => l \in errors')
            BY <1>3, <2>1, <2>5, <3>1, RunSuspendsFacts DEF TypeInv
        <3> QED
            BY <1>3, <3>2
    <2>6. CASE EnsureFails \/ RunFinishes \/ BodyThrows
        <3>1. \A l \in S : l # Top.of => status'[l] = status[l] /\ (l \in errors => l \in errors')
            BY <1>3, <2>1, <2>6, EnsureFailsFacts, RunFinishesFacts, BodyThrowsFacts DEF TypeInv
        <3>2. status'[Top.of] \in {"Linked", "Evaluated"}
            BY <2>1, <2>6, EnsureFailsFacts, RunFinishesFacts, BodyThrowsFacts DEF TypeInv
        <3>3. status'[Top.of] # "EvaluatingAsync" /\ status'[Top.of] # "none"
            BY <3>2
        <3> HIDE DEF TypeInv
        <3>4. ASSUME NEW l \in S
              PROVE  /\ status'[l] # "EvaluatingAsync"
                     /\ status'[l] = "none" => l \in errors'
                     /\ status'[l] \in {"Linked", "Evaluating"} => status[l] \in {"Linked", "Evaluating"}
            <4>1. CASE l = Top.of
                BY <2>3, <3>3, <4>1
            <4>2. CASE l # Top.of
                BY <1>3, <3>1, <4>2
            <4> QED
                BY <4>1, <4>2
        <3> QED
            BY <3>4
    <2> QED
        BY <1>5, <2>4, <2>5, <2>6
<1>6. CASE WalkEnters
    <2>1. /\ Head(Top.list) \in Modules /\ status[Head(Top.list)] = "Linked" /\ errors' = errors
          /\ status' = [status EXCEPT ![Head(Top.list)] = "Evaluating"]
        BY <1>6, WalkEntersFacts
    <2> QED
        BY <1>3, <2>1 DEF TypeInv
<1>7. ASSUME NEW m \in Modules, Touch(m)
      PROVE  \A l \in S :
                  /\ status'[l] # "EvaluatingAsync"
                  /\ status'[l] = "none" => l \in errors'
                  /\ status'[l] \in {"Linked", "Evaluating"} => status[l] \in {"Linked", "Evaluating"}
    <2>1. status[m] = "Linked" /\ errors' = errors /\ status' = [status EXCEPT ![m] = "Evaluating"]
        BY <1>7, TouchFacts
    <2> QED
        BY <1>3, <2>1 DEF TypeInv
<1>8. ASSUME NEW m \in Modules, Import(m)
      PROVE  \A l \in S :
                  /\ status'[l] # "EvaluatingAsync"
                  /\ status'[l] = "none" => l \in errors'
                  /\ status'[l] \in {"Linked", "Evaluating"} => status[l] \in {"Linked", "Evaluating"}
    <2>1. Load({m}, status) /\ {m} \in SUBSET Modules /\ status \in [Modules -> Statuses]
        BY <1>8, ImportFacts DEF TypeInv
    <2>2. /\ errors \subseteq errors'
          /\ \A l \in Modules : status[l] # "none" => status'[l] = status[l]
          /\ \A l \in Modules : status[l] = "none" => status'[l] \in {"none", "Linked"}
          /\ \A l \in Modules : status[l] = "none" /\ status'[l] = "Linked" => l \notin errors'
        BY <2>1, LoadFacts
    <2> QED
        BY <1>3, <2>2
<1>9. CASE UNCHANGED <<status, errors>>
    BY <1>3, <1>9
<1> QED
    BY <1>5, <1>6, <1>7, <1>8, <1>9, WalkPassesFacts, WalkBreaksFacts, WalkEndsFacts,
       EnsureRunsFacts, ResumeKeepsFacts, ResumeRunsFacts, ResumeEndsFacts, CallReturnsFacts,
       HostRunsFacts, AwaitFacts, BodyEndsFacts, HostFailsFacts DEF Next, Evaluate, Javascript

\* What is ready, or has failed to load, is quiet.
LEMMA ReadyQuiet ==
    ASSUME TypeInv, LoadInv, NEW m \in Modules, Touch(m)
    PROVE  \E S \in SUBSET Modules : m \in S /\ Quiet(S)
<1>1. Ready(m) /\ status[m] = "Linked"
    BY TouchFacts
<1>2. PICK R \in SUBSET Modules :
          /\ m \in R
          /\ \A l \in R :
                /\ status[l] \notin {"Evaluating", "EvaluatingAsync"}
                /\ status[l] = "Linked" => ~HasTla(l) /\ Wanted(l) \subseteq R
    BY <1>1 DEF Ready
<1> DEFINE S == {l \in R : status[l] # "none" \/ l \in errors}
<1>3. ASSUME NEW l \in S, status[l] \in {"Linked", "Evaluating"}
      PROVE  ~HasTla(l) /\ Wanted(l) \subseteq S
    <2>1. ~HasTla(l) /\ Wanted(l) \subseteq R
        BY <1>2, <1>3
    <2>2. \A d \in Wanted(l) : status[d] # "none" \/ d \in errors
        BY <1>3 DEF LoadInv, HasRecord
    <2> QED
        BY <2>1, <2>2
<1>4. \A l \in S : status[l] # "EvaluatingAsync" /\ (status[l] = "none" => l \in errors)
    BY <1>2
<1>5. m \in S /\ S \in SUBSET Modules
    BY <1>1, <1>2
<1> HIDE DEF S
<1> QED
    BY <1>3, <1>4, <1>5 DEF Quiet

LEMMA TouchStep ==
    ASSUME ~ImportsInSuspension, StackInv, FullInv, Next
    PROVE  TouchInv'
<1>1. /\ TypeInv /\ AdjacentInv /\ StatusInv /\ HeldInv /\ LoadInv /\ AwaitInv
      /\ MainInv /\ OneCallEach
    BY DEF StackInv, FullInv
<1>2. /\ calls # <<>> /\ Height \in Nat \ {0} /\ Top = calls[Height]
      /\ calls' \in Seq(CallType) /\ Len(calls') \in Nat
      /\ \A i \in 1 .. Len(calls') : i < Height => calls'[i] = calls[i]
    BY <1>1, Lower, TopFacts
<1>3. ASSUME NEW S \in SUBSET Modules, Quiet(S), ~HostLoads PROVE Quiet(S)'
    BY <1>1, <1>3, QuietStays
<1>4. ASSUME NEW i \in 1 .. Len(calls'), calls'[i].k = "touch"
      PROVE  \E S \in SUBSET Modules : calls'[i].of \in S /\ Quiet(S)'
    <2>1. CASE i < Height
        <3>1. calls'[i] = calls[i] /\ calls[i].k = "touch" /\ i \in 1 .. Height
            BY <1>2, <1>4, <2>1
        <3>2. PICK S \in SUBSET Modules : calls[i].of \in S /\ Quiet(S)
            BY <3>1 DEF FullInv, TouchInv
        <3>3. ~HostLoads
            <4>1. HostLoads => Height = 1
                BY <1>1, HostLoadsFacts, PlaceOnStack
            <4> QED
                BY <1>2, <2>1, <4>1
        <3> QED
            BY <1>3, <3>1, <3>2, <3>3
    <2>2. CASE i >= Height
        <3>1. ~(calls'[i] = Top /\ JsRuns)
            BY <1>4, JsRunsFacts
        <3>2. Touch(calls'[i].of)
            BY <1>1, <1>4, <2>2, <3>1, FreshCalls
        <3>3. calls'[i].of \in Modules
            <4>1. calls'[i] \in CallType
                BY <1>2
            <4> QED
                BY <4>1 DEF CallType
        <3>4. PICK S \in SUBSET Modules : calls'[i].of \in S /\ Quiet(S)
            <4> DEFINE m == calls'[i].of
            <4> HIDE DEF m
            <4>1. m \in Modules /\ Touch(m)
                BY <3>2, <3>3 DEF m
            <4>2. \E S \in SUBSET Modules : m \in S /\ Quiet(S)
                BY <1>1, <4>1, ReadyQuiet
            <4> QED
                BY <4>2 DEF m
        <3>5. ~HostLoads
            <4>1. Top.k # "host"
                BY <3>2, JsRunsFacts DEF Touch
            <4> QED
                BY <1>1, <4>1, HostLoadsFacts
        <3> QED
            BY <1>3, <3>4, <3>5
    <2> QED
        BY <1>2, <2>1, <2>2
<1>5. ASSUME calls' # <<>>, calls'[Len(calls')].k = "touch", ~throwing'
      PROVE  status'[calls'[Len(calls')].of] = "Evaluated"
    <2> DEFINE n == Len(calls')
    <2>1. n \in 1 .. Len(calls')
        BY <1>2, <1>5
    <2>2. n < Height
        <3> SUFFICES ASSUME n >= Height PROVE FALSE
            BY <1>2
        <3>1. ~(calls'[n] = Top /\ JsRuns)
            BY <1>5, JsRunsFacts
        <3>2. Touch(calls'[n].of)
            BY <1>1, <1>5, <2>1, <3>1, FreshCalls
        <3>3. calls'[n].of \in Modules
            <4>1. calls'[n] \in CallType
                BY <1>2, <2>1
            <4> QED
                BY <4>1 DEF CallType
        <3> DEFINE m == calls'[n].of
        <3>4. n = Height + 3 /\ calls'[Height + 3].k = "walk"
            <4> HIDE DEF m
            <4>1. m \in Modules /\ Touch(m)
                BY <3>2, <3>3 DEF m
            <4> QED
                BY <1>1, <4>1, TouchFacts
        <3> QED
            BY <1>5, <3>4
    <2>3. /\ n = Height - 1
          /\ WalkEnds \/ EnsureFails \/ EnsureWaits \/ ResumeEnds \/ RunSuspends \/ RunFinishes
             \/ CallReturns \/ BodyThrows
        BY <1>1, <1>5, <2>2, Shorter
    <2>4. calls'[n] = calls[Height - 1] /\ Height > 1 /\ Height - 1 \in 1 .. Height
        BY <1>2, <2>1, <2>2, <2>3
    <2>5. FitsOn(calls[Height - 1], Top) /\ calls[Height - 1].k = "touch"
        BY <1>1, <1>2, <1>5, <2>4, PlaceOnStack
    <2>6. Top.k \in Kinds /\ Top.resumed \in BOOLEAN /\ Top.of \in Modules
        BY <1>1, <1>2, TopFacts DEF CallType
    <2>7. Evaluates(Top) /\ Top.of = calls[Height - 1].of /\ ~Top.resumed
        BY <2>5, <2>6 DEF FitsOn, Evaluates, Kinds
    <2>8. PICK S \in SUBSET Modules : Top.of \in S /\ Quiet(S)
        BY <2>4, <2>5, <2>7 DEF FullInv, TouchInv
    <2>9. status[Top.of] = "Evaluating" /\ ~HasTla(Top.of) /\ Wanted(Top.of) \subseteq S
        <3>1. status[Top.of] = "Evaluating"
            BY <1>1, <1>2, <2>7, TopHeld
        <3> QED
            BY <2>8, <3>1 DEF Quiet
    <2>10. ~EnsureFails /\ ~BodyThrows
        <3>1. EnsureFails => throwing'
            BY DEF EnsureFails
        <3>2. BodyThrows => throwing' = ~Top.resumed
            BY Zenon DEF BodyThrows, Propagates
        <3> QED
            BY <1>5, <2>7, <3>1, <3>2
    <2>11. ~EnsureWaits
        <3>1. EnsureWaits => \E d \in Wanted(Top.of) : status[d] = "EvaluatingAsync"
            BY <1>1, EnsureWaitsFacts DEF HasAsyncDependency
        <3> QED
            BY <2>8, <2>9, <3>1 DEF Quiet
    <2>12. ~RunSuspends
        BY <1>1, <2>9, RunSuspendsFacts DEF AwaitInv
    <2>13. ~WalkEnds /\ ~ResumeEnds /\ ~CallReturns
        BY <1>1, <2>7, WalkEndsFacts, ResumeEndsFacts, CallReturnsFacts DEF Evaluates
    <2>14. status' = [status EXCEPT ![Top.of] = "Evaluated"]
        BY <1>1, <2>3, <2>10, <2>11, <2>12, <2>13, RunFinishesFacts
    <2>15. status'[Top.of] = "Evaluated"
        BY <1>1, <2>6, <2>14 DEF TypeInv
    <2> QED
        BY <2>4, <2>7, <2>15
<1> QED
    BY <1>4, <1>5 DEF TouchInv, Height, At, Top

LEMMA FullInit == Init => FullInv
<1> SUFFICES ASSUME Init PROVE FullInv
    OBVIOUS
<1> DEFINE c == [k |-> "host", of |-> Main, list |-> <<>>, resumed |-> FALSE]
<1>1. calls = <<c>> /\ ~awaitSuspended /\ \A m \in Modules : status[m] = "none"
    BY DEF Init
<1>2. Height = 1 /\ Top = c
    BY <1>1 DEF Height, Top
<1>3. \A i \in 1 .. Height : calls[i].k = "host"
    <2>1. \A i \in 1 .. 1 : i = 1
        OBVIOUS
    <2>2. calls[1].k = "host"
        BY <1>1
    <2> QED
        BY <1>2, <2>1, <2>2
<1>4. AwaitInv /\ EndedInv
    BY <1>1 DEF AwaitInv, EndedInv
<1>5. DrainInv
    BY <1>3 DEF DrainInv
<1>6. TouchInv
    BY <1>2, <1>3 DEF TouchInv, At
<1> QED
    BY <1>4, <1>5, <1>6 DEF FullInv

LEMMA FullStep == ~ImportsInSuspension /\ StackInv /\ FullInv /\ [Next]_vars => FullInv'
<1> SUFFICES ASSUME ~ImportsInSuspension, StackInv, FullInv, [Next]_vars PROVE FullInv'
    OBVIOUS
<1>1. TypeInv /\ AdjacentInv /\ AwaitInv /\ DrainInv /\ EndedInv /\ TouchInv
    BY DEF StackInv, FullInv
<1>2. CASE Next
    BY <1>1, <1>2, AwaitStep, DrainStep, EndedStep, TouchStep DEF FullInv
<1>3. CASE UNCHANGED vars
    <2>1. AwaitInv' /\ DrainInv' /\ EndedInv'
        BY <1>1, <1>3 DEF vars, flags, history, AwaitInv, DrainInv, EndedInv, At, Top, Height, HasTla
    <2>2. TouchInv'
        BY <1>1, <1>3 DEF vars, TouchInv, Quiet, At, Top, Height, HasTla, Wanted, Requests
    <2> QED
        BY <2>1, <2>2 DEF FullInv
<1> QED
    BY <1>2, <1>3

LEMMA FullAlways == ~ImportsInSuspension => (Spec => []FullInv)
<1> SUFFICES ASSUME ~ImportsInSuspension PROVE Spec => []FullInv
    OBVIOUS
<1>1. Init => FullInv
    BY FullInit
<1>2. StackInv /\ FullInv /\ [Next]_vars => FullInv'
    BY FullStep
<1>3. Spec => []StackInv
    BY StackAlways
<1> QED
    BY <1>1, <1>2, <1>3, PTL DEF Spec

\* A module is Evaluated only when its body has run to its end, and a deferred
\* one that JavaScript has touched is, unless a callback imports or touches
\* something between a suspension and the return of the run.
THEOREM Imported == ~ImportsInSuspension => (Spec => []ImportedInFull)
<1> SUFFICES ASSUME ~ImportsInSuspension PROVE Spec => []ImportedInFull
    OBVIOUS
<1>1. FullInv => ImportedInFull
    BY DEF FullInv, EndedInv, TouchInv, ImportedInFull
<1>2. Spec => []FullInv
    BY FullAlways
<1> QED
    BY <1>1, <1>2, PTL

----------------------------------------------------------------------------
(* Held until resumed.                                                      *)

\* The j-th place of m at i: 0 is the queue of the suspended, the others calls.
PlaceAt(m, i, j) ==
    IF i = 0 THEN j \in DOMAIN suspended /\ suspended[j] = m
    ELSE IF calls[i].k = "resume" THEN j \in DOMAIN calls[i].list /\ calls[i].list[j] = m
    ELSE IsResumed(calls[i]) /\ calls[i].of = m /\ j = 0

LEMMA PlaceFacts ==
    ASSUME TypeInv, NEW m \in Modules
    PROVE  \A p : p \in Places(m) <=> \E i \in 0 .. Height : \E j \in Nat : p = <<i, j>> /\ PlaceAt(m, i, j)
<1>1. Height \in Nat /\ DOMAIN calls = 1 .. Height
    BY DEF TypeInv, Height
<1>2. DOMAIN suspended \subseteq Nat \ {0}
    BY DEF TypeInv
<1>3. ASSUME NEW i \in 1 .. Height PROVE DOMAIN calls[i].list \subseteq Nat \ {0}
    <2>1. calls[i] \in CallType
        BY <1>1 DEF TypeInv
    <2> QED
        BY <2>1 DEF CallType
<1> DEFINE Queue == {<<0, j>> : j \in {n \in DOMAIN suspended : suspended[n] = m}}
           Batch(i) == {<<i, j>> : j \in {n \in DOMAIN calls[i].list : calls[i].list[n] = m}}
           Batches == {n \in DOMAIN calls : calls[n].k = "resume"}
           Runs == {<<i, 0>> : i \in {n \in DOMAIN calls : IsResumed(calls[n]) /\ calls[n].of = m}}
           Batched == UNION {Batch(i) : i \in Batches}
<1>4. Places(m) = Queue \cup Batched \cup Runs
    BY DEF Places
<1>5. \A p : p \in Queue <=> \E j \in Nat : p = <<0, j>> /\ PlaceAt(m, 0, j)
    BY <1>2 DEF PlaceAt
<1>6. ASSUME NEW i \in 1 .. Height, calls[i].k = "resume"
      PROVE  \A p : p \in Batch(i) <=> \E j \in Nat : p = <<i, j>> /\ PlaceAt(m, i, j)
    <2>1. i # 0
        OBVIOUS
    <2> QED
        BY <1>3, <1>6, <2>1 DEF PlaceAt
<1>7. \A p : p \in Runs <=> \E i \in 1 .. Height : \E j \in Nat :
                                calls[i].k # "resume" /\ p = <<i, j>> /\ PlaceAt(m, i, j)
    <2>1. \A i \in 1 .. Height : i # 0
        OBVIOUS
    <2>2. \A i \in 1 .. Height : IsResumed(calls[i]) => calls[i].k # "resume"
        BY DEF IsResumed
    <2> QED
        BY <1>1, <2>1, <2>2 DEF PlaceAt
<1>8. \A i : i \in Batches <=> i \in 1 .. Height /\ calls[i].k = "resume"
    BY <1>1
<1>9. \A i : i \in 0 .. Height <=> i = 0 \/ i \in 1 .. Height
    BY <1>1
<1>10. \A p : p \in Places(m) <=> \/ p \in Queue
                                  \/ \E i \in Batches : p \in Batch(i)
                                  \/ p \in Runs
    <2>1. \A p : p \in Batched <=> \E i \in Batches : p \in Batch(i)
        OBVIOUS
    <2> HIDE DEF Queue, Batch, Batches, Batched, Runs
    <2> QED
        BY <1>4, <2>1
<1> HIDE DEF Queue, Batch, Batches, Batched, Runs
<1>11. SUFFICES ASSUME NEW p
       PROVE p \in Places(m) <=> \E i \in 0 .. Height : \E j \in Nat : p = <<i, j>> /\ PlaceAt(m, i, j)
    OBVIOUS
<1>12. p \in Queue <=> \E j \in Nat : p = <<0, j>> /\ PlaceAt(m, 0, j)
    BY <1>5
<1>13. \A i \in Batches : p \in Batch(i) <=> \E j \in Nat : p = <<i, j>> /\ PlaceAt(m, i, j)
    BY <1>6, <1>8
<1>14. p \in Runs <=> \E i \in 1 .. Height : \E j \in Nat :
                           calls[i].k # "resume" /\ p = <<i, j>> /\ PlaceAt(m, i, j)
    BY <1>7
<1>15. ASSUME p \in Places(m)
       PROVE \E i \in 0 .. Height : \E j \in Nat : p = <<i, j>> /\ PlaceAt(m, i, j)
    <2>1. CASE p \in Queue
        BY <1>9, <1>12, <2>1
    <2>2. CASE \E i \in Batches : p \in Batch(i)
        BY <1>8, <1>9, <1>13, <2>2
    <2>3. CASE p \in Runs
        BY <1>9, <1>14, <2>3
    <2> QED
        BY <1>10, <1>15, <2>1, <2>2, <2>3
<1>16. ASSUME NEW i \in 0 .. Height, NEW j \in Nat, p = <<i, j>>, PlaceAt(m, i, j)
       PROVE  p \in Places(m)
    <2>1. CASE i = 0
        BY <1>10, <1>12, <1>16, <2>1
    <2>2. CASE i \in Batches
        BY <1>10, <1>13, <1>16, <2>2
    <2>3. CASE i \in 1 .. Height /\ calls[i].k # "resume"
        BY <1>10, <1>14, <1>16, <2>3
    <2> QED
        BY <1>8, <1>9, <2>1, <2>2, <2>3
<1> QED
    BY <1>15, <1>16

\* A module that is EvaluatingAsync is in one place, and no other is in any.
LEMMA HeldOnce ==
    ASSUME TypeInv, HeldInv, NEW m \in Modules
    PROVE  Cardinality(Places(m)) = IF status[m] = "EvaluatingAsync" THEN 1 ELSE 0
<1>1. Height \in Nat /\ DOMAIN calls = 1 .. Height
    BY DEF TypeInv, Height
<1>2. \A i \in 0 .. Height : m \in Site(i) <=> \E j \in Nat : PlaceAt(m, i, j)
    <2> SUFFICES ASSUME NEW i \in 0 .. Height
                 PROVE  m \in Site(i) <=> \E j \in Nat : PlaceAt(m, i, j)
        OBVIOUS
    <2>1. CASE i = 0
        <3>1. DOMAIN suspended \subseteq Nat
            BY DEF TypeInv
        <3> QED
            BY <2>1, <3>1 DEF Site, PlaceAt, Elements
    <2>2. CASE i # 0
        <3>1. calls[i] \in CallType
            BY <1>1, <2>2 DEF TypeInv
        <3>2. DOMAIN calls[i].list \subseteq Nat
            BY <3>1 DEF CallType
        <3> QED
            BY <2>2, <3>2 DEF Site, Held, PlaceAt, Elements, IsResumed
    <2> QED
        BY <2>1, <2>2
<1>3. ASSUME NEW i \in 0 .. Height, NEW j \in Nat, NEW k \in Nat, PlaceAt(m, i, j), PlaceAt(m, i, k)
      PROVE  j = k
    <2>1. CASE i = 0
        BY <1>3, <2>1 DEF HeldInv, OnceEach, PlaceAt
    <2>2. CASE i # 0 /\ calls[i].k = "resume"
        <3>1. OnceEach(calls[i].list)
            BY <1>1, <2>2 DEF HeldInv
        <3> QED
            BY <1>3, <2>2, <3>1 DEF OnceEach, PlaceAt
    <2>3. CASE i # 0 /\ calls[i].k # "resume"
        BY <1>3, <2>3 DEF PlaceAt
    <2> QED
        BY <2>1, <2>2, <2>3
<1>4. ASSUME NEW p \in Places(m), NEW q \in Places(m) PROVE p = q
    <2>1. PICK i \in 0 .. Height : \E j \in Nat : p = <<i, j>> /\ PlaceAt(m, i, j)
        BY PlaceFacts
    <2>2. PICK j \in Nat : p = <<i, j>> /\ PlaceAt(m, i, j)
        BY <2>1
    <2>3. PICK l \in 0 .. Height : \E k \in Nat : q = <<l, k>> /\ PlaceAt(m, l, k)
        BY PlaceFacts
    <2>4. PICK k \in Nat : q = <<l, k>> /\ PlaceAt(m, l, k)
        BY <2>3
    <2>5. m \in Site(i) /\ m \in Site(l)
        BY <1>2, <2>2, <2>4
    <2>6. i = l
        BY <2>5 DEF HeldInv
    <2>7. j = k
        BY <1>3, <2>2, <2>4, <2>6
    <2> QED
        BY <2>2, <2>4, <2>6, <2>7
<1>5. status[m] = "EvaluatingAsync" <=> \E p : p \in Places(m)
    <2>1. status[m] = "EvaluatingAsync" <=> \E i \in 0 .. Height : m \in Site(i)
        BY DEF HeldInv
    <2>2. (\E p : p \in Places(m)) <=> \E i \in 0 .. Height : \E j \in Nat : PlaceAt(m, i, j)
        <3>1. \A i, j : \E p : p = <<i, j>>
            OBVIOUS
        <3> QED
            BY <3>1, PlaceFacts, Zenon
    <2> QED
        BY <1>2, <2>1, <2>2
<1>6. CASE status[m] = "EvaluatingAsync"
    <2>1. PICK p : p \in Places(m)
        BY <1>5, <1>6
    <2>2. Places(m) = {p}
        BY <1>4, <2>1
    <2> QED
        BY <1>6, <2>2, FS_Singleton
<1>7. CASE status[m] # "EvaluatingAsync"
    <2>1. Places(m) = {}
        BY <1>5, <1>7
    <2> QED
        BY <1>7, <2>1, FS_EmptySet
<1> QED
    BY <1>6, <1>7

\* Requests go on.
LEMMA ReachesFacts ==
    ASSUME NEW a \in Modules
    PROVE  /\ Reaches(a, a)
           /\ \A d \in Modules : HasRecord(a) /\ d \in Wanted(a) => Reaches(a, d)
           /\ \A b, c \in Modules : Reaches(a, b) /\ Reaches(b, c) => Reaches(a, c)
BY DEF Reaches

LEMMA Least ==
    ASSUME NEW T \in SUBSET Nat, T # {}
    PROVE  \E x \in T : \A y \in T : x <= y
<1> DEFINE R == OpToRel(<, Nat)
<1>1. \A y, x \in Nat : y < x => <<y, x>> \in R
    BY DEF OpToRel
<1>2. IsWellFoundedOn(R, Nat)
    BY NatLessThanWellFounded, Zenon
<1> HIDE DEF R
<1>3. PICK x \in T : \A y \in T : ~(<<y, x>> \in R)
    BY <1>2, WFMin, Zenon
<1>4. \A y \in T : ~(y < x)
    BY <1>1, <1>3
<1> QED
    BY <1>3, <1>4

\* Some suspended module waits for none outside its cycle.
LEMMA SomeoneRuns ==
    ASSUME TypeInv, NEW A \in SUBSET Modules, A # {},
           \A m \in Modules : status[m] = "EvaluatingAsync" <=> m \in A
    PROVE  \E m \in A : ~StillWaits(m)
<1> DEFINE R(m) == {n \in Modules : Reaches(m, n)}
           T == {Cardinality(R(m)) : m \in A}
<1>1. \A m \in Modules : IsFiniteSet(R(m)) /\ Cardinality(R(m)) \in Nat
    <2> SUFFICES ASSUME NEW m \in Modules PROVE IsFiniteSet(R(m)) /\ Cardinality(R(m)) \in Nat
        OBVIOUS
    <2>1. R(m) \in SUBSET Modules
        OBVIOUS
    <2> HIDE DEF R
    <2> QED
        BY <2>1, ModulesAssumption, FS_Subset, FS_CardinalityType
<1>2. PICK x \in T : \A y \in T : x <= y
    <2>1. T \in SUBSET Nat /\ T # {}
        BY <1>1
    <2> HIDE DEF T
    <2> QED
        BY <2>1, Least
<1>3. PICK m \in A : x = Cardinality(R(m))
    OBVIOUS
<1> SUFFICES ASSUME StillWaits(m) PROVE FALSE
    OBVIOUS
<1>4. PICK d \in Wanted(m) :
          /\ ~InCycle(m, d)
          /\ \E n \in Modules : status[n] = "EvaluatingAsync" /\ InCycle(d, n)
    BY DEF StillWaits
<1>5. PICK n \in Modules : status[n] = "EvaluatingAsync" /\ InCycle(d, n)
    BY <1>4
<1>6. m \in Modules /\ HasRecord(m) /\ d \in Modules /\ n \in A
    <2>1. Wanted(m) \subseteq Modules
        BY ProgramFacts DEF TypeInv
    <2> QED
        BY <1>4, <1>5, <2>1 DEF HasRecord
<1>7. Reaches(m, d) /\ Reaches(d, n) /\ Reaches(n, d)
    BY <1>4, <1>5, <1>6, ReachesFacts DEF InCycle
<1>8. ~Reaches(d, m) /\ ~Reaches(n, m)
    <2>1. ~Reaches(d, m)
        BY <1>4, <1>7 DEF InCycle
    <2>2. Reaches(n, m) => Reaches(d, m)
        BY <1>6, <1>7, ReachesFacts
    <2> QED
        BY <2>1, <2>2
<1>9. R(n) \subseteq R(m)
    <2>1. Reaches(m, n)
        BY <1>6, <1>7, ReachesFacts
    <2> QED
        BY <1>6, <2>1, ReachesFacts
<1>10. m \in R(m) /\ m \notin R(n)
    BY <1>6, <1>8, ReachesFacts
<1>11. Cardinality(R(n)) <= Cardinality(R(m)) /\ Cardinality(R(n)) # Cardinality(R(m))
    <2>1. R(n) \in SUBSET R(m) /\ R(n) # R(m) /\ IsFiniteSet(R(m))
        BY <1>1, <1>6, <1>9, <1>10
    <2> HIDE DEF R
    <2> QED
        BY <2>1, FS_Subset
<1>12. Cardinality(R(n)) \in T
    BY <1>6
<1>13. Cardinality(R(m)) \in Nat /\ Cardinality(R(n)) \in Nat
    BY <1>1, <1>6
<1> HIDE DEF T, R
<1> QED
    BY <1>2, <1>3, <1>11, <1>12, <1>13

\* Until a round has run something it is the last call, and what it has put
\* back still waits.
RoundInv ==
    \A i \in 1 .. Height : calls[i].k = "resume" /\ ~calls[i].resumed =>
        i = Height /\ \A m \in Elements(suspended) : StillWaits(m)

\* Nothing is left suspended between two outermost walks, unless one threw; what
\* the callbacks of the main module's drain do is another matter.
NoRounds(n) == \A i \in 1 .. n : calls[i].k \notin {"walk", "resume"}
Left == IF calls[1].k = "host" THEN throwing ELSE orphaned
SettledInv ==
    calls # <<>> /\ NoRounds(Height) /\ calls[1].k # "drain" => suspended = <<>> \/ Left

\* What is touched does not await, and a suspension that is not done with is
\* that of a drain on the stack.
SuspendInv ==
    /\ \A i \in 1 .. Height : calls[i].k = "touch" => ~HasTla(calls[i].of)
    /\ awaitSuspended /\ calls # <<>> =>
          \E i \in 1 .. Height : calls[i].k = "drain" /\ HasTla(calls[i].of)

\* A round begins with nothing put back, or goes on putting back.
LEMMA FreshRound ==
    ASSUME TypeInv, AdjacentInv, Next, NEW i \in 1 .. Len(calls'), i >= Height,
           calls'[i].k = "resume", ~calls'[i].resumed
    PROVE  /\ i = Height /\ Len(calls') = Height
           /\ suspended' = <<>> \/ (ResumeKeeps /\ ~Top.resumed)
<1>1. calls # <<>> /\ Height \in Nat \ {0} /\ Top = calls[Height] /\ Len(calls') \in Nat
    BY Lower, TopFacts
<1>2. CASE WalkEnds \/ ResumeEnds
    BY <1>1, <1>2, WalkEndsFacts, ResumeEndsFacts
<1>3. CASE ResumeKeeps
    <2>1. Len(calls') = Height /\ calls'[Height].resumed = Top.resumed
        BY <1>3, ResumeKeepsFacts
    <2>2. i = Height
        BY <1>1, <2>1
    <2> QED
        BY <1>3, <2>1, <2>2
<1>4. CASE ResumeRuns
    <2>1. Len(calls') = Height + 1 /\ calls'[Height].resumed /\ calls'[Height + 1].k = "body"
        BY <1>4, ResumeRunsFacts
    <2>2. i = Height \/ i = Height + 1
        BY <1>1, <2>1
    <2> QED
        BY <2>1, <2>2
<1>5. CASE EnsureFails \/ EnsureWaits \/ RunSuspends \/ RunFinishes \/ CallReturns \/ BodyThrows
    <2>1. Len(calls') = Height - 1
        BY <1>5, EnsureFailsFacts, EnsureWaitsFacts, RunSuspendsFacts, RunFinishesFacts,
           CallReturnsFacts, BodyThrowsFacts
    <2> QED
        BY <1>1, <2>1
<1>6. CASE WalkPasses \/ EnsureRuns \/ BodyEnds
    <2>1. Len(calls') = Height /\ calls'[Height].k \in {"walk", "body", "drain"}
        BY <1>6, WalkPassesFacts, EnsureRunsFacts, BodyEndsFacts
    <2>2. i = Height
        BY <1>1, <2>1
    <2> QED
        BY <2>1, <2>2
<1>7. CASE WalkEnters
    <2>1. Len(calls') = Height + 2 /\ calls'[Height].k = "walk" /\ calls'[Height + 1].k = "ensure"
          /\ calls'[Height + 2].k = "walk"
        BY <1>7, WalkEntersFacts
    <2>2. i = Height \/ i = Height + 1 \/ i = Height + 2
        BY <1>1, <2>1
    <2> QED
        BY <2>1, <2>2
<1>8. CASE WalkBreaks \/ Await
    <2>1. \/ Top.k # "resume" /\ calls' = calls
          \/ Len(calls') = Height /\ calls'[Height].k = "drain"
        BY <1>8, WalkBreaksFacts, AwaitFacts
    <2>2. i = Height
        BY <1>1, <2>1 DEF Height
    <2> QED
        BY <1>1, <2>1, <2>2
<1>9. CASE HostFails
    BY <1>1, <1>9, HostFailsFacts
<1>10. CASE HostLoads
    <2>1. Top.k = "host"
          /\ (calls' # <<>> => Len(calls') = Height + 1 /\ Same(Height) /\ calls'[Height + 1].k = "walk")
        BY <1>10, HostLoadsFacts
    <2>2. calls' # <<>>
        BY <1>1
    <2>3. i = Height \/ i = Height + 1
        BY <1>1, <2>1, <2>2
    <2>4. calls'[Height] = Top
        BY <1>1, <2>1, <2>2 DEF Same
    <2> QED
        BY <2>1, <2>2, <2>3, <2>4
<1>11. CASE HostRuns
    <2>1. Len(calls') = 1 /\ calls'[1].k = "body"
        BY <1>11, HostRunsFacts
    <2>2. i = 1
        BY <2>1
    <2> QED
        BY <2>1, <2>2
<1>12. ASSUME NEW m \in Modules, Import(m) PROVE FALSE
    <2>1. Top.k \in {"body", "drain"}
        BY <1>12, ImportFacts
    <2>2. CASE calls' = calls
        <3>1. i = Height
            BY <1>1, <2>2 DEF Height
        <3> QED
            BY <1>1, <2>1, <2>2, <3>1
    <2>3. CASE calls' # calls
        <3>1. Len(calls') = Height + 2 /\ Same(Height) /\ calls'[Height + 1].k = "import"
              /\ calls'[Height + 2].k = "walk"
            BY <1>12, <2>3, ImportFacts
        <3>2. i = Height \/ i = Height + 1 \/ i = Height + 2
            BY <1>1, <3>1
        <3>3. calls'[Height] = Top
            BY <1>1, <3>1 DEF Same
        <3> QED
            BY <2>1, <3>1, <3>2, <3>3
    <2> QED
        BY <2>2, <2>3
<1>13. ASSUME NEW m \in Modules, Touch(m) PROVE FALSE
    <2>1. /\ Len(calls') = Height + 3 /\ Same(Height) /\ Top.k \in {"body", "drain"}
          /\ calls'[Height + 1].k = "touch" /\ calls'[Height + 2].k = "ensure"
          /\ calls'[Height + 3].k = "walk"
        BY <1>13, TouchFacts
    <2>2. i = Height \/ i = Height + 1 \/ i = Height + 2 \/ i = Height + 3
        BY <1>1, <2>1
    <2>3. calls'[Height] = Top
        BY <1>1, <2>1 DEF Same
    <2> QED
        BY <2>1, <2>2, <2>3
<1> QED
    BY <1>2, <1>3, <1>4, <1>5, <1>6, <1>7, <1>8, <1>9, <1>10, <1>11, <1>12, <1>13
       DEF Next, Evaluate, Javascript

LEMMA RoundStep ==
    ASSUME TypeInv, AdjacentInv, RoundInv, Next
    PROVE  RoundInv'
<1> SUFFICES ASSUME NEW i \in 1 .. Len(calls'), calls'[i].k = "resume", ~calls'[i].resumed
             PROVE  i = Len(calls') /\ \A m \in Elements(suspended') : StillWaits(m)'
    BY DEF RoundInv, Height
<1>1. /\ calls # <<>> /\ Height \in Nat \ {0} /\ Top = calls[Height] /\ Len(calls') \in Nat
      /\ \A j \in 1 .. Len(calls') : j < Height => calls'[j] = calls[j]
    BY Lower, TopFacts
<1>2. i >= Height
    <2> SUFFICES ASSUME i < Height PROVE FALSE
        BY <1>1
    <2>1. calls'[i] = calls[i] /\ i \in 1 .. Height
        BY <1>1
    <2> QED
        BY <1>1, <2>1 DEF RoundInv
<1>3. /\ i = Height /\ Len(calls') = Height
      /\ suspended' = <<>> \/ (ResumeKeeps /\ ~Top.resumed)
    BY <1>2, FreshRound
<1>4. CASE suspended' = <<>>
    BY <1>3, <1>4, EmptyFacts
<1>5. CASE ResumeKeeps /\ ~Top.resumed
    <2>1. /\ Top.k = "resume" /\ StillWaits(Head(Top.list)) /\ Top.list # <<>>
          /\ suspended' = Append(suspended, Head(Top.list))
          /\ program' = program /\ status' = status
        BY <1>5, ResumeKeepsFacts
    <2>2. \A m \in Elements(suspended) : StillWaits(m)
        BY <1>1, <1>5, <2>1 DEF RoundInv
    <2>3. Head(Top.list) \in Modules
        BY <1>1, <2>1, TopTypes
    <2> DEFINE h == Head(Top.list)
    <2> HIDE DEF h
    <2>4. Elements(suspended') = Elements(suspended) \cup {h}
        BY <2>1, <2>3, ElementsAppend DEF TypeInv, h
    <2>5. \A m \in Elements(suspended') : StillWaits(m)
        BY <2>1, <2>2, <2>4 DEF h
    <2>6. \A m : StillWaits(m)' <=> StillWaits(m)
        BY <2>1 DEF StillWaits, InCycle, Reaches, HasRecord, Wanted, Requests
    <2> QED
        BY <1>3, <2>5, <2>6
<1> QED
    BY <1>3, <1>4, <1>5

LEMMA HostStays ==
    ASSUME TypeInv, AdjacentInv, Next, calls' # <<>>
    PROVE  /\ calls'[1].k = "host" => calls[1].k = "host"
           /\ calls[1].k = "host" /\ calls'[1].k # "host" => HostRuns
<1>1. /\ calls # <<>> /\ Height \in Nat \ {0} /\ Top = calls[Height] /\ Len(calls') \in Nat \ {0}
      /\ 1 < Height => calls'[1] = calls[1]
    BY Lower, TopFacts
<1> SUFFICES ASSUME Height = 1
             PROVE  /\ calls'[1].k = "host" => Top.k = "host"
                    /\ Top.k = "host" /\ calls'[1].k # "host" => HostRuns
    BY <1>1
<1>2. Top.k \in {"host", "body", "drain"}
    BY PlaceOnStack, <1>1 DEF Bottom
<1>3. CASE WalkPasses \/ WalkEnters \/ WalkEnds \/ EnsureFails \/ EnsureWaits \/ EnsureRuns
           \/ WalkBreaks \/ ResumeKeeps \/ ResumeRuns \/ ResumeEnds \/ CallReturns
    <2>1. Top.k \in {"walk", "ensure", "resume", "import", "touch"}
        BY <1>3, WalkPassesFacts, WalkEntersFacts, WalkEndsFacts, EnsureFailsFacts,
           EnsureWaitsFacts, EnsureRunsFacts, WalkBreaksFacts, ResumeKeepsFacts, ResumeRunsFacts,
           ResumeEndsFacts, CallReturnsFacts
    <2> QED
        BY <1>2, <2>1
<1>4. CASE RunSuspends \/ RunFinishes \/ BodyThrows
    <2>1. Len(calls') = Height - 1
        BY <1>4, RunSuspendsFacts, RunFinishesFacts, BodyThrowsFacts
    <2> QED
        BY <1>1, <2>1
<1>5. CASE HostLoads
    <2>1. calls'[1] = calls[1] /\ Top.k = "host"
        BY <1>1, <1>5, HostLoadsFacts DEF Same
    <2> QED
        BY <1>1, <2>1
<1>6. CASE HostRuns
    <2>1. Top.k = "host"
        BY <1>6, HostRunsFacts
    <2> QED
        BY <1>6, <2>1
<1>7. CASE HostFails
    BY <1>7, HostFailsFacts
<1>8. CASE Await \/ BodyEnds
    <2>1. Top.k = "body" /\ (calls' = calls \/ calls'[1].k = "drain")
        BY <1>1, <1>8, AwaitFacts, BodyEndsFacts
    <2> QED
        BY <1>1, <2>1
<1>9. ASSUME NEW m \in Modules, Import(m) \/ Touch(m)
      PROVE  Top.k # "host" /\ calls'[1] = calls[1]
    <2>1. CASE Import(m)
        <3>1. Top.k \in {"body", "drain"} /\ (calls' = calls \/ Same(Height))
            BY <2>1, ImportFacts
        <3> QED
            BY <1>1, <3>1 DEF Same
    <2>2. CASE Touch(m)
        BY <1>1, <2>2, TouchFacts DEF Same
    <2> QED
        BY <1>9, <2>1, <2>2
<1> QED
    BY <1>1, <1>3, <1>4, <1>5, <1>6, <1>7, <1>8, <1>9 DEF Next, Evaluate, Javascript

LEMMA ProgramKept ==
    ASSUME TypeInv, Next
    PROVE  program' = program
<1>1. CASE WalkPasses \/ WalkBreaks \/ WalkEnters \/ WalkEnds \/ EnsureFails \/ EnsureWaits
           \/ EnsureRuns
    BY <1>1, WalkPassesFacts, WalkBreaksFacts, WalkEntersFacts, WalkEndsFacts, EnsureFailsFacts,
       EnsureWaitsFacts, EnsureRunsFacts
<1>2. CASE ResumeKeeps \/ ResumeRuns \/ ResumeEnds \/ RunSuspends \/ RunFinishes \/ CallReturns
    BY <1>2, ResumeKeepsFacts, ResumeRunsFacts, ResumeEndsFacts, RunSuspendsFacts,
       RunFinishesFacts, CallReturnsFacts
<1>3. CASE HostLoads \/ HostRuns \/ HostFails \/ Await \/ BodyEnds \/ BodyThrows
    BY <1>3, HostLoadsFacts, HostRunsFacts, HostFailsFacts, AwaitFacts, BodyEndsFacts,
       BodyThrowsFacts
<1>4. ASSUME NEW l \in Modules, Import(l) \/ Touch(l) PROVE program' = program
    BY <1>4, ImportFacts, TouchFacts
<1> QED
    BY <1>1, <1>2, <1>3, <1>4 DEF Next, Evaluate, Javascript

LEMMA SuspendStep ==
    ASSUME TypeInv, AdjacentInv, SuspendInv, Next
    PROVE  SuspendInv'
<1>1. /\ calls # <<>> /\ Height \in Nat \ {0} /\ Top = calls[Height] /\ Len(calls') \in Nat
      /\ \A i \in 1 .. Len(calls') : i < Height => calls'[i] = calls[i]
    BY Lower, TopFacts
<1>2. \A m : HasTla(m)' <=> HasTla(m)
    BY ProgramKept DEF HasTla
<1>3. ASSUME NEW i \in 1 .. Len(calls'), calls'[i].k = "touch" PROVE ~HasTla(calls'[i].of)
    <2>1. CASE i < Height
        <3>1. calls'[i] = calls[i] /\ i \in 1 .. Height
            BY <1>1, <2>1
        <3> QED
            BY <1>3, <3>1 DEF SuspendInv
    <2>2. CASE i >= Height
        <3>1. (i = Height /\ calls'[i] = Top) \/ Touch(calls'[i].of)
            BY <1>3, <2>2, FreshCalls
        <3>2. CASE i = Height /\ calls'[i] = Top
            BY <1>1, <1>3, <3>2 DEF SuspendInv
        <3>3. ASSUME Touch(calls'[i].of) PROVE ~HasTla(calls'[i].of)
            <4> DEFINE m == calls'[i].of
            <4>1. status[m] = "Linked" /\ Ready(m)
                BY <3>3 DEF Touch
            <4> HIDE DEF m
            <4> QED
                BY <4>1 DEF Ready, m
        <3> QED
            BY <3>1, <3>2, <3>3
    <2> QED
        BY <1>1, <2>1, <2>2
<1>4. ASSUME awaitSuspended', calls' # <<>>
      PROVE  \E i \in 1 .. Len(calls') : calls'[i].k = "drain" /\ HasTla(calls'[i].of)
    <2>1. CASE awaitSuspended
        <3>1. PICK i \in 1 .. Height : calls[i].k = "drain" /\ HasTla(calls[i].of)
            BY <1>1, <2>1 DEF SuspendInv
        <3>2. CASE i < Height
            <4>1. i \in 1 .. Len(calls')
                BY <1>1, <1>4, <3>2, Shorter
            <4> QED
                BY <1>1, <3>1, <3>2, <4>1
        <3>3. CASE i = Height
            <4>1. Top.k = "drain"
                BY <1>1, <3>1, <3>3
            <4>2. ~(WalkEnds \/ EnsureFails \/ EnsureWaits \/ ResumeEnds \/ RunSuspends \/ CallReturns
                    \/ BodyThrows)
                BY <1>4, <4>1, WalkEndsFacts, EnsureFailsFacts, EnsureWaitsFacts, ResumeEndsFacts,
                   RunSuspendsFacts, CallReturnsFacts, BodyThrowsFacts
            <4>3. ~RunFinishes
                <5> SUFFICES ASSUME RunFinishes PROVE FALSE
                    OBVIOUS
                <5>1. Top.of = Main /\ Len(calls') = Height - 1 /\ calls' \in Seq(CallType)
                    BY <2>1, RunFinishesFacts
                <5>2. Height = 1
                    BY <1>1, <4>1, <5>1, PlaceOnStack DEF Evaluates
                <5> QED
                    BY <1>4, <5>1, <5>2
            <4>4. Len(calls') >= Height
                BY <1>1, <1>4, <4>2, <4>3, Shorter
            <4>5. ~HostRuns /\ ~HostLoads /\ ~HostFails /\ ~Await /\ ~BodyEnds
                BY <1>4, <4>1, HostRunsFacts, HostLoadsFacts, HostFailsFacts, AwaitFacts, BodyEndsFacts
            <4>6. ~(WalkPasses \/ WalkBreaks \/ WalkEnters \/ EnsureRuns \/ ResumeKeeps \/ ResumeRuns)
                BY <4>1, WalkPassesFacts, WalkBreaksFacts, WalkEntersFacts, EnsureRunsFacts,
                   ResumeKeepsFacts, ResumeRunsFacts
            <4>7. \E l \in Modules : Import(l) \/ Touch(l)
                BY <4>2, <4>3, <4>5, <4>6 DEF Next, Evaluate, Javascript
            <4>8. calls' = calls \/ Same(Height)
                BY <4>7, ImportFacts, TouchFacts
            <4>9. calls'[Height] = Top /\ Height \in 1 .. Len(calls')
                BY <1>1, <4>4, <4>8 DEF Same
            <4> QED
                BY <1>1, <3>1, <3>3, <4>9
        <3> QED
            BY <1>1, <3>2, <3>3
    <2>2. CASE ~awaitSuspended
        <3>1. Await
            <4>1. ASSUME NEW m \in Modules PROVE ~(Import(m) \/ Touch(m))
                BY <1>4, <2>2, ImportFacts, TouchFacts DEF flags
            <4>2. ~(WalkPasses \/ WalkBreaks \/ WalkEnters \/ WalkEnds)
                BY <1>4, <2>2, WalkPassesFacts, WalkBreaksFacts, WalkEntersFacts, WalkEndsFacts DEF flags
            <4>3. ~(EnsureFails \/ EnsureWaits \/ EnsureRuns)
                BY <1>4, <2>2, EnsureFailsFacts, EnsureWaitsFacts, EnsureRunsFacts DEF flags
            <4>4. ~(ResumeKeeps \/ ResumeRuns \/ ResumeEnds \/ HostLoads \/ HostRuns)
                BY <1>4, <2>2, ResumeKeepsFacts, ResumeRunsFacts, ResumeEndsFacts, HostLoadsFacts,
                   HostRunsFacts DEF flags
            <4>5. ~(BodyEnds \/ BodyThrows \/ RunSuspends \/ CallReturns)
                BY <1>4, <2>2, BodyEndsFacts, BodyThrowsFacts, RunSuspendsFacts, CallReturnsFacts DEF flags
            <4>6. ~(RunFinishes \/ HostFails)
                BY <1>4, <2>2, RunFinishesFacts, HostFailsFacts DEF flags
            <4> QED
                BY <4>1, <4>2, <4>3, <4>4, <4>5, <4>6 DEF Next, Evaluate, Javascript
        <3>2. /\ HasTla(Top.of) /\ Len(calls') = Height
              /\ calls'[Height].k = "drain" /\ calls'[Height].of = Top.of
            BY <1>4, <2>2, <3>1, AwaitFacts DEF flags
        <3> QED
            BY <1>1, <3>2
    <2> QED
        BY <2>1, <2>2
<1> QED
    BY <1>2, <1>3, <1>4 DEF SuspendInv, Height

LEMMA DrainStays ==
    ASSUME TypeInv, AdjacentInv, Next, calls' # <<>>, calls[1].k = "drain"
    PROVE  calls'[1].k = "drain"
<1>1. /\ calls # <<>> /\ Height \in Nat \ {0} /\ Top = calls[Height] /\ Len(calls') \in Nat \ {0}
      /\ 1 < Height => calls'[1] = calls[1]
    BY Lower, TopFacts
<1> SUFFICES ASSUME Height = 1 PROVE calls'[1] = Top
    BY <1>1
<1>2. Top.k = "drain"
    BY <1>1
<1>3. ~(WalkPasses \/ WalkBreaks \/ WalkEnters \/ WalkEnds \/ EnsureFails \/ EnsureWaits \/ EnsureRuns)
    BY <1>2, WalkPassesFacts, WalkBreaksFacts, WalkEntersFacts, WalkEndsFacts, EnsureFailsFacts,
       EnsureWaitsFacts, EnsureRunsFacts
<1>4. ~(ResumeKeeps \/ ResumeRuns \/ ResumeEnds \/ CallReturns \/ HostLoads \/ HostRuns)
    BY <1>2, ResumeKeepsFacts, ResumeRunsFacts, ResumeEndsFacts, CallReturnsFacts, HostLoadsFacts,
       HostRunsFacts
<1>5. ~(RunSuspends \/ RunFinishes \/ BodyThrows)
    <2>1. RunSuspends \/ RunFinishes \/ BodyThrows => Len(calls') = Height - 1
        BY RunSuspendsFacts, RunFinishesFacts, BodyThrowsFacts
    <2> QED
        BY <1>1, <2>1
<1>6. ~(Await \/ BodyEnds \/ HostFails)
    BY <1>2, AwaitFacts, BodyEndsFacts, HostFailsFacts
<1>7. \E l \in Modules : Import(l) \/ Touch(l)
    BY <1>3, <1>4, <1>5, <1>6 DEF Next, Evaluate, Javascript
<1>8. calls' = calls \/ Same(Height)
    BY <1>7, ImportFacts, TouchFacts
<1> QED
    BY <1>1, <1>8 DEF Same

\* Where nothing is walked over or resumed, the stack holds nothing suspended.
LEMMA NothingHeld ==
    ASSUME TypeInv, AdjacentInv, calls # <<>>, NEW k \in 0 .. Height, NoRounds(k), NEW i \in 1 .. k
    PROVE  Site(i) = {}
<1>1. Height \in Nat \ {0} /\ i \in 1 .. Height /\ i # 0
    BY TopFacts
<1>2. calls[i].k # "resume"
    BY DEF NoRounds
<1>3. ~IsResumed(calls[i])
    <2> SUFFICES ASSUME IsResumed(calls[i]) PROVE FALSE
        OBVIOUS
    <2>1. CASE i = 1
        BY <1>1, <2>1 DEF AdjacentInv, IsResumed
    <2>2. CASE i # 1
        <3>1. i \in 2 .. Height /\ i - 1 \in 1 .. k
            BY <1>1, <2>2
        <3>2. FitsOn(calls[i - 1], calls[i])
            BY <1>1, <3>1 DEF AdjacentInv
        <3>3. calls[i - 1].k = "resume"
            BY <3>2 DEF FitsOn, IsResumed, Evaluates
        <3> QED
            BY <3>1, <3>3 DEF NoRounds
    <2> QED
        BY <2>1, <2>2
<1> QED
    BY <1>1, <1>2, <1>3 DEF Site, Held

\* Then nothing is suspended, if the queue is empty.
LEMMA NothingSuspends ==
    ASSUME StackInv, SuspendInv, calls # <<>>, NoRounds(Height), calls[1].k # "drain",
           suspended = <<>>
    PROVE  ~EnsureWaits /\ ~RunSuspends
<1>1. TypeInv /\ AdjacentInv /\ HeldInv
    BY DEF StackInv
<1>2. Height \in Nat \ {0}
    BY <1>1, TopFacts
<1>3. ~EnsureWaits
    <2>1. Site(0) = {}
        BY EmptyFacts DEF Site
    <2>2. \A i \in 1 .. Height : Site(i) = {}
        BY <1>1, <1>2, NothingHeld
    <2>3. \A i \in 0 .. Height : Site(i) = {}
        BY <1>2, <2>1, <2>2
    <2>4. \A m \in Modules : status[m] # "EvaluatingAsync"
        BY <1>1, <2>3 DEF HeldInv
    <2>5. EnsureWaits => \E m \in Modules : status[m] = "EvaluatingAsync"
        <3>1. EnsureWaits => HasAsyncDependency(Top.of) /\ Top.of \in Modules
            BY <1>1, EnsureWaitsFacts, TopTypes
        <3>2. Top.of \in Modules => Wanted(Top.of) \subseteq Modules
            BY <1>1, ProgramFacts DEF TypeInv
        <3> QED
            BY <3>1, <3>2 DEF HasAsyncDependency
    <2> QED
        BY <2>4, <2>5
<1>4. ~RunSuspends
    <2> SUFFICES ASSUME RunSuspends PROVE FALSE
        OBVIOUS
    <2>1. PICK i \in 1 .. Height : calls[i].k = "drain" /\ HasTla(calls[i].of)
        BY <1>1, RunSuspendsFacts DEF SuspendInv
    <2>2. i \in 2 .. Height /\ i - 1 \in 1 .. Height
        BY <1>2, <2>1
    <2>3. FitsOn(calls[i - 1], calls[i]) /\ Evaluates(calls[i])
        BY <1>1, <2>1, <2>2 DEF AdjacentInv, Evaluates
    <2>4. calls[i - 1].k \notin {"walk", "resume"} /\ calls[i].resumed \in BOOLEAN
        <3>1. calls[i] \in CallType
            BY <1>1, TopFacts
        <3> QED
            BY <2>2, <3>1 DEF NoRounds, CallType
    <2>5. calls[i - 1].k = "touch" /\ calls[i].of = calls[i - 1].of
        BY <2>3, <2>4 DEF FitsOn
    <2> QED
        BY <2>1, <2>2, <2>5 DEF SuspendInv
<1> QED
    BY <1>3, <1>4

LEMMA QueueKept ==
    ASSUME TypeInv, Next, ~EnsureWaits, ~RunSuspends, suspended = <<>>, Top.k # "resume"
    PROVE  suspended' = <<>>
<1>1. ~ResumeKeeps
    BY ResumeKeepsFacts
<1>2. CASE WalkPasses \/ WalkBreaks \/ WalkEnters \/ WalkEnds \/ EnsureFails \/ EnsureRuns
    BY <1>2, WalkPassesFacts, WalkBreaksFacts, WalkEntersFacts, WalkEndsFacts, EnsureFailsFacts,
       EnsureRunsFacts
<1>3. CASE ResumeRuns \/ ResumeEnds \/ RunFinishes \/ CallReturns \/ HostLoads \/ HostRuns
    BY <1>3, ResumeRunsFacts, ResumeEndsFacts, RunFinishesFacts, CallReturnsFacts, HostLoadsFacts,
       HostRunsFacts
<1>4. CASE Await \/ BodyEnds \/ BodyThrows \/ HostFails
    BY <1>4, AwaitFacts, BodyEndsFacts, BodyThrowsFacts, HostFailsFacts
<1>5. ASSUME NEW m \in Modules, Import(m) \/ Touch(m) PROVE suspended' = suspended
    <2>1. CASE Import(m)
        BY <2>1, ImportFacts
    <2>2. CASE Touch(m)
        BY <2>2, TouchFacts
    <2> QED
        BY <1>5, <2>1, <2>2
<1> QED
    BY <1>1, <1>2, <1>3, <1>4, <1>5 DEF Next, Evaluate, Javascript

\* A walk that threw is not forgotten.
LEMMA OrphanedKept ==
    ASSUME TypeInv, Next, orphaned
    PROVE  orphaned'
<1>1. CASE WalkPasses \/ WalkBreaks \/ WalkEnters \/ EnsureFails \/ EnsureWaits \/ EnsureRuns
    BY <1>1, WalkPassesFacts, WalkBreaksFacts, WalkEntersFacts, EnsureFailsFacts, EnsureWaitsFacts,
       EnsureRunsFacts DEF history
<1>2. CASE ResumeKeeps \/ ResumeRuns \/ ResumeEnds \/ RunSuspends \/ RunFinishes \/ CallReturns
    BY <1>2, ResumeKeepsFacts, ResumeRunsFacts, ResumeEndsFacts, RunSuspendsFacts, RunFinishesFacts,
       CallReturnsFacts DEF history
<1>3. CASE HostLoads \/ HostRuns \/ HostFails
    BY <1>3, HostLoadsFacts, HostRunsFacts, HostFailsFacts DEF history
<1>4. CASE Await \/ BodyEnds \/ BodyThrows
    BY <1>4, AwaitFacts, BodyEndsFacts, BodyThrowsFacts DEF history
<1>5. CASE WalkEnds
    BY <1>5, Zenon DEF WalkEnds
<1>6. ASSUME NEW m \in Modules, Import(m) \/ Touch(m) PROVE orphaned'
    <2>1. CASE Import(m)
        BY <2>1, ImportFacts DEF history
    <2>2. CASE Touch(m)
        BY <2>2, TouchFacts DEF history
    <2> QED
        BY <1>6, <2>1, <2>2
<1> QED
    BY <1>1, <1>2, <1>3, <1>4, <1>5, <1>6 DEF Next, Evaluate, Javascript

\* A round that ran nothing is over: then nothing was left to run.
LEMMA RoundOver ==
    ASSUME StackInv, RoundInv, ResumeEnds, ~Top.resumed, NoRounds(Height - 1)
    PROVE  suspended = <<>>
<1>1. TypeInv /\ AdjacentInv /\ HeldInv
    BY DEF StackInv
<1>2. calls # <<>> /\ Height \in Nat \ {0} /\ Top = calls[Height] /\ Top.k = "resume" /\ Top.list = <<>>
    BY <1>1, ResumeEndsFacts, TopFacts
<1>3. \A m \in Elements(suspended) : StillWaits(m)
    BY <1>2 DEF RoundInv
<1>4. ASSUME NEW i \in 1 .. Height PROVE Site(i) = {}
    <2>1. i # 0 /\ (i < Height \/ i = Height)
        BY <1>2
    <2>2. CASE i = Height
        <3>1. Site(i) = Elements(<<>>)
            BY <1>2, <2>1, <2>2 DEF Site, Held
        <3> QED
            BY <3>1, EmptyFacts
    <2>3. CASE i < Height
        <3>1. i \in 1 .. Height - 1 /\ Height - 1 \in 0 .. Height
            BY <1>2, <2>3
        <3> QED
            BY <1>1, <1>2, <3>1, NothingHeld
    <2> QED
        BY <2>1, <2>2, <2>3
<1>5. ASSUME NEW m \in Modules
      PROVE  status[m] = "EvaluatingAsync" <=> m \in Elements(suspended)
    <2>1. status[m] = "EvaluatingAsync" <=> \E i \in 0 .. Height : m \in Site(i)
        BY <1>1 DEF HeldInv
    <2>2. \A i : i \in 0 .. Height <=> i = 0 \/ i \in 1 .. Height
        BY <1>2
    <2>3. Site(0) = Elements(suspended)
        BY DEF Site
    <2> QED
        BY <1>4, <2>1, <2>2, <2>3
<1>6. Elements(suspended) \in SUBSET Modules
    BY <1>1 DEF TypeInv, Elements
<1>7. CASE Elements(suspended) = {}
    <2>1. suspended \in Seq(Modules)
        BY <1>1 DEF TypeInv
    <2>2. suspended # <<>> => Head(suspended) \in Elements(suspended)
        BY <2>1, ListHead, Zenon
    <2> QED
        BY <1>7, <2>2
<1>8. CASE Elements(suspended) # {}
    <2>1. \E m \in Elements(suspended) : ~StillWaits(m)
        <3> DEFINE A == Elements(suspended)
        <3>1. A \in SUBSET Modules /\ A # {} /\ \A m \in Modules : status[m] = "EvaluatingAsync" <=> m \in A
            BY <1>5, <1>6, <1>8
        <3> HIDE DEF A
        <3>2. \E m \in A : ~StillWaits(m)
            BY <1>1, <3>1, SomeoneRuns
        <3> QED
            BY <3>2 DEF A
    <2> QED
        BY <1>3, <2>1
<1> QED
    BY <1>7, <1>8

\* A call on top that walks or resumes goes on, or returns.
LEMMA RoundsStay ==
    ASSUME TypeInv, AdjacentInv, Next, calls' # <<>>, Top.k \in {"walk", "resume"},
           Len(calls') >= Height
    PROVE  calls'[Height].k \in {"walk", "resume"}
<1>1. calls # <<>> /\ Height \in Nat \ {0} /\ Top = calls[Height]
    BY Lower, TopFacts
<1>2. CASE WalkPasses \/ WalkBreaks \/ WalkEnters \/ WalkEnds
    BY <1>1, <1>2, WalkPassesFacts, WalkBreaksFacts, WalkEntersFacts, WalkEndsFacts
<1>3. CASE ResumeKeeps \/ ResumeRuns \/ ResumeEnds
    <2>1. ResumeKeeps => calls'[Height].k = "resume"
        BY ResumeKeepsFacts
    <2>2. ResumeRuns => calls'[Height].k = "resume"
        BY ResumeRunsFacts
    <2>3. ResumeEnds => calls'[Height].k = "resume" \/ Len(calls') = Height - 1
        BY ResumeEndsFacts
    <2> QED
        BY <1>1, <1>3, <2>1, <2>2, <2>3
<1>4. ~(EnsureFails \/ EnsureWaits \/ EnsureRuns \/ RunSuspends \/ RunFinishes \/ CallReturns)
    BY EnsureFailsFacts, EnsureWaitsFacts, EnsureRunsFacts, RunSuspendsFacts, RunFinishesFacts,
       CallReturnsFacts
<1>5. ~(HostLoads \/ HostRuns \/ HostFails \/ Await \/ BodyEnds \/ BodyThrows)
    BY HostLoadsFacts, HostRunsFacts, HostFailsFacts, AwaitFacts, BodyEndsFacts, BodyThrowsFacts
<1>6. \A m \in Modules : ~Import(m) /\ ~Touch(m)
    BY ImportFacts, TouchFacts
<1> QED
    BY <1>2, <1>3, <1>4, <1>5, <1>6 DEF Next, Evaluate, Javascript

LEMMA HostThrows ==
    ASSUME TypeInv, AdjacentInv, MainInv, Next, Top.k = "host", throwing, calls' # <<>>
    PROVE  throwing'
<1>1. ~(WalkPasses \/ WalkBreaks \/ WalkEnters \/ WalkEnds \/ EnsureFails \/ EnsureWaits \/ EnsureRuns)
    BY WalkPassesFacts, WalkBreaksFacts, WalkEntersFacts, WalkEndsFacts, EnsureFailsFacts,
       EnsureWaitsFacts, EnsureRunsFacts
<1>2. ~(ResumeKeeps \/ ResumeRuns \/ ResumeEnds \/ RunSuspends \/ RunFinishes \/ CallReturns)
    BY ResumeKeepsFacts, ResumeRunsFacts, ResumeEndsFacts, RunSuspendsFacts, RunFinishesFacts,
       CallReturnsFacts
<1>3. ~(HostRuns \/ HostFails \/ Await \/ BodyEnds \/ BodyThrows)
    BY HostRunsFacts, HostFailsFacts, AwaitFacts, BodyEndsFacts, BodyThrowsFacts
<1>4. \A m \in Modules : ~Import(m) /\ ~Touch(m)
    BY ImportFacts, TouchFacts
<1>5. HostLoads => throwing' = throwing
    BY HostLoadsFacts
<1> QED
    BY <1>1, <1>2, <1>3, <1>4, <1>5 DEF Next, Evaluate, Javascript

LEMMA SettledStep ==
    ASSUME StackInv, SuspendInv, RoundInv, SettledInv, Next
    PROVE  SettledInv'
<1>1. TypeInv /\ AdjacentInv /\ MainInv /\ HeldInv
    BY DEF StackInv
<1> DEFINE n == Len(calls')
           Settled == suspended' = <<>> \/ (IF calls'[1].k = "host" THEN throwing' ELSE orphaned')
<1> SUFFICES ASSUME calls' # <<>>, \A i \in 1 .. n : calls'[i].k \notin {"walk", "resume"},
                    calls'[1].k # "drain"
             PROVE  Settled
    BY DEF SettledInv, NoRounds, Left, Height
<1>2. /\ calls # <<>> /\ Height \in Nat \ {0} /\ Top = calls[Height]
      /\ calls' \in Seq(CallType) /\ n \in Nat \ {0}
      /\ \A i \in 1 .. n : i < Height => calls'[i] = calls[i]
    BY <1>1, Lower, TopFacts
<1>3. n >= Height - 1
    BY <1>1, <1>2, Shorter
<1>4. NoRounds(Height - 1)
    <2> SUFFICES ASSUME NEW i \in 1 .. Height - 1 PROVE calls[i].k \notin {"walk", "resume"}
        BY DEF NoRounds
    <2>1. i \in 1 .. n /\ calls'[i] = calls[i]
        BY <1>2, <1>3
    <2> QED
        BY <2>1
<1>5. /\ calls'[1].k = "host" => calls[1].k = "host"
      /\ calls[1].k = "host" /\ calls'[1].k # "host" => HostRuns
      /\ calls[1].k # "drain"
    BY <1>1, HostStays, DrainStays
<1>6. CASE Top.k \notin {"walk", "resume"}
    <2>1. NoRounds(Height)
        <3>1. \A i \in 1 .. Height : i = Height \/ i \in 1 .. Height - 1
            BY <1>2
        <3> QED
            BY <1>2, <1>4, <1>6, <3>1 DEF NoRounds
    <2>3. CASE suspended = <<>>
        <3>1. ~EnsureWaits /\ ~RunSuspends
            BY <1>2, <1>5, <2>1, <2>3, NothingSuspends
        <3> QED
            BY <1>1, <1>6, <2>3, <3>1, QueueKept
    <2>4. CASE calls[1].k # "host" /\ orphaned
        BY <1>1, <1>5, <2>4, OrphanedKept
    <2>5. CASE calls[1].k = "host" /\ throwing
        <3>1. Height = 1
            <4> SUFFICES ASSUME Height > 1 PROVE FALSE
                BY <1>2
            <4>1. FitsOn(calls[1], calls[2]) /\ 2 \in 1 .. Height
                BY <1>1, <1>2 DEF AdjacentInv
            <4>2. calls[2].k \in Kinds /\ calls[2].resumed \in BOOLEAN
                <5>1. calls[2] \in CallType
                    BY <1>1, <4>1, TopFacts, <1>2
                <5> QED
                    BY <5>1 DEF CallType
            <4>3. calls[2].k \in {"walk", "resume"}
                BY <2>5, <4>1, <4>2 DEF FitsOn, Kinds, Evaluates
            <4> QED
                BY <2>1, <4>1, <4>3 DEF NoRounds
        <3>2. Top.k = "host" /\ ~HostRuns
            BY <1>1, <1>2, <2>5, <3>1, HostRunsFacts
        <3>3. calls'[1].k = "host"
            BY <1>5, <2>5, <3>2
        <3>4. throwing'
            BY <1>1, <2>5, <3>2, HostThrows
        <3> QED
            BY <3>3, <3>4
    <2> QED
        BY <1>2, <1>5, <2>1, <2>3, <2>4, <2>5 DEF SettledInv, Left
<1>7. CASE Top.k \in {"walk", "resume"}
    <2>1. n < Height
        <3> SUFFICES ASSUME n >= Height PROVE FALSE
            BY <1>2
        <3>1. calls'[Height].k \in {"walk", "resume"}
            BY <1>1, <1>7, RoundsStay
        <3> QED
            BY <1>2, <3>1
    <2>2. /\ n = Height - 1
          /\ WalkEnds \/ EnsureFails \/ EnsureWaits \/ ResumeEnds \/ RunSuspends \/ RunFinishes
             \/ CallReturns \/ BodyThrows
        BY <1>1, <2>1, Shorter
    <2>3. ~(EnsureFails \/ EnsureWaits \/ RunSuspends \/ RunFinishes \/ CallReturns \/ BodyThrows)
        BY <1>1, <1>7, EnsureFailsFacts, EnsureWaitsFacts, RunSuspendsFacts, RunFinishesFacts,
           CallReturnsFacts, BodyThrowsFacts
    <2>4. n # Height
        BY <1>2, <2>2
    <2>5. CASE WalkEnds
        <3>1. NoWalks(Height - 1)
            BY <1>4 DEF NoRounds, NoWalks
        <3>2. /\ throwing \/ suspended = <<>>
              /\ suspended' = suspended /\ throwing' = throwing
              /\ orphaned' = (orphaned \/ (NoWalks(Height - 1) /\ throwing /\ suspended # <<>>))
            BY <1>1, <2>4, <2>5, <3>1, WalkEndsFacts
        <3> QED
            BY <3>1, <3>2
    <2>6. CASE ResumeEnds
        <3>1. suspended' = suspended /\ (~Top.resumed \/ suspended = <<>>)
            BY <1>1, <2>4, <2>6, ResumeEndsFacts
        <3>2. ~Top.resumed => suspended = <<>>
            BY <1>4, <2>6, RoundOver
        <3> QED
            BY <3>1, <3>2
    <2> QED
        BY <2>2, <2>3, <2>5, <2>6
<1> QED
    BY <1>6, <1>7

LEMMA SettledAlways == Spec => [](SuspendInv /\ RoundInv /\ SettledInv)
<1>1. Init => SuspendInv /\ RoundInv /\ SettledInv
    <2> SUFFICES ASSUME Init PROVE SuspendInv /\ RoundInv /\ SettledInv
        OBVIOUS
    <2>1. /\ ~awaitSuspended
          /\ calls = << [k |-> "host", of |-> Main, list |-> <<>>, resumed |-> FALSE] >>
          /\ suspended = <<>>
        BY DEF Init
    <2>2. \A i \in 1 .. Height : calls[i].k = "host"
        <3>1. Height = 1 /\ calls[1].k = "host"
            BY <2>1 DEF Height
        <3>2. \A i \in 1 .. 1 : i = 1
            OBVIOUS
        <3> QED
            BY <3>1, <3>2
    <2> QED
        BY <2>1, <2>2 DEF SuspendInv, RoundInv, SettledInv
<1>2. StackInv /\ SuspendInv /\ RoundInv /\ SettledInv /\ [Next]_vars
          => (SuspendInv /\ RoundInv /\ SettledInv)'
    <2> SUFFICES ASSUME StackInv, SuspendInv, RoundInv, SettledInv, [Next]_vars
                 PROVE  (SuspendInv /\ RoundInv /\ SettledInv)'
        OBVIOUS
    <2>1. CASE Next
        BY <2>1, SuspendStep, RoundStep, SettledStep DEF StackInv
    <2>2. CASE UNCHANGED vars
        <3>1. \A m : StillWaits(m)' <=> StillWaits(m)
            BY <2>2 DEF vars, StillWaits, InCycle, Reaches, HasRecord, Wanted, Requests
        <3>2. SuspendInv'
            BY <2>2 DEF vars, flags, SuspendInv, HasTla, Height
        <3>3. RoundInv' /\ SettledInv'
            BY <2>2, <3>1 DEF vars, history, RoundInv, SettledInv, NoRounds, Left, Height, Elements
        <3> QED
            BY <3>2, <3>3
    <2> QED
        BY <2>1, <2>2
<1>3. Spec => []StackInv
    BY StackAlways
<1> QED
    BY <1>1, <1>2, <1>3, PTL DEF Spec

\* A module that is EvaluatingAsync is in one place and no other is in any, and
\* nothing is left suspended when the main body runs and no walk threw.
THEOREM HeldUntilRun == Spec => []HeldUntilResumed
<1>1. StackInv /\ SettledInv => HeldUntilResumed
    <2> SUFFICES ASSUME StackInv, SettledInv PROVE HeldUntilResumed
        OBVIOUS
    <2>1. TypeInv /\ HeldInv /\ AdjacentInv
        BY DEF StackInv
    <2>2. \A m \in Modules : Cardinality(Places(m)) = IF status[m] = "EvaluatingAsync" THEN 1 ELSE 0
        BY <2>1, HeldOnce
    <2>3. ASSUME Len(calls) = 1, At("body"), ~orphaned PROVE suspended = <<>>
        <3>1. calls # <<>> /\ Height = 1 /\ Top = calls[1] /\ Top.k = "body"
            BY <2>3 DEF At, Top, Height
        <3>2. \A i \in 1 .. Height : i = 1
            BY <3>1
        <3>3. NoRounds(Height)
            BY <3>1, <3>2 DEF NoRounds
        <3> QED
            BY <2>3, <3>1, <3>3 DEF SettledInv, Left
    <2> QED
        BY <2>2, <2>3 DEF HeldUntilResumed
<1>2. Spec => []StackInv
    BY StackAlways
<1>3. Spec => [](SuspendInv /\ RoundInv /\ SettledInv)
    BY SettledAlways
<1> QED
    BY <1>1, <1>2, <1>3, PTL

----------------------------------------------------------------------------
(* Dependencies first.                                                      *)

\* How a status may change.
LEMMA Loads ==
    ASSUME TypeInv, AdjacentInv, MainInv, NEW m \in Modules,
           HostLoads \/ \E l \in Modules : Import(l)
    PROVE  /\ \/ status'[m] = status[m] /\ (m \in errors => m \in errors')
              \/ status[m] = "none" /\ status'[m] = "Linked"
              \/ status[m] = "none" /\ status'[m] = "Evaluating" /\ m = Main /\ HostLoads
           /\ UNCHANGED <<awaits, history>>
<1>1. CASE HostLoads
    <2> DEFINE st == [status EXCEPT ![Main] = "Evaluating"]
    <2>1. /\ st \in [Modules -> Statuses] /\ status[Main] = "none" /\ st[Main] = "Evaluating"
          /\ (m # Main => st[m] = status[m])
          /\ Wanted(Main) \in SUBSET Modules /\ Load(Wanted(Main), st)
          /\ UNCHANGED <<awaits, history>>
        BY <1>1, HostLoadsFacts, MainAssumption DEF TypeInv
    <2> HIDE DEF st
    <2>2. /\ st[m] # "none" => status'[m] = st[m]
          /\ st[m] = "none" => status'[m] \in {"none", "Linked"}
          /\ errors \subseteq errors'
        <3>1. Wanted(Main) \in SUBSET Modules
            BY <2>1
        <3>2. st \in [Modules -> Statuses]
            BY <2>1
        <3>3. Load(Wanted(Main), st)
            BY <2>1
        <3> QED
            BY <3>1, <3>2, <3>3, LoadFacts, ZenonT(30)
    <2> QED
        BY <1>1, <2>1, <2>2
<1>2. ASSUME NEW l \in Modules, Import(l)
      PROVE  /\ \/ status'[m] = status[m] /\ (m \in errors => m \in errors')
                \/ status[m] = "none" /\ status'[m] = "Linked"
             /\ UNCHANGED <<awaits, history>>
    <2>1. /\ Load({l}, status) /\ {l} \in SUBSET Modules /\ status \in [Modules -> Statuses]
          /\ UNCHANGED <<awaits, history>>
        BY <1>2, ImportFacts DEF TypeInv
    <2>2. /\ status[m] # "none" => status'[m] = status[m]
          /\ status[m] = "none" => status'[m] \in {"none", "Linked"}
          /\ errors \subseteq errors'
        BY <2>1, LoadFacts
    <2> QED
        BY <2>1, <2>2
<1> QED
    BY <1>1, <1>2

LEMMA Changes ==
    ASSUME TypeInv, AdjacentInv, MainInv, Next, NEW m \in Modules
    PROVE  \/ status'[m] = status[m] /\ (m \in errors => m \in errors')
           \/ status[m] = "none" /\ status'[m] = "Linked"
           \/ status[m] = "none" /\ status'[m] = "Evaluating" /\ m = Main /\ HostLoads
           \/ status[m] = "Linked" /\ status'[m] = "Evaluating" /\ m \notin errors
           \/ m = Top.of /\ status'[m] = "EvaluatingAsync" /\ (EnsureWaits \/ RunSuspends)
           \/ m = Top.of /\ status'[m] = "Linked" /\ (EnsureFails \/ BodyThrows)
           \/ m = Top.of /\ status'[m] = "Evaluated" /\ RunFinishes
<1>1. CASE HostLoads \/ \E l \in Modules : Import(l)
    BY <1>1, Loads
<1>2. CASE WalkEnters
    <2> DEFINE h == Head(Top.list)
    <2>1. /\ h \in Modules /\ status[h] = "Linked" /\ h \notin errors
          /\ status' = [status EXCEPT ![h] = "Evaluating"] /\ errors' = errors
        BY <1>2, WalkEntersFacts
    <2> HIDE DEF h
    <2> QED
        BY <2>1 DEF TypeInv
<1>3. ASSUME NEW l \in Modules, Touch(l)
      PROVE  \/ status'[m] = status[m] /\ (m \in errors => m \in errors')
             \/ status[m] = "Linked" /\ status'[m] = "Evaluating" /\ m \notin errors
    <2>1. /\ status[l] = "Linked" /\ l \notin errors
          /\ status' = [status EXCEPT ![l] = "Evaluating"] /\ errors' = errors
        BY <1>3, TouchFacts
    <2> QED
        BY <2>1 DEF TypeInv
<1>4. CASE EnsureWaits \/ RunSuspends
    <2>1. status' = [status EXCEPT ![Top.of] = "EvaluatingAsync"] /\ errors' = errors
        BY <1>4, EnsureWaitsFacts, RunSuspendsFacts
    <2> QED
        BY <1>4, <2>1 DEF TypeInv
<1>5. CASE EnsureFails \/ BodyThrows
    <2>1. status' = [status EXCEPT ![Top.of] = "Linked"] /\ errors \subseteq errors'
        BY <1>5, EnsureFailsFacts, BodyThrowsFacts
    <2> QED
        BY <1>5, <2>1 DEF TypeInv
<1>6. CASE RunFinishes
    <2>1. status' = [status EXCEPT ![Top.of] = "Evaluated"] /\ errors' = errors \ {Top.of}
        BY <1>6, RunFinishesFacts
    <2> QED
        BY <1>6, <2>1 DEF TypeInv
<1>7. CASE UNCHANGED <<status, errors>>
    BY <1>7
<1> QED
    BY <1>1, <1>2, <1>3, <1>4, <1>5, <1>6, <1>7, WalkPassesFacts, WalkBreaksFacts, WalkEndsFacts,
       EnsureRunsFacts, ResumeKeepsFacts, ResumeRunsFacts, ResumeEndsFacts, CallReturnsFacts,
       HostRunsFacts, AwaitFacts, BodyEndsFacts, HostFailsFacts DEF Next, Evaluate, Javascript

\* Who is begun.
LEMMA Begins ==
    ASSUME TypeInv, AdjacentInv, MainInv, Next
    PROVE  \/ starts' = starts
           \/ EnsureRuns /\ starts' = [starts EXCEPT ![Top.of] = @ + 1]
           \/ HostRuns /\ starts' = [starts EXCEPT ![Main] = @ + 1]
           \/ /\ ResumeRuns /\ awaits[Head(Top.list)] = 0
              /\ starts' = [starts EXCEPT ![Head(Top.list)] = @ + 1]
<1>1. CASE HostLoads \/ \E l \in Modules : Import(l)
    BY <1>1, Loads, MainAssumption DEF history
<1>2. CASE WalkPasses \/ WalkBreaks \/ WalkEnters \/ WalkEnds \/ EnsureFails \/ EnsureWaits
    BY <1>2, WalkPassesFacts, WalkBreaksFacts, WalkEntersFacts, WalkEndsFacts, EnsureFailsFacts,
       EnsureWaitsFacts DEF history
<1>3. CASE ResumeKeeps \/ ResumeEnds \/ RunSuspends \/ RunFinishes \/ CallReturns
    BY <1>3, ResumeKeepsFacts, ResumeEndsFacts, RunSuspendsFacts, RunFinishesFacts,
       CallReturnsFacts DEF history
<1>4. CASE Await \/ BodyEnds \/ BodyThrows \/ HostFails
    BY <1>4, AwaitFacts, BodyEndsFacts, BodyThrowsFacts, HostFailsFacts DEF history
<1>5. CASE EnsureRuns \/ HostRuns
    BY <1>5, EnsureRunsFacts, HostRunsFacts
<1>6. CASE ResumeRuns
    <2> DEFINE h == Head(Top.list)
    <2>1. /\ h \in Modules
          /\ starts' = [starts EXCEPT ![h] = IF awaits[h] = 0 THEN @ + 1 ELSE @]
        BY <1>6, ResumeRunsFacts
    <2>2. CASE awaits[h] = 0
        BY <1>6, <2>1, <2>2
    <2>3. CASE awaits[h] # 0
        <3> HIDE DEF h
        <3>1. starts' = [starts EXCEPT ![h] = starts[h]]
            BY <2>1, <2>3
        <3> QED
            BY <3>1 DEF TypeInv
    <2> QED
        BY <2>2, <2>3
<1>7. ASSUME NEW l \in Modules, Touch(l) PROVE starts' = starts
    BY <1>7, TouchFacts DEF history
<1> QED
    BY <1>1, <1>2, <1>3, <1>4, <1>5, <1>6, <1>7 DEF Next, Evaluate, Javascript

LEMMA LateErrorsKept ==
    ASSUME TypeInv, AdjacentInv, MainInv, Next
    PROVE  lateErrors \subseteq lateErrors'
<1>1. CASE HostLoads \/ \E l \in Modules : Import(l)
    BY <1>1, Loads, MainAssumption DEF history
<1>2. CASE WalkPasses \/ WalkBreaks \/ WalkEnters \/ WalkEnds \/ EnsureWaits \/ EnsureRuns
    BY <1>2, WalkPassesFacts, WalkBreaksFacts, WalkEntersFacts, WalkEndsFacts, EnsureWaitsFacts,
       EnsureRunsFacts DEF history
<1>3. CASE ResumeKeeps \/ ResumeRuns \/ ResumeEnds \/ RunSuspends \/ RunFinishes \/ CallReturns
    BY <1>3, ResumeKeepsFacts, ResumeRunsFacts, ResumeEndsFacts, RunSuspendsFacts,
       RunFinishesFacts, CallReturnsFacts DEF history
<1>4. CASE Await \/ BodyEnds \/ HostRuns \/ HostFails
    BY <1>4, AwaitFacts, BodyEndsFacts, HostRunsFacts, HostFailsFacts DEF history
<1>5. CASE EnsureFails \/ BodyThrows
    BY <1>5, EnsureFailsFacts, BodyThrowsFacts DEF FailsNow
<1>6. ASSUME NEW l \in Modules, Touch(l) PROVE lateErrors' = lateErrors
    BY <1>6, TouchFacts DEF history
<1> QED
    BY <1>1, <1>2, <1>3, <1>4, <1>5, <1>6 DEF Next, Evaluate, Javascript

\* Done with, as far as those that wait are concerned.
Seen(m) == status[m] \in {"Evaluated", "EvaluatingAsync"} \/ m \in lateErrors

LEMMA SeenStays ==
    ASSUME TypeInv, AdjacentInv, MainInv, StatusInv, HeldInv, Next, NEW m \in Modules, Seen(m)
    PROVE  Seen(m)'
<1>1. m \in lateErrors => m \in lateErrors'
    BY LateErrorsKept
<1> SUFFICES ASSUME status[m] \in {"Evaluated", "EvaluatingAsync"} PROVE Seen(m)'
    BY <1>1 DEF Seen
<1>2. CASE status'[m] \in {"Evaluated", "EvaluatingAsync"}
    BY <1>2 DEF Seen
<1>3. CASE m = Top.of /\ EnsureFails
    <2>1. Evaluates(Top) /\ calls # <<>> /\ Top.k = "ensure"
        BY <1>3, EnsureFailsFacts DEF Evaluates
    <2>2. status[Top.of] = "EvaluatingAsync" => IsResumed(Top)
        BY <2>1, TopFacts, StatusOfCall
    <2>3. status[Top.of] \in {"Evaluating", "EvaluatingAsync"}
        BY <2>1, TopHeld
    <2> QED
        BY <1>3, <2>1, <2>2, <2>3 DEF IsResumed
<1>4. CASE m = Top.of /\ BodyThrows
    <2>1. Evaluates(Top) /\ calls # <<>> /\ lateErrors' = FailsNow
        BY <1>4, BodyThrowsFacts DEF Evaluates
    <2>2. Top.resumed
        BY <1>4, <2>1, TopHeld
    <2> QED
        BY <1>4, <2>1, <2>2 DEF FailsNow, Seen
<1> QED
    BY <1>2, <1>3, <1>4, Changes

\* A call that stands for a module goes on, or leaves it done with, or throws.
LEMMA CallLeaves ==
    ASSUME TypeInv, AdjacentInv, MainInv, StatusInv, HeldInv, Next, calls' # <<>>,
           NEW j \in 1 .. Height, NEW m \in Modules, StandsFor(calls[j], m)
    PROVE  \/ j \in 1 .. Len(calls') /\ StandsFor(calls'[j], m)
           \/ Seen(m)'
           \/ /\ j = Height /\ m = Top.of /\ Len(calls') = Height - 1
              /\ throwing' /\ lateErrors' = FailsNow /\ ~Top.resumed
<1>1. /\ calls # <<>> /\ Height \in Nat \ {0} /\ Top = calls[Height] /\ Len(calls') \in Nat \ {0}
      /\ \A i \in 1 .. Len(calls') : i < Height => calls'[i] = calls[i]
    BY Lower, TopFacts
<1>2. Len(calls') >= Height - 1
    BY <1>1, Shorter
<1>3. CASE j < Height
    <2>1. j \in 1 .. Len(calls') /\ calls'[j] = calls[j]
        BY <1>1, <1>2, <1>3
    <2> QED
        BY <2>1
<1> SUFFICES ASSUME j = Height PROVE
           \/ Len(calls') >= Height /\ StandsFor(calls'[Height], m)
           \/ Seen(m)'
           \/ m = Top.of /\ Len(calls') = Height - 1 /\ throwing' /\ lateErrors' = FailsNow
              /\ ~Top.resumed
    BY <1>1, <1>3
<1>4. Top.of = m /\ Top.k \in {"host", "ensure", "body", "drain"} /\ StandsFor(Top, m)
    BY <1>1 DEF StandsFor
<1>5. CASE EnsureWaits \/ RunSuspends \/ RunFinishes
    <2>1. \E s \in {"Evaluated", "EvaluatingAsync"} : status' = [status EXCEPT ![m] = s]
        BY <1>4, <1>5, EnsureWaitsFacts, RunSuspendsFacts, RunFinishesFacts
    <2>2. status'[m] \in {"Evaluated", "EvaluatingAsync"}
        BY <2>1 DEF TypeInv
    <2> QED
        BY <2>2 DEF Seen
<1>6. CASE EnsureFails
    <2>1. ~Top.resumed
        <3>1. Evaluates(Top) /\ Top.k = "ensure"
            BY <1>6, EnsureFailsFacts DEF Evaluates
        <3>2. Top.resumed => IsResumed(Top)
            BY <1>1, <3>1, StatusOfCall
        <3> QED
            BY <3>1, <3>2 DEF IsResumed
    <2>2. throwing' /\ Len(calls') = Height - 1 /\ lateErrors' = FailsNow
        BY <1>6, EnsureFailsFacts
    <2> QED
        BY <1>4, <2>1, <2>2
<1>7. CASE BodyThrows
    <2>1. Len(calls') = Height - 1 /\ lateErrors' = FailsNow
        BY <1>7, BodyThrowsFacts
    <2>2. throwing' = ~Top.resumed
        BY <1>7, Zenon DEF BodyThrows, Propagates
    <2>3. Top.resumed => Seen(m)'
        BY <1>4, <2>1 DEF Seen, FailsNow
    <2> QED
        BY <1>4, <2>1, <2>2, <2>3
<1>8. CASE EnsureRuns \/ BodyEnds
    <2>1. Len(calls') = Height /\ calls'[Height].of = m /\ calls'[Height].k \in {"body", "drain"}
        BY <1>4, <1>8, EnsureRunsFacts, BodyEndsFacts
    <2> QED
        BY <1>1, <2>1 DEF StandsFor
<1>9. CASE Await
    <2>1. \/ Len(calls') = Height /\ calls'[Height].of = m /\ calls'[Height].k = "drain"
          \/ calls' = calls
        BY <1>4, <1>9, AwaitFacts
    <2>2. CASE calls' = calls
        BY <1>1, <1>4, <2>2 DEF Height
    <2>3. CASE calls' # calls
        BY <1>1, <2>1, <2>3 DEF StandsFor
    <2> QED
        BY <2>2, <2>3
<1>10. CASE HostLoads
    <2>1. Len(calls') = Height + 1 /\ Same(Height)
        BY <1>10, HostLoadsFacts
    <2>2. calls'[Height] = Top
        BY <1>1, <2>1 DEF Same
    <2> QED
        BY <1>1, <1>4, <2>1, <2>2
<1>11. CASE HostRuns
    <2>1. Len(calls') = 1 /\ Height = 1 /\ calls'[1].of = Main /\ calls'[1].k = "body" /\ Top.of = Main
        BY <1>1, <1>11, HostRunsFacts, PlaceOnStack DEF Bottom
    <2> QED
        BY <1>4, <2>1 DEF StandsFor
<1>12. ASSUME NEW l \in Modules, Import(l) \/ Touch(l)
       PROVE  Len(calls') >= Height /\ StandsFor(calls'[Height], m)
    <2>1. CASE Import(l)
        <3>1. calls' = calls \/ (Len(calls') = Height + 2 /\ Same(Height))
            BY <2>1, ImportFacts
        <3>2. Len(calls') >= Height /\ calls'[Height] = Top
            BY <1>1, <3>1 DEF Same, Height
        <3> QED
            BY <1>4, <3>2
    <2>2. CASE Touch(l)
        <3>1. Len(calls') = Height + 3 /\ Same(Height)
            BY <2>2, TouchFacts
        <3>2. Len(calls') >= Height /\ calls'[Height] = Top
            BY <1>1, <3>1 DEF Same
        <3> QED
            BY <1>4, <3>2
    <2> QED
        BY <1>12, <2>1, <2>2
<1>13. ~(WalkPasses \/ WalkBreaks \/ WalkEnters \/ WalkEnds)
    BY <1>4, WalkPassesFacts, WalkBreaksFacts, WalkEntersFacts, WalkEndsFacts
<1>14. ~(ResumeKeeps \/ ResumeRuns \/ ResumeEnds \/ CallReturns \/ HostFails)
    BY <1>4, ResumeKeepsFacts, ResumeRunsFacts, ResumeEndsFacts, CallReturnsFacts, HostFailsFacts
<1> QED
    BY <1>5, <1>6, <1>7, <1>8, <1>9, <1>10, <1>11, <1>12, <1>13, <1>14
       DEF Next, Evaluate, Javascript

LEMMA AwaitsGrow ==
    ASSUME TypeInv, AdjacentInv, MainInv, Next, NEW m \in Modules, awaits'[m] = 0
    PROVE  awaits[m] = 0
<1>1. CASE HostLoads \/ \E l \in Modules : Import(l)
    BY <1>1, Loads
<1>2. CASE WalkPasses \/ WalkBreaks \/ WalkEnters \/ WalkEnds \/ EnsureFails \/ EnsureWaits
           \/ EnsureRuns
    BY <1>2, WalkPassesFacts, WalkBreaksFacts, WalkEntersFacts, WalkEndsFacts, EnsureFailsFacts,
       EnsureWaitsFacts, EnsureRunsFacts
<1>3. CASE ResumeKeeps \/ ResumeRuns \/ ResumeEnds \/ RunSuspends \/ RunFinishes \/ CallReturns
    BY <1>3, ResumeKeepsFacts, ResumeRunsFacts, ResumeEndsFacts, RunSuspendsFacts,
       RunFinishesFacts, CallReturnsFacts
<1>4. CASE HostRuns \/ HostFails \/ BodyEnds \/ BodyThrows
    BY <1>4, HostRunsFacts, HostFailsFacts, BodyEndsFacts, BodyThrowsFacts
<1>5. CASE Await
    <2>1. awaits' = [awaits EXCEPT ![Top.of] = @ + 1] /\ Top.of \in Modules
        BY <1>5, AwaitFacts, TopTypes
    <2>2. awaits \in [Modules -> 0 .. MaxAwaits]
        BY DEF TypeInv
    <2> QED
        BY <2>1, <2>2, BoundsAssumption
<1>6. ASSUME NEW l \in Modules, Touch(l) PROVE awaits' = awaits
    BY <1>6, TouchFacts
<1> QED
    BY <1>1, <1>2, <1>3, <1>4, <1>5, <1>6 DEF Next, Evaluate, Javascript

\* The calls that wait for a walk over requests: what is about to be evaluated.
Begun(call) == call.k = "ensure" \/ (call.k = "host" /\ HasRecord(Main))

\* Where a call that has not run its module yet comes from, with the walk on it.
LEMMA FreshEnsure ==
    ASSUME TypeInv, AdjacentInv, Next, NEW i \in 1 .. Len(calls'), i >= Height,
           calls'[i].k \in {"host", "ensure"}
    PROVE  LET m == calls'[i].of IN
           \/ i = Height /\ calls'[i] = Top /\ Top.k = "host" /\ HostLoads
           \/ /\ calls'[i].k = "ensure" /\ m \in Modules /\ ~HostLoads
              /\ status[m] = "Linked" /\ m \notin errors
              /\ WalkEnters \/ \E l \in Modules : Touch(l)
              /\ program' = program /\ Len(calls') = i + 1 /\ calls'[i + 1].k = "walk"
              /\ \A k \in DOMAIN Requests(m) : Requests(m)[k].phase = "evaluation"
                    => Requests(m)[k].to \in Elements(calls'[i + 1].list)
<1>1. calls # <<>> /\ Height \in Nat \ {0} /\ Top = calls[Height] /\ Len(calls') \in Nat
    BY Lower, TopFacts
<1>2. ~(WalkPasses \/ WalkEnds \/ EnsureFails \/ EnsureWaits \/ EnsureRuns)
    <2>1. WalkPasses \/ EnsureRuns => Len(calls') = Height /\ calls'[Height].k \in {"walk", "body"}
        BY WalkPassesFacts, EnsureRunsFacts
    <2>2. WalkEnds => \/ Len(calls') = Height - 1
                      \/ Len(calls') = Height /\ calls'[Height].k = "resume"
        BY WalkEndsFacts
    <2>3. EnsureFails \/ EnsureWaits => Len(calls') = Height - 1
        BY EnsureFailsFacts, EnsureWaitsFacts
    <2>4. Len(calls') >= Height
        BY <1>1
    <2>5. Len(calls') = Height => i = Height
        BY <1>1
    <2> QED
        BY <1>1, <2>1, <2>2, <2>3, <2>4, <2>5
<1>3. ~(ResumeKeeps \/ ResumeEnds \/ RunSuspends \/ RunFinishes \/ CallReturns \/ BodyThrows)
    <2>1. ResumeKeeps => Len(calls') = Height /\ calls'[Height].k = "resume"
        BY ResumeKeepsFacts
    <2>2. ResumeEnds => \/ Len(calls') = Height - 1
                        \/ Len(calls') = Height /\ calls'[Height].k = "resume"
        BY ResumeEndsFacts
    <2>3. RunSuspends \/ RunFinishes \/ CallReturns \/ BodyThrows => Len(calls') = Height - 1
        BY RunSuspendsFacts, RunFinishesFacts, CallReturnsFacts, BodyThrowsFacts
    <2>4. Len(calls') >= Height
        BY <1>1
    <2>5. Len(calls') = Height => i = Height
        BY <1>1
    <2> QED
        BY <1>1, <2>1, <2>2, <2>3, <2>4, <2>5
<1>4. ~ResumeRuns
    <2>1. ResumeRuns => Len(calls') = Height + 1 /\ calls'[Height].k = "resume" /\ calls'[Height + 1].k = "body"
        BY ResumeRunsFacts
    <2>2. Len(calls') = Height + 1 => i = Height \/ i = Height + 1
        BY <1>1
    <2> QED
        BY <2>1, <2>2
<1>5. ~(WalkBreaks \/ Await \/ BodyEnds)
    <2>1. WalkBreaks \/ Await \/ BodyEnds =>
              \/ Top.k \in {"walk", "body"} /\ calls' = calls
              \/ Len(calls') = Height /\ calls'[Height].k = "drain"
        BY WalkBreaksFacts, AwaitFacts, BodyEndsFacts
    <2>2. Len(calls') = Height => i = Height
        BY <1>1
    <2>3. calls' = calls => Len(calls') = Height
        BY DEF Height
    <2> QED
        BY <1>1, <2>1, <2>2, <2>3
<1>6. ~HostRuns /\ ~HostFails
    <2>1. HostRuns => Len(calls') = 1 /\ calls'[1].k = "body"
        BY HostRunsFacts
    <2>2. Len(calls') = 1 => i = 1
        OBVIOUS
    <2>3. HostFails => calls' = <<>>
        BY HostFailsFacts
    <2> QED
        BY <1>1, <2>1, <2>2, <2>3
<1>7. ASSUME NEW l \in Modules PROVE ~Import(l)
    <2> SUFFICES ASSUME Import(l) PROVE FALSE
        OBVIOUS
    <2>1. Top.k \in {"body", "drain"}
        BY ImportFacts
    <2>2. CASE calls' = calls
        <3>1. i = Height
            BY <1>1, <2>2 DEF Height
        <3> QED
            BY <1>1, <2>1, <2>2, <3>1
    <2>3. CASE calls' # calls
        <3>1. Len(calls') = Height + 2 /\ Same(Height) /\ calls'[Height + 1].k = "import"
              /\ calls'[Height + 2].k = "walk"
            BY <2>3, ImportFacts
        <3>2. i = Height \/ i = Height + 1 \/ i = Height + 2
            BY <1>1, <3>1
        <3>3. calls'[Height] = Top
            BY <1>1, <3>1 DEF Same
        <3> QED
            BY <2>1, <3>1, <3>2, <3>3
    <2> QED
        BY <2>2, <2>3
<1>8. CASE HostLoads
    <2>1. /\ Top.k = "host"
          /\ calls' # <<>> => Len(calls') = Height + 1 /\ Same(Height) /\ calls'[Height + 1].k = "walk"
        BY <1>8, HostLoadsFacts
    <2>2. calls' # <<>>
        BY <1>1
    <2>3. i = Height \/ i = Height + 1
        BY <1>1, <2>1, <2>2
    <2>4. calls'[Height] = Top
        BY <1>1, <2>1, <2>2 DEF Same
    <2> QED
        BY <1>8, <2>1, <2>2, <2>3, <2>4
<1>9. CASE WalkEnters
    <2> DEFINE h == Head(Top.list)
    <2>1. /\ h \in Modules /\ status[h] = "Linked" /\ h \notin errors /\ program' = program
          /\ Len(calls') = Height + 2 /\ calls'[Height].k = "walk"
          /\ calls'[Height + 1].k = "ensure" /\ calls'[Height + 1].of = h
          /\ calls'[Height + 2].k = "walk"
          /\ \A k \in DOMAIN Requests(h) : Requests(h)[k].phase = "evaluation"
                 => Requests(h)[k].to \in Elements(calls'[Height + 2].list)
        BY <1>9, WalkEntersFacts
    <2>2. ~HostLoads
        <3>1. Top.k = "walk"
            BY <1>9, WalkEntersFacts
        <3> QED
            BY <3>1, HostLoadsFacts
    <2> HIDE DEF h
    <2>3. i = Height + 1
        BY <1>1, <2>1
    <2>4. (Height + 1) + 1 = Height + 2
        BY <1>1
    <2> QED
        BY <1>9, <2>1, <2>2, <2>3, <2>4
<1>10. ASSUME NEW l \in Modules, Touch(l)
       PROVE  /\ calls'[i].k = "ensure" /\ calls'[i].of = l /\ ~HostLoads
              /\ status[l] = "Linked" /\ l \notin errors
              /\ program' = program /\ Len(calls') = i + 1 /\ calls'[i + 1].k = "walk"
              /\ \A k \in DOMAIN Requests(l) : Requests(l)[k].phase = "evaluation"
                    => Requests(l)[k].to \in Elements(calls'[i + 1].list)
    <2>1. /\ status[l] = "Linked" /\ l \notin errors /\ program' = program
          /\ Len(calls') = Height + 3 /\ Same(Height) /\ Top.k \in {"body", "drain"}
          /\ calls'[Height + 1].k = "touch"
          /\ calls'[Height + 2].k = "ensure" /\ calls'[Height + 2].of = l
          /\ calls'[Height + 3].k = "walk"
          /\ \A k \in DOMAIN Requests(l) : Requests(l)[k].phase = "evaluation"
                 => Requests(l)[k].to \in Elements(calls'[Height + 3].list)
        BY <1>10, TouchFacts
    <2>2. ~HostLoads
        BY <2>1, HostLoadsFacts
    <2>3. calls'[Height] = Top
        BY <1>1, <2>1 DEF Same
    <2>4. i = Height \/ i = Height + 1 \/ i = Height + 2 \/ i = Height + 3
        BY <1>1, <2>1
    <2>5. i = Height + 2
        BY <2>1, <2>3, <2>4
    <2>6. (Height + 2) + 1 = Height + 3
        BY <1>1
    <2> QED
        BY <2>1, <2>2, <2>5, <2>6
<1>11. CASE \E l \in Modules : Touch(l)
    <2>1. PICK l \in Modules : Touch(l)
        BY <1>11
    <2> QED
        BY <1>10, <1>11, <2>1
<1> QED
    BY <1>2, <1>3, <1>4, <1>5, <1>6, <1>7, <1>8, <1>9, <1>11 DEF Next, Evaluate, Javascript

\* What has not begun, and a suspended module that waits to begin.
Running(m) == \E i \in 1 .. Height : IsResumed(calls[i]) /\ calls[i].of = m
Unbegun(m) == status[m] = "none" \/ (status[m] = "Linked" /\ m \notin errors)
Waiting(m) == status[m] = "EvaluatingAsync" /\ awaits[m] = 0 /\ ~Running(m)

StartInv ==
    /\ \A m \in Modules : Unbegun(m) => starts[m] = 0
    /\ \A i \in 1 .. Height : calls[i].k \in {"host", "ensure"} => starts[calls[i].of] = 0
    /\ calls # <<>> => \A m \in Modules : Waiting(m) => starts[m] = 0

\* Who waits has waited before, or is an importer that was about to begin.
LEMMA WaitingFrom ==
    ASSUME TypeInv, AdjacentInv, MainInv, StatusInv, HeldInv, AwaitInv, Next, calls' # <<>>,
           NEW m \in Modules, Waiting(m)'
    PROVE  Waiting(m) \/ (m = Top.of /\ EnsureWaits)
<1>1. /\ calls # <<>> /\ Height \in Nat \ {0} /\ Top = calls[Height] /\ Len(calls') \in Nat
      /\ \A i \in 1 .. Len(calls') : i < Height => calls'[i] = calls[i]
    BY Lower, TopFacts
<1>2. status'[m] = "EvaluatingAsync" /\ awaits'[m] = 0
      /\ \A i \in 1 .. Len(calls') : ~(IsResumed(calls'[i]) /\ calls'[i].of = m)
    BY DEF Waiting, Running, Height
<1>3. awaits[m] = 0
    BY <1>2, AwaitsGrow
<1>4. ~(m = Top.of /\ RunSuspends)
    BY <1>3, RunSuspendsFacts DEF AwaitInv
<1>5. status[m] = "EvaluatingAsync" \/ (m = Top.of /\ EnsureWaits)
    BY <1>2, <1>4, Changes
<1> SUFFICES ASSUME status[m] = "EvaluatingAsync", NEW j \in 1 .. Height, IsResumed(calls[j]),
                    calls[j].of = m
             PROVE  FALSE
    BY <1>3, <1>5 DEF Waiting, Running
<1>6. StandsFor(calls[j], m) /\ j > 1 /\ FitsOn(calls[j - 1], calls[j])
    <2>1. StandsFor(calls[j], m)
        BY DEF StandsFor, IsResumed
    <2>2. j # 1
        BY <1>1 DEF AdjacentInv, IsResumed
    <2> QED
        BY <1>1, <2>1, <2>2 DEF AdjacentInv
<1>7. CASE j < Height
    <2>1. j \in 1 .. Len(calls')
        BY <1>1, <1>7, Shorter
    <2> QED
        BY <1>1, <1>2, <1>7, <2>1
<1>8. CASE j = Height
    <2>1. Top.k \in {"body", "drain"} /\ Top.resumed /\ Top.of = m
        BY <1>1, <1>8 DEF IsResumed
    <2>2. ~(RunFinishes \/ BodyThrows)
        <3>1. RunFinishes \/ BodyThrows => \E s \in {"Linked", "Evaluated"} : status' = [status EXCEPT ![m] = s]
            BY <2>1, RunFinishesFacts, BodyThrowsFacts
        <3> QED
            BY <1>2, <3>1 DEF TypeInv
    <2>3. ~RunSuspends
        BY <1>4, <2>1
    <2>4. ~(EnsureRuns \/ EnsureWaits \/ EnsureFails \/ HostLoads \/ HostRuns)
        BY <2>1, EnsureRunsFacts, EnsureWaitsFacts, EnsureFailsFacts, HostLoadsFacts, HostRunsFacts
    <2>5. ~(WalkPasses \/ WalkBreaks \/ WalkEnters \/ WalkEnds)
        BY <2>1, WalkPassesFacts, WalkBreaksFacts, WalkEntersFacts, WalkEndsFacts
    <2>6. ~(ResumeKeeps \/ ResumeRuns \/ ResumeEnds \/ CallReturns \/ HostFails)
        BY <2>1, ResumeKeepsFacts, ResumeRunsFacts, ResumeEndsFacts, CallReturnsFacts, HostFailsFacts
    <2>7. CASE BodyEnds
        <3>1. Len(calls') = Height /\ calls'[Height].k = "drain" /\ calls'[Height].of = m
              /\ calls'[Height].resumed
            BY <2>1, <2>7, BodyEndsFacts
        <3> QED
            BY <1>1, <1>2, <3>1 DEF IsResumed
    <2>8. CASE Await
        <3>1. awaits' = [awaits EXCEPT ![m] = @ + 1]
            BY <2>1, <2>8, AwaitFacts
        <3>2. awaits'[m] = awaits[m] + 1
            BY <3>1 DEF TypeInv
        <3> QED
            BY <1>2, <1>3, <3>2
    <2>9. ASSUME NEW l \in Modules, Import(l) \/ Touch(l) PROVE FALSE
        <3>1. (calls' = calls \/ (Len(calls') >= Height /\ Same(Height)))
            <4>1. CASE Import(l)
                <5>1. calls' = calls \/ (Len(calls') = Height + 2 /\ Same(Height))
                    BY <4>1, ImportFacts
                <5> QED
                    BY <1>1, <5>1
            <4>2. CASE Touch(l)
                BY <1>1, <4>2, TouchFacts
            <4> QED
                BY <2>9, <4>1, <4>2
        <3>2. Height \in 1 .. Len(calls') /\ calls'[Height] = Top
            BY <1>1, <3>1 DEF Same, Height
        <3> QED
            BY <1>1, <1>2, <1>8, <3>2
    <2> QED
        BY <2>2, <2>3, <2>4, <2>5, <2>6, <2>7, <2>8, <2>9 DEF Next, Evaluate, Javascript
<1> QED
    BY <1>1, <1>7, <1>8

\* The status of a module that is begun.
LEMMA BegunHeld ==
    ASSUME TypeInv, AdjacentInv, MainInv, StatusInv, HeldInv, Next, NEW m \in Modules,
           starts'[m] # starts[m]
    PROVE  \/ EnsureRuns /\ m = Top.of /\ status[m] = "Evaluating" /\ status' = status
           \/ HostRuns /\ m = Main /\ status[m] = "Evaluating" /\ status' = status
           \/ /\ ResumeRuns /\ m = Head(Top.list) /\ awaits[m] = 0
              /\ status[m] = "EvaluatingAsync" /\ status' = status
<1>1. CASE EnsureRuns /\ starts' = [starts EXCEPT ![Top.of] = @ + 1]
    <2>1. m = Top.of
        BY <1>1 DEF TypeInv
    <2>2. calls # <<>> /\ Evaluates(Top) /\ Top.k = "ensure" /\ status' = status
        BY <1>1, EnsureRunsFacts DEF Evaluates
    <2>3. ~Top.resumed
        BY <2>2, TopFacts, StatusOfCall DEF IsResumed
    <2> QED
        BY <1>1, <2>1, <2>2, <2>3, TopHeld
<1>2. CASE HostRuns /\ starts' = [starts EXCEPT ![Main] = @ + 1]
    <2>1. m = Main
        BY <1>2 DEF TypeInv
    <2> QED
        BY <1>2, <2>1, HostRunsFacts
<1>3. CASE ResumeRuns /\ awaits[Head(Top.list)] = 0
           /\ starts' = [starts EXCEPT ![Head(Top.list)] = @ + 1]
    <2> DEFINE h == Head(Top.list)
    <2>1. /\ calls # <<>> /\ Top.k = "resume" /\ Top.list # <<>> /\ status' = status
        BY <1>3, ResumeRunsFacts
    <2>2. status[h] = "EvaluatingAsync"
        BY <2>1, BatchHeld
    <2>3. ResumeRuns /\ awaits[h] = 0 /\ starts' = [starts EXCEPT ![h] = @ + 1]
        BY <1>3
    <2> HIDE DEF h
    <2>4. m = h
        BY <2>3 DEF TypeInv
    <2>5. h = Head(Top.list)
        BY DEF h
    <2> QED
        BY <2>1, <2>2, <2>3, <2>4, <2>5
<1> QED
    BY <1>1, <1>2, <1>3, Begins

LEMMA StartStep ==
    ASSUME StackInv, AwaitInv, StartInv, Next
    PROVE  StartInv'
<1>1. TypeInv /\ AdjacentInv /\ MainInv /\ OneCallEach /\ StatusInv /\ HeldInv
    BY DEF StackInv
<1>2. /\ calls # <<>> /\ Height \in Nat \ {0} /\ Top = calls[Height] /\ Len(calls') \in Nat
      /\ \A i \in 1 .. Len(calls') : i < Height => calls'[i] = calls[i]
    BY <1>1, Lower, TopFacts
<1>3. /\ \A m \in Modules : Unbegun(m) => starts[m] = 0
      /\ \A i \in 1 .. Height : calls[i].k \in {"host", "ensure"} => starts[calls[i].of] = 0
      /\ \A m \in Modules : Waiting(m) => starts[m] = 0
    BY <1>2 DEF StartInv
<1>4. Top.k \in {"host", "ensure"} => starts[Top.of] = 0
    BY <1>2, <1>3
<1>5. ASSUME NEW m \in Modules, Unbegun(m)' PROVE starts'[m] = 0
    <2>1. starts[m] = 0
        <3>1. Unbegun(m) \/ (m = Top.of /\ EnsureFails)
            <4>1. BodyThrows /\ m = Top.of => m \in errors'
                BY <1>1, BodyThrowsFacts
            <4> QED
                BY <1>1, <1>5, <4>1, Changes DEF Unbegun
        <3>2. EnsureFails => Top.k = "ensure"
            BY <1>1, EnsureFailsFacts
        <3> QED
            BY <1>3, <1>4, <3>1, <3>2
    <2>2. status'[m] \in {"none", "Linked"}
        BY <1>5 DEF Unbegun
    <2>3. starts'[m] = starts[m]
        BY <1>1, <2>2, BegunHeld
    <2> QED
        BY <2>1, <2>3
<1>6. ASSUME NEW i \in 1 .. Len(calls'), calls'[i].k \in {"host", "ensure"}
      PROVE  starts'[calls'[i].of] = 0
    <2>1. CASE i < Height
        <3> DEFINE n == calls[i].of
        <3>1. i \in 1 .. Height /\ calls'[i] = calls[i] /\ calls[i] \in CallType
            BY <1>1, <1>2, <2>1, TopFacts
        <3>2. n \in Modules /\ starts[n] = 0 /\ calls[i].k \in {"host", "ensure"}
            BY <1>3, <1>6, <3>1 DEF CallType
        <3>3. CASE calls[i].k = "ensure"
            <4>1. Evaluates(calls[i]) /\ ~IsResumed(calls[i])
                BY <3>3 DEF Evaluates, IsResumed
            <4>2. status[n] = "Evaluating"
                BY <1>1, <3>1, <4>1, StatusOfCall, Zenon DEF CallType
            <4>3. n # Main
                <5>1. i # 1
                    BY <1>1, <1>2, <3>3 DEF AdjacentInv
                <5>2. i \in 2 .. Height
                    BY <1>2, <3>1, <5>1
                <5> QED
                    BY <1>1, <1>2, <4>1, <5>2 DEF AdjacentInv, FitsOn
            <4>4. EnsureRuns => n # Top.of
                <5>1. EnsureRuns => Evaluates(Top)
                    BY <1>1, EnsureRunsFacts DEF Evaluates
                <5>2. i \in 1 .. Height - 1
                    BY <1>2, <2>1
                <5> QED
                    BY <1>1, <1>2, <4>1, <5>1, <5>2, TopAlone
            <4> HIDE DEF n
            <4>5. starts'[n] = starts[n]
                BY <1>1, <3>2, <4>2, <4>3, <4>4, BegunHeld
            <4>6. calls'[i].of = n
                BY <3>1 DEF n
            <4> QED
                BY <3>2, <4>5, <4>6
        <3>4. CASE calls[i].k = "host"
            <4>1. i = 1
                BY <1>1, <1>2, <3>1, <3>4 DEF AdjacentInv, FitsOn
            <4>2. n = Main
                BY <1>1, <1>2, <4>1 DEF AdjacentInv
            <4>3. Height > 1
                BY <2>1, <4>1
            <4>4. ~HostRuns
                BY <1>1, <1>2, <4>3, HostRunsFacts, PlaceOnStack
            <4>5. EnsureRuns => Top.of # Main
                <5>1. EnsureRuns => Evaluates(Top)
                    BY <1>1, EnsureRunsFacts DEF Evaluates
                <5> QED
                    BY <1>1, <1>2, <4>3, <5>1, PlaceOnStack
            <4>6. status[Main] # "EvaluatingAsync"
                BY <1>1 DEF MainInv
            <4> HIDE DEF n
            <4>7. starts'[n] = starts[n]
                BY <1>1, <3>2, <4>2, <4>4, <4>5, <4>6, BegunHeld
            <4>8. calls'[i].of = n
                BY <3>1 DEF n
            <4> QED
                BY <3>2, <4>7, <4>8
        <3> QED
            BY <3>2, <3>3, <3>4
    <2>2. CASE i >= Height
        <3> DEFINE n == calls'[i].of
        <3>1. \/ i = Height /\ calls'[i] = Top /\ Top.k = "host" /\ HostLoads
              \/ n \in Modules /\ status[n] = "Linked" /\ n \notin errors
            BY <1>1, <1>6, <2>2, FreshEnsure
        <3>2. CASE n \in Modules /\ status[n] = "Linked" /\ n \notin errors
            <4> HIDE DEF n
            <4>1. starts[n] = 0
                BY <1>3, <3>2 DEF Unbegun
            <4>2. starts'[n] = starts[n]
                BY <1>1, <3>2, BegunHeld
            <4> QED
                BY <4>1, <4>2 DEF n
        <3>3. CASE calls'[i] = Top /\ Top.k = "host" /\ HostLoads
            <4>1. starts' = starts
                BY <1>1, <3>3, HostLoadsFacts DEF history
            <4> QED
                BY <1>4, <3>3, <4>1
        <3> QED
            BY <3>1, <3>2, <3>3
    <2> QED
        BY <1>2, <2>1, <2>2
<1>7. ASSUME calls' # <<>>, NEW m \in Modules, Waiting(m)' PROVE starts'[m] = 0
    <2>1. CASE Waiting(m)
        <3>1. starts[m] = 0 /\ status[m] = "EvaluatingAsync"
            BY <1>3, <2>1 DEF Waiting
        <3>2. ASSUME ResumeRuns, m = Head(Top.list) PROVE FALSE
            <4>1. Len(calls') = Height + 1 /\ calls'[Height + 1].k = "body"
                  /\ calls'[Height + 1].of = m /\ calls'[Height + 1].resumed
                BY <1>1, <3>2, ResumeRunsFacts
            <4>2. Height + 1 \in 1 .. Len(calls')
                BY <1>2, <4>1
            <4> QED
                BY <1>7, <4>1, <4>2 DEF Waiting, Running, Height, IsResumed
        <3> QED
            BY <1>1, <3>1, <3>2, BegunHeld
    <2>2. CASE m = Top.of /\ EnsureWaits
        <3>1. Top.k = "ensure" /\ starts' = starts
            BY <1>1, <2>2, EnsureWaitsFacts DEF history
        <3> QED
            BY <1>4, <2>2, <3>1
    <2> QED
        BY <1>1, <1>7, <2>1, <2>2, WaitingFrom
<1> QED
    BY <1>5, <1>6, <1>7 DEF StartInv, Height


\* What a module asks to be evaluated.  While the call at i waits for it, d is
\* done with, or under way no further up than the walk on that call has put it;
\* or that walk was broken off; or it has yet to come to d.
Eager(m) == {Requests(m)[k].to : k \in {n \in DOMAIN Requests(m) : Requests(m)[n].phase = "evaluation"}}

Met(i, d) == Seen(d) \/ \E j \in 1 .. Height : j <= i + 2 /\ StandsFor(calls[j], d)

Expected(i, d) ==
    \/ Met(i, d)
    \/ throwing /\ Height <= i + 1
    \/ i < Height /\ calls[i + 1].k = "walk" /\ d \in Elements(calls[i + 1].list)

ExpectInv ==
    \A i \in 1 .. Height : Begun(calls[i]) => \A d \in Eager(calls[i].of) : Expected(i, d)

\* Whoever was suspended before it began waits for those as well.
WaitInv ==
    calls # <<>> => \A m \in Modules : Waiting(m) => \A d \in Eager(m) : Met(Height, d)

OrderInv == StartInv /\ ExpectInv /\ WaitInv

LEMMA EagerFacts ==
    ASSUME TypeInv, NEW m \in Modules
    PROVE  /\ Eager(m) \subseteq Wanted(m) /\ Eager(m) \subseteq Modules
           /\ \A k \in DOMAIN Requests(m) : Requests(m)[k].phase = "evaluation"
                 => Requests(m)[k].to \in Eager(m)
<1>1. Wanted(m) \subseteq Modules
    BY ProgramFacts DEF TypeInv
<1>2. Eager(m) \subseteq Wanted(m)
    BY DEF Eager, Wanted
<1> QED
    BY <1>1, <1>2 DEF Eager

LEMMA MetLeaves ==
    ASSUME TypeInv, AdjacentInv, MainInv, StatusInv, HeldInv, Next, calls' # <<>>,
           NEW i \in Nat, NEW d \in Modules, Met(i, d)
    PROVE  \/ Met(i, d)'
           \/ /\ d = Top.of /\ Height <= i + 2 /\ Len(calls') = Height - 1
              /\ throwing' /\ lateErrors' = FailsNow
<1>1. CASE Seen(d)
    BY <1>1, SeenStays DEF Met
<1>2. CASE \E j \in 1 .. Height : j <= i + 2 /\ StandsFor(calls[j], d)
    <2>1. PICK j \in 1 .. Height : j <= i + 2 /\ StandsFor(calls[j], d)
        BY <1>2
    <2>2. \/ j \in 1 .. Len(calls') /\ StandsFor(calls'[j], d)
          \/ Seen(d)'
          \/ /\ j = Height /\ d = Top.of /\ Len(calls') = Height - 1
             /\ throwing' /\ lateErrors' = FailsNow
        BY <2>1, CallLeaves
    <2>3. CASE j \in 1 .. Len(calls') /\ StandsFor(calls'[j], d)
        BY <2>1, <2>3 DEF Met, Height, StandsFor
    <2>4. CASE Seen(d)'
        BY <2>4 DEF Met
    <2> QED
        BY <2>1, <2>2, <2>3, <2>4
<1> QED
    BY <1>1, <1>2 DEF Met


\* The walk on top of a call that has begun.
LEMMA WalkOnTop ==
    ASSUME StackInv, Next, calls' # <<>>, NEW i \in 1 .. Height, Height = i + 1, Begun(calls[i]),
           NEW d \in Eager(calls[i].of),
           throwing \/ (Top.k = "walk" /\ d \in Elements(Top.list))
    PROVE  \/ Met(i, d)
           \/ Expected(i, d)'
<1>1. TypeInv /\ AdjacentInv /\ ThrowInv /\ MainInv /\ StatusInv /\ HeldInv /\ LoadInv
    BY DEF StackInv
<1>2. /\ calls # <<>> /\ Height \in Nat \ {0} /\ Top = calls[Height] /\ Len(calls') \in Nat
      /\ calls[i] \in CallType
    BY <1>1, Lower, TopFacts
<1> DEFINE m == calls[i].of
<1>3. m \in Modules /\ calls[i].k \in {"host", "ensure"}
    BY <1>2 DEF CallType, Begun
<1>4. d \in Wanted(m) /\ d \in Modules
    BY <1>1, <1>3, EagerFacts
<1>5. HasRecord(m)
    <2>1. CASE calls[i].k = "ensure"
        <3>1. Evaluates(calls[i]) /\ ~IsResumed(calls[i])
            BY <2>1 DEF Evaluates, IsResumed
        <3>2. status[m] = "Evaluating"
            BY <1>1, <1>2, <3>1, StatusOfCall, Zenon DEF CallType
        <3> QED
            BY <3>2 DEF HasRecord
    <2>2. CASE calls[i].k = "host"
        <3>1. i = 1
            BY <1>1, <1>2, <2>2 DEF AdjacentInv, FitsOn
        <3> QED
            BY <1>1, <1>2, <2>2, <3>1 DEF AdjacentInv, Begun
    <2> QED
        BY <1>3, <2>1, <2>2
<1>6. Top.k \in {"walk", "resume"}
    <2>1. FitsOn(calls[i], Top)
        <3>1. Height \in 2 .. Height /\ calls[Height - 1] = calls[i]
            BY <1>2
        <3> QED
            BY <1>1, <1>2, <3>1 DEF AdjacentInv
    <2>2. Top.k \in Kinds
        BY <1>1, <1>2, TopTypes
    <2> QED
        BY <1>3, <2>1, <2>2 DEF FitsOn, Evaluates, Kinds
<1>7. throwing => Top.k = "walk"
    BY <1>1, <1>6 DEF ThrowInv, At
<1> SUFFICES ASSUME Top.k = "walk", throwing \/ d \in Elements(Top.list)
             PROVE  Met(i, d) \/ Expected(i, d)'
    BY <1>7
<1> HIDE DEF m
<1>8. ASSUME throwing', Len(calls') <= i + 1 PROVE Expected(i, d)'
    BY <1>8 DEF Expected, Height
<1>9. ASSUME i < Len(calls'), calls'[i + 1].k = "walk", d \in Elements(calls'[i + 1].list)
      PROVE  Expected(i, d)'
    BY <1>9 DEF Expected, Height
<1>10. CASE WalkPasses
    <2>1. /\ ~throwing /\ Top.list # <<>> /\ Passed(Head(Top.list)) /\ Len(calls') = Height
          /\ calls'[Height].k = "walk" /\ calls'[Height].list = Tail(Top.list)
        BY <1>1, <1>10, WalkPassesFacts
    <2>2. d = Head(Top.list) \/ d \in Elements(Tail(Top.list))
        BY <1>1, <1>2, <2>1, TopTypes, ListHead
    <2>3. CASE d \in Elements(Tail(Top.list))
        BY <1>2, <1>9, <2>1, <2>3
    <2>4. CASE d = Head(Top.list)
        <3>1. status[d] # "Linked" /\ d \notin errors
            BY <2>1, <2>4 DEF Passed
        <3>2. HasRecord(d)
            BY <1>1, <1>3, <1>4, <1>5, <3>1 DEF LoadInv
        <3>3. status[d] \in {"Evaluating", "Evaluated", "EvaluatingAsync"}
            BY <1>1, <1>4, <3>1, <3>2 DEF TypeInv, Statuses, HasRecord
        <3>4. CASE status[d] = "Evaluating"
            <4>1. \E j \in 1 .. Height : StandsFor(calls[j], d)
                BY <1>1, <1>2, <1>4, <3>4 DEF StatusInv
            <4>2. \A j \in 1 .. Height : j <= i + 2
                BY <1>2
            <4> QED
                BY <4>1, <4>2 DEF Met
        <3> QED
            BY <3>3, <3>4 DEF Met, Seen
    <2> QED
        BY <2>2, <2>3, <2>4
<1>11. CASE WalkBreaks
    <2>1. throwing' /\ calls' = calls
        BY <1>1, <1>11, WalkBreaksFacts
    <2> QED
        BY <1>2, <1>8, <2>1 DEF Height
<1>12. CASE WalkEnters
    <2>1. /\ ~throwing /\ Top.list # <<>> /\ Len(calls') = Height + 2
          /\ calls'[Height].k = "walk" /\ calls'[Height].list = Tail(Top.list)
          /\ calls'[Height + 1].k = "ensure" /\ calls'[Height + 1].of = Head(Top.list)
        BY <1>1, <1>12, WalkEntersFacts
    <2>2. d = Head(Top.list) \/ d \in Elements(Tail(Top.list))
        BY <1>1, <1>2, <2>1, TopTypes, ListHead
    <2>3. CASE d \in Elements(Tail(Top.list))
        BY <1>2, <1>9, <2>1, <2>3
    <2>4. CASE d = Head(Top.list)
        <3>1. StandsFor(calls'[Height + 1], d)
            BY <2>1, <2>4 DEF StandsFor
        <3>2. Height + 1 \in 1 .. Len(calls') /\ Height + 1 <= i + 2
            BY <1>2, <2>1
        <3>3. \E j \in 1 .. Len(calls') : j <= i + 2 /\ StandsFor(calls'[j], d)
            BY <3>1, <3>2
        <3> QED
            BY <3>3 DEF Expected, Met, Height, StandsFor
    <2> QED
        BY <2>2, <2>3, <2>4
<1>13. CASE WalkEnds
    <2>1. throwing
        <3>1. Top.list = <<>> \/ throwing
            BY <1>1, <1>13, WalkEndsFacts
        <3> QED
            BY <3>1, EmptyFacts
    <2>2. Len(calls') = Height - 1 /\ throwing' = throwing
        BY <1>1, <1>13, <2>1, WalkEndsFacts
    <2> QED
        BY <1>2, <1>8, <2>1, <2>2
<1>14. ~(EnsureFails \/ EnsureWaits \/ EnsureRuns \/ HostLoads \/ HostRuns)
    BY <1>1, EnsureFailsFacts, EnsureWaitsFacts, EnsureRunsFacts, HostLoadsFacts, HostRunsFacts
<1>15. ~(ResumeKeeps \/ ResumeRuns \/ ResumeEnds \/ RunSuspends \/ RunFinishes \/ CallReturns)
    BY <1>1, ResumeKeepsFacts, ResumeRunsFacts, ResumeEndsFacts, RunSuspendsFacts,
       RunFinishesFacts, CallReturnsFacts
<1>16. ~(Await \/ BodyEnds \/ BodyThrows \/ HostFails)
    BY <1>1, AwaitFacts, BodyEndsFacts, BodyThrowsFacts, HostFailsFacts
<1>17. ASSUME NEW l \in Modules PROVE ~(Import(l) \/ Touch(l))
    BY <1>1, ImportFacts, TouchFacts
<1> QED
    BY <1>10, <1>11, <1>12, <1>13, <1>14, <1>15, <1>16, <1>17 DEF Next, Evaluate, Javascript

LEMMA ExpectStep ==
    ASSUME StackInv, ExpectInv, Next
    PROVE  ExpectInv'
<1>1. TypeInv /\ AdjacentInv /\ MainInv /\ StatusInv /\ HeldInv /\ program' = program
    BY ProgramKept DEF StackInv
<1>2. /\ calls # <<>> /\ Height \in Nat \ {0} /\ Top = calls[Height] /\ Len(calls') \in Nat
      /\ \A i \in 1 .. Len(calls') : i < Height => calls'[i] = calls[i]
    BY <1>1, Lower, TopFacts
<1>3. \A m : Eager(m)' = Eager(m)
    BY <1>1 DEF Eager, Requests
<1> SUFFICES ASSUME NEW i \in 1 .. Len(calls'), Begun(calls[i])', NEW d \in Eager(calls'[i].of)
             PROVE  Expected(i, d)'
    BY <1>3 DEF ExpectInv, Height, Begun
<1>4. calls'[i].k \in {"host", "ensure"} /\ calls' # <<>>
    BY DEF Begun
<1>5. CASE i >= Height
    <2> DEFINE m == calls'[i].of
    <2>1. /\ i < Len(calls') /\ calls'[i + 1].k = "walk" /\ m \in Modules
          /\ \A k \in DOMAIN Requests(m) : Requests(m)[k].phase = "evaluation"
                => Requests(m)[k].to \in Elements(calls'[i + 1].list)
        <3>1. CASE i = Height /\ calls'[i] = Top /\ Top.k = "host" /\ HostLoads
            <4>1. Height = 1 /\ Top.of = Main
                BY <1>1, <1>2, <3>1, PlaceOnStack DEF Bottom
            <4>2. /\ Len(calls') = Height + 1 /\ calls'[Height + 1].k = "walk"
                  /\ \A k \in DOMAIN Requests(Main) : Requests(Main)[k].phase = "evaluation"
                        => Requests(Main)[k].to \in Elements(calls'[Height + 1].list)
                BY <1>1, <1>4, <3>1, HostLoadsFacts
            <4> QED
                BY <1>2, <3>1, <4>1, <4>2, MainAssumption
        <3>2. CASE ~(i = Height /\ calls'[i] = Top /\ Top.k = "host" /\ HostLoads)
            <4>1. /\ m \in Modules /\ Len(calls') = i + 1 /\ calls'[i + 1].k = "walk"
                  /\ \A k \in DOMAIN Requests(m) : Requests(m)[k].phase = "evaluation"
                        => Requests(m)[k].to \in Elements(calls'[i + 1].list)
                BY <1>1, <1>4, <1>5, <3>2, FreshEnsure
            <4> QED
                BY <4>1
        <3> QED
            BY <3>1, <3>2
    <2>2. d \in Elements(calls'[i + 1].list)
        BY <2>1 DEF Eager
    <2> QED
        BY <2>1, <2>2 DEF Expected, Height
<1>6. CASE i < Height
    <2>1. i \in 1 .. Height /\ i \in Nat /\ calls'[i] = calls[i] /\ calls[i] \in CallType
        BY <1>1, <1>2, <1>6, TopFacts
    <2>2. Begun(calls[i])
        <3>1. calls[i].k = "host" => HasRecord(Main)
            BY <1>1, <1>2, <1>6 DEF MainInv, HasRecord
        <3> QED
            BY <1>4, <2>1, <3>1 DEF Begun
    <2>3. Expected(i, d) /\ d \in Eager(calls[i].of)
        BY <2>1, <2>2 DEF ExpectInv
    <2>4. d \in Modules
        BY <1>1, <2>1, <2>3, EagerFacts DEF CallType
    <2>5. Met(i, d) => Expected(i, d)'
        <3> SUFFICES ASSUME Met(i, d) PROVE Expected(i, d)'
            OBVIOUS
        <3>1. \/ Met(i, d)'
              \/ Height <= i + 2 /\ Len(calls') = Height - 1 /\ throwing'
            BY <1>1, <1>4, <2>1, <2>4, MetLeaves
        <3>2. CASE Met(i, d)'
            BY <3>2 DEF Expected
        <3>3. CASE Height <= i + 2 /\ Len(calls') = Height - 1 /\ throwing'
            <4>1. Len(calls') <= i + 1
                BY <1>2, <2>1, <3>3
            <4> QED
                BY <3>3, <4>1 DEF Expected, Height
        <3> QED
            BY <3>1, <3>2, <3>3
    <2>6. CASE Height = i + 1
        <3>1. Met(i, d) \/ throwing \/ (Top.k = "walk" /\ d \in Elements(Top.list))
            BY <1>2, <2>3, <2>6 DEF Expected
        <3>2. throwing \/ (Top.k = "walk" /\ d \in Elements(Top.list)) => Met(i, d) \/ Expected(i, d)'
            BY <1>4, <2>1, <2>2, <2>3, <2>6, WalkOnTop
        <3> QED
            BY <2>5, <3>1, <3>2
    <2>7. CASE Height > i + 1
        <3>1. Met(i, d) \/ (calls[i + 1].k = "walk" /\ d \in Elements(calls[i + 1].list))
            BY <1>2, <2>1, <2>3, <2>7 DEF Expected
        <3>2. Len(calls') >= Height - 1
            BY <1>1, <1>2, <1>4, Shorter
        <3>3. i + 1 \in 1 .. Len(calls') /\ i < Len(calls') /\ i + 1 < Height
            BY <1>2, <2>1, <2>7, <3>2
        <3>4. calls'[i + 1] = calls[i + 1]
            BY <1>2, <3>3
        <3>5. calls[i + 1].k = "walk" /\ d \in Elements(calls[i + 1].list) => Expected(i, d)'
            BY <3>3, <3>4 DEF Expected, Height
        <3> QED
            BY <2>5, <3>1, <3>5
    <2> QED
        BY <1>2, <1>6, <2>1, <2>6, <2>7
<1> QED
    BY <1>2, <1>5, <1>6


LEMMA WaitStep ==
    ASSUME StackInv, AwaitInv, ExpectInv, WaitInv, Next
    PROVE  WaitInv'
<1>1. TypeInv /\ AdjacentInv /\ MainInv /\ StatusInv /\ HeldInv /\ program' = program
    BY ProgramKept DEF StackInv
<1>2. /\ calls # <<>> /\ Height \in Nat \ {0} /\ Top = calls[Height] /\ Len(calls') \in Nat
    BY <1>1, Lower, TopFacts
<1>3. \A m : Eager(m)' = Eager(m)
    BY <1>1 DEF Eager, Requests
<1> SUFFICES ASSUME calls' # <<>>, NEW m \in Modules, Waiting(m)', NEW d \in Eager(m)
             PROVE  Met(Height, d)'
    BY <1>3 DEF WaitInv
<1>4. d \in Wanted(m) /\ d \in Modules
    BY <1>1, EagerFacts
<1>5. Met(Height, d)
    <2>1. CASE Waiting(m)
        BY <1>2, <2>1 DEF WaitInv
    <2>2. CASE m = Top.of /\ EnsureWaits
        <3>1. Top.k = "ensure" /\ ~throwing
            BY <1>1, <2>2, EnsureWaitsFacts
        <3>2. Height \in 1 .. Height /\ Begun(calls[Height]) /\ d \in Eager(calls[Height].of)
            BY <1>2, <2>2, <3>1 DEF Begun
        <3>3. Expected(Height, d)
            BY <3>2 DEF ExpectInv
        <3> QED
            BY <1>2, <3>1, <3>3 DEF Expected
    <2> QED
        BY <1>1, <2>1, <2>2, WaitingFrom
<1>6. CASE Seen(d)
    BY <1>1, <1>4, <1>6, SeenStays DEF Met
<1>7. ASSUME NEW j \in 1 .. Height, StandsFor(calls[j], d) PROVE Met(Height, d)'
    <2>1. CASE j \in 1 .. Len(calls') /\ StandsFor(calls'[j], d)
        <3>1. j <= Len(calls') + 2
            BY <1>2, <2>1
        <3> QED
            BY <2>1, <3>1 DEF Met, Height, StandsFor
    <2>2. CASE Seen(d)'
        BY <2>2 DEF Met
    <2>3. CASE d = Top.of /\ throwing' /\ lateErrors' = FailsNow
        <3>1. Waiting(m)
            <4>1. EnsureWaits => ~throwing'
                BY <1>1, EnsureWaitsFacts
            <4> QED
                BY <1>1, <2>3, <4>1, WaitingFrom
        <3>2. status[m] = "EvaluatingAsync"
            BY <3>1 DEF Waiting
        <3> QED
            BY <1>4, <2>3, <3>2 DEF FailsNow, Met, Seen
    <2> QED
        BY <1>1, <1>4, <1>7, <2>1, <2>2, <2>3, CallLeaves
<1> QED
    BY <1>5, <1>6, <1>7 DEF Met

LEMMA OrderInit == Init => OrderInv
<1> SUFFICES ASSUME Init PROVE OrderInv
    OBVIOUS
<1>1. /\ \A m \in Modules : status[m] = "none" /\ starts[m] = 0
      /\ Height = 1 /\ calls[1].k = "host" /\ calls[1].of = Main
    BY DEF Init, Height
<1>2. \A i \in 1 .. Height : i = 1
    BY <1>1
<1>3. StartInv
    BY <1>1, <1>2, MainAssumption DEF StartInv, Waiting
<1>4. ExpectInv
    BY <1>1, <1>2, MainAssumption DEF ExpectInv, Begun, HasRecord
<1>5. WaitInv
    BY <1>1 DEF WaitInv, Waiting
<1> QED
    BY <1>3, <1>4, <1>5 DEF OrderInv

LEMMA OrderStep == StackInv /\ AwaitInv /\ OrderInv /\ [Next]_vars => OrderInv'
<1> SUFFICES ASSUME StackInv, AwaitInv, OrderInv, [Next]_vars PROVE OrderInv'
    OBVIOUS
<1>1. CASE Next
    BY <1>1, StartStep, ExpectStep, WaitStep DEF OrderInv
<1>2. CASE UNCHANGED vars
    <2>1. StartInv'
        BY <1>2 DEF vars, history, OrderInv, StartInv, Unbegun, Waiting, Running, Height
    <2>2. \A i, d : (Met(i, d)' <=> Met(i, d)) /\ (Expected(i, d)' <=> Expected(i, d))
        BY <1>2 DEF vars, history, Expected, Met, Seen, Height
    <2>3. \A m : Eager(m)' = Eager(m) /\ (Waiting(m)' <=> Waiting(m))
        BY <1>2 DEF vars, Eager, Requests, Waiting, Running, Height
    <2>4. ExpectInv' /\ WaitInv'
        BY <1>2, <2>2, <2>3 DEF vars, OrderInv, ExpectInv, WaitInv, Begun, HasRecord, Height
    <2> QED
        BY <2>1, <2>4 DEF OrderInv
<1> QED
    BY <1>1, <1>2

LEMMA OrderAlways == ~ImportsInSuspension => (Spec => []OrderInv)
<1> SUFFICES ASSUME ~ImportsInSuspension PROVE Spec => []OrderInv
    OBVIOUS
<1>1. Init => OrderInv
    BY OrderInit
<1>2. StackInv /\ AwaitInv /\ OrderInv /\ [Next]_vars => OrderInv'
    BY OrderStep
<1>3. FullInv => AwaitInv
    BY DEF FullInv
<1> QED
    BY <1>1, <1>2, <1>3, StackAlways, FullAlways, PTL DEF Spec


\* Who is begun was not begun before, and what it asks to be evaluated is done
\* with or under way ...
LEMMA BeginsOnce ==
    ASSUME StackInv, OrderInv, Next, NEW m \in Modules, starts'[m] # starts[m]
    PROVE  starts[m] = 0 /\ \A d \in Eager(m) : Met(Height, d)
<1>1. /\ TypeInv /\ AdjacentInv /\ MainInv /\ StatusInv /\ HeldInv
      /\ StartInv /\ ExpectInv /\ WaitInv
    BY DEF StackInv, OrderInv
<1>2. calls # <<>> /\ Height \in Nat \ {0} /\ Top = calls[Height] /\ Height \in 1 .. Height
    BY <1>1, Lower, TopFacts
<1>3. ASSUME Top.k \in {"host", "ensure"}, m = Top.of, Begun(Top), ~throwing
      PROVE  starts[m] = 0 /\ \A d \in Eager(m) : Met(Height, d)
    <2>1. starts[m] = 0
        BY <1>1, <1>2, <1>3 DEF StartInv
    <2>2. \A d \in Eager(m) : Expected(Height, d)
        BY <1>1, <1>2, <1>3 DEF ExpectInv
    <2> QED
        BY <1>2, <1>3, <2>1, <2>2 DEF Expected
<1>4. CASE EnsureRuns /\ m = Top.of
    BY <1>1, <1>3, <1>4, EnsureRunsFacts DEF Begun
<1>5. CASE HostRuns /\ m = Main
    <2>1. Top.k = "host" /\ ~throwing /\ status[Main] = "Evaluating"
        BY <1>1, <1>5, HostRunsFacts
    <2>2. m = Top.of
        BY <1>1, <1>2, <1>5, <2>1, PlaceOnStack DEF Bottom
    <2> QED
        BY <1>3, <2>1, <2>2 DEF Begun, HasRecord
<1>6. CASE ResumeRuns /\ m = Head(Top.list) /\ awaits[m] = 0 /\ status[m] = "EvaluatingAsync"
    <2>1. Top.k = "resume" /\ Top.list # <<>>
        BY <1>1, <1>6, ResumeRunsFacts
    <2>2. m \in Site(Height)
        <3>1. Head(Top.list) \in Site(Height)
            BY <1>1, <1>2, <2>1, BatchHeld
        <3> QED
            BY <1>6, <3>1
    <2>3. Waiting(m)
        <3> SUFFICES ASSUME NEW i \in 1 .. Height, IsResumed(calls[i]), calls[i].of = m
                     PROVE  FALSE
            BY <1>6 DEF Waiting, Running
        <3>1. m \in Site(i)
            <4>1. calls[i].k # "resume" /\ i # 0
                BY DEF IsResumed
            <4> QED
                BY <4>1 DEF Site, Held
        <3>2. i = Height
            BY <1>1, <1>2, <2>2, <3>1 DEF HeldInv
        <3> QED
            BY <1>2, <2>1, <3>2 DEF IsResumed
    <2> QED
        BY <1>1, <1>2, <2>3 DEF StartInv, WaitInv
<1> QED
    BY <1>1, <1>4, <1>5, <1>6, BegunHeld

\* ... and what is suspended of that is in a cycle with it.
LEMMA BeginsAlone ==
    ASSUME StackInv, SettledInv, Next, NEW m \in Modules, starts'[m] # starts[m],
           NEW d \in Eager(m), status[d] = "EvaluatingAsync"
    PROVE  InCycle(m, d)
<1>1. TypeInv /\ AdjacentInv /\ MainInv /\ StatusInv /\ HeldInv
    BY DEF StackInv
<1>2. calls # <<>> /\ Height \in Nat \ {0} /\ Top = calls[Height]
    BY <1>1, Lower, TopFacts
<1>3. d \in Wanted(m) /\ d \in Modules
    BY <1>1, EagerFacts
<1>4. ~(EnsureRuns /\ m = Top.of)
    BY <1>1, <1>3, EnsureRunsFacts DEF HasAsyncDependency
<1>5. ~HostRuns
    <2> SUFFICES ASSUME HostRuns PROVE FALSE
        OBVIOUS
    <2>1. Top.k = "host" /\ ~throwing /\ Height = 1
        BY <1>1, <1>2, HostRunsFacts, PlaceOnStack
    <2>2. suspended = <<>>
        BY <1>2, <2>1 DEF NoRounds, SettledInv, Left
    <2>3. d \notin Site(0) /\ d \notin Site(1)
        BY <1>2, <2>1, <2>2, EmptyFacts DEF Site, Held, IsResumed
    <2>4. \A i \in 0 .. Height : d \notin Site(i)
        BY <2>1, <2>3
    <2> QED
        BY <1>1, <1>3, <2>4 DEF HeldInv
<1>6. CASE ResumeRuns /\ m = Head(Top.list)
    <2>1. ~StillWaits(m)
        BY <1>1, <1>6, ResumeRunsFacts
    <2>2. InCycle(d, d)
        BY <1>3, ReachesFacts DEF InCycle
    <2> QED
        BY <1>3, <2>1, <2>2 DEF StillWaits
<1> QED
    BY <1>1, <1>4, <1>5, <1>6, BegunHeld

\* A body begins once, and what it imports has been evaluated before, unless it
\* is in a cycle with it, deferred, failed while suspended or under way.
THEOREM RequestsFirst == ~ImportsInSuspension => (Spec => DependenciesFirst)
<1> SUFFICES ASSUME ~ImportsInSuspension PROVE Spec => DependenciesFirst
    OBVIOUS
<1> DEFINE Inv == StackInv /\ FullInv /\ RoundInv /\ SettledInv /\ OrderInv
           A == \A m \in Modules : starts'[m] > starts[m] =>
                    /\ starts[m] = 0
                    /\ \A r \in Elements(Requests(m)) :
                          \/ r.phase = "defer" \/ status[r.to] = "Evaluated"
                          \/ InCycle(m, r.to) \/ r.to \in lateErrors \/ UnderWay(r.to)
<1>1. Inv /\ Next => A
    <2> SUFFICES ASSUME Inv, Next, NEW m \in Modules, starts'[m] > starts[m]
                 PROVE  /\ starts[m] = 0
                        /\ \A r \in Elements(Requests(m)) :
                              \/ r.phase = "defer" \/ status[r.to] = "Evaluated"
                              \/ InCycle(m, r.to) \/ r.to \in lateErrors \/ UnderWay(r.to)
        OBVIOUS
    <2>1. StackInv /\ FullInv /\ RoundInv /\ SettledInv /\ OrderInv /\ TypeInv /\ starts \in [Modules -> Nat]
        BY DEF StackInv, TypeInv
    <2>2. starts'[m] # starts[m]
        BY <2>1
    <2>3. ASSUME NEW d \in Eager(m)
          PROVE  \/ status[d] = "Evaluated" \/ InCycle(m, d)
                 \/ d \in lateErrors \/ UnderWay(d)
        <3>1. Met(Height, d)
            BY <2>1, <2>2, BeginsOnce
        <3>2. status[d] = "EvaluatingAsync" => InCycle(m, d)
            BY <2>1, <2>2, BeginsAlone
        <3> QED
            BY <3>1, <3>2 DEF Met, Seen, UnderWay, StandsFor, Height
    <2>4. starts[m] = 0
        BY <2>1, <2>2, BeginsOnce
    <2>5. ASSUME NEW r \in Elements(Requests(m)), r.phase # "defer" PROVE r.to \in Eager(m)
        <3>1. Requests(m) \in Seq(Request)
            BY <2>1, ProgramFacts DEF TypeInv
        <3>2. PICK k \in DOMAIN Requests(m) : r = Requests(m)[k]
            BY DEF Elements
        <3>3. r.phase = "evaluation"
            <4>1. r \in Request
                BY <3>1, <3>2
            <4>2. r.phase \in {"evaluation", "defer"}
                BY <4>1 DEF Request, Phase
            <4> QED
                BY <2>5, <4>2
        <3> QED
            BY <3>2, <3>3 DEF Eager
    <2> QED
        BY <2>3, <2>4, <2>5
<1>2. Inv /\ [Next]_vars => [A]_vars
    BY <1>1
<1>3. Spec => []Inv
    BY StackAlways, FullAlways, SettledAlways, OrderAlways, PTL
<1>4. DependenciesFirst <=> [][A]_vars
    BY DEF DependenciesFirst
<1> HIDE DEF Inv, A
<1> QED
    BY <1>2, <1>3, <1>4, PTL DEF Spec
=============================================================================
