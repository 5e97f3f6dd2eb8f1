--------------------------- MODULE PromisesProofs ---------------------------
(***************************************************************************)
(* The safety of Promises for any number of promises, reactions, drains    *)
(* and batches.  The resolve functions of a promise that then() made are   *)
(* in one of four kinds of places, and every step that takes them out puts *)
(* them into another or settles the promise.                               *)
(***************************************************************************)
EXTENDS Promises, FiniteSetTheorems, TLAPS

----------------------------------------------------------------------------
(* Who holds what, for a store tq of waiting reactions, a queue mt of       *)
(* microtasks and a stack dr of drains.                                    *)

Caps(s) == {s[i].cap : i \in DOMAIN s}
Once(s, d) == \A i, j \in DOMAIN s : s[i].cap = d /\ s[j].cap = d => i = j

\* The queues as a function of the places; a drain that is not there is empty.
W(p) == <<"waits", p>>
Q == <<"queue", 0>>
B(n) == <<"batch", n>>
R(n) == <<"runs", n>>
Site == ({"waits"} \X Promise) \cup {Q} \cup ({"batch", "runs"} \X Nat)

Place(tq, mt, dr) ==
    [s \in Site |->
        CASE s[1] = "waits" -> tq[s[2]]
          [] s[1] = "queue" -> mt
          [] s[1] = "batch" -> IF s[2] \in DOMAIN dr THEN dr[s[2]].batch ELSE <<>>
          [] s[1] = "runs" -> IF s[2] \in DOMAIN dr THEN dr[s[2]].task ELSE <<>>]

Held(C, d) == \E s \in Site : d \in Caps(C[s])
HeldOnce(C, d) ==
    \A s \in Site :
        /\ Once(C[s], d)
        /\ \A t \in Site : d \in Caps(C[s]) /\ d \in Caps(C[t]) => s = t

\* The ages of the tasks.
Ascending(s) == \A a, b \in DOMAIN s : a < b => s[a].age < s[b].age
Older(s, t) == \A a \in DOMAIN s, b \in DOMAIN t : s[a].age < t[b].age
UpTo(s, q) == \A a \in DOMAIN s : s[a].age <= q
After(x, s) == \A a \in DOMAIN s : x < s[a].age

Ordered(mt, dr, q) ==
    /\ Ascending(mt) /\ UpTo(mt, q) /\ After(0, mt)
    /\ \A n \in DOMAIN dr :
          /\ Ascending(dr[n].batch) /\ UpTo(dr[n].batch, q) /\ Older(dr[n].batch, mt)
          /\ dr[n].last <= q /\ After(dr[n].last, mt)
          /\ \A m \in DOMAIN dr : m < n => Older(dr[m].batch, dr[n].batch)
          /\ \A m \in DOMAIN dr : m <= n => After(dr[m].last, dr[n].batch)

----------------------------------------------------------------------------
(* The inductive invariant.                                                 *)

\* Each of X is held once while it is pending, and not after.
Accounts(X, C, val) ==
    \A d \in X : HeldOnce(C, d) /\ (val[d] = NoValue <=> Held(C, d))

\* What the store is before and after a step, when n promises are made: only
\* those are held or settled, only what came late waits for one that is settled
\* and nothing for one whose executor runs (in is `inside`), and the tasks are
\* in order.
AllLate(w) == \A i \in DOMAIN w : w[i].late

StoreInv(tq, mt, dr, val, q, n, in) ==
    /\ \A d \in Promise : Held(Place(tq, mt, dr), d) => d <= n
    /\ \A y \in Promise : y > n => val[y] = NoValue /\ tq[y] = <<>>
    /\ \A y \in Promise : val[y] # NoValue => AllLate(tq[y])
    /\ in[1] = "executor" => tq[in[2]] = <<>>
    /\ Ordered(mt, dr, q)

Derived == derived \ handedOut
Places == Place(thenQueue, microtasks, drains)

HistoryInv == derived \subseteq 1 .. promises /\ handedOut \subseteq 1 .. promises

\* What a constructor or a resolve is about may be settled by a script.
InsideInv ==
    inside[1] # "nothing" =>
        /\ inside[2] \in 1 .. promises
        /\ inside[1] # "then" => inside[2] \notin Derived

ThenableInv ==
    \A n \in DOMAIN drains : \A i \in DOMAIN drains[n].task :
        drains[n].task[i].kind = "thenable" => drains[n].task[i].cap \in handedOut

IInv ==
    /\ TypeOK /\ HistoryInv /\ InsideInv /\ ThenableInv
    /\ Accounts(Derived, Places, value)
    /\ StoreInv(thenQueue, microtasks, drains, value, queued, promises, inside)

----------------------------------------------------------------------------
(* Sequences of reactions and tasks.                                        *)

LEMMA AppendFacts ==
    ASSUME NEW S, NEW s \in Seq(S), NEW x \in S
    PROVE  LET a == Append(s, x) IN
           /\ a \in Seq(S)
           /\ Caps(a) = Caps(s) \cup {x.cap}
           /\ \A d : Once(s, d) /\ (x.cap = d => d \notin Caps(s)) => Once(a, d)
           /\ DOMAIN a = DOMAIN s \cup {Len(s) + 1} /\ a[Len(s) + 1] = x
           /\ \A i \in DOMAIN s : a[i] = s[i] /\ i < Len(s) + 1
<1> DEFINE a == Append(s, x)
<1>1. /\ a \in Seq(S) /\ DOMAIN a = DOMAIN s \cup {Len(s) + 1} /\ a[Len(s) + 1] = x
      /\ \A i \in DOMAIN s : a[i] = s[i] /\ i < Len(s) + 1
  OBVIOUS
<1> HIDE DEF a
<1>2. Caps(a) = Caps(s) \cup {x.cap}
  BY <1>1 DEF Caps
<1>3. ASSUME NEW d, Once(s, d), x.cap = d => d \notin Caps(s)
      PROVE  Once(a, d)
  BY <1>1, <1>3 DEF Once, Caps
<1> QED
  BY <1>1, <1>2, <1>3 DEF a

LEMMA TailFacts ==
    ASSUME NEW S, NEW s \in Seq(S), s # <<>>
    PROVE  /\ Head(s) \in S /\ Tail(s) \in Seq(S)
           /\ Caps(s) = {Head(s).cap} \cup Caps(Tail(s))
           /\ \A d : Once(s, d) => Once(Tail(s), d) /\ (Head(s).cap = d => d \notin Caps(Tail(s)))
           /\ \A i \in DOMAIN Tail(s) : i + 1 \in DOMAIN s /\ Tail(s)[i] = s[i + 1]
           /\ \A i, j \in DOMAIN Tail(s) : i < j => i + 1 < j + 1
           /\ Head(s) = s[1] /\ 1 \in DOMAIN s
<1>1. /\ DOMAIN s = 1 .. Len(s) /\ Len(s) \in Nat /\ 1 \in DOMAIN s
      /\ Head(s) = s[1] /\ Head(s) \in S /\ Tail(s) \in Seq(S)
      /\ DOMAIN Tail(s) = 1 .. Len(s) - 1
  OBVIOUS
<1>2. \A i \in DOMAIN Tail(s) : i + 1 \in DOMAIN s /\ i + 1 # 1 /\ Tail(s)[i] = s[i + 1]
  BY <1>1
<1>3. \A j \in DOMAIN s : j # 1 => j - 1 \in DOMAIN Tail(s) /\ Tail(s)[j - 1] = s[j]
  BY <1>1
<1>4. \A i, j \in DOMAIN Tail(s) : (i + 1 = j + 1 => i = j) /\ (i < j => i + 1 < j + 1)
  BY <1>1
<1>5. Caps(s) = {Head(s).cap} \cup Caps(Tail(s))
  <2>1. Caps(Tail(s)) \cup {Head(s).cap} \subseteq Caps(s)
    BY <1>1, <1>2 DEF Caps
  <2>2. \A j \in DOMAIN s : s[j].cap \in {Head(s).cap} \cup Caps(Tail(s))
    BY <1>1, <1>3 DEF Caps
  <2> QED
    BY <2>1, <2>2 DEF Caps
<1>6. ASSUME NEW d, Once(s, d)
      PROVE  Once(Tail(s), d) /\ (Head(s).cap = d => d \notin Caps(Tail(s)))
  <2>1. Once(Tail(s), d)
    <3> SUFFICES ASSUME NEW i \in DOMAIN Tail(s), NEW j \in DOMAIN Tail(s),
                        Tail(s)[i].cap = d, Tail(s)[j].cap = d
                 PROVE  i = j
      BY DEF Once
    <3>1. i + 1 = j + 1
      BY <1>2, <1>6 DEF Once
    <3> QED
      BY <1>4, <3>1
  <2>2. ASSUME Head(s).cap = d, NEW i \in DOMAIN Tail(s), Tail(s)[i].cap = d
        PROVE  FALSE
    <3>1. i + 1 \in DOMAIN s /\ i + 1 # 1 /\ s[i + 1].cap = d /\ s[1].cap = d
      BY <1>1, <1>2, <2>2
    <3> QED
      BY <1>1, <1>6, <3>1 DEF Once
  <2> QED
    BY <2>1, <2>2 DEF Caps
<1> QED
  BY <1>1, <1>2, <1>4, <1>5, <1>6

\* The microtasks of a promise that is settled.
Tasks(w, v, r, q) == [i \in 1 .. Len(w) |-> Task(w[i], v, r, q + i)]

\* The queue a is mt and, behind it, tasks of ages between q and r.
Behind(a, mt, q, r) ==
    /\ \A i \in DOMAIN a : \/ i \in DOMAIN mt /\ a[i] = mt[i]
                           \/ i \notin DOMAIN mt /\ a[i].age > q /\ a[i].age <= r
    /\ \A i, j \in DOMAIN a : i < j =>
          (i \notin DOMAIN mt => j \notin DOMAIN mt /\ a[i].age < a[j].age)

LEMMA SettledFacts ==
    ASSUME NEW mt \in Seq(Microtask), NEW w \in Seq(Reaction), NEW v \in Values,
           NEW r \in BOOLEAN, NEW q \in Nat
    PROVE  LET a == mt \o Tasks(w, v, r, q)
           IN /\ a \in Seq(Microtask)
              /\ Caps(a) = Caps(mt) \cup Caps(w)
              /\ \A d : Once(mt, d) /\ Once(w, d) /\ ~(d \in Caps(mt) /\ d \in Caps(w)) => Once(a, d)
              /\ Behind(a, mt, q, q + Len(w))
<1> DEFINE ts == Tasks(w, v, r, q)
           a == mt \o ts
           N == Len(mt)
<1>1. /\ N \in Nat /\ DOMAIN mt = 1 .. N /\ Len(w) \in Nat /\ DOMAIN w = 1 .. Len(w)
      /\ \A i \in DOMAIN w : w[i] \in Reaction
  OBVIOUS
<1>2. \A i \in DOMAIN w : Task(w[i], v, r, q + i) \in Microtask
  <2> TAKE i \in DOMAIN w
  <2>1. w[i] \in Reaction /\ q + i \in Nat
    BY <1>1
  <2> QED
    BY <2>1 DEF Task, Reaction, Microtask
<1>3. ts \in Seq(Microtask) /\ Len(ts) = Len(w) /\ DOMAIN ts = DOMAIN w
  <2>1. ts \in [1 .. Len(w) -> Microtask]
    BY <1>1, <1>2 DEF Tasks
  <2> QED
    BY <1>1, <2>1
<1>4. \A i \in DOMAIN w : ts[i].cap = w[i].cap /\ ts[i].age = q + i
  BY <1>1 DEF Tasks, Task
<1> HIDE DEF ts
<1>5. /\ a \in Seq(Microtask) /\ DOMAIN a = 1 .. N + Len(w)
      /\ \A i \in DOMAIN mt : a[i] = mt[i] /\ i \in DOMAIN a
      /\ \A i \in DOMAIN w : a[N + i] = ts[i] /\ N + i \in DOMAIN a /\ N + i \notin DOMAIN mt
      /\ \A k \in DOMAIN a : k \notin DOMAIN mt => k - N \in DOMAIN w /\ a[k] = ts[k - N] /\ k > N
  BY SMTT(30), <1>1, <1>3
<1>6. /\ \A i \in DOMAIN w : N + i \in DOMAIN a /\ a[N + i].cap = w[i].cap
      /\ \A k \in DOMAIN a : k \notin DOMAIN mt =>
            k > N /\ k - N \in DOMAIN w /\ a[k].cap = w[k - N].cap /\ a[k].age = q + (k - N)
  <2> HIDE DEF a, N
  <2> QED
    BY <1>4, <1>5
<1>7. \A i, j \in DOMAIN a :
         /\ i - N = j - N => i = j
         /\ i \notin DOMAIN mt /\ i < j => j \notin DOMAIN mt /\ i - N < j - N
  BY <1>1, <1>5
<1> HIDE DEF a, N
<1>8. Caps(a) = Caps(mt) \cup Caps(w)
  <2>1. \A k \in DOMAIN a : a[k].cap \in Caps(mt) \cup Caps(w)
    BY SMTT(30), <1>1, <1>5, <1>6 DEF Caps
  <2>2. Caps(mt) \subseteq Caps(a)
    BY <1>5 DEF Caps
  <2>3. \A i \in DOMAIN w : w[i].cap \in Caps(a)
    <3> TAKE i \in DOMAIN w
    <3>1. N + i \in DOMAIN a /\ a[N + i].cap = w[i].cap
      BY <1>6
    <3> QED
      BY <3>1 DEF Caps
  <2> QED
    BY <2>1, <2>2, <2>3 DEF Caps
<1>9. ASSUME NEW d, Once(mt, d), Once(w, d), ~(d \in Caps(mt) /\ d \in Caps(w))
      PROVE  Once(a, d)
  <2> SUFFICES ASSUME NEW i \in DOMAIN a, NEW j \in DOMAIN a, a[i].cap = d, a[j].cap = d
               PROVE  i = j
    BY DEF Once
  <2>1. CASE i \in DOMAIN mt /\ j \in DOMAIN mt
    BY <1>5, <1>9, <2>1 DEF Once
  <2>2. CASE i \notin DOMAIN mt /\ j \notin DOMAIN mt
    <3>1. i - N = j - N
      BY <1>6, <1>9, <2>2 DEF Once
    <3> QED
      BY <1>7, <3>1
  <2>3. ASSUME NEW k \in DOMAIN a, NEW l \in DOMAIN a, a[k].cap = d, a[l].cap = d,
               k \in DOMAIN mt, l \notin DOMAIN mt
        PROVE  FALSE
    <3>1. d \in Caps(mt)
      BY <1>5, <2>3 DEF Caps
    <3>2. l - N \in DOMAIN w /\ w[l - N].cap = d
      BY <1>6, <2>3
    <3>3. d \in Caps(w)
      BY <3>2 DEF Caps
    <3> QED
      BY <1>9, <3>1, <3>3
  <2> QED
    BY <2>1, <2>2, <2>3
<1>10. \A i \in DOMAIN a : \/ i \in DOMAIN mt /\ a[i] = mt[i]
                           \/ i \notin DOMAIN mt /\ a[i].age > q /\ a[i].age <= q + Len(w)
  BY <1>1, <1>5, <1>6
<1>11. ASSUME NEW i \in DOMAIN a, NEW j \in DOMAIN a, i < j, i \notin DOMAIN mt
       PROVE  j \notin DOMAIN mt /\ a[i].age < a[j].age
  <2>1. j \notin DOMAIN mt /\ i - N < j - N /\ i - N \in DOMAIN w /\ j - N \in DOMAIN w
    BY <1>6, <1>7, <1>11
  <2>2. a[i].age = q + (i - N) /\ a[j].age = q + (j - N) /\ i - N \in Nat /\ j - N \in Nat
    BY <1>1, <1>6, <1>11, <2>1
  <2> QED
    BY <2>1, <2>2
<1> QED
  BY <1>5, <1>8, <1>9, <1>10, <1>11 DEF a, ts, Behind

----------------------------------------------------------------------------
(* Places.                                                                  *)

LEMMA SiteFacts ==
    /\ \A p \in Promise : W(p) \in Site
    /\ Q \in Site
    /\ \A n \in Nat : B(n) \in Site /\ R(n) \in Site
    /\ \A s \in Site : \/ \E p \in Promise : s = W(p)
                       \/ s = Q
                       \/ \E n \in Nat : s = B(n) \/ s = R(n)
    /\ \A m, n : /\ W(m) = W(n) => m = n
                 /\ B(m) = B(n) => m = n
                 /\ R(m) = R(n) => m = n
                 /\ W(m) # Q /\ B(m) # Q /\ R(m) # Q
                 /\ W(m) # B(n) /\ W(m) # R(n) /\ B(m) # R(n)
  BY DEF Site, W, Q, B, R

LEMMA PlaceFacts ==
    ASSUME NEW tq, NEW mt, NEW dr
    PROVE  /\ \A p \in Promise : Place(tq, mt, dr)[W(p)] = tq[p]
           /\ Place(tq, mt, dr)[Q] = mt
           /\ \A n \in Nat :
                 /\ Place(tq, mt, dr)[B(n)] = IF n \in DOMAIN dr THEN dr[n].batch ELSE <<>>
                 /\ Place(tq, mt, dr)[R(n)] = IF n \in DOMAIN dr THEN dr[n].task ELSE <<>>
<1>1. \A p \in Promise : Place(tq, mt, dr)[W(p)] = tq[p]
  BY SiteFacts DEF Place, W
<1>2. Place(tq, mt, dr)[Q] = mt
  BY SiteFacts DEF Place, Q
<1>3. \A n \in Nat : Place(tq, mt, dr)[B(n)] = IF n \in DOMAIN dr THEN dr[n].batch ELSE <<>>
  BY SiteFacts DEF Place, B
<1>4. \A n \in Nat : Place(tq, mt, dr)[R(n)] = IF n \in DOMAIN dr THEN dr[n].task ELSE <<>>
  BY SiteFacts DEF Place, R
<1> QED
  BY <1>1, <1>2, <1>3, <1>4

\* A reaction or task of x is put behind those of a.
Adds(C, D, a, x) ==
    /\ Caps(D[a]) = Caps(C[a]) \cup {x}
    /\ \A d : Once(C[a], d) /\ (x = d => d \notin Caps(C[a])) => Once(D[a], d)
    /\ \A s \in Site : s # a => D[s] = C[s]

LEMMA Added ==
    ASSUME NEW C, NEW D, NEW a \in Site, NEW x, Adds(C, D, a, x)
    PROVE  /\ Held(D, x)
           /\ \A d : d # x => (Held(D, d) <=> Held(C, d))
           /\ \A d : d # x /\ HeldOnce(C, d) => HeldOnce(D, d)
           /\ ~Held(C, x) => HeldOnce(D, x)
<1> USE DEF Adds
<1>1. Held(D, x)
  BY DEF Held
<1>2. ASSUME NEW d, d # x PROVE Held(D, d) <=> Held(C, d)
  BY <1>2 DEF Held
<1>3. ASSUME NEW d, d # x, HeldOnce(C, d) PROVE HeldOnce(D, d)
  <2>1. \A s \in Site : d \in Caps(D[s]) <=> d \in Caps(C[s])
    BY <1>3
  <2>2. \A s \in Site : Once(D[s], d)
    BY <1>3 DEF HeldOnce
  <2> QED
    BY <1>3, <2>1, <2>2 DEF HeldOnce
<1>4. ASSUME ~Held(C, x) PROVE HeldOnce(D, x)
  <2>1. \A s \in Site : x \notin Caps(C[s])
    BY <1>4 DEF Held
  <2>2. \A s \in Site : Once(C[s], x)
    BY <2>1 DEF Once, Caps
  <2>3. \A s \in Site : Once(D[s], x)
    BY <2>1, <2>2
  <2>4. \A s \in Site : x \in Caps(D[s]) => s = a
    BY <2>1
  <2> QED
    BY <2>3, <2>4 DEF HeldOnce
<1> QED
  BY <1>1, <1>2, <1>3, <1>4

\* What is taken from a is put into b.
Moves(C, D, a, b) ==
    /\ Caps(D[a]) \cup Caps(D[b]) = Caps(C[a]) \cup Caps(C[b])
    /\ \A d : HeldOnce(C, d) =>
          Once(D[a], d) /\ Once(D[b], d) /\ ~(d \in Caps(D[a]) /\ d \in Caps(D[b]))
    /\ \A s \in Site : s # a /\ s # b => D[s] = C[s]

LEMMA Moved ==
    ASSUME NEW C, NEW D, NEW a \in Site, NEW b \in Site, a # b, Moves(C, D, a, b)
    PROVE  \A d : /\ Held(D, d) <=> Held(C, d)
                  /\ HeldOnce(C, d) => HeldOnce(D, d)
<1> TAKE d
<1> USE DEF Moves
<1>1. Held(D, d) => Held(C, d)
  BY DEF Held
<1>2. Held(C, d) => Held(D, d)
  BY DEF Held
<1>3. ASSUME HeldOnce(C, d) PROVE HeldOnce(D, d)
  <2>1. \A s \in Site : Once(D[s], d)
    BY <1>3 DEF HeldOnce
  <2>2. ASSUME NEW s \in Site, NEW t \in Site, s # t, d \in Caps(D[s]), d \in Caps(D[t])
        PROVE  FALSE
    <3>1. s \in {a, b} => d \in Caps(C[a]) \/ d \in Caps(C[b])
      BY <2>2
    <3>2. t \in {a, b} => d \in Caps(C[a]) \/ d \in Caps(C[b])
      BY <2>2
    <3>3. CASE s \in {a, b} /\ t \in {a, b}
      BY <1>3, <2>2, <3>3
    <3>4. CASE s \in {a, b} /\ t \notin {a, b}
      BY <1>3, <2>2, <3>1, <3>4 DEF HeldOnce
    <3>5. CASE s \notin {a, b} /\ t \in {a, b}
      BY <1>3, <2>2, <3>2, <3>5 DEF HeldOnce
    <3>6. CASE s \notin {a, b} /\ t \notin {a, b}
      BY <1>3, <2>2, <3>6 DEF HeldOnce
    <3> QED
      BY <3>3, <3>4, <3>5, <3>6
  <2> QED
    BY <2>1, <2>2 DEF HeldOnce
<1> QED
  BY <1>1, <1>2, <1>3

\* One task, that of x, is taken out of a.
Drops(C, D, a, x) ==
    /\ Caps(C[a]) = {x} \cup Caps(D[a])
    /\ \A d : Once(C[a], d) => Once(D[a], d) /\ (x = d => d \notin Caps(D[a]))
    /\ \A s \in Site : s # a => D[s] = C[s]

LEMMA Dropped ==
    ASSUME NEW C, NEW D, NEW a \in Site, NEW x, Drops(C, D, a, x)
    PROVE  \A d : /\ Held(D, d) => Held(C, d)
                  /\ d # x => (Held(D, d) <=> Held(C, d))
                  /\ HeldOnce(C, d) => HeldOnce(D, d)
                  /\ d = x /\ HeldOnce(C, d) => ~Held(D, d)
<1> TAKE d
<1> USE DEF Drops
<1>1. \A s \in Site : d \in Caps(D[s]) => d \in Caps(C[s])
  OBVIOUS
<1>2. Held(D, d) => Held(C, d)
  BY <1>1 DEF Held
<1>3. ASSUME d # x PROVE Held(D, d) <=> Held(C, d)
  BY <1>2, <1>3 DEF Held
<1>4. HeldOnce(C, d) => HeldOnce(D, d)
  <2>1. HeldOnce(C, d) => \A s \in Site : Once(D[s], d)
    BY DEF HeldOnce
  <2> QED
    BY <1>1, <2>1 DEF HeldOnce
<1>5. ASSUME d = x, HeldOnce(C, d), NEW s \in Site, d \in Caps(D[s]) PROVE FALSE
  <2>1. d \in Caps(C[a]) /\ d \in Caps(C[s])
    BY <1>1, <1>5
  <2>2. s = a
    BY <1>5, <2>1 DEF HeldOnce
  <2> QED
    BY <1>5, <2>2 DEF HeldOnce
<1> QED
  BY <1>2, <1>3, <1>4, <1>5 DEF Held

----------------------------------------------------------------------------
(* The ages of the tasks, over what the steps do to queue and batches.      *)

LEMMA TaskFacts ==
    ASSUME NEW s \in Seq(Microtask), NEW i \in DOMAIN s
    PROVE  s[i] \in Microtask /\ s[i].age \in Nat /\ s[i].cap \in Promise
<1>1. s[i] \in Microtask
  OBVIOUS
<1> QED
  BY <1>1 DEF Microtask

LEMMA OrderBehind ==
    ASSUME NEW mt \in Seq(Microtask), NEW dr \in Seq(DrainCall), NEW q \in Nat,
           NEW a \in Seq(Microtask), NEW r \in Nat, q <= r,
           Ordered(mt, dr, q), Behind(a, mt, q, r)
    PROVE  Ordered(a, dr, r)
<1> USE DEF Behind
<1>1. /\ \A i \in DOMAIN mt : mt[i].age \in Nat
      /\ \A i \in DOMAIN a : a[i].age \in Nat
  BY TaskFacts
<1>2. \A n \in DOMAIN dr :
         /\ dr[n].last \in Nat
         /\ \A i \in DOMAIN dr[n].batch : dr[n].batch[i].age \in Nat
  <2> TAKE n \in DOMAIN dr
  <2>1. dr[n] \in DrainCall
    OBVIOUS
  <2>2. dr[n].batch \in Seq(Microtask) /\ dr[n].last \in Nat
    BY <2>1 DEF DrainCall
  <2> QED
    BY <2>2, TaskFacts
<1>3. Ascending(a)
  <2> SUFFICES ASSUME NEW i \in DOMAIN a, NEW j \in DOMAIN a, i < j
               PROVE  a[i].age < a[j].age
    BY DEF Ascending
  <2>1. CASE i \notin DOMAIN mt
    BY <2>1
  <2>2. CASE i \in DOMAIN mt /\ j \in DOMAIN mt
    BY <2>2 DEF Ordered, Ascending
  <2>3. CASE i \in DOMAIN mt /\ j \notin DOMAIN mt
    <3>1. a[i].age <= q /\ a[j].age > q
      BY <2>3 DEF Ordered, UpTo
    <3> QED
      BY <1>1, <3>1
  <2> QED
    BY <2>1, <2>2, <2>3
<1>4. UpTo(a, r)
  <2> SUFFICES ASSUME NEW i \in DOMAIN a PROVE a[i].age <= r
    BY DEF UpTo
  <2>1. CASE i \in DOMAIN mt
    <3>1. a[i].age <= q
      BY <2>1 DEF Ordered, UpTo
    <3> QED
      BY <1>1, <3>1
  <2> QED
    BY <2>1
<1>5. ASSUME NEW n \in DOMAIN dr
      PROVE  /\ UpTo(dr[n].batch, r) /\ Older(dr[n].batch, a)
             /\ dr[n].last <= r /\ After(dr[n].last, a)
  <2>4. dr[n].last <= q /\ After(dr[n].last, mt)
    BY DEF Ordered
  <2>5. dr[n].last <= r
    BY <1>2, <2>4
  <2>6. After(dr[n].last, a)
    <3> SUFFICES ASSUME NEW j \in DOMAIN a PROVE dr[n].last < a[j].age
      BY DEF After
    <3>1. CASE j \in DOMAIN mt
      BY <2>4, <3>1 DEF After
    <3>2. CASE j \notin DOMAIN mt
      BY <1>1, <1>2, <2>4, <3>2
    <3> QED
      BY <3>1, <3>2
  <2>1. \A i \in DOMAIN dr[n].batch : dr[n].batch[i].age <= q /\ dr[n].batch[i].age \in Nat
    BY <1>2 DEF Ordered, UpTo
  <2>2. UpTo(dr[n].batch, r)
    BY <2>1 DEF UpTo
  <2>3. ASSUME NEW i \in DOMAIN dr[n].batch, NEW j \in DOMAIN a
        PROVE  dr[n].batch[i].age < a[j].age
    <3>1. CASE j \in DOMAIN mt
      BY <3>1 DEF Ordered, Older
    <3>2. CASE j \notin DOMAIN mt
      BY <1>1, <2>1, <3>2
    <3> QED
      BY <3>1, <3>2
  <2> QED
    BY <2>2, <2>3, <2>5, <2>6 DEF Older
<1>6. After(0, a)
  <2> SUFFICES ASSUME NEW j \in DOMAIN a PROVE 0 < a[j].age
    BY DEF After
  <2>1. CASE j \in DOMAIN mt
    BY <2>1 DEF Ordered, After
  <2>2. CASE j \notin DOMAIN mt
    BY <1>1, <2>2
  <2> QED
    BY <2>1, <2>2
<1> QED
  BY <1>3, <1>4, <1>5, <1>6 DEF Ordered

\* The queue becomes the batch of the innermost drain.
LEMMA OrderTaken ==
    ASSUME NEW mt, NEW dr, NEW q \in Nat, NEW e, NEW N \in DOMAIN e,
           Ordered(mt, dr, q), e[N].batch = mt,
           e[N].last = 0 \/ (N \in DOMAIN dr /\ e[N].last = dr[N].last),
           \A n \in DOMAIN e : n \in Nat /\ n <= N,
           \A n \in DOMAIN e : n # N =>
              n \in DOMAIN dr /\ e[n].batch = dr[n].batch /\ e[n].last = dr[n].last
    PROVE  Ordered(<<>>, e, q)
<1>1. /\ Ascending(<<>>) /\ UpTo(<<>>, q) /\ \A s : Older(s, <<>>)
      /\ \A x : After(x, <<>>)
  BY DEF Ascending, UpTo, Older, After
<1>2. ASSUME NEW n \in DOMAIN e
      PROVE  Ascending(e[n].batch) /\ UpTo(e[n].batch, q) /\ e[n].last <= q
  BY DEF Ordered
<1>3. ASSUME NEW m \in DOMAIN e, NEW n \in DOMAIN e, m < n
      PROVE  Older(e[m].batch, e[n].batch)
  <2>1. m # N /\ m \in DOMAIN dr /\ e[m].batch = dr[m].batch
    BY <1>3
  <2> QED
    BY <1>3, <2>1 DEF Ordered
<1>4. ASSUME NEW m \in DOMAIN e, NEW n \in DOMAIN e, m <= n
      PROVE  After(e[m].last, e[n].batch)
  <2>1. CASE n = N
    <3>1. e[m].last = 0 \/ (m \in DOMAIN dr /\ e[m].last = dr[m].last)
      OBVIOUS
    <3> QED
      BY <2>1, <3>1 DEF Ordered
  <2>2. CASE n # N
    <3>1. /\ m # N /\ m \in DOMAIN dr /\ n \in DOMAIN dr
          /\ e[m].last = dr[m].last /\ e[n].batch = dr[n].batch
      BY <1>4, <2>2
    <3> QED
      BY <1>4, <3>1 DEF Ordered
  <2> QED
    BY <2>1, <2>2
<1> QED
  BY <1>1, <1>2, <1>3, <1>4 DEF Ordered

\* Batches lose their first task, which their drain begins, or go.
LEMMA OrderKept ==
    ASSUME NEW mt, NEW dr \in Seq(DrainCall), NEW q, NEW e, Ordered(mt, dr, q),
           \A n \in DOMAIN e :
              /\ n \in DOMAIN dr
              /\ \/ e[n].batch = dr[n].batch /\ e[n].last = dr[n].last
                 \/ /\ dr[n].batch # <<>> /\ e[n].batch = Tail(dr[n].batch)
                    /\ e[n].last = Head(dr[n].batch).age
    PROVE  Ordered(mt, e, q)
<1>1. ASSUME NEW n \in DOMAIN e
      PROVE  /\ n \in DOMAIN dr /\ n \in Nat
             /\ \A i \in DOMAIN e[n].batch : \E k \in DOMAIN dr[n].batch :
                    e[n].batch[i] = dr[n].batch[k]
             /\ \A i, j \in DOMAIN e[n].batch : i < j =>
                   \E k, l \in DOMAIN dr[n].batch :
                       k < l /\ e[n].batch[i] = dr[n].batch[k] /\ e[n].batch[j] = dr[n].batch[l]
             /\ \/ e[n].last = dr[n].last
                \/ /\ 1 \in DOMAIN dr[n].batch /\ e[n].last = dr[n].batch[1].age
                   /\ \A i \in DOMAIN e[n].batch : \E k \in DOMAIN dr[n].batch :
                         1 < k /\ e[n].batch[i] = dr[n].batch[k]
  <2>1. n \in DOMAIN dr /\ n \in Nat
    OBVIOUS
  <2>2. CASE e[n].batch = dr[n].batch /\ e[n].last = dr[n].last
    BY <2>1, <2>2
  <2>3. CASE /\ dr[n].batch # <<>> /\ e[n].batch = Tail(dr[n].batch)
             /\ e[n].last = Head(dr[n].batch).age
    <3>1. dr[n] \in DrainCall
      BY <2>1
    <3>2. dr[n].batch \in Seq(Microtask)
      BY <3>1 DEF DrainCall
    <3>3. /\ \A i \in DOMAIN e[n].batch :
                i + 1 \in DOMAIN dr[n].batch /\ e[n].batch[i] = dr[n].batch[i + 1]
          /\ \A i, j \in DOMAIN e[n].batch : i < j => i + 1 < j + 1
          /\ Head(dr[n].batch) = dr[n].batch[1] /\ 1 \in DOMAIN dr[n].batch
      BY <2>3, <3>2, TailFacts
    <3>4. \A i \in DOMAIN e[n].batch : 1 < i + 1
      BY <2>3, <3>2
    <3>5. \A i \in DOMAIN e[n].batch : \E k \in DOMAIN dr[n].batch :
              1 < k /\ e[n].batch[i] = dr[n].batch[k]
      BY <3>3, <3>4
    <3> QED
      BY <2>1, <2>3, <3>3, <3>5
  <2> QED
    BY <2>2, <2>3
<1>2. ASSUME NEW n \in DOMAIN e
      PROVE  /\ Ascending(e[n].batch) /\ UpTo(e[n].batch, q) /\ Older(e[n].batch, mt)
             /\ e[n].last <= q /\ After(e[n].last, mt)
  <2>1. /\ Ascending(dr[n].batch) /\ UpTo(dr[n].batch, q) /\ Older(dr[n].batch, mt)
        /\ dr[n].last <= q /\ After(dr[n].last, mt)
    BY <1>1 DEF Ordered
  <2>2. Ascending(e[n].batch) /\ UpTo(e[n].batch, q) /\ Older(e[n].batch, mt)
    BY <1>1, <2>1 DEF Ascending, UpTo, Older
  <2>3. e[n].last <= q /\ After(e[n].last, mt)
    BY <1>1, <2>1 DEF UpTo, Older, After
  <2> QED
    BY <2>2, <2>3
<1>3. ASSUME NEW m \in DOMAIN e, NEW n \in DOMAIN e, m < n
      PROVE  Older(e[m].batch, e[n].batch)
  <2>1. Older(dr[m].batch, dr[n].batch)
    BY <1>1, <1>3 DEF Ordered
  <2> QED
    BY <1>1, <2>1 DEF Older
<1>4. ASSUME NEW m \in DOMAIN e, NEW n \in DOMAIN e, m <= n
      PROVE  After(e[m].last, e[n].batch)
  <2> SUFFICES ASSUME NEW i \in DOMAIN e[n].batch PROVE e[m].last < e[n].batch[i].age
    BY DEF After
  <2>1. m \in DOMAIN dr /\ n \in DOMAIN dr /\ m \in Nat /\ n \in Nat
    BY <1>1
  <2>2. CASE e[m].last = dr[m].last
    <3>1. After(dr[m].last, dr[n].batch)
      BY <1>4, <2>1 DEF Ordered
    <3> QED
      BY <1>1, <2>2, <3>1 DEF After
  <2>3. CASE m = n /\ e[m].last # dr[m].last
    <3>1. PICK k \in DOMAIN dr[n].batch : 1 < k /\ e[n].batch[i] = dr[n].batch[k]
      BY <1>1, <2>3
    <3>2. 1 \in DOMAIN dr[n].batch /\ e[m].last = dr[n].batch[1].age
      BY <1>1, <2>3
    <3>3. Ascending(dr[n].batch)
      BY <2>1 DEF Ordered
    <3> QED
      BY <3>1, <3>2, <3>3 DEF Ascending
  <2>4. CASE m < n /\ e[m].last # dr[m].last
    <3>1. 1 \in DOMAIN dr[m].batch /\ e[m].last = dr[m].batch[1].age
      BY <1>1, <2>4
    <3>2. Older(dr[m].batch, dr[n].batch)
      BY <2>1, <2>4 DEF Ordered
    <3> QED
      BY <1>1, <3>1, <3>2 DEF Older
  <2> QED
    BY <1>4, <2>1, <2>2, <2>3, <2>4
<1>5. Ascending(mt) /\ UpTo(mt, q) /\ After(0, mt)
  BY DEF Ordered
<1> QED
  BY <1>2, <1>3, <1>4, <1>5 DEF Ordered

----------------------------------------------------------------------------
(* What a settled promise, a new reaction and a new microtask change, for   *)
(* any stack of drains.                                                     *)

StoreOK ==
    /\ value' \in [Promise -> Values \cup {NoValue}]
    /\ rejected' \in [Promise -> BOOLEAN]
    /\ thenQueue' \in [Promise -> Seq(Reaction)]
    /\ microtasks' \in Seq(Microtask)
    /\ queued' \in Nat

LEMMA SettleFacts ==
    ASSUME TypeOK, NEW p \in Promise, NEW v \in Values, NEW r \in BOOLEAN,
           Settle(p, v, r), NEW dr \in Seq(DrainCall)
    PROVE  /\ StoreOK
           /\ value'[p] = v /\ thenQueue'[p] = <<>>
           /\ \A d \in Promise : d # p => value'[d] = value[d] /\ thenQueue'[d] = thenQueue[d]
           /\ \A d : /\ Held(Place(thenQueue', microtasks', dr), d)
                            <=> Held(Place(thenQueue, microtasks, dr), d)
                     /\ HeldOnce(Place(thenQueue, microtasks, dr), d)
                            => HeldOnce(Place(thenQueue', microtasks', dr), d)
           /\ Ordered(microtasks, dr, queued) => Ordered(microtasks', dr, queued')
<1> DEFINE w == thenQueue[p]
           C == Place(thenQueue, microtasks, dr)
           D == Place(thenQueue', microtasks', dr)
<1>1. /\ w \in Seq(Reaction) /\ microtasks \in Seq(Microtask) /\ queued \in Nat
      /\ thenQueue \in [Promise -> Seq(Reaction)]
      /\ value \in [Promise -> Values \cup {NoValue}] /\ rejected \in [Promise -> BOOLEAN]
  BY DEF TypeOK
<1>2. /\ value' = [value EXCEPT ![p] = v] /\ rejected' = [rejected EXCEPT ![p] = r]
      /\ thenQueue' = [thenQueue EXCEPT ![p] = <<>>]
      /\ microtasks' = microtasks \o Tasks(w, v, r, queued)
      /\ queued' = queued + Len(w)
  BY DEF Settle, Tasks
<1>3. /\ microtasks' \in Seq(Microtask)
      /\ Caps(microtasks') = Caps(microtasks) \cup Caps(w)
      /\ \A d : Once(microtasks, d) /\ Once(w, d) /\ ~(d \in Caps(microtasks) /\ d \in Caps(w))
                   => Once(microtasks', d)
      /\ Behind(microtasks', microtasks, queued, queued + Len(w))
  <2> DEFINE a == microtasks \o Tasks(w, v, r, queued)
  <2> HIDE DEF w
  <2>1. w \in Seq(Reaction) /\ microtasks \in Seq(Microtask) /\ queued \in Nat
    BY <1>1
  <2>3. a \in Seq(Microtask)
    BY <2>1, SettledFacts
  <2>4. Caps(a) = Caps(microtasks) \cup Caps(w)
    BY <2>1, SettledFacts
  <2>5. \A d : Once(microtasks, d) /\ Once(w, d) /\ ~(d \in Caps(microtasks) /\ d \in Caps(w))
               => Once(a, d)
    BY <2>1, SettledFacts
  <2>6. Behind(a, microtasks, queued, queued + Len(w))
    BY <2>1, SettledFacts
  <2>2. microtasks' = a
    BY <1>2
  <2> HIDE DEF a
  <2> QED
    BY <2>2, <2>3, <2>4, <2>5, <2>6
<1>4. Len(w) \in Nat /\ queued + Len(w) \in Nat /\ queued <= queued + Len(w)
  BY <1>1
<1>5. StoreOK
  <2>1. thenQueue' \in [Promise -> Seq(Reaction)]
    BY <1>1, <1>2
  <2>2. value' \in [Promise -> Values \cup {NoValue}] /\ rejected' \in [Promise -> BOOLEAN]
    BY <1>1, <1>2
  <2> QED
    BY <1>2, <1>3, <1>4, <2>1, <2>2 DEF StoreOK
<1>6. /\ value'[p] = v /\ thenQueue'[p] = <<>>
      /\ \A d \in Promise : d # p => value'[d] = value[d] /\ thenQueue'[d] = thenQueue[d]
  BY <1>1, <1>2
<1>7. \A d : /\ Held(D, d) <=> Held(C, d)
             /\ HeldOnce(C, d) => HeldOnce(D, d)
  <2>1. /\ W(p) \in Site /\ Q \in Site /\ W(p) # Q
        /\ C[W(p)] = w /\ D[W(p)] = <<>> /\ C[Q] = microtasks /\ D[Q] = microtasks'
    BY <1>6, SiteFacts, PlaceFacts
  <2>2. Caps(<<>>) = {} /\ \A d : Once(<<>>, d)
    BY DEF Caps, Once
  <2>3. ASSUME NEW s \in Site, s # W(p), s # Q PROVE D[s] = C[s]
    <3>1. CASE \E y \in Promise : s = W(y)
      <4>1. PICK y \in Promise : s = W(y)
        BY <3>1
      <4>2. y # p
        BY <2>3, <4>1
      <4> QED
        BY <1>6, <4>1, <4>2, PlaceFacts
    <3>2. CASE \E n \in Nat : s = B(n) \/ s = R(n)
      <4> HIDE DEF C, D
      <4> QED
        BY <3>2, PlaceFacts DEF C, D
    <3> QED
      BY <2>3, <3>1, <3>2, SiteFacts
  <2>4. ASSUME NEW d, HeldOnce(C, d)
        PROVE  Once(microtasks', d) /\ ~(d \in Caps(D[W(p)]) /\ d \in Caps(D[Q]))
    <3>1. Once(microtasks, d) /\ Once(w, d) /\ ~(d \in Caps(microtasks) /\ d \in Caps(w))
      BY <2>1, <2>4 DEF HeldOnce
    <3> QED
      BY <1>3, <2>1, <2>2, <3>1
  <2>5. Caps(D[W(p)]) \cup Caps(D[Q]) = Caps(C[W(p)]) \cup Caps(C[Q])
    BY <1>3, <2>1, <2>2
  <2>6. \A d : HeldOnce(C, d) =>
            /\ Once(D[W(p)], d) /\ Once(D[Q], d)
            /\ ~(d \in Caps(D[W(p)]) /\ d \in Caps(D[Q]))
    BY <2>1, <2>2, <2>4
  <2> HIDE DEF C, D, w
  <2>7. Moves(C, D, W(p), Q)
    BY <2>3, <2>5, <2>6 DEF Moves
  <2> QED
    <3>1. W(p) \in Site /\ Q \in Site /\ W(p) # Q
      BY <2>1
    <3> QED
      BY <2>7, <3>1, Moved
<1>8. Ordered(microtasks, dr, queued) => Ordered(microtasks', dr, queued')
  <2>1. queued' \in Nat /\ queued <= queued' /\ microtasks' \in Seq(Microtask)
    BY <1>2, <1>3, <1>4
  <2>2. Behind(microtasks', microtasks, queued, queued')
    BY <1>2, <1>3
  <2> HIDE DEF w
  <2> QED
    BY <1>1, <1>3, <2>1, <2>2, OrderBehind
<1> QED
  BY <1>5, <1>6, <1>7, <1>8

LEMMA EnlistFacts ==
    ASSUME TypeOK, NEW p \in Promise, NEW react \in Reaction, Enlist(p, react),
           NEW dr \in Seq(DrainCall)
    PROVE  LET C == Place(thenQueue, microtasks, dr)
               D == Place(thenQueue', microtasks', dr)
           IN /\ StoreOK
              /\ value' = value
              /\ \A d \in Promise : d # p => thenQueue'[d] = thenQueue[d]
              /\ AllLate(thenQueue[p]) /\ react.late => AllLate(thenQueue'[p])
              /\ Held(D, react.cap)
              /\ \A d : d # react.cap => (Held(D, d) <=> Held(C, d))
              /\ \A d : d # react.cap /\ HeldOnce(C, d) => HeldOnce(D, d)
              /\ ~Held(C, react.cap) => HeldOnce(D, react.cap)
              /\ Ordered(microtasks, dr, queued) => Ordered(microtasks', dr, queued')
<1> DEFINE C == Place(thenQueue, microtasks, dr)
           D == Place(thenQueue', microtasks', dr)
           w == thenQueue[p]
<1>1. /\ w \in Seq(Reaction) /\ thenQueue \in [Promise -> Seq(Reaction)]
      /\ StoreOK <=> thenQueue' \in [Promise -> Seq(Reaction)]
  BY DEF TypeOK, Enlist, StoreOK, promiseVars
<1>2. /\ thenQueue' = [thenQueue EXCEPT ![p] = Append(w, react)]
      /\ value' = value /\ microtasks' = microtasks /\ queued' = queued
  BY DEF Enlist, promiseVars
<1>3. /\ Append(w, react) \in Seq(Reaction)
      /\ Caps(Append(w, react)) = Caps(w) \cup {react.cap}
      /\ \A d : Once(w, d) /\ (react.cap = d => d \notin Caps(w)) => Once(Append(w, react), d)
      /\ AllLate(w) /\ react.late => AllLate(Append(w, react))
  <2> HIDE DEF w
  <2> QED
    BY <1>1, AppendFacts DEF AllLate
<1>4. StoreOK
  BY <1>1, <1>2, <1>3
<1>5. /\ thenQueue'[p] = Append(w, react)
      /\ \A d \in Promise : d # p => thenQueue'[d] = thenQueue[d]
  BY <1>1, <1>2
<1>6. W(p) \in Site /\ C[W(p)] = w /\ D[W(p)] = Append(w, react)
  BY <1>5, SiteFacts, PlaceFacts
<1>7. ASSUME NEW s \in Site, s # W(p) PROVE D[s] = C[s]
  <2>1. CASE \E y \in Promise : s = W(y)
    <3>1. PICK y \in Promise : s = W(y)
      BY <2>1
    <3>2. y # p
      BY <1>7, <3>1
    <3> QED
      BY <1>5, <3>1, <3>2, PlaceFacts
  <2>2. CASE s = Q \/ \E n \in Nat : s = B(n) \/ s = R(n)
    <3> HIDE DEF C, D
    <3> QED
      BY <1>2, <2>2, PlaceFacts DEF C, D
  <2> QED
    BY <2>1, <2>2, SiteFacts
<1> HIDE DEF C, D, w
<1>8. /\ Held(D, react.cap)
      /\ \A d : d # react.cap => (Held(D, d) <=> Held(C, d))
      /\ \A d : d # react.cap /\ HeldOnce(C, d) => HeldOnce(D, d)
      /\ ~Held(C, react.cap) => HeldOnce(D, react.cap)
  <2>1. /\ Caps(D[W(p)]) = Caps(C[W(p)]) \cup {react.cap}
        /\ \A d : Once(C[W(p)], d) /\ (react.cap = d => d \notin Caps(C[W(p)]))
                     => Once(D[W(p)], d)
    BY <1>3, <1>6
  <2> QED
    <3>1. Adds(C, D, W(p), react.cap)
      BY <1>7, <2>1 DEF Adds
    <3> QED
      BY <1>6, <3>1, Added
<1> QED
  BY <1>2, <1>3, <1>4, <1>5, <1>8 DEF C, D, w

LEMMA EnqueueFacts ==
    ASSUME TypeOK, NEW task \in Microtask, task.age = queued + 1, Enqueue(task),
           NEW dr \in Seq(DrainCall)
    PROVE  LET C == Place(thenQueue, microtasks, dr)
               D == Place(thenQueue', microtasks', dr)
           IN /\ StoreOK
              /\ value' = value /\ thenQueue' = thenQueue
              /\ Held(D, task.cap)
              /\ \A d : d # task.cap => (Held(D, d) <=> Held(C, d))
              /\ \A d : d # task.cap /\ HeldOnce(C, d) => HeldOnce(D, d)
              /\ ~Held(C, task.cap) => HeldOnce(D, task.cap)
              /\ Ordered(microtasks, dr, queued) => Ordered(microtasks', dr, queued')
<1> DEFINE C == Place(thenQueue, microtasks, dr)
           D == Place(thenQueue', microtasks', dr)
<1>1. /\ microtasks \in Seq(Microtask) /\ queued \in Nat
      /\ StoreOK <=> microtasks' \in Seq(Microtask) /\ queued' \in Nat
  BY DEF TypeOK, Enqueue, StoreOK, promiseVars
<1>2. /\ microtasks' = Append(microtasks, task) /\ queued' = queued + 1
      /\ value' = value /\ thenQueue' = thenQueue
  BY DEF Enqueue, promiseVars
<1>3. /\ microtasks' \in Seq(Microtask)
      /\ Caps(microtasks') = Caps(microtasks) \cup {task.cap}
      /\ \A d : Once(microtasks, d) /\ (task.cap = d => d \notin Caps(microtasks))
                   => Once(microtasks', d)
      /\ DOMAIN microtasks' = DOMAIN microtasks \cup {Len(microtasks) + 1}
      /\ microtasks'[Len(microtasks) + 1] = task
      /\ \A i \in DOMAIN microtasks : microtasks'[i] = microtasks[i] /\ i < Len(microtasks) + 1
  BY <1>1, <1>2, AppendFacts
<1>4. StoreOK
  BY <1>1, <1>2, <1>3
<1>5. Q \in Site /\ C[Q] = microtasks /\ D[Q] = microtasks'
  BY SiteFacts, PlaceFacts
<1>6. ASSUME NEW s \in Site, s # Q PROVE D[s] = C[s]
  <2> HIDE DEF C, D
  <2>1. \/ \E p \in Promise : s = W(p)
        \/ \E n \in Nat : s = B(n) \/ s = R(n)
    BY <1>6, SiteFacts
  <2> QED
    BY <1>2, <2>1, PlaceFacts DEF C, D
<1>7. Ordered(microtasks, dr, queued) => Ordered(microtasks', dr, queued')
  <2>1. \A i \in DOMAIN microtasks' :
            \/ i \in DOMAIN microtasks /\ microtasks'[i] = microtasks[i]
            \/ i \notin DOMAIN microtasks /\ microtasks'[i].age > queued
                 /\ microtasks'[i].age <= queued'
    BY <1>1, <1>2, <1>3
  <2>2. \A i, j \in DOMAIN microtasks' : i < j =>
            (i \notin DOMAIN microtasks =>
                j \notin DOMAIN microtasks /\ microtasks'[i].age < microtasks'[j].age)
    BY <1>1, <1>3
  <2>3. Behind(microtasks', microtasks, queued, queued')
    BY <2>1, <2>2 DEF Behind
  <2>4. queued' \in Nat /\ queued <= queued'
    BY <1>1, <1>2
  <2> QED
    BY <1>1, <1>3, <2>3, <2>4, OrderBehind
<1> HIDE DEF C, D
<1>8. /\ Held(D, task.cap)
      /\ \A d : d # task.cap => (Held(D, d) <=> Held(C, d))
      /\ \A d : d # task.cap /\ HeldOnce(C, d) => HeldOnce(D, d)
      /\ ~Held(C, task.cap) => HeldOnce(D, task.cap)
  <2>1. /\ Caps(D[Q]) = Caps(C[Q]) \cup {task.cap}
        /\ \A d : Once(C[Q], d) /\ (task.cap = d => d \notin Caps(C[Q])) => Once(D[Q], d)
    BY <1>3, <1>5
  <2> QED
    <3>1. Adds(C, D, Q, task.cap)
      BY <1>6, <2>1 DEF Adds
    <3> QED
      BY <1>5, <3>1, Added
<1> QED
  BY <1>2, <1>4, <1>7, <1>8 DEF C, D

----------------------------------------------------------------------------
(* The resolve functions of p are used, or handed on: p is settled, or a    *)
(* reaction or a microtask has them.                                        *)

Uses(p) ==
    \/ \E v \in Values, r \in BOOLEAN : Settle(p, v, r)
    \/ \E y \in Promise, react \in Reaction :
          /\ react.cap = p
          /\ y <= promises /\ inside # <<"executor", y>>
          /\ Pending(y) \/ react.late
          /\ Enlist(y, react)
    \/ \E task \in Microtask : task.cap = p /\ task.age = queued + 1 /\ Enqueue(task)

LEMMA InsideFacts ==
    ASSUME TypeOK
    PROVE  /\ inside = <<inside[1], inside[2]>>
           /\ inside[1] \in {"nothing", "executor", "getter", "then"}
           /\ inside[2] \in 0 .. MaxPromises
  BY DEF TypeOK

LEMMA Used ==
    ASSUME TypeOK, InsideInv, NEW p \in Promise, NEW dr \in Seq(DrainCall), NEW X \in SUBSET Promise,
           NEW n \in Nat, p <= n, promises <= n,
           Uses(p) \/ (p \notin X /\ UNCHANGED store),
           p \in X => value[p] = NoValue /\ ~Held(Place(thenQueue, microtasks, dr), p),
           Accounts(X \ {p}, Place(thenQueue, microtasks, dr), value),
           StoreInv(thenQueue, microtasks, dr, value, queued, n, inside)
    PROVE  /\ StoreOK
           /\ Accounts(X, Place(thenQueue', microtasks', dr), value')
           /\ StoreInv(thenQueue', microtasks', dr, value', queued', n, inside)
<1> DEFINE C == Place(thenQueue, microtasks, dr)
           D == Place(thenQueue', microtasks', dr)
<1>1. /\ \A d \in X : d # p => HeldOnce(C, d) /\ (value[d] = NoValue <=> Held(C, d))
      /\ \A d \in Promise : Held(C, d) => d <= n
      /\ \A y \in Promise : y > n => value[y] = NoValue /\ thenQueue[y] = <<>>
      /\ \A y \in Promise : value[y] # NoValue => AllLate(thenQueue[y])
      /\ inside[1] = "executor" => thenQueue[inside[2]] = <<>> /\ inside[2] \in Promise
      /\ Ordered(microtasks, dr, queued)
  BY DEF Accounts, StoreInv, InsideInv, TypeOK, Promise
<1>2. /\ ~(p > n)
      /\ value \in [Promise -> Values \cup {NoValue}]
  BY DEF TypeOK, Promise
<1>3. CASE \E v \in Values, r \in BOOLEAN : Settle(p, v, r)
  <2>1. PICK v \in Values, r \in BOOLEAN : Settle(p, v, r)
    BY <1>3
  <2>2. /\ StoreOK
        /\ value'[p] = v /\ thenQueue'[p] = <<>>
        /\ \A d \in Promise : d # p => value'[d] = value[d] /\ thenQueue'[d] = thenQueue[d]
        /\ \A d : (Held(D, d) <=> Held(C, d)) /\ (HeldOnce(C, d) => HeldOnce(D, d))
        /\ Ordered(microtasks', dr, queued')
    BY <1>1, <2>1, SettleFacts
  <2> HIDE DEF C, D
  <2>3. v # NoValue
    BY ValuesAssumption
  <2>4. p \in X => HeldOnce(C, p)
    <3>1. \A s \in Site : ~Held(C, p) => p \notin Caps(C[s])
      BY DEF Held
    <3> QED
      BY <3>1 DEF HeldOnce, Once, Caps, C
  <2>5. Accounts(X, D, value')
    <3> SUFFICES ASSUME NEW d \in X
                 PROVE  HeldOnce(D, d) /\ (value'[d] = NoValue <=> Held(D, d))
      BY DEF Accounts
    <3>1. CASE d = p
      BY <2>2, <2>3, <2>4, <3>1 DEF C
    <3>2. CASE d # p
      BY <1>1, <2>2, <3>2
    <3> QED
      BY <3>1, <3>2
  <2>6. StoreInv(thenQueue', microtasks', dr, value', queued', n, inside)
    <3>1. AllLate(<<>>)
      BY DEF AllLate
    <3> QED
      BY <1>1, <1>2, <2>2, <3>1 DEF StoreInv, D
  <2> QED
    BY <2>2, <2>5, <2>6 DEF D
<1>4. ASSUME /\ StoreOK /\ value' = value
             /\ Held(D, p)
             /\ \A d : d # p => (Held(D, d) <=> Held(C, d))
             /\ \A d : d # p /\ HeldOnce(C, d) => HeldOnce(D, d)
             /\ ~Held(C, p) => HeldOnce(D, p)
             /\ Ordered(microtasks', dr, queued'),
             NEW z, \A y \in Promise : y # z => thenQueue'[y] = thenQueue[y],
             z \in Promise =>
                /\ z <= n /\ inside # <<"executor", z>>
                /\ value[z] = NoValue \/ AllLate(thenQueue'[z])
      PROVE  /\ Accounts(X, D, value')
             /\ StoreInv(thenQueue', microtasks', dr, value', queued', n, inside)
  <2> HIDE DEF C, D
  <2>1. Accounts(X, D, value')
    <3> SUFFICES ASSUME NEW d \in X
                 PROVE  HeldOnce(D, d) /\ (value'[d] = NoValue <=> Held(D, d))
      BY DEF Accounts
    <3>1. CASE d = p
      BY <1>4, <3>1 DEF C
    <3>2. CASE d # p
      BY <1>1, <1>4, <3>2
    <3> QED
      BY <3>1, <3>2
  <2>2. \A y \in Promise : y > n => value'[y] = NoValue /\ thenQueue'[y] = <<>>
    <3> SUFFICES ASSUME NEW y \in Promise, y > n
                 PROVE  value'[y] = NoValue /\ thenQueue'[y] = <<>>
      OBVIOUS
    <3>1. y # z
      BY <1>4 DEF Promise
    <3> QED
      BY <1>1, <1>4, <3>1
  <2>3. \A y \in Promise : value'[y] # NoValue => AllLate(thenQueue'[y])
    BY <1>1, <1>4
  <2>4. inside[1] = "executor" => thenQueue'[inside[2]] = <<>>
    BY <1>1, <1>4, InsideFacts
  <2>5. \A d \in Promise : Held(D, d) => d <= n
    BY <1>1, <1>4
  <2> QED
    BY <1>4, <2>1, <2>2, <2>3, <2>4, <2>5 DEF StoreInv, D
<1>5. CASE \E y \in Promise, react \in Reaction :
              /\ react.cap = p /\ y <= promises /\ inside # <<"executor", y>>
              /\ Pending(y) \/ react.late
              /\ Enlist(y, react)
  <2>1. PICK y \in Promise, react \in Reaction :
            /\ react.cap = p /\ y <= promises /\ inside # <<"executor", y>>
            /\ Pending(y) \/ react.late
            /\ Enlist(y, react)
    BY <1>5
  <2>2. /\ StoreOK /\ value' = value
        /\ Held(D, p)
        /\ \A d : d # p => (Held(D, d) <=> Held(C, d))
        /\ \A d : d # p /\ HeldOnce(C, d) => HeldOnce(D, d)
        /\ ~Held(C, p) => HeldOnce(D, p)
        /\ Ordered(microtasks', dr, queued')
        /\ \A d \in Promise : d # y => thenQueue'[d] = thenQueue[d]
        /\ AllLate(thenQueue[y]) /\ react.late => AllLate(thenQueue'[y])
    BY <1>1, <2>1, EnlistFacts
  <2>3. y <= n /\ (value[y] = NoValue \/ AllLate(thenQueue'[y]))
    BY <1>1, <2>1, <2>2 DEF Pending, TypeOK, Promise
  <2> HIDE DEF C, D
  <2>4. /\ Accounts(X, D, value')
        /\ StoreInv(thenQueue', microtasks', dr, value', queued', n, inside)
    BY <1>4, <2>1, <2>2, <2>3
  <2> QED
    BY <2>2, <2>4 DEF D
<1>6. CASE \E task \in Microtask : task.cap = p /\ task.age = queued + 1 /\ Enqueue(task)
  <2>1. PICK task \in Microtask : task.cap = p /\ task.age = queued + 1 /\ Enqueue(task)
    BY <1>6
  <2>2. /\ StoreOK /\ value' = value /\ thenQueue' = thenQueue
        /\ Held(D, p)
        /\ \A d : d # p => (Held(D, d) <=> Held(C, d))
        /\ \A d : d # p /\ HeldOnce(C, d) => HeldOnce(D, d)
        /\ ~Held(C, p) => HeldOnce(D, p)
        /\ Ordered(microtasks', dr, queued')
    BY <1>1, <2>1, EnqueueFacts
  <2>3. 0 \notin Promise
    BY DEF Promise
  <2> HIDE DEF C, D
  <2>4. /\ Accounts(X, D, value')
        /\ StoreInv(thenQueue', microtasks', dr, value', queued', n, inside)
    BY <1>4, <2>2, <2>3
  <2> QED
    BY <2>2, <2>4 DEF D
<1>7. CASE p \notin X /\ UNCHANGED store
  <2>1. /\ value' = value /\ rejected' = rejected /\ thenQueue' = thenQueue
        /\ microtasks' = microtasks /\ queued' = queued
    BY <1>7 DEF store, promiseVars
  <2>2. StoreOK
    BY <2>1 DEF StoreOK, TypeOK
  <2>3. Accounts(X, Place(thenQueue, microtasks, dr), value)
    BY <1>1, <1>7 DEF Accounts
  <2> QED
    BY <2>1, <2>2, <2>3
<1> QED
  BY <1>3, <1>5, <1>6, <1>7 DEF Uses

----------------------------------------------------------------------------
(* The drains.                                                              *)

StackOK(dr) == dr \in Seq(DrainCall) /\ \A n \in DOMAIN dr : Len(dr[n].task) <= 1

LEMMA TopFacts ==
    ASSUME TypeOK, drains # <<>>
    PROVE  LET N == Len(drains) IN
           /\ N \in Nat /\ N \in DOMAIN drains /\ Top = drains[N] /\ Top \in DrainCall
           /\ \A n \in DOMAIN drains : n \in Nat /\ n <= N
           /\ \A f \in DrainCall : Len(f.task) <= 1 =>
                 /\ StackOK(SetTop(f)) /\ DOMAIN SetTop(f) = DOMAIN drains
                 /\ SetTop(f)[N] = f
                 /\ \A n \in DOMAIN drains : n # N => SetTop(f)[n] = drains[n]
<1> DEFINE N == Len(drains)
<1>1. drains \in Seq(DrainCall) /\ \A n \in DOMAIN drains : Len(drains[n].task) <= 1
  BY DEF TypeOK
<1>2. N \in Nat /\ N \in DOMAIN drains /\ DOMAIN drains = 1 .. N
  BY <1>1
<1>3. Top = drains[N] /\ Top \in DrainCall
  BY <1>1, <1>2 DEF Top
<1>4. \A n \in DOMAIN drains : n \in Nat /\ n <= N
  BY <1>2
<1>5. ASSUME NEW f \in DrainCall, Len(f.task) <= 1
      PROVE  /\ StackOK(SetTop(f)) /\ DOMAIN SetTop(f) = DOMAIN drains
             /\ SetTop(f)[N] = f
             /\ \A n \in DOMAIN drains : n # N => SetTop(f)[n] = drains[n]
  <2>1. /\ SetTop(f) \in Seq(DrainCall) /\ DOMAIN SetTop(f) = DOMAIN drains
        /\ SetTop(f)[N] = f
        /\ \A n \in DOMAIN drains : n # N => SetTop(f)[n] = drains[n]
    BY <1>1, <1>2 DEF SetTop
  <2> QED
    BY <1>1, <1>5, <2>1 DEF StackOK
<1> QED
  BY <1>2, <1>3, <1>4, <1>5

\* Only the places of the innermost drain change.
LEMMA TopPlaces ==
    ASSUME TypeOK, drains # <<>>, NEW f \in DrainCall, Len(f.task) <= 1, NEW tq, NEW mt
    PROVE  LET N == Len(drains)
               C == Place(tq, mt, drains)
               D == Place(tq, mt, SetTop(f))
           IN /\ B(N) \in Site /\ R(N) \in Site /\ B(N) # R(N)
              /\ C[B(N)] = Top.batch /\ C[R(N)] = Top.task
              /\ D[B(N)] = f.batch /\ D[R(N)] = f.task
              /\ \A s \in Site : s # B(N) /\ s # R(N) => D[s] = C[s]
<1> DEFINE N == Len(drains)
           C == Place(tq, mt, drains)
           e == SetTop(f)
           D == Place(tq, mt, e)
<1>1. /\ N \in Nat /\ N \in DOMAIN drains /\ Top = drains[N]
      /\ DOMAIN e = DOMAIN drains /\ e[N] = f
      /\ \A n \in DOMAIN drains : n # N => e[n] = drains[n]
  BY TopFacts
<1> HIDE DEF e, N
<1>2. B(N) \in Site /\ R(N) \in Site /\ B(N) # R(N)
  BY <1>1, SiteFacts
<1>3. C[B(N)] = Top.batch /\ C[R(N)] = Top.task /\ D[B(N)] = f.batch /\ D[R(N)] = f.task
  BY <1>1, PlaceFacts
<1>4. ASSUME NEW s \in Site, s # B(N), s # R(N) PROVE D[s] = C[s]
  <2>1. CASE (\E p \in Promise : s = W(p)) \/ s = Q
    BY <2>1, PlaceFacts
  <2>2. CASE \E n \in Nat : s = B(n) \/ s = R(n)
    <3>1. PICK n \in Nat : s = B(n) \/ s = R(n)
      BY <2>2
    <3>2. n # N
      BY <1>4, <3>1
    <3>3. /\ n \in DOMAIN e <=> n \in DOMAIN drains
          /\ n \in DOMAIN drains => e[n] = drains[n]
      BY <1>1, <3>2
    <3> QED
      BY <3>1, <3>3, PlaceFacts
  <2> QED
    BY <2>1, <2>2, SiteFacts
<1> QED
  BY <1>2, <1>3, <1>4 DEF e, N

LEMMA DrainFacts ==
    ASSUME NEW f \in DrainCall, NEW b \in Seq(Microtask), NEW u \in Seq(Microtask)
    PROVE  /\ [f EXCEPT !.batch = b, !.task = u] \in DrainCall
           /\ [f EXCEPT !.task = u] \in DrainCall
           /\ \A l \in Nat : [f EXCEPT !.batch = b, !.task = u, !.last = l] \in DrainCall
  BY DEF DrainCall

LEMMA EmptyFacts == Caps(<<>>) = {} /\ \A d : Once(<<>>, d)
  BY DEF Caps, Once

\* A callback begins: its task leaves the batch.
LEMMA CallbackFacts ==
    ASSUME TypeOK, BetweenTasks, Top.batch # <<>>, NEW mt, NEW tq
    PROVE  LET t == Head(Top.batch)
               dr == SetTop([Top EXCEPT !.batch = Tail(@), !.task = <<t>>, !.last = t.age])
           IN /\ t \in Microtask /\ StackOK(dr) /\ DOMAIN dr = DOMAIN drains
              /\ dr[Len(drains)].task = <<t>>
              /\ \A n \in DOMAIN drains : n # Len(drains) => dr[n] = drains[n]
              /\ \A d : /\ Held(Place(tq, mt, dr), d) <=> Held(Place(tq, mt, drains), d)
                        /\ HeldOnce(Place(tq, mt, drains), d) => HeldOnce(Place(tq, mt, dr), d)
              /\ \A q \in Nat : Ordered(mt, drains, q) => Ordered(mt, dr, q)
<1> DEFINE N == Len(drains)
           t == Head(Top.batch)
           f == [Top EXCEPT !.batch = Tail(@), !.task = <<t>>, !.last = t.age]
           dr == SetTop(f)
           C == Place(tq, mt, drains)
           D == Place(tq, mt, dr)
<1>1. drains # <<>> /\ Top.task = <<>>
  BY DEF BetweenTasks
<1>2. /\ Top \in DrainCall /\ Top = drains[N] /\ N \in DOMAIN drains /\ drains \in Seq(DrainCall)
  BY <1>1, TopFacts DEF TypeOK
<1>3. Top.batch \in Seq(Microtask)
  BY <1>2 DEF DrainCall
<1>4. /\ t \in Microtask /\ Tail(Top.batch) \in Seq(Microtask)
      /\ Caps(Top.batch) = {t.cap} \cup Caps(Tail(Top.batch))
      /\ \A d : Once(Top.batch, d) =>
            Once(Tail(Top.batch), d) /\ (t.cap = d => d \notin Caps(Tail(Top.batch)))
  BY <1>3, TailFacts
<1>5. /\ f \in DrainCall /\ f.batch = Tail(Top.batch) /\ f.task = <<t>> /\ Len(f.task) <= 1
      /\ f.last = t.age
  <2> HIDE DEF t
  <2>0. t.age \in Nat
    BY <1>4 DEF Microtask
  <2>1. <<t>> \in Seq(Microtask) /\ Len(<<t>>) <= 1 /\ t.age \in Nat
    BY <1>4, <2>0
  <2> DEFINE b == Tail(Top.batch)
             u == <<t>>
  <2>2. f = [Top EXCEPT !.batch = b, !.task = u, !.last = t.age]
    BY <1>2 DEF DrainCall
  <2> HIDE DEF b, u
  <2>3. [Top EXCEPT !.batch = b, !.task = u, !.last = t.age] \in DrainCall
    BY <1>2, <1>4, <2>1, DrainFacts DEF b, u
  <2>4. f.batch = b /\ f.task = u /\ f.last = t.age
    BY <1>2, <2>2 DEF DrainCall
  <2> QED
    BY <2>1, <2>2, <2>3, <2>4 DEF b, u
<1> HIDE DEF f
<1>6. /\ StackOK(dr) /\ DOMAIN dr = DOMAIN drains /\ dr[N] = f
      /\ \A n \in DOMAIN drains : n # N => dr[n] = drains[n]
  BY <1>1, <1>5, TopFacts
<1>7. /\ B(N) \in Site /\ R(N) \in Site /\ B(N) # R(N)
      /\ C[B(N)] = Top.batch /\ C[R(N)] = <<>>
      /\ D[B(N)] = Tail(Top.batch) /\ D[R(N)] = <<t>>
      /\ \A s \in Site : s # B(N) /\ s # R(N) => D[s] = C[s]
  <2>1. /\ B(N) \in Site /\ R(N) \in Site /\ B(N) # R(N)
        /\ C[B(N)] = Top.batch /\ C[R(N)] = Top.task
        /\ D[B(N)] = f.batch /\ D[R(N)] = f.task
        /\ \A s \in Site : s # B(N) /\ s # R(N) => D[s] = C[s]
    BY ZenonT(30), <1>1, <1>5, TopPlaces
  <2> HIDE DEF N, t, C, D, dr
  <2> QED
    BY <1>1, <1>5, <2>1
<1>8. Caps(<<t>>) = {t.cap} /\ \A d : Once(<<t>>, d)
  BY DEF Caps, Once
<1> HIDE DEF N, t, C, D, dr
<1>9. Moves(C, D, B(N), R(N))
  <2>1. Caps(D[B(N)]) \cup Caps(D[R(N)]) = Caps(C[B(N)]) \cup Caps(C[R(N)])
    BY <1>4, <1>7, <1>8, EmptyFacts
  <2>2. ASSUME NEW d, HeldOnce(C, d)
        PROVE  /\ Once(D[B(N)], d) /\ Once(D[R(N)], d)
               /\ ~(d \in Caps(D[B(N)]) /\ d \in Caps(D[R(N)]))
    <3>1. Once(Top.batch, d)
      BY <1>7, <2>2 DEF HeldOnce
    <3> QED
      BY <1>4, <1>7, <1>8, <3>1
  <2> QED
    BY <1>7, <2>1, <2>2 DEF Moves
<1>10. \A d : /\ Held(D, d) <=> Held(C, d)
              /\ HeldOnce(C, d) => HeldOnce(D, d)
  BY <1>7, <1>9, Moved
<1>11. \A q \in Nat : Ordered(mt, drains, q) => Ordered(mt, dr, q)
  <2>1. \A n \in DOMAIN dr :
              /\ n \in DOMAIN drains
              /\ \/ dr[n].batch = drains[n].batch /\ dr[n].last = drains[n].last
                 \/ /\ drains[n].batch # <<>> /\ dr[n].batch = Tail(drains[n].batch)
                    /\ dr[n].last = Head(drains[n].batch).age
    BY <1>2, <1>5, <1>6 DEF t
  <2> QED
    BY <1>2, <2>1, OrderKept
<1> QED
  BY <1>4, <1>5, <1>6, <1>10, <1>11 DEF C, D, N, dr, f, t

\* A task leaves the batch, or the callback of one ends.
LEMMA LeavesFacts ==
    ASSUME TypeOK, drains # <<>>, NEW t, NEW f \in DrainCall,
           \/ /\ Top.batch # <<>> /\ t = Head(Top.batch)
              /\ f.batch = Tail(Top.batch) /\ f.task = Top.task /\ f.last = t.age
           \/ /\ Top.task # <<>> /\ t = Top.task[1]
              /\ f.batch = Top.batch /\ f.task = <<>> /\ f.last = Top.last,
           NEW mt, NEW tq
    PROVE  LET dr == SetTop(f)
               C == Place(tq, mt, drains)
               D == Place(tq, mt, dr)
           IN /\ t \in Microtask /\ StackOK(dr) /\ DOMAIN dr = DOMAIN drains
              /\ \A n \in DOMAIN drains :
                    dr[n].task = drains[n].task \/ dr[n].task = <<>>
              /\ \A d : /\ Held(D, d) => Held(C, d)
                        /\ d # t.cap => (Held(D, d) <=> Held(C, d))
                        /\ HeldOnce(C, d) => HeldOnce(D, d)
                        /\ d = t.cap /\ HeldOnce(C, d) => ~Held(D, d)
              /\ Held(C, t.cap)
              /\ \A q \in Nat : Ordered(mt, drains, q) => Ordered(mt, dr, q)
<1> DEFINE N == Len(drains)
           dr == SetTop(f)
           C == Place(tq, mt, drains)
           D == Place(tq, mt, dr)
<1>1. /\ Top \in DrainCall /\ Top = drains[N] /\ N \in DOMAIN drains /\ drains \in Seq(DrainCall)
      /\ Len(Top.task) <= 1
  BY TopFacts DEF TypeOK
<1>2. Top.batch \in Seq(Microtask) /\ Top.task \in Seq(Microtask)
  BY <1>1 DEF DrainCall
<1>3. Len(f.task) <= 1
  BY <1>1
<1>4. /\ StackOK(dr) /\ DOMAIN dr = DOMAIN drains /\ dr[N] = f
      /\ \A n \in DOMAIN drains : n # N => dr[n] = drains[n]
  BY <1>3, TopFacts
<1>5. /\ B(N) \in Site /\ R(N) \in Site /\ B(N) # R(N)
      /\ C[B(N)] = Top.batch /\ C[R(N)] = Top.task
      /\ D[B(N)] = f.batch /\ D[R(N)] = f.task
      /\ \A s \in Site : s # B(N) /\ s # R(N) => D[s] = C[s]
  BY <1>3, TopPlaces
<1> HIDE DEF N, C, D, dr
<1>6. \A n \in DOMAIN drains : dr[n].task = drains[n].task \/ dr[n].task = <<>>
  BY <1>1, <1>4
<1>7. \A q \in Nat : Ordered(mt, drains, q) => Ordered(mt, dr, q)
  <2>1. \A n \in DOMAIN dr :
              /\ n \in DOMAIN drains
              /\ \/ dr[n].batch = drains[n].batch /\ dr[n].last = drains[n].last
                 \/ /\ drains[n].batch # <<>> /\ dr[n].batch = Tail(drains[n].batch)
                    /\ dr[n].last = Head(drains[n].batch).age
    BY <1>1, <1>4
  <2> QED
    BY <1>1, <2>1, OrderKept
<1>8. CASE Top.batch # <<>> /\ t = Head(Top.batch) /\ f.batch = Tail(Top.batch) /\ f.task = Top.task
  <2>1. /\ t \in Microtask
        /\ Caps(Top.batch) = {t.cap} \cup Caps(Tail(Top.batch))
        /\ \A d : Once(Top.batch, d) =>
              Once(Tail(Top.batch), d) /\ (t.cap = d => d \notin Caps(Tail(Top.batch)))
    BY <1>2, <1>8, TailFacts
  <2>2. Drops(C, D, B(N), t.cap)
    BY <1>5, <1>8, <2>1 DEF Drops
  <2>3. Held(C, t.cap)
    BY <1>5, <2>1 DEF Held
  <2> QED
    BY <1>4, <1>5, <1>6, <1>7, <2>1, <2>2, <2>3, Dropped DEF C, D, dr
<1>9. CASE Top.task # <<>> /\ t = Top.task[1] /\ f.batch = Top.batch /\ f.task = <<>>
  <2>1. DOMAIN Top.task = {1} /\ t \in Microtask
    BY <1>1, <1>2, <1>9
  <2>2. Caps(Top.task) = {t.cap}
    BY <1>9, <2>1 DEF Caps
  <2>3. Drops(C, D, R(N), t.cap)
    BY <1>5, <1>9, <2>2, EmptyFacts DEF Drops
  <2>4. Held(C, t.cap)
    BY <1>5, <2>2 DEF Held
  <2> QED
    BY <1>4, <1>5, <1>6, <1>7, <2>1, <2>3, <2>4, Dropped DEF C, D, dr
<1> QED
  BY <1>8, <1>9

\* The queue becomes the batch of N, a drain that has nothing or is new.
LEMMA TakenFacts ==
    ASSUME TypeOK, NEW dr, StackOK(dr), NEW N \in DOMAIN dr, NEW tq,
           dr[N].batch = microtasks, dr[N].task = <<>>,
           N \in DOMAIN drains => drains[N].batch = <<>> /\ drains[N].task = <<>>,
           dr[N].last = 0 \/ (N \in DOMAIN drains /\ dr[N].last = drains[N].last),
           \A n \in DOMAIN dr : n <= N,
           \A n \in Nat : n # N => (n \in DOMAIN dr <=> n \in DOMAIN drains),
           \A n \in DOMAIN drains : n # N => dr[n] = drains[n]
    PROVE  /\ \A d : /\ Held(Place(tq, <<>>, dr), d) <=> Held(Place(tq, microtasks, drains), d)
                     /\ HeldOnce(Place(tq, microtasks, drains), d)
                            => HeldOnce(Place(tq, <<>>, dr), d)
           /\ \A q \in Nat : Ordered(microtasks, drains, q) => Ordered(<<>>, dr, q)
<1> DEFINE C == Place(tq, microtasks, drains)
           D == Place(tq, <<>>, dr)
<1>1. N \in Nat /\ \A n \in DOMAIN dr : n \in Nat /\ n <= N
  BY DEF StackOK
<1>2. /\ Q \in Site /\ B(N) \in Site /\ Q # B(N)
      /\ C[Q] = microtasks /\ D[Q] = <<>> /\ C[B(N)] = <<>> /\ D[B(N)] = microtasks
      /\ C[R(N)] = <<>> /\ D[R(N)] = <<>>
  <2>1. Q \in Site /\ B(N) \in Site /\ Q # B(N)
    BY <1>1, SiteFacts
  <2>2. C[Q] = microtasks /\ D[Q] = <<>>
    BY PlaceFacts
  <2>3. C[B(N)] = <<>> /\ C[R(N)] = <<>>
    BY <1>1, PlaceFacts
  <2>4. D[B(N)] = dr[N].batch /\ D[R(N)] = dr[N].task
    BY <1>1, PlaceFacts
  <2> QED
    BY <2>1, <2>2, <2>3, <2>4
<1>3. ASSUME NEW s \in Site, s # Q, s # B(N) PROVE D[s] = C[s]
  <2>1. CASE (\E p \in Promise : s = W(p))
    BY <2>1, PlaceFacts
  <2>2. CASE \E n \in Nat : s = B(n) \/ s = R(n)
    <3>1. PICK n \in Nat : s = B(n) \/ s = R(n)
      BY <2>2
    <3>2. CASE n = N
      BY <1>2, <1>3, <3>1, <3>2
    <3>3. CASE n # N
      <4>1. /\ n \in DOMAIN dr <=> n \in DOMAIN drains
            /\ n \in DOMAIN drains => dr[n] = drains[n]
        BY <3>3
      <4> QED
        BY <3>1, <4>1, PlaceFacts
    <3> QED
      BY <3>2, <3>3
  <2> QED
    BY <1>3, <2>1, <2>2, SiteFacts
<1> HIDE DEF C, D
<1>4. Moves(C, D, Q, B(N))
  <2>1. Caps(D[Q]) \cup Caps(D[B(N)]) = Caps(C[Q]) \cup Caps(C[B(N)])
    BY <1>2
  <2>2. ASSUME NEW d, HeldOnce(C, d)
        PROVE  /\ Once(D[Q], d) /\ Once(D[B(N)], d)
               /\ ~(d \in Caps(D[Q]) /\ d \in Caps(D[B(N)]))
    BY <1>2, <2>2, EmptyFacts DEF HeldOnce
  <2> QED
    BY <1>3, <2>1, <2>2 DEF Moves
<1>5. \A d : /\ Held(D, d) <=> Held(C, d)
             /\ HeldOnce(C, d) => HeldOnce(D, d)
  BY <1>2, <1>4, Moved
<1>6. \A q \in Nat : Ordered(microtasks, drains, q) => Ordered(<<>>, dr, q)
  <2>1. \A n \in DOMAIN dr : n # N =>
            n \in DOMAIN drains /\ dr[n].batch = drains[n].batch /\ dr[n].last = drains[n].last
    BY <1>1
  <2> QED
    BY <1>1, <2>1, OrderTaken
<1> QED
  BY <1>5, <1>6 DEF C, D

----------------------------------------------------------------------------
(* Steps of a kind: the resolve functions of a promise that a script may    *)
(* settle are used; those a task has; the queue becomes a batch.            *)

\* What the steps on promises leave alone.
HostOK == inTurn \in BOOLEAN /\ sampled \in Sample

LEMMA NoSampleFacts == NoSample \in Sample
  BY DEF NoSample, Sample

LEMMA InitIInv == Init => IInv
<1> SUFFICES ASSUME Init PROVE IInv
  OBVIOUS
<1>1. /\ promises = 0 /\ value = [p \in Promise |-> NoValue]
      /\ rejected = [p \in Promise |-> FALSE] /\ thenQueue = [p \in Promise |-> <<>>]
      /\ microtasks = <<>> /\ drains = <<>> /\ inTurn = TRUE /\ inside = <<"nothing", 0>>
      /\ sampled = NoSample
      /\ derived = {} /\ handedOut = {} /\ queued = 0
  BY DEF Init, Nothing, None
<1>2. TypeOK
  BY <1>1, BoundsAssumption, NoSampleFacts DEF TypeOK
<1>3. \A s \in Site : Places[s] = <<>>
  BY <1>1, SiteFacts, PlaceFacts DEF Places
<1>4. \A d : ~Held(Places, d)
  BY <1>3, EmptyFacts DEF Held
<1>5. StoreInv(thenQueue, microtasks, drains, value, queued, promises, inside)
  <2>1. Ordered(microtasks, drains, queued)
    BY <1>1 DEF Ordered, Ascending, UpTo, After
  <2>2. inside[1] # "executor"
    BY <1>1
  <2> QED
    BY <1>1, <1>4, <2>1, <2>2 DEF StoreInv, Places
<1>6. HistoryInv /\ InsideInv /\ ThenableInv
  BY <1>1 DEF HistoryInv, InsideInv, ThenableInv
<1>7. Accounts(Derived, Places, value)
  BY <1>1 DEF Accounts, Derived
<1> QED
  BY <1>2, <1>5, <1>6, <1>7 DEF IInv

LEMMA Rebuilt ==
    ASSUME StoreOK, StackOK(drains'),
           promises' \in 0 .. MaxPromises, HostOK',
           inside' \in {"nothing", "executor", "getter", "then"} \X (0 .. MaxPromises),
           HistoryInv', InsideInv', ThenableInv',
           Accounts(Derived', Place(thenQueue', microtasks', drains'), value'),
           StoreInv(thenQueue', microtasks', drains', value', queued', promises', inside')
    PROVE  IInv'
<1>1. derived' \subseteq Promise /\ handedOut' \subseteq Promise
  BY BoundsAssumption DEF HistoryInv, Promise
<1>2. TypeOK'
  BY <1>1 DEF TypeOK, StoreOK, StackOK, HostOK
<1> QED
  BY <1>2 DEF IInv, Places

\* A step that leaves the drains and the promises as they are.
LEMMA Settling ==
    ASSUME IInv, NEW p \in Promise, p <= promises, p \notin Derived,
           Uses(p) \/ UNCHANGED store,
           UNCHANGED <<promises, drains, inTurn, sampled, history>>,
           inside' = inside \/ inside' = Nothing
    PROVE  IInv'
<1>1. /\ TypeOK /\ HistoryInv /\ InsideInv /\ ThenableInv
      /\ Accounts(Derived, Place(thenQueue, microtasks, drains), value)
      /\ StoreInv(thenQueue, microtasks, drains, value, queued, promises, inside)
  BY DEF IInv, Places
<1>2. /\ promises' = promises /\ drains' = drains /\ inTurn' = inTurn /\ sampled' = sampled
      /\ derived' = derived /\ handedOut' = handedOut /\ Derived' = Derived
  BY DEF history, Derived
<1>3. /\ drains \in Seq(DrainCall) /\ promises \in Nat /\ Derived \in SUBSET Promise
      /\ StackOK(drains) /\ promises \in 0 .. MaxPromises /\ HostOK
  BY <1>1 DEF TypeOK, StackOK, Derived, HostOK
<1>4. Accounts(Derived \ {p}, Place(thenQueue, microtasks, drains), value)
  BY <1>1 DEF Accounts
<1>5. /\ StoreOK
      /\ Accounts(Derived, Place(thenQueue', microtasks', drains), value')
      /\ StoreInv(thenQueue', microtasks', drains, value', queued', promises, inside)
  BY <1>1, <1>3, <1>4, Used
<1>6. inside' \in {"nothing", "executor", "getter", "then"} \X (0 .. MaxPromises)
  BY <1>1, BoundsAssumption DEF TypeOK, Nothing, None
<1>7. Nothing[1] = "nothing"
  BY DEF Nothing
<1>8. StoreInv(thenQueue', microtasks', drains, value', queued', promises, inside')
  BY <1>5, <1>7 DEF StoreInv
<1>9. HistoryInv' /\ InsideInv' /\ ThenableInv'
  BY <1>1, <1>2, <1>7 DEF HistoryInv, InsideInv, ThenableInv
<1>10. HostOK'
  BY <1>2, <1>3 DEF HostOK
<1> QED
  BY <1>2, <1>3, <1>5, <1>6, <1>8, <1>9, <1>10, Rebuilt

\* A task leaves its batch or ends, and its promise's functions are used.
LEMMA Leaving ==
    ASSUME IInv, drains # <<>>, NEW t, NEW f \in DrainCall,
           \/ /\ Top.batch # <<>> /\ t = Head(Top.batch)
              /\ f.batch = Tail(Top.batch) /\ f.task = Top.task /\ f.last = t.age
           \/ /\ Top.task # <<>> /\ t = Top.task[1]
              /\ f.batch = Top.batch /\ f.task = <<>> /\ f.last = Top.last,
           Uses(t.cap) \/ (t.cap \notin Derived /\ UNCHANGED store),
           drains' = SetTop(f),
           UNCHANGED <<promises, inTurn, inside, sampled, history>>
    PROVE  IInv'
<1> DEFINE C == Place(thenQueue, microtasks, drains)
           dr == SetTop(f)
           D == Place(thenQueue, microtasks, dr)
<1>1. /\ TypeOK /\ HistoryInv /\ InsideInv /\ ThenableInv
      /\ Accounts(Derived, C, value)
      /\ StoreInv(thenQueue, microtasks, drains, value, queued, promises, inside)
  BY DEF IInv, Places
<1>2. /\ promises' = promises /\ inTurn' = inTurn /\ sampled' = sampled /\ inside' = inside
      /\ derived' = derived /\ handedOut' = handedOut /\ Derived' = Derived
  BY DEF history, Derived
<1>3. /\ promises \in Nat /\ Derived \in SUBSET Promise
      /\ promises \in 0 .. MaxPromises /\ HostOK
      /\ inside \in {"nothing", "executor", "getter", "then"} \X (0 .. MaxPromises)
  BY <1>1 DEF TypeOK, Derived, HostOK
<1>4. /\ t \in Microtask /\ StackOK(dr) /\ DOMAIN dr = DOMAIN drains
      /\ \A n \in DOMAIN drains : dr[n].task = drains[n].task \/ dr[n].task = <<>>
      /\ \A d : /\ Held(D, d) => Held(C, d)
                /\ d # t.cap => (Held(D, d) <=> Held(C, d))
                /\ HeldOnce(C, d) => HeldOnce(D, d)
                /\ d = t.cap /\ HeldOnce(C, d) => ~Held(D, d)
      /\ Held(C, t.cap)
      /\ \A q \in Nat : Ordered(microtasks, drains, q) => Ordered(microtasks, dr, q)
  BY <1>1, LeavesFacts
<1> HIDE DEF C, D
<1>5. t.cap \in Promise /\ t.cap <= promises
  <2>1. t.cap \in Promise
    BY <1>4 DEF Microtask
  <2> QED
    BY <1>1, <1>4, <2>1 DEF StoreInv, C
<1>6. Accounts(Derived \ {t.cap}, D, value)
  BY <1>1, <1>4 DEF Accounts
<1>7. t.cap \in Derived => value[t.cap] = NoValue /\ ~Held(D, t.cap)
  BY <1>1, <1>4 DEF Accounts
<1>8. StoreInv(thenQueue, microtasks, dr, value, queued, promises, inside)
  <2>1. queued \in Nat
    BY <1>1 DEF TypeOK
  <2> QED
    BY <1>1, <1>4, <2>1 DEF StoreInv, C, D
<1>9. /\ StoreOK
      /\ Accounts(Derived, Place(thenQueue', microtasks', dr), value')
      /\ StoreInv(thenQueue', microtasks', dr, value', queued', promises, inside)
  <2>1. dr \in Seq(DrainCall)
    BY <1>4 DEF StackOK
  <2> HIDE DEF dr
  <2> QED
    BY <1>1, <1>3, <1>5, <1>6, <1>7, <1>8, <2>1, Used DEF D
<1>10. HistoryInv' /\ InsideInv'
  BY <1>1, <1>2 DEF HistoryInv, InsideInv
<1>11. ThenableInv'
  <2> SUFFICES ASSUME NEW n \in DOMAIN drains', NEW i \in DOMAIN drains'[n].task,
                      drains'[n].task[i].kind = "thenable"
               PROVE  drains'[n].task[i].cap \in handedOut'
    BY DEF ThenableInv
  <2>1. n \in DOMAIN drains /\ drains'[n].task = drains[n].task
    BY <1>4
  <2> QED
    BY <1>1, <1>2, <2>1 DEF ThenableInv
<1>12. HostOK'
  BY <1>2, <1>3 DEF HostOK
<1> QED
  BY <1>2, <1>3, <1>4, <1>9, <1>10, <1>11, <1>12, Rebuilt

\* A drain takes the queue.
LEMMA Taking ==
    ASSUME IInv, StackOK(drains'), NEW N \in DOMAIN drains',
           drains'[N].batch = microtasks, drains'[N].task = <<>>,
           N \in DOMAIN drains => drains[N].batch = <<>> /\ drains[N].task = <<>>,
           drains'[N].last = 0 \/ (N \in DOMAIN drains /\ drains'[N].last = drains[N].last),
           \A n \in DOMAIN drains' : n <= N,
           \A n \in Nat : n # N => (n \in DOMAIN drains' <=> n \in DOMAIN drains),
           \A n \in DOMAIN drains : n # N => drains'[n] = drains[n],
           QueueTaken, HostOK',
           UNCHANGED <<promises, queued, inside, history>>
    PROVE  IInv'
<1> DEFINE C == Place(thenQueue, microtasks, drains)
           D == Place(thenQueue, <<>>, drains')
<1>1. /\ TypeOK /\ HistoryInv /\ InsideInv /\ ThenableInv
      /\ Accounts(Derived, C, value)
      /\ StoreInv(thenQueue, microtasks, drains, value, queued, promises, inside)
  BY DEF IInv, Places
<1>2. /\ promises' = promises /\ inside' = inside /\ queued' = queued
      /\ value' = value /\ rejected' = rejected /\ thenQueue' = thenQueue /\ microtasks' = <<>>
      /\ derived' = derived /\ handedOut' = handedOut /\ Derived' = Derived
  BY DEF history, Derived, QueueTaken, promiseVars
<1>3. StoreOK
  BY <1>1, <1>2 DEF StoreOK, TypeOK
<1>4. /\ \A d : (Held(D, d) <=> Held(C, d)) /\ (HeldOnce(C, d) => HeldOnce(D, d))
      /\ \A q \in Nat : Ordered(microtasks, drains, q) => Ordered(<<>>, drains', q)
  BY <1>1, TakenFacts
<1> HIDE DEF C, D
<1>5. Accounts(Derived', D, value')
  BY <1>1, <1>2, <1>4 DEF Accounts
<1>6. StoreInv(thenQueue, <<>>, drains', value, queued, promises, inside)
  <2>1. queued \in Nat
    BY <1>1 DEF TypeOK
  <2> QED
    BY <1>1, <1>4, <2>1 DEF StoreInv, C, D
<1>7. HistoryInv' /\ InsideInv'
  BY <1>1, <1>2 DEF HistoryInv, InsideInv
<1>8. ThenableInv'
  <2> SUFFICES ASSUME NEW n \in DOMAIN drains', NEW i \in DOMAIN drains'[n].task,
                      drains'[n].task[i].kind = "thenable"
               PROVE  drains'[n].task[i].cap \in handedOut'
    BY DEF ThenableInv
  <2>1. n # N /\ n \in Nat
    BY DEF StackOK
  <2>2. n \in DOMAIN drains /\ drains'[n] = drains[n]
    BY <2>1
  <2> QED
    BY <1>1, <1>2, <2>2 DEF ThenableInv
<1>9. /\ promises' \in 0 .. MaxPromises
      /\ inside' \in {"nothing", "executor", "getter", "then"} \X (0 .. MaxPromises)
  BY <1>1, <1>2 DEF TypeOK
<1>10. /\ Accounts(Derived', Place(thenQueue', microtasks', drains'), value')
       /\ StoreInv(thenQueue', microtasks', drains', value', queued', promises', inside')
  BY <1>2, <1>5, <1>6 DEF D
<1> QED
  BY <1>3, <1>7, <1>8, <1>9, <1>10, Rebuilt

----------------------------------------------------------------------------
(* The resolve and reject functions, and then().                            *)

LEMMA RejectUses ==
    ASSUME NEW p, NEW v \in Values, RejectFn(p, v)
    PROVE  (Pending(p) /\ Uses(p)) \/ (Settled(p) /\ UNCHANGED store)
  BY DEF RejectFn, Uses

LEMMA LinkFacts ==
    ASSUME NEW p \in Promise
    PROVE  Link(p) \in Reaction /\ Link(p).cap = p
  BY DEF Link, Reaction

LEMMA ResolveUses ==
    ASSUME TypeOK, NEW p \in Promise, NEW x \in Resolution,
           x.is = "promise" => Named(x.v), ResolveFn(p, x)
    PROVE  (Pending(p) /\ Uses(p)) \/ (Settled(p) /\ UNCHANGED store)
<1>1. /\ x.is \in {"plain", "throwing"} => x.v \in Values
      /\ x.is = "promise" => x.v \in Promise
  BY DEF Resolution
<1>2. CASE Settled(p) /\ UNCHANGED store
  BY <1>2
<1>3. CASE Pending(p) /\ x.is = "plain" /\ Settle(p, x.v, FALSE)
  BY <1>1, <1>3 DEF Uses
<1>4. CASE Pending(p) /\ x.is = "throwing" /\ Settle(p, x.v, TRUE)
  BY <1>1, <1>4 DEF Uses
<1>5. CASE /\ Pending(p) /\ x.is = "promise" /\ Settled(x.v)
           /\ Settle(p, value[x.v], rejected[x.v])
  <2>1. value[x.v] \in Values /\ rejected[x.v] \in BOOLEAN
    BY <1>1, <1>5 DEF TypeOK, Settled
  <2> QED
    BY <1>5, <2>1 DEF Uses
<1>6. CASE Pending(p) /\ x.is = "promise" /\ Pending(x.v) /\ Enlist(x.v, Link(p))
  BY <1>1, <1>6, LinkFacts DEF Uses, Named
<1>7. CASE /\ Pending(p) /\ x.is = "thenable"
           /\ Enqueue([kind |-> "thenable", cap |-> p, value |-> NoValue,
                       rejected |-> FALSE, callback |-> TRUE, age |-> queued + 1])
  <2> DEFINE task == [kind |-> "thenable", cap |-> p, value |-> NoValue,
                      rejected |-> FALSE, callback |-> TRUE, age |-> queued + 1]
  <2>1. task \in Microtask /\ task.cap = p /\ task.age = queued + 1
    BY DEF Microtask, TypeOK
  <2> HIDE DEF task
  <2>2. Uses(p)
    BY <1>7, <2>1 DEF Uses, task
  <2> QED
    BY <1>7, <2>2
<1> QED
  BY <1>2, <1>3, <1>4, <1>5, <1>6, <1>7 DEF ResolveFn

LEMMA ThenUses ==
    ASSUME TypeOK, NEW p \in Promise, Named(p), NEW c \in Promise, NEW s \in Sample,
           ThenFn(p, s, c)
    PROVE  Uses(c)
<1> DEFINE react == ReactionOf(p, s, c)
<1>1. /\ s.value \in Values \cup {NoValue} /\ s.rejected \in BOOLEAN
      /\ s.onFulfilled \in BOOLEAN /\ s.onRejected \in BOOLEAN
  BY DEF Sample
<1>2. /\ react \in Reaction /\ react.cap = c
      /\ react.late <=> s.value = NoValue /\ Settled(p)
  BY <1>1 DEF ReactionOf, ThenReaction, Reaction
<1>3. CASE s.value = NoValue /\ Enlist(p, react)
  <2>1. p <= promises /\ inside # <<"executor", p>> /\ (Pending(p) \/ react.late)
    BY <1>2, <1>3 DEF Named, Pending, Settled
  <2> HIDE DEF react
  <2> QED
    BY <1>2, <1>3, <2>1 DEF Uses
<1>4. CASE s.value # NoValue /\ Enqueue(Task(react, s.value, s.rejected, queued + 1))
  <2> HIDE DEF react
  <2> DEFINE task == Task(react, s.value, s.rejected, queued + 1)
  <2>1. s.value \in Values /\ queued + 1 \in Nat
    BY <1>1, <1>4 DEF TypeOK
  <2>2. task \in Microtask /\ task.cap = c /\ task.age = queued + 1
    BY <1>1, <1>2, <2>1 DEF Task, Reaction, Microtask
  <2> HIDE DEF task
  <2> QED
    BY <1>4, <2>2 DEF Uses, task
<1> QED
  BY <1>3, <1>4 DEF ThenFn

----------------------------------------------------------------------------
(* The steps.                                                               *)

LEMMA NewStep == IInv /\ New => IInv'
<1> SUFFICES ASSUME IInv, New PROVE IInv'
  OBVIOUS
<1> DEFINE c == promises + 1
<1>1. /\ TypeOK /\ HistoryInv /\ InsideInv /\ ThenableInv
      /\ Accounts(Derived, Place(thenQueue, microtasks, drains), value)
      /\ StoreInv(thenQueue, microtasks, drains, value, queued, promises, inside)
  BY DEF IInv, Places
<1>2. /\ promises' = c /\ inside' = <<"executor", c>> /\ promises < MaxPromises
      /\ value' = value /\ rejected' = rejected /\ thenQueue' = thenQueue
      /\ microtasks' = microtasks /\ queued' = queued /\ drains' = drains /\ inTurn' = inTurn /\ sampled' = sampled
      /\ derived' = derived /\ handedOut' = handedOut /\ Derived' = Derived
  BY DEF New, store, promiseVars, history, Derived
<1>3. /\ c \in Promise /\ c \in 0 .. MaxPromises /\ promises \in Nat
  BY <1>1, <1>2, BoundsAssumption DEF TypeOK, Promise
<1>4. StoreOK /\ StackOK(drains') /\ HostOK'
  BY <1>1, <1>2 DEF StoreOK, StackOK, TypeOK, HostOK
<1>5. inside' \in {"nothing", "executor", "getter", "then"} \X (0 .. MaxPromises)
  BY <1>2, <1>3
<1>6. HistoryInv' /\ ThenableInv'
  <2>1. 1 .. promises \subseteq 1 .. promises'
    BY <1>2, <1>3
  <2> QED
    BY <1>1, <1>2, <2>1 DEF HistoryInv, ThenableInv
<1>7. InsideInv'
  <2>1. c \notin Derived /\ c \in 1 .. c
    BY <1>1, <1>3 DEF HistoryInv, Derived
  <2> QED
    BY <1>2, <2>1 DEF InsideInv
<1>8. StoreInv(thenQueue', microtasks', drains', value', queued', promises', inside')
  <2> HIDE DEF c
  <2>1. /\ \A d \in Promise : d <= promises => d <= c
        /\ \A y \in Promise : y > c => y > promises
    BY <1>3 DEF c, Promise
  <2>2. thenQueue[c] = <<>>
    BY <1>1, <1>3 DEF StoreInv, c
  <2> QED
    BY <1>1, <1>2, <2>1, <2>2 DEF StoreInv
<1> QED
  BY <1>1, <1>2, <1>3, <1>4, <1>5, <1>6, <1>7, <1>8, Rebuilt

\* The steps that change no store: inside, inTurn and the oldest drain.
LEMMA QuietStep ==
    ASSUME IInv, UNCHANGED <<promises, store, drains, history>>, HostOK',
           \/ inside' = inside \/ inside' = Nothing
           \/ \E p \in Promise :
                 /\ \/ inside' = <<"getter", p>> /\ p \notin Derived
                    \/ inside' = <<"then", p>>
                 /\ p <= promises
    PROVE  IInv'
<1>1. /\ TypeOK /\ HistoryInv /\ InsideInv /\ ThenableInv
      /\ Accounts(Derived, Place(thenQueue, microtasks, drains), value)
      /\ StoreInv(thenQueue, microtasks, drains, value, queued, promises, inside)
  BY DEF IInv, Places
<1>2. /\ promises' = promises /\ value' = value /\ rejected' = rejected
      /\ thenQueue' = thenQueue /\ microtasks' = microtasks /\ queued' = queued
      /\ drains' = drains /\ derived' = derived /\ handedOut' = handedOut /\ Derived' = Derived
  BY DEF store, promiseVars, history, Derived
<1>3. /\ inside' \in {"nothing", "executor", "getter", "then"} \X (0 .. MaxPromises)
      /\ inside'[1] = "executor" => inside' = inside
      /\ InsideInv'
  <2>1. CASE inside' = inside
    BY <1>1, <1>2, <2>1 DEF InsideInv, TypeOK
  <2>2. CASE inside' = Nothing
    BY <1>2, <2>2, BoundsAssumption DEF InsideInv, Nothing, None
  <2>3. CASE \E p \in Promise :
                 /\ \/ inside' = <<"getter", p>> /\ p \notin Derived
                    \/ inside' = <<"then", p>>
                 /\ p <= promises
    BY <1>1, <1>2, <2>3 DEF InsideInv, Promise, TypeOK
  <2> QED
    BY <2>1, <2>2, <2>3
<1>4. StoreOK /\ StackOK(drains') /\ HistoryInv' /\ ThenableInv' /\ promises' \in 0 .. MaxPromises
  BY <1>1, <1>2 DEF StoreOK, StackOK, TypeOK, HistoryInv, ThenableInv
<1>5. StoreInv(thenQueue', microtasks', drains', value', queued', promises', inside')
  BY <1>1, <1>2, <1>3 DEF StoreInv
<1> QED
  BY <1>1, <1>2, <1>3, <1>4, <1>5, Rebuilt

LEMMA ExecutorThrowsStep ==
    ASSUME IInv, NEW v \in Values, ExecutorThrows(v)
    PROVE  IInv'
<1> DEFINE p == inside[2]
<1>1. /\ TypeOK /\ HistoryInv /\ InsideInv /\ ThenableInv
      /\ Accounts(Derived, Place(thenQueue, microtasks, drains), value)
      /\ StoreInv(thenQueue, microtasks, drains, value, queued, promises, inside)
  BY DEF IInv, Places
<1>2. /\ inside[1] = "executor" /\ inside' = <<"nothing", 0>>
      /\ value' = [value EXCEPT ![p] = v] /\ rejected' = [rejected EXCEPT ![p] = TRUE]
      /\ promises' = promises /\ thenQueue' = thenQueue /\ microtasks' = microtasks
      /\ queued' = queued /\ drains' = drains /\ inTurn' = inTurn /\ sampled' = sampled
      /\ derived' = derived /\ handedOut' = handedOut /\ Derived' = Derived
  BY DEF ExecutorThrows, history, Derived, Nothing, None
<1>3. p \in 1 .. promises /\ p \in Promise /\ p \notin Derived /\ thenQueue[p] = <<>>
  BY <1>1, <1>2, BoundsAssumption DEF InsideInv, StoreInv, TypeOK, Promise
<1>4. /\ StoreOK /\ StackOK(drains') /\ HistoryInv' /\ ThenableInv' /\ InsideInv'
      /\ promises' \in 0 .. MaxPromises /\ HostOK'
      /\ inside' \in {"nothing", "executor", "getter", "then"} \X (0 .. MaxPromises)
  <2>1. value' \in [Promise -> Values \cup {NoValue}] /\ rejected' \in [Promise -> BOOLEAN]
    BY <1>1, <1>2, <1>3 DEF TypeOK
  <2>2. StoreOK
    BY <1>1, <1>2, <2>1 DEF StoreOK, TypeOK
  <2>3. inside' \in {"nothing", "executor", "getter", "then"} \X (0 .. MaxPromises)
    BY <1>2, BoundsAssumption
  <2>4. InsideInv'
    BY <1>2 DEF InsideInv
  <2> QED
    BY <1>1, <1>2, <2>2, <2>3, <2>4 DEF StackOK, TypeOK, HistoryInv, ThenableInv, HostOK
<1>5. \A y \in Promise : y # p => value'[y] = value[y]
  BY <1>1, <1>2 DEF TypeOK
<1> HIDE DEF p
<1>6. Accounts(Derived, Place(thenQueue, microtasks, drains), value')
  BY <1>1, <1>3, <1>5 DEF Accounts, Derived, TypeOK
<1>7. StoreInv(thenQueue, microtasks, drains, value', queued, promises, inside')
  <2>1. ~(p > promises)
    BY <1>1, <1>3 DEF TypeOK
  <2>2. inside'[1] # "executor"
    BY <1>2
  <2>3. AllLate(thenQueue[p])
    BY <1>3 DEF AllLate
  <2> QED
    BY <1>1, <1>3, <1>5, <2>1, <2>2, <2>3 DEF StoreInv
<1> QED
  BY <1>2, <1>4, <1>6, <1>7, Rebuilt

\* then() makes its promise and registers the reaction, at once or after getters.
LEMMA Registering ==
    ASSUME IInv, NEW p \in Promise, Named(p), NEW s \in Sample,
           promises < MaxPromises, promises' = promises + 1,
           ThenFn(p, s, promises + 1),
           derived' = derived \cup {promises + 1},
           UNCHANGED <<drains, handedOut>>, HostOK',
           inside' = inside \/ inside' = Nothing
    PROVE  IInv'
<1> DEFINE c == promises + 1
<1>1. /\ TypeOK /\ HistoryInv /\ InsideInv /\ ThenableInv
      /\ Accounts(Derived, Place(thenQueue, microtasks, drains), value)
      /\ StoreInv(thenQueue, microtasks, drains, value, queued, promises, inside)
  BY DEF IInv, Places
<1>2. /\ promises < MaxPromises /\ promises' = c /\ Named(p)
      /\ ThenFn(p, s, c)
      /\ drains' = drains /\ HostOK'
      /\ derived' = derived \cup {c} /\ handedOut' = handedOut
  OBVIOUS
<1>3. /\ c \in Promise /\ c \in 0 .. MaxPromises /\ c \in Nat /\ promises \in Nat
      /\ promises <= c /\ ~(c <= promises)
  BY <1>1, <1>2, BoundsAssumption DEF TypeOK, Promise
<1>4. Nothing[1] = "nothing"
  BY DEF Nothing
<1>5. Uses(c)
  BY <1>1, <1>2, <1>3, ThenUses
<1>6. Derived' = Derived \cup {c} /\ Derived \in SUBSET Promise /\ c \notin Derived
  <2>1. c \notin handedOut /\ c \notin derived
    BY <1>1, <1>3 DEF HistoryInv
  <2> QED
    BY <1>1, <1>2, <2>1 DEF Derived, TypeOK
<1>7. /\ drains \in Seq(DrainCall) /\ StackOK(drains)
      /\ inside' \in {"nothing", "executor", "getter", "then"} \X (0 .. MaxPromises)
  BY <1>1, BoundsAssumption DEF TypeOK, StackOK, Nothing, None
<1>8. value[c] = NoValue /\ ~Held(Place(thenQueue, microtasks, drains), c)
  BY <1>1, <1>3 DEF StoreInv
<1>9. StoreInv(thenQueue, microtasks, drains, value, queued, c, inside)
  <2>1. /\ \A d \in Promise : d <= promises => d <= c
        /\ \A y \in Promise : y > c => y > promises
    BY <1>3 DEF Promise
  <2> HIDE DEF c
  <2> QED
    BY <1>1, <2>1 DEF StoreInv
<1> HIDE DEF c
<1>10. Accounts(Derived' \ {c}, Place(thenQueue, microtasks, drains), value)
  BY <1>1, <1>6 DEF Accounts
<1>11. /\ StoreOK
       /\ Accounts(Derived', Place(thenQueue', microtasks', drains), value')
       /\ StoreInv(thenQueue', microtasks', drains, value', queued', c, inside)
  <2> DEFINE X == Derived'
  <2>1. X \in SUBSET Promise
    BY <1>3, <1>6
  <2>2. c <= c
    BY <1>3
  <2> HIDE DEF X
  <2>3. Accounts(X \ {c}, Place(thenQueue, microtasks, drains), value)
    BY <1>10 DEF X
  <2>4. /\ StoreOK
        /\ Accounts(X, Place(thenQueue', microtasks', drains), value')
        /\ StoreInv(thenQueue', microtasks', drains, value', queued', c, inside)
    BY <1>1, <1>3, <1>5, <1>7, <1>8, <1>9, <2>1, <2>2, <2>3, Used
  <2> QED
    BY <2>4 DEF X
<1>12. HistoryInv' /\ ThenableInv' /\ InsideInv'
  <2>1. 1 .. promises \subseteq 1 .. c /\ c \in 1 .. c /\ c \notin 1 .. promises
    BY <1>3 DEF c
  <2>2. HistoryInv' /\ ThenableInv'
    BY <1>1, <1>2, <2>1 DEF HistoryInv, ThenableInv
  <2>3. inside[1] # "nothing" =>
            /\ inside[2] \in 1 .. c
            /\ inside[1] # "then" => inside[2] \notin Derived'
    BY <1>1, <1>6, <2>1 DEF InsideInv
  <2> QED
    BY <1>2, <1>4, <2>2, <2>3 DEF InsideInv
<1>13. StoreInv(thenQueue', microtasks', drains, value', queued', c, inside')
  BY <1>4, <1>11 DEF StoreInv
<1> QED
  BY <1>2, <1>3, <1>7, <1>11, <1>12, <1>13, Rebuilt

LEMMA SampleOfFacts ==
    ASSUME TypeOK, NEW p \in Promise, NEW f \in BOOLEAN, NEW r \in BOOLEAN
    PROVE  SampleOf(p, f, r) \in Sample
  BY DEF SampleOf, Sample, TypeOK

LEMMA ThenStep ==
    ASSUME IInv, NEW p \in Promise, NEW f \in BOOLEAN, NEW r \in BOOLEAN, Then(p, f, r)
    PROVE  IInv'
<1> DEFINE s == SampleOf(p, f, r)
<1>1. TypeOK /\ HostOK
  BY DEF IInv, TypeOK, HostOK
<1>2. s \in Sample
  BY <1>1, SampleOfFacts
<1>3. /\ Named(p) /\ promises < MaxPromises /\ promises' = promises + 1
      /\ ThenFn(p, s, promises + 1) /\ derived' = derived \cup {promises + 1}
      /\ UNCHANGED <<drains, inTurn, inside, sampled, handedOut>>
  BY DEF Then
<1>4. HostOK'
  BY <1>1, <1>3 DEF HostOK
<1> HIDE DEF s
<1> QED
  BY <1>2, <1>3, <1>4, Registering

\* Of what the getters did, only that the reaction may be late matters.
LEMMA ThenRegistersStep == IInv /\ ThenRegisters => IInv'
<1> SUFFICES ASSUME IInv, ThenRegisters PROVE IInv'
  OBVIOUS
<1> DEFINE p == inside[2]
<1>1. TypeOK /\ InsideInv /\ sampled \in Sample
  BY DEF IInv, TypeOK
<1>2. /\ inside[1] = "then" /\ promises < MaxPromises /\ promises' = promises + 1
      /\ ThenFn(p, sampled, promises + 1) /\ derived' = derived \cup {promises + 1}
      /\ inside' = Nothing /\ sampled' = NoSample /\ inTurn' = inTurn
      /\ UNCHANGED <<drains, handedOut>>
  BY DEF ThenRegisters
<1>3. p \in Promise /\ Named(p)
  BY <1>1, <1>2, BoundsAssumption DEF InsideInv, TypeOK, Promise, Named
<1>4. HostOK'
  BY <1>1, <1>2, NoSampleFacts DEF HostOK, TypeOK
<1> HIDE DEF p
<1> QED
  BY <1>1, <1>2, <1>3, <1>4, Registering

LEMMA ThenThrowsStep == IInv /\ ThenThrows => IInv'
<1> SUFFICES ASSUME IInv, ThenThrows PROVE IInv'
  OBVIOUS
<1>1. /\ inside' = Nothing /\ sampled' = NoSample
      /\ UNCHANGED <<promises, store, drains, inTurn, history>>
  BY DEF ThenThrows
<1>2. HostOK'
  BY <1>1, NoSampleFacts DEF IInv, TypeOK, HostOK
<1> QED
  BY <1>1, <1>2, QuietStep

LEMMA ThenReadsStep ==
    ASSUME IInv, NEW p \in Promise, NEW f \in BOOLEAN, NEW r \in BOOLEAN, ThenReads(p, f, r)
    PROVE  IInv'
<1>1. /\ p <= promises /\ inside' = <<"then", p>> /\ sampled' = SampleOf(p, f, r)
      /\ UNCHANGED <<promises, store, drains, inTurn, history>>
  BY DEF ThenReads, Named
<1>2. HostOK'
  BY <1>1, SampleOfFacts DEF IInv, TypeOK, HostOK
<1> QED
  BY <1>1, <1>2, QuietStep

LEMMA RunCallbackStep == IInv /\ RunCallback => IInv'
<1> SUFFICES ASSUME IInv, RunCallback PROVE IInv'
  OBVIOUS
<1> DEFINE t == Head(Top.batch)
           N == Len(drains)
           dr == SetTop([Top EXCEPT !.batch = Tail(@), !.task = <<t>>, !.last = t.age])
           C == Place(thenQueue, microtasks, drains)
           D == Place(thenQueue, microtasks, dr)
<1>1. /\ TypeOK /\ HistoryInv /\ InsideInv /\ ThenableInv
      /\ Accounts(Derived, C, value)
      /\ StoreInv(thenQueue, microtasks, drains, value, queued, promises, inside)
  BY DEF IInv, Places
<1>2. /\ BetweenTasks /\ Top.batch # <<>>
      /\ drains' = dr
      /\ handedOut' = IF t.kind = "thenable" THEN handedOut \cup {t.cap} ELSE handedOut
      /\ promises' = promises /\ value' = value /\ rejected' = rejected
      /\ thenQueue' = thenQueue /\ microtasks' = microtasks /\ queued' = queued
      /\ inTurn' = inTurn /\ sampled' = sampled /\ inside' = inside /\ derived' = derived
  BY DEF RunCallback, store, promiseVars
<1>3. /\ t \in Microtask /\ StackOK(dr) /\ DOMAIN dr = DOMAIN drains
      /\ dr[N].task = <<t>>
      /\ \A n \in DOMAIN drains : n # N => dr[n] = drains[n]
      /\ \A d : (Held(D, d) <=> Held(C, d)) /\ (HeldOnce(C, d) => HeldOnce(D, d))
      /\ \A q \in Nat : Ordered(microtasks, drains, q) => Ordered(microtasks, dr, q)
  BY <1>1, <1>2, CallbackFacts
<1>4. Held(C, t.cap)
  <2>1. drains # <<>> /\ Top.batch \in Seq(Microtask) /\ Top \in DrainCall
    BY <1>1, <1>2, TopFacts DEF BetweenTasks, DrainCall
  <2>2. B(N) \in Site /\ C[B(N)] = Top.batch
    BY <1>1, <1>2, <2>1, TopPlaces DEF BetweenTasks
  <2>3. t.cap \in Caps(Top.batch)
    BY <1>2, <2>1, TailFacts
  <2> HIDE DEF t, C, N
  <2> QED
    BY <2>2, <2>3 DEF Held
<1> HIDE DEF dr, t, C, D, N
<1>5. t.cap \in Promise /\ t.cap \in 1 .. promises
  <2>1. t.cap \in Promise
    BY <1>3 DEF Microtask
  <2>2. t.cap <= promises
    BY <1>1, <1>4, <2>1 DEF StoreInv, C
  <2> QED
    BY <1>1, <2>1, <2>2, BoundsAssumption DEF TypeOK, Promise
<1>6. Derived' \subseteq Derived
  BY <1>2 DEF Derived
<1>7. HistoryInv' /\ InsideInv'
  BY <1>1, <1>2, <1>5, <1>6 DEF HistoryInv, InsideInv
<1>8. ThenableInv'
  <2> SUFFICES ASSUME NEW n \in DOMAIN drains', NEW i \in DOMAIN drains'[n].task,
                      drains'[n].task[i].kind = "thenable"
               PROVE  drains'[n].task[i].cap \in handedOut'
    BY DEF ThenableInv
  <2>1. CASE n = N
    <3>1. drains'[n].task = <<t>> /\ i = 1
      BY <1>2, <1>3, <2>1
    <3>2. t.kind = "thenable" /\ drains'[n].task[i].cap = t.cap
      BY <3>1
    <3> QED
      BY <1>2, <3>2
  <2>2. CASE n # N
    <3>1. n \in DOMAIN drains /\ drains'[n] = drains[n]
      BY <1>2, <1>3, <2>2
    <3> QED
      BY <1>1, <1>2, <3>1 DEF ThenableInv
  <2> QED
    BY <2>1, <2>2
<1>9. /\ StoreOK /\ StackOK(drains') /\ promises' \in 0 .. MaxPromises /\ HostOK'
      /\ inside' \in {"nothing", "executor", "getter", "then"} \X (0 .. MaxPromises)
  BY <1>1, <1>2, <1>3 DEF StoreOK, TypeOK, HostOK
<1>10. Accounts(Derived', Place(thenQueue', microtasks', drains'), value')
  <2>1. Place(thenQueue', microtasks', drains') = D /\ value' = value
    BY <1>2 DEF D
  <2>2. Accounts(Derived', D, value)
    BY <1>1, <1>3, <1>6 DEF Accounts
  <2> QED
    BY <2>1, <2>2
<1>11. StoreInv(thenQueue', microtasks', drains', value', queued', promises', inside')
  <2>1. queued \in Nat
    BY <1>1 DEF TypeOK
  <2>2. StoreInv(thenQueue, microtasks, dr, value, queued, promises, inside)
    BY <1>1, <1>3, <2>1 DEF StoreInv, C, D
  <2> QED
    BY <1>2, <2>2
<1> QED
  BY <1>7, <1>8, <1>9, <1>10, <1>11, Rebuilt

LEMMA PassThroughStep == IInv /\ PassThrough => IInv'
<1> SUFFICES ASSUME IInv, PassThrough PROVE IInv'
  OBVIOUS
<1> DEFINE t == Head(Top.batch)
           f == [Top EXCEPT !.batch = Tail(@), !.last = t.age]
           C == Place(thenQueue, microtasks, drains)
<1>1. /\ TypeOK /\ Accounts(Derived, C, value)
      /\ StoreInv(thenQueue, microtasks, drains, value, queued, promises, inside)
  BY DEF IInv, Places
<1>2. /\ drains # <<>> /\ Top.task = <<>> /\ Top.batch # <<>> /\ ~t.callback
      /\ drains' = SetTop(f)
      /\ \/ RejectFn(t.cap, t.value)
         \/ ResolveFn(t.cap, [is |-> "plain", v |-> t.value])
      /\ UNCHANGED <<promises, inTurn, inside, sampled, history>>
  BY DEF PassThrough, BetweenTasks
<1>3. Top \in DrainCall /\ Top.batch \in Seq(Microtask)
  BY <1>1, <1>2, TopFacts DEF DrainCall
<1>4. /\ t \in Microtask /\ Tail(Top.batch) \in Seq(Microtask)
      /\ t.cap \in Caps(Top.batch)
  BY <1>2, <1>3, TailFacts
<1>5. f \in DrainCall /\ f.batch = Tail(Top.batch) /\ f.task = Top.task /\ f.last = t.age
  <2>1. t.age \in Nat
    BY <1>4 DEF Microtask
  <2> HIDE DEF t
  <2> QED
    BY <1>3, <1>4, <2>1 DEF DrainCall
<1>6. Held(C, t.cap)
  <2>1. Len(Top.task) <= 1
    BY <1>2
  <2>2. B(Len(drains)) \in Site /\ C[B(Len(drains))] = Top.batch
    BY <1>1, <1>2, <1>3, <2>1, TopPlaces
  <2> HIDE DEF t, C
  <2> QED
    BY <1>4, <2>2 DEF Held
<1> HIDE DEF f
<1>7. t.cap \in Promise /\ t.value \in Values
  BY <1>2, <1>4 DEF Microtask
<1>8. (Pending(t.cap) /\ Uses(t.cap)) \/ (Settled(t.cap) /\ UNCHANGED store)
  <2> HIDE DEF t
  <2>1. CASE RejectFn(t.cap, t.value)
    BY <1>7, <2>1, RejectUses
  <2>2. CASE ResolveFn(t.cap, [is |-> "plain", v |-> t.value])
    <3> DEFINE x == [is |-> "plain", v |-> t.value]
    <3>1. x \in Resolution /\ x.is # "promise"
      BY <1>7 DEF Resolution
    <3> HIDE DEF x
    <3> QED
      BY <1>1, <1>7, <2>2, <3>1, ResolveUses DEF x
  <2> QED
    BY <1>2, <2>1, <2>2
<1>9. Settled(t.cap) => t.cap \notin Derived
  BY <1>1, <1>6 DEF Accounts, Settled
<1> QED
  BY <1>2, <1>5, <1>8, <1>9, Leaving

LEMMA ReturnsStep ==
    ASSUME IInv, NEW x \in Resolution, Returns(x)
    PROVE  IInv'
<1> DEFINE t == Top.task[1]
           f == [Top EXCEPT !.task = <<>>]
           C == Place(thenQueue, microtasks, drains)
<1>1. /\ TypeOK /\ ThenableInv /\ Accounts(Derived, C, value)
      /\ StoreInv(thenQueue, microtasks, drains, value, queued, promises, inside)
  BY DEF IInv, Places
<1>2. /\ drains # <<>> /\ Top.task # <<>> /\ inside = Nothing
      /\ x.is = "promise" => x.v <= promises
      /\ drains' = SetTop(f)
      /\ \/ t.kind = "then" /\ x.is = "promise" /\ Pending(x.v) /\ Enlist(x.v, Link(t.cap))
         \/ t.kind = "then" /\ ResolveFn(t.cap, x)
         \/ t.kind = "thenable" /\ x.is = "throwing" /\ RejectFn(t.cap, x.v)
         \/ t.kind = "thenable" /\ UNCHANGED store
      /\ UNCHANGED <<promises, inTurn, inside, sampled, history>>
  BY DEF Returns, Callback
<1>3. /\ Top \in DrainCall /\ Top = drains[Len(drains)] /\ Len(drains) \in DOMAIN drains
      /\ Top.task \in Seq(Microtask) /\ Len(Top.task) <= 1
  BY <1>1, <1>2, TopFacts DEF DrainCall, TypeOK
<1>4. DOMAIN Top.task = {1} /\ t \in Microtask /\ t.cap \in Caps(Top.task)
  BY <1>2, <1>3 DEF Caps
<1>5. f \in DrainCall /\ f.batch = Top.batch /\ f.task = <<>> /\ f.last = Top.last
  <2>1. f \in DrainCall
    <3> DEFINE u == <<>>
    <3>1. u \in Seq(Microtask) /\ f = [Top EXCEPT !.task = u]
      OBVIOUS
    <3> HIDE DEF u, f
    <3> QED
      BY <1>3, <3>1, DrainFacts
  <2> QED
    BY <1>3, <2>1 DEF DrainCall
<1>6. Held(C, t.cap)
  <2>1. R(Len(drains)) \in Site /\ C[R(Len(drains))] = Top.task
    BY <1>1, <1>2, <1>3, TopPlaces
  <2> HIDE DEF t, C
  <2> QED
    BY <1>4, <2>1 DEF Held
<1> HIDE DEF f
<1>7. t.cap \in Promise
  BY <1>4 DEF Microtask
<1>8. t.kind = "thenable" => t.cap \notin Derived
  BY <1>1, <1>3, <1>4 DEF ThenableInv, Derived
<1>9. /\ x.is = "throwing" => x.v \in Values
      /\ x.is = "promise" => x.v \in Promise /\ Named(x.v)
      /\ inside # <<"executor", x.v>>
  BY <1>2 DEF Resolution, Named, Nothing
<1>10. Settled(t.cap) => t.cap \notin Derived
  BY <1>1, <1>6 DEF Accounts, Settled
<1>11. Uses(t.cap) \/ (t.cap \notin Derived /\ UNCHANGED store)
  <2> HIDE DEF t
  <2>1. CASE x.is = "promise" /\ Pending(x.v) /\ Enlist(x.v, Link(t.cap))
    BY <1>7, <1>9, <2>1, LinkFacts DEF Uses, Pending
  <2>2. CASE ResolveFn(t.cap, x)
    BY <1>1, <1>7, <1>9, <1>10, <2>2, ResolveUses
  <2>3. CASE x.is = "throwing" /\ RejectFn(t.cap, x.v)
    BY <1>9, <1>10, <2>3, RejectUses
  <2>4. CASE t.kind = "thenable" /\ UNCHANGED store
    BY <1>8, <2>4
  <2> QED
    BY <1>2, <2>1, <2>2, <2>3, <2>4
<1> QED
  BY <1>2, <1>5, <1>11, Leaving

LEMMA NextBatchStep == IInv /\ NextBatch => IInv'
<1> SUFFICES ASSUME IInv, NextBatch PROVE IInv'
  OBVIOUS
<1> DEFINE N == Len(drains)
           f == Batch(Top.round + 1, Top.last)
<1>1. TypeOK
  BY DEF IInv
<1>2. /\ drains # <<>> /\ Top.task = <<>> /\ Top.batch = <<>> /\ drains' = SetTop(f)
      /\ QueueTaken /\ inTurn' = inTurn /\ sampled' = sampled /\ HostOK'
      /\ UNCHANGED <<promises, queued, inside, history>>
  BY <1>1 DEF NextBatch, BetweenTasks, TypeOK, HostOK
<1>3. Top \in DrainCall
  BY <1>1, <1>2, TopFacts
<1>4. /\ f \in DrainCall /\ f.batch = microtasks /\ f.task = <<>> /\ Len(f.task) <= 1
      /\ f.last = Top.last
  BY <1>1, <1>3 DEF Batch, DrainCall, TypeOK
<1> HIDE DEF f
<1>5. /\ N \in DOMAIN drains /\ Top = drains[N]
      /\ \A n \in DOMAIN drains : n \in Nat /\ n <= N
      /\ StackOK(drains') /\ DOMAIN drains' = DOMAIN drains /\ drains'[N] = f
      /\ \A n \in DOMAIN drains : n # N => drains'[n] = drains[n]
  BY <1>1, <1>2, <1>4, TopFacts
<1> HIDE DEF N
<1>6. /\ N \in DOMAIN drains'
      /\ drains'[N].batch = microtasks /\ drains'[N].task = <<>>
      /\ drains[N].batch = <<>> /\ drains[N].task = <<>>
      /\ drains'[N].last = drains[N].last
      /\ \A n \in DOMAIN drains' : n <= N
      /\ \A n \in Nat : n # N => (n \in DOMAIN drains' <=> n \in DOMAIN drains)
  BY <1>2, <1>4, <1>5
<1> QED
  BY <1>2, <1>5, <1>6, Taking

\* A new drain takes the queue.
LEMMA NewDrainStep ==
    ASSUME IInv, drains' = Append(drains, Batch(1, 0)), QueueTaken, HostOK',
           UNCHANGED <<promises, queued, inside, history>>
    PROVE  IInv'
<1> DEFINE N == Len(drains) + 1
           f == Batch(1, 0)
<1>1. TypeOK
  BY DEF IInv
<1>2. drains \in Seq(DrainCall) /\ \A n \in DOMAIN drains : Len(drains[n].task) <= 1
  BY <1>1 DEF TypeOK
<1>3. /\ f \in DrainCall /\ f.batch = microtasks /\ f.task = <<>> /\ Len(f.task) <= 1
      /\ f.last = 0
  BY <1>1 DEF Batch, DrainCall, TypeOK
<1> HIDE DEF f
<1>4. /\ drains' \in Seq(DrainCall) /\ DOMAIN drains' = DOMAIN drains \cup {N} /\ drains'[N] = f
      /\ N \notin DOMAIN drains
      /\ \A n \in DOMAIN drains : drains'[n] = drains[n] /\ n \in Nat /\ n <= N
  BY <1>2, <1>3 DEF f
<1>5. StackOK(drains')
  BY <1>2, <1>3, <1>4 DEF StackOK
<1>6. N <= N
  BY <1>2
<1> HIDE DEF N
<1>7. /\ N \in DOMAIN drains'
      /\ drains'[N].batch = microtasks /\ drains'[N].task = <<>> /\ drains'[N].last = 0
      /\ N \notin DOMAIN drains
      /\ \A n \in DOMAIN drains' : n <= N
      /\ \A n \in Nat : n # N => (n \in DOMAIN drains' <=> n \in DOMAIN drains)
      /\ \A n \in DOMAIN drains : n # N => drains'[n] = drains[n]
  BY <1>3, <1>4, <1>6
<1> QED
  BY <1>5, <1>7, Taking

LEMMA DrainEndsStep == IInv /\ DrainEnds => IInv'
<1> SUFFICES ASSUME IInv, DrainEnds PROVE IInv'
  OBVIOUS
<1> DEFINE N == Len(drains)
           C == Place(thenQueue, microtasks, drains)
           D == Place(thenQueue, microtasks, drains')
<1>1. /\ TypeOK /\ HistoryInv /\ InsideInv /\ ThenableInv
      /\ Accounts(Derived, C, value)
      /\ StoreInv(thenQueue, microtasks, drains, value, queued, promises, inside)
  BY DEF IInv, Places
<1>2. /\ drains # <<>> /\ Top.task = <<>> /\ Top.batch = <<>>
      /\ drains' = SubSeq(drains, 1, N - 1)
      /\ queued' = queued \/ (queued' = 0 /\ N = 1 /\ microtasks = <<>>)
      /\ promises' = promises /\ value' = value /\ rejected' = rejected
      /\ thenQueue' = thenQueue /\ microtasks' = microtasks
      /\ inTurn' = inTurn /\ sampled' = sampled /\ inside' = inside
      /\ derived' = derived /\ handedOut' = handedOut /\ Derived' = Derived
  BY DEF DrainEnds, BetweenTasks, promiseVars, history, Derived
<1>3. /\ N \in Nat /\ N \in DOMAIN drains /\ Top = drains[N]
      /\ drains \in Seq(DrainCall) /\ DOMAIN drains = 1 .. N
      /\ \A n \in DOMAIN drains : Len(drains[n].task) <= 1
  BY <1>1, <1>2, TopFacts DEF TypeOK
<1>4. /\ drains' \in Seq(DrainCall) /\ DOMAIN drains' = 1 .. N - 1
      /\ \A n \in DOMAIN drains' : n \in DOMAIN drains /\ drains'[n] = drains[n]
      /\ \A n \in DOMAIN drains : n \notin DOMAIN drains' => n = N
  BY <1>2, <1>3
<1>5. StackOK(drains')
  BY <1>3, <1>4 DEF StackOK
<1>6. \A s \in Site : D[s] = C[s]
  <2> SUFFICES ASSUME NEW s \in Site PROVE D[s] = C[s]
    OBVIOUS
  <2>1. CASE (\E p \in Promise : s = W(p)) \/ s = Q
    BY <2>1, PlaceFacts
  <2>2. CASE \E n \in Nat : s = B(n) \/ s = R(n)
    <3>1. PICK n \in Nat : s = B(n) \/ s = R(n)
      BY <2>2
    <3>2. CASE n \in DOMAIN drains'
      BY <1>4, <3>1, <3>2, PlaceFacts
    <3>3. CASE n \in DOMAIN drains /\ n \notin DOMAIN drains'
      <4>1. n = N /\ drains[n].batch = <<>> /\ drains[n].task = <<>>
        BY <1>2, <1>3, <1>4, <3>3
      <4>2. /\ C[B(n)] = <<>> /\ C[R(n)] = <<>>
        BY <3>3, <4>1, PlaceFacts
      <4>3. D[B(n)] = <<>> /\ D[R(n)] = <<>>
        BY <3>3, PlaceFacts
      <4> QED
        BY <3>1, <4>2, <4>3
    <3>4. CASE n \notin DOMAIN drains
      <4>1. n \notin DOMAIN drains'
        BY <1>4, <3>4
      <4> QED
        BY <3>1, <3>4, <4>1, PlaceFacts
    <3> QED
      BY <3>2, <3>3, <3>4
  <2> QED
    BY <2>1, <2>2, SiteFacts
<1>7. Ordered(microtasks, drains', queued')
  <2>1. Ordered(microtasks, drains, queued)
    BY <1>1 DEF StoreInv
  <2>2. CASE queued' = queued
    <3>1. \A n \in DOMAIN drains' :
              /\ n \in DOMAIN drains
              /\ \/ drains'[n].batch = drains[n].batch /\ drains'[n].last = drains[n].last
                 \/ /\ drains[n].batch # <<>> /\ drains'[n].batch = Tail(drains[n].batch)
                    /\ drains'[n].last = Head(drains[n].batch).age
      BY <1>4
    <3> QED
      BY <1>3, <2>1, <2>2, <3>1, OrderKept
  <2>3. CASE queued' = 0 /\ N = 1 /\ microtasks = <<>>
    <3>1. DOMAIN drains' = {}
      BY <1>4, <2>3
    <3> QED
      BY <2>3, <3>1 DEF Ordered, Ascending, UpTo, After
  <2> QED
    BY <1>2, <2>2, <2>3
<1> HIDE DEF C, D, N
<1>8. \A d : (Held(D, d) <=> Held(C, d)) /\ (HeldOnce(C, d) => HeldOnce(D, d))
  BY <1>6 DEF Held, HeldOnce
<1>9. Accounts(Derived', Place(thenQueue', microtasks', drains'), value')
  <2>1. Accounts(Derived, D, value)
    BY <1>1, <1>8 DEF Accounts
  <2> QED
    BY <1>2, <2>1 DEF D
<1>10. StoreInv(thenQueue', microtasks', drains', value', queued', promises', inside')
  <2>1. StoreInv(thenQueue, microtasks, drains', value, queued', promises, inside)
    BY <1>1, <1>7, <1>8 DEF StoreInv, C, D
  <2> QED
    BY <1>2, <2>1
<1>11. HistoryInv' /\ InsideInv' /\ ThenableInv'
  BY <1>1, <1>2, <1>4 DEF HistoryInv, InsideInv, ThenableInv
<1>12. /\ StoreOK /\ promises' \in 0 .. MaxPromises /\ HostOK'
       /\ inside' \in {"nothing", "executor", "getter", "then"} \X (0 .. MaxPromises)
  BY <1>1, <1>2 DEF StoreOK, TypeOK, HostOK
<1> QED
  BY <1>5, <1>9, <1>10, <1>11, <1>12, Rebuilt

LEMMA SettleableFacts ==
    ASSUME NEW p, Settleable(p)
    PROVE  p <= promises /\ p \notin Derived
  BY DEF Settleable, Derived

LEMMA ResolveStep ==
    ASSUME IInv, NEW p \in Promise, NEW x \in Resolution, Resolve(p, x)
    PROVE  IInv'
<1>1. TypeOK
  BY DEF IInv
<1>2. /\ x.is = "promise" => Named(x.v)
      /\ ResolveFn(p, x) /\ UNCHANGED <<promises, drains, inTurn, inside, sampled, history>>
  BY DEF Resolve, SameJob
<1>3. p <= promises /\ p \notin Derived
  BY SettleableFacts DEF Resolve
<1>4. Uses(p) \/ UNCHANGED store
  BY <1>1, <1>2, ResolveUses
<1> QED
  BY <1>2, <1>3, <1>4, Settling

LEMMA RejectStep ==
    ASSUME IInv, NEW p \in Promise, NEW v \in Values, Reject(p, v)
    PROVE  IInv'
<1>1. RejectFn(p, v) /\ UNCHANGED <<promises, drains, inTurn, inside, sampled, history>>
  BY DEF Reject, SameJob
<1>2. p <= promises /\ p \notin Derived
  BY SettleableFacts DEF Reject
<1>3. Uses(p) \/ UNCHANGED store
  BY <1>1, RejectUses
<1> QED
  BY <1>1, <1>2, <1>3, Settling

LEMMA ThenReadStep ==
    ASSUME IInv, NEW v \in Values, ThenRead(v)
    PROVE  IInv'
<1> DEFINE p == inside[2]
<1>1. /\ inside[1] = "getter" /\ Settle(p, v, FALSE) /\ inside' = Nothing
      /\ UNCHANGED <<promises, drains, inTurn, sampled, history>>
  BY DEF ThenRead
<1>2. p \in Promise /\ p <= promises /\ p \notin Derived
  BY <1>1, BoundsAssumption DEF IInv, InsideInv, TypeOK, Promise
<1> HIDE DEF p
<1>3. Uses(p)
  BY <1>1 DEF Uses
<1> QED
  BY <1>1, <1>2, <1>3, Settling

LEMMA ReadThenStep ==
    ASSUME IInv, NEW p \in Promise, ReadThen(p)
    PROVE  IInv'
<1>1. inside' = <<"getter", p>> /\ UNCHANGED <<promises, store, drains, inTurn, sampled, history>>
  BY DEF ReadThen
<1>2. p <= promises /\ p \notin Derived
  BY SettleableFacts DEF ReadThen
<1>3. HostOK'
  BY <1>1 DEF IInv, TypeOK, HostOK
<1> QED
  BY <1>1, <1>2, <1>3, QuietStep

LEMMA TurnEndsStep == IInv /\ TurnEnds => IInv'
<1> SUFFICES ASSUME IInv, TurnEnds PROVE IInv'
  OBVIOUS
<1>1. /\ drains = <<>> /\ drains' = <<Batch(1, 0)>> /\ QueueTaken /\ HostOK'
      /\ UNCHANGED <<promises, queued, inside, history>>
  BY DEF TurnEnds, IInv, TypeOK, HostOK
<1>2. drains' = Append(drains, Batch(1, 0))
  <2> DEFINE f == Batch(1, 0)
  <2>1. drains' = <<f>> /\ drains = <<>>
    BY <1>1
  <2> HIDE DEF f
  <2>2. drains' = Append(drains, f)
    BY <2>1
  <2> QED
    BY <2>2 DEF f
<1> QED
  BY <1>1, <1>2, NewDrainStep

LEMMA NextIInv == IInv /\ [Next]_vars => IInv'
<1> SUFFICES ASSUME IInv, [Next]_vars PROVE IInv'
  OBVIOUS
<1>1. HostOK
  BY DEF IInv, TypeOK, HostOK
<1>2. CASE New
  BY <1>2, NewStep
<1>3. CASE ExecutorReturns
  BY <1>1, <1>3, QuietStep DEF ExecutorReturns, HostOK
<1>4. CASE NestedDrain
  BY <1>1, <1>4, NewDrainStep DEF NestedDrain, HostOK
<1>5. ASSUME NEW v \in Values, ExecutorThrows(v) PROVE IInv'
  BY <1>5, ExecutorThrowsStep
<1>6. ASSUME NEW v \in Values, ThenRead(v) PROVE IInv'
  BY <1>6, ThenReadStep
<1>7. ASSUME NEW p \in Promise, ReadThen(p) PROVE IInv'
  BY <1>7, ReadThenStep
<1>8. ASSUME NEW p \in Promise, NEW v \in Values, Reject(p, v) PROVE IInv'
  BY <1>8, RejectStep
<1>9. ASSUME NEW p \in Promise, NEW x \in Resolution, Resolve(p, x) PROVE IInv'
  BY <1>9, ResolveStep
<1>10. ASSUME NEW p \in Promise, NEW h \in Handlers, Then(p, h[1], h[2]) PROVE IInv'
  <2>1. h[1] \in BOOLEAN /\ h[2] \in BOOLEAN
    BY HandlersAssumption
  <2> QED
    BY <1>10, <2>1, ThenStep
<1>19. ASSUME NEW p \in Promise, NEW h \in Handlers, ThenReads(p, h[1], h[2]) PROVE IInv'
  <2>1. h[1] \in BOOLEAN /\ h[2] \in BOOLEAN
    BY HandlersAssumption
  <2> QED
    BY <1>19, <2>1, ThenReadsStep
<1>20. CASE ThenRegisters
  BY <1>20, ThenRegistersStep
<1>21. CASE ThenThrows
  BY <1>21, ThenThrowsStep
<1>11. ASSUME NEW x \in Resolution, Returns(x) PROVE IInv'
  BY <1>11, ReturnsStep
<1>12. CASE TurnEnds
  BY <1>12, TurnEndsStep
<1>13. CASE RunCallback
  BY <1>13, RunCallbackStep
<1>14. CASE PassThrough
  BY <1>14, PassThroughStep
<1>15. CASE NextBatch
  BY <1>15, NextBatchStep
<1>16. CASE DrainEnds
  BY <1>16, DrainEndsStep
<1>17. CASE NextTurn
  <2>1. inTurn' = TRUE /\ sampled' = sampled /\ HostOK
    BY <1>1, <1>17 DEF NextTurn, HostOK, TypeOK
  <2>2. HostOK'
    BY <2>1 DEF HostOK
  <2> QED
    BY <1>17, <2>2, QuietStep DEF NextTurn
<1>18. CASE UNCHANGED vars
  BY <1>1, <1>18, QuietStep DEF vars, HostOK
<1> QED
  BY <1>2, <1>3, <1>4, <1>5, <1>6, <1>7, <1>8, <1>9, <1>10, <1>11, <1>12, <1>13,
     <1>14, <1>15, <1>16, <1>17, <1>18, <1>19, <1>20, <1>21 DEF Next, Javascript, Engine

LEMMA Inductive == Spec => []IInv
  BY InitIInv, NextIInv, PTL DEF Spec

----------------------------------------------------------------------------
(* The theorems.                                                            *)

\* The state keeps its types, and no drain runs more than one callback.
THEOREM TypeCorrect == Spec => []TypeOK
<1>1. IInv => TypeOK
  BY DEF IInv
<1> QED
  BY <1>1, Inductive, PTL

\* A reaction that waits for a settled promise came too late, from a then()
\* whose getters settled the promise after it had looked: settle_promise, the
\* resolve functions, links and executors that throw leave none behind
\* (vm.rs:4715, 31811, 31843).
THEOREM NoReactionForgotten == Spec => []NobodyLeftWaiting
<1>1. IInv => NobodyLeftWaiting
  BY DEF IInv, StoreInv, NobodyLeftWaiting, Settled, AllLate
<1> QED
  BY <1>1, Inductive, PTL

\* No drain begins a task after a younger one, and what is left of the nested
\* drains and in the queue is in the order it was queued, the younger levels
\* innermost (vm.rs:46672-46676).
THEOREM TasksInOrder == Spec => []InOrder
<1>1. ASSUME IInv PROVE InOrder
  <2> DEFINE N == Len(drains)
  <2>1. /\ N \in Nat /\ DOMAIN drains = 1 .. N
        /\ microtasks \in Seq(Microtask)
    BY <1>1 DEF IInv, TypeOK
  <2>2. Ordered(microtasks, drains, queued)
    BY <1>1 DEF IInv, StoreInv
  <2> HIDE DEF N
  <2> SUFFICES ASSUME NEW m \in 1 .. N + 1, NEW n \in 1 .. N + 1, NEW b \in DOMAIN Level(n)
               PROVE  /\ m \in DOMAIN drains /\ m <= n => drains[m].last < Level(n)[b].age
                      /\ \A a \in DOMAIN Level(m) :
                            m < n \/ (m = n /\ a < b) => Level(m)[a].age < Level(n)[b].age
    BY DEF InOrder, N
  <2>3. ASSUME m = n, NEW a \in DOMAIN Level(m), a < b
        PROVE  Level(m)[a].age < Level(n)[b].age
    <3>1. Ascending(Level(m))
      BY <2>2 DEF Ordered, Level
    <3> QED
      BY <2>3, <3>1 DEF Ascending
  <2>4. ASSUME m < n, NEW a \in DOMAIN Level(m)
        PROVE  Level(m)[a].age < Level(n)[b].age
    <3>1. m \in DOMAIN drains /\ Level(m) = drains[m].batch
      BY <2>1, <2>4 DEF Level
    <3>2. Older(Level(m), Level(n))
      BY <2>2, <2>4, <3>1 DEF Ordered, Level
    <3> QED
      BY <2>4, <3>2 DEF Older
  <2>5. ASSUME m \in DOMAIN drains, m <= n
        PROVE  drains[m].last < Level(n)[b].age
    <3>1. After(drains[m].last, Level(n))
      BY <2>2, <2>5 DEF Ordered, Level
    <3> QED
      BY <3>1 DEF After
  <2> QED
    BY <2>3, <2>4, <2>5
<1> QED
  BY <1>1, Inductive, PTL

LEMMA SitesFacts ==
    ASSUME TypeOK
    PROVE  \A s \in Site : /\ s \in Sites => Contents(s) = Places[s]
                           /\ s \notin Sites => Places[s] = <<>>
<1>1. DOMAIN drains \subseteq Nat
  BY DEF TypeOK
<1> SUFFICES ASSUME NEW s \in Site
             PROVE  /\ s \in Sites => Contents(s) = Places[s]
                    /\ s \notin Sites => Places[s] = <<>>
  OBVIOUS
<1>2. CASE \E p \in Promise : s = W(p)
  <2>1. PICK p \in Promise : s = W(p)
    BY <1>2
  <2>2. s \in Sites /\ Contents(s) = thenQueue[p]
    BY <2>1 DEF Sites, Contents, W
  <2> QED
    BY <2>1, <2>2, PlaceFacts DEF Places
<1>3. CASE s = Q
  <2>1. s \in Sites /\ Contents(s) = microtasks
    BY <1>3 DEF Sites, Contents, Q
  <2> QED
    BY <1>3, <2>1, PlaceFacts DEF Places
<1>4. ASSUME NEW n \in Nat, s = B(n)
      PROVE  /\ s \in Sites => Contents(s) = Places[s]
             /\ s \notin Sites => Places[s] = <<>>
  <2>1. /\ s \in Sites <=> n \in DOMAIN drains
        /\ Contents(s) = drains[n].batch
    BY <1>4 DEF Sites, Contents, B
  <2> QED
    BY <1>4, <2>1, PlaceFacts DEF Places
<1>5. ASSUME NEW n \in Nat, s = R(n)
      PROVE  /\ s \in Sites => Contents(s) = Places[s]
             /\ s \notin Sites => Places[s] = <<>>
  <2>1. /\ s \in Sites <=> n \in DOMAIN drains
        /\ Contents(s) = drains[n].task
    BY <1>5 DEF Sites, Contents, R
  <2> QED
    BY <1>5, <2>1, PlaceFacts DEF Places
<1> QED
  BY <1>2, <1>3, <1>4, <1>5, SiteFacts

\* As long as a promise that then() returned is pending, exactly one reaction,
\* microtask or running callback has its resolve functions; afterwards none
\* has (vm.rs:4717, 46679, 46775).
THEOREM HeldByOne == Spec => []OneHolder
<1>1. ASSUME IInv PROVE OneHolder
  <2> SUFFICES ASSUME NEW d \in derived \ handedOut
               PROVE  Cardinality(Holders(d)) = IF Pending(d) THEN 1 ELSE 0
    BY DEF OneHolder
  <2>1. TypeOK /\ d \in Derived /\ d \in 1 .. promises
    BY <1>1 DEF IInv, Derived, HistoryInv
  <2>2. /\ HeldOnce(Places, d)
        /\ Pending(d) <=> Held(Places, d)
    BY <1>1, <2>1 DEF IInv, Accounts, Pending
  <2>3. Sites \subseteq Site
    BY <2>1 DEF Sites, Site, Q, TypeOK
  <2>4. \A z : z \in Holders(d) <=>
            \E s \in Sites : \E i \in DOMAIN Contents(s) : Contents(s)[i].cap = d /\ z = <<s, i>>
    BY DEF Holders
  <2>5. \A z : z \in Holders(d) <=>
            \E s \in Site : \E i \in DOMAIN Places[s] : Places[s][i].cap = d /\ z = <<s, i>>
    BY <2>1, <2>3, <2>4, SitesFacts
  <2>6. CASE ~Pending(d)
    <3>1. Holders(d) = {}
      BY <2>2, <2>5, <2>6 DEF Held, Caps
    <3> QED
      BY <2>6, <3>1, FS_EmptySet
  <2>7. CASE Pending(d)
    <3>1. PICK s \in Site : \E i \in DOMAIN Places[s] : Places[s][i].cap = d
      BY <2>2, <2>7 DEF Held, Caps
    <3>2. PICK i \in DOMAIN Places[s] : Places[s][i].cap = d
      BY <3>1
    <3>3. ASSUME NEW t \in Site, NEW j \in DOMAIN Places[t], Places[t][j].cap = d
          PROVE  t = s /\ j = i
      <4>1. t = s
        BY <2>2, <3>2, <3>3 DEF HeldOnce, Caps
      <4> QED
        BY <2>2, <3>2, <3>3, <4>1 DEF HeldOnce, Once
    <3>4. Holders(d) = {<<s, i>>}
      BY <2>5, <3>2, <3>3
    <3> QED
      BY <2>7, <3>4, FS_Singleton
  <2> QED
    BY <2>6, <2>7
<1> QED
  BY <1>1, Inductive, PTL

\* The outcome of p stays.
Keeps(p) == value'[p] = value[p] /\ rejected'[p] = rejected[p]

LEMMA SettleKeeps ==
    ASSUME TypeOK, NEW p \in Promise, Settled(p), NEW y, Pending(y), NEW v, NEW r, Settle(y, v, r)
    PROVE  Keeps(p)
  BY DEF TypeOK, Settle, Settled, Pending, Keeps

LEMMA FunctionsKeep ==
    ASSUME TypeOK, NEW p \in Promise, Settled(p)
    PROVE  /\ \A y, react : Enlist(y, react) => Keeps(p)
           /\ \A task : Enqueue(task) => Keeps(p)
           /\ UNCHANGED store => Keeps(p)
           /\ QueueTaken => Keeps(p)
           /\ \A y, v : RejectFn(y, v) => Keeps(p)
           /\ \A y, x : ResolveFn(y, x) => Keeps(p)
           /\ \A y, s, c : ThenFn(y, s, c) => Keeps(p)
<1>1. \A y, react : Enlist(y, react) => Keeps(p)
  BY DEF Enlist, promiseVars, Keeps
<1>2. \A task : Enqueue(task) => Keeps(p)
  BY DEF Enqueue, promiseVars, Keeps
<1>3. UNCHANGED store => Keeps(p)
  BY DEF store, promiseVars, Keeps
<1>4. QueueTaken => Keeps(p)
  BY DEF QueueTaken, promiseVars, Keeps
<1>5. ASSUME NEW y, NEW v, RejectFn(y, v) PROVE Keeps(p)
  BY <1>3, <1>5, SettleKeeps DEF RejectFn
<1>6. ASSUME NEW y, NEW x, ResolveFn(y, x) PROVE Keeps(p)
  BY <1>1, <1>2, <1>3, <1>6, SettleKeeps DEF ResolveFn
<1>7. ASSUME NEW y, NEW s, NEW c, ThenFn(y, s, c) PROVE Keeps(p)
  BY <1>1, <1>2, <1>7 DEF ThenFn
<1> QED
  BY <1>1, <1>2, <1>3, <1>4, <1>5, <1>6, <1>7

\* An outcome is final, but for the two windows of the code: the constructor
\* rejects when its executor throws, settled or not, and a resolve function
\* does not look again once it has read `then` (vm.rs:23917, 4784-4816).
THEOREM OutcomesKept == Spec => OutcomeKept
<1>1. ASSUME TypeOK, [Next]_vars, NEW p \in Promise, Settled(p)
      PROVE  Keeps(p) \/ (inside \in {"executor", "getter"} \X {p} /\ inside' = Nothing)
  <2> USE <1>1
  <2>1. ASSUME NEW v \in Values, ExecutorThrows(v)
        PROVE  Keeps(p) \/ (inside \in {"executor", "getter"} \X {p} /\ inside' = Nothing)
    BY <2>1 DEF ExecutorThrows, Keeps, TypeOK
  <2>2. ASSUME NEW v \in Values, ThenRead(v)
        PROVE  Keeps(p) \/ (inside \in {"executor", "getter"} \X {p} /\ inside' = Nothing)
    BY <2>2 DEF ThenRead, Settle, Keeps, TypeOK
  <2>3. CASE New \/ ExecutorReturns \/ NestedDrain
    BY <2>3, FunctionsKeep DEF New, ExecutorReturns, NestedDrain
  <2>4. ASSUME NEW q \in Promise, ReadThen(q) PROVE Keeps(p)
    BY <2>4, FunctionsKeep DEF ReadThen
  <2>5. ASSUME NEW q \in Promise, NEW v \in Values, Reject(q, v) PROVE Keeps(p)
    BY <2>5, FunctionsKeep DEF Reject
  <2>6. ASSUME NEW q \in Promise, NEW x \in Resolution, Resolve(q, x) PROVE Keeps(p)
    BY <2>6, FunctionsKeep DEF Resolve
  <2>7. ASSUME NEW q \in Promise, NEW h \in Handlers, Then(q, h[1], h[2]) PROVE Keeps(p)
    BY <2>7, FunctionsKeep DEF Then
  <2>13. CASE ThenRegisters \/ ThenThrows
    BY <2>13, FunctionsKeep DEF ThenRegisters, ThenThrows
  <2>14. ASSUME NEW q \in Promise, NEW h \in Handlers, ThenReads(q, h[1], h[2]) PROVE Keeps(p)
    BY <2>14, FunctionsKeep DEF ThenReads
  <2>8. ASSUME NEW x \in Resolution, Returns(x) PROVE Keeps(p)
    BY <2>8, FunctionsKeep DEF Returns
  <2>9. CASE TurnEnds \/ RunCallback \/ NextBatch \/ NextTurn
    BY <2>9, FunctionsKeep DEF TurnEnds, RunCallback, NextBatch, NextTurn
  <2>10. CASE PassThrough
    BY <2>10, FunctionsKeep DEF PassThrough
  <2>11. CASE DrainEnds
    BY <2>11 DEF DrainEnds, promiseVars, Keeps
  <2>12. CASE UNCHANGED vars
    BY <2>12, FunctionsKeep DEF vars
  <2> QED
    BY <2>1, <2>2, <2>3, <2>4, <2>5, <2>6, <2>7, <2>8, <2>9, <2>10, <2>11, <2>12,
       <2>13, <2>14
    DEF Next, Javascript, Engine
<1>2. ASSUME TypeOK, [Next]_vars
      PROVE  [\A p \in Promise : Settled(p) =>
                 \/ value'[p] = value[p] /\ rejected'[p] = rejected[p]
                 \/ inside \in {"executor", "getter"} \X {p} /\ inside' = Nothing]_vars
  BY <1>1, <1>2 DEF Keeps
<1> QED
  BY <1>2, TypeCorrect, PTL DEF Spec, OutcomeKept
=============================================================================
