------------------------- MODULE TryStatementsProofs -------------------------
(***************************************************************************)
(* The VM keeps the handlers of TryStatements in order, whatever programs  *)
(* it runs, as long as their code nests (TryNesting).  For code that does, *)
(* let `at` give the levels of every instruction that can be reached.  The *)
(* inductive invariant is that the levels of the running instruction       *)
(* describe the state: the handlers of the running function are theirs,    *)
(* one for one, and above each there are at least as many values as they   *)
(* say; and that the same holds, at the place where it will go on, of      *)
(* every frame that waits for a call and, of what it has saved, of every   *)
(* suspended generator and async function.  The first half is about        *)
(* sequences and about levels; then there is a lemma for each step of the  *)
(* VM.  HandlersNest alone is not inductive: a handler's depth must be     *)
(* known to find the stack as its catch block expects it, and the callers' *)
(* handlers to find theirs after a return or a throw.                      *)
(***************************************************************************)
EXTENDS TryNesting, FiniteSetTheorems, SequenceTheorems, WellFoundedInduction,
        TLAPS

\* The stack and the log hold values of any kind: a sequence of some set.
IsSeq(s) == \E S : s \in Seq(S)

\* What that tells.
LEMMA SeqType ==
    ASSUME NEW s, IsSeq(s)
    PROVE  Len(s) \in Nat /\ DOMAIN s = 1 .. Len(s) /\ (s = <<>> <=> Len(s) = 0)
BY DEF IsSeq

\* A function on 1 .. n is one.
LEMMA MakesSeq ==
    ASSUME NEW s, NEW n \in Nat, s = [i \in 1 .. n |-> s[i]]
    PROVE  IsSeq(s) /\ Len(s) = n
<1> DEFINE S == {s[i] : i \in 1 .. n}
<1>1. s \in [1 .. n -> S]
  OBVIOUS
<1>2. s \in Seq(S)
  BY <1>1
<1>3. Len(s) = n
  BY <1>1, <1>2
<1> QED
  BY <1>2, <1>3 DEF IsSeq

\* And the other way round.
LEMMA SeqFunction ==
    ASSUME NEW s, IsSeq(s)
    PROVE  s = [i \in 1 .. Len(s) |-> s[i]]
BY DEF IsSeq

\* SetLocal and the other assignments to a slot keep the length.
LEMMA SeqExcept ==
    ASSUME NEW s, IsSeq(s), NEW i, NEW v
    PROVE  IsSeq([s EXCEPT ![i] = v]) /\ Len([s EXCEPT ![i] = v]) = Len(s)
<1> DEFINE t == [s EXCEPT ![i] = v]
<1>1. Len(s) \in Nat
  BY SeqType
<1>2. t = [j \in 1 .. Len(s) |-> t[j]]
  BY SeqFunction
<1> HIDE DEF t
<1>3. IsSeq(t) /\ Len(t) = Len(s)
  BY <1>1, <1>2, MakesSeq
<1> QED
  BY <1>3 DEF t

\* A push.
LEMMA SeqAppend ==
    ASSUME NEW s, IsSeq(s), NEW v
    PROVE  IsSeq(Append(s, v)) /\ Len(Append(s, v)) = Len(s) + 1 /\ Append(s, v) # <<>>
<1>1. PICK S : s \in Seq(S)
  BY DEF IsSeq
<1>2. s \in Seq(S \cup {v})
  BY <1>1
<1>3. Append(s, v) \in Seq(S \cup {v}) /\ Len(Append(s, v)) = Len(s) + 1
  BY <1>2
<1> QED
  BY <1>3 DEF IsSeq

\* The saved part of a stack put back.
LEMMA SeqConcat ==
    ASSUME NEW s, IsSeq(s), NEW t, IsSeq(t)
    PROVE  IsSeq(s \o t) /\ Len(s \o t) = Len(s) + Len(t)
<1>1. PICK S : s \in Seq(S)
  BY DEF IsSeq
<1>2. PICK T : t \in Seq(T)
  BY DEF IsSeq
<1>3. s \in Seq(S \cup T) /\ t \in Seq(S \cup T)
  BY <1>1, <1>2
<1>4. s \o t \in Seq(S \cup T) /\ Len(s \o t) = Len(s) + Len(t)
  BY <1>3
<1> QED
  BY <1>4 DEF IsSeq

\* The handlers that stay when a function returns, or an exception unwinds.
LEMMA SeqPrefix ==
    ASSUME NEW S, NEW s \in Seq(S), NEW m \in 0 .. Len(s)
    PROVE  /\ SubSeq(s, 1, m) \in Seq(S) /\ Len(SubSeq(s, 1, m)) = m
           /\ \A n \in 1 .. m : SubSeq(s, 1, m)[n] = s[n]
OBVIOUS

\* try_stack.pop() leaves all but the last.
LEMMA SeqFront ==
    ASSUME NEW S, NEW s \in Seq(S), s # <<>>
    PROVE  /\ Front(s) = SubSeq(s, 1, Len(s) - 1) /\ Len(s) - 1 \in 0 .. Len(s)
           /\ Last(s) = s[Len(s)] /\ Last(s) \in S /\ Len(s) \in 1 .. Len(s)
<1>1. Len(s) \in Nat \ {0}
  OBVIOUS
<1>2. s[Len(s)] \in S
  BY <1>1
<1> QED
  BY <1>1, <1>2 DEF Front, Last

\* stack.truncate(m).
LEMMA SeqCut ==
    ASSUME NEW s, IsSeq(s), NEW m \in 0 .. Len(s)
    PROVE  IsSeq(SubSeq(s, 1, m)) /\ Len(SubSeq(s, 1, m)) = m
BY SeqPrefix DEF IsSeq

\* A pop.
LEMMA SeqFrontCut ==
    ASSUME NEW s, IsSeq(s), s # <<>>
    PROVE  IsSeq(Front(s)) /\ Len(Front(s)) = Len(s) - 1
<1>1. PICK S : s \in Seq(S)
  BY DEF IsSeq
<1> QED
  BY <1>1, SeqFront, SeqPrefix DEF IsSeq

\* stack.split_off(m): what a suspension saves.
LEMMA SeqFrom ==
    ASSUME NEW s, IsSeq(s), NEW m \in 0 .. Len(s)
    PROVE  IsSeq(SubSeq(s, m + 1, Len(s))) /\ Len(SubSeq(s, m + 1, Len(s))) = Len(s) - m
<1>1. PICK S : s \in Seq(S)
  BY DEF IsSeq
<1>2. SubSeq(s, m + 1, Len(s)) \in Seq(S) /\ Len(SubSeq(s, m + 1, Len(s))) = Len(s) - m
  BY <1>1
<1> QED
  BY <1>2 DEF IsSeq

\* try_stack.push.
LEMMA SeqAppended ==
    ASSUME NEW S, NEW s \in Seq(S), NEW v \in S
    PROVE  /\ Append(s, v) \in Seq(S) /\ Len(Append(s, v)) = Len(s) + 1
           /\ Append(s, v)[Len(s) + 1] = v
           /\ \A n \in 1 .. Len(s) : Append(s, v)[n] = s[n]
OBVIOUS

\* Where the j-th level of s begins and where it ends: its handlers are
\* those of ts after a, below them is base, and above them the stack up to top.
Floor(ts, a, base, j) == IF j = 1 THEN base ELSE Depth(ts[a + j - 1])
Ceiling(s, ts, a, top, j) == IF j = Len(s) THEN top ELSE Depth(ts[a + j])

\* The levels s are those of the handlers a + 1 .. b of ts, one for one, and
\* every level has at least the values that it says.
Holds(s, base, ts, a, b, top) ==
    /\ b = a + Len(s) - 1
    /\ \A j \in 2 .. Len(s) :
          ts[a + j - 1].catch = s[j].catch /\ ts[a + j - 1].binding = s[j].binding
    /\ \A i, j \in 1 .. Len(s) :
          i <= j => Floor(ts, a, base, i) + s[i].least <= Ceiling(s, ts, a, top, j)

\* Levels and handlers that can be counted with.
Leasts(s) == IsSeq(s) /\ s # <<>> /\ \A j \in 1 .. Len(s) : s[j].least \in Nat
Depths(ts) == IsSeq(ts) /\ \A n \in 1 .. Len(ts) : Depth(ts[n]) \in Nat

\* What Leasts tells.
LEMMA LeastsType ==
    ASSUME NEW s, Leasts(s)
    PROVE  /\ Len(s) \in Nat /\ Len(s) > 0 /\ Len(s) - 1 \in 0 .. Len(s)
           /\ Len(s) \in 1 .. Len(s)
           /\ DOMAIN s = 1 .. Len(s) /\ \A j \in 1 .. Len(s) : s[j].least \in Nat
BY SeqType DEF Leasts

\* What Depths tells.
LEMMA DepthsType ==
    ASSUME NEW ts, Depths(ts)
    PROVE  /\ Len(ts) \in Nat /\ DOMAIN ts = 1 .. Len(ts)
           /\ \A n \in 1 .. Len(ts) : Depth(ts[n]) \in Nat
BY SeqType DEF Depths

\* The bounds of all levels are numbers.
LEMMA HoldsType ==
    ASSUME NEW s, Leasts(s), NEW ts, Depths(ts), NEW a \in Nat, NEW b \in 0 .. Len(ts),
           NEW base \in Nat, NEW top \in Nat, b = a + Len(s) - 1
    PROVE  \A j \in 1 .. Len(s) :
               Floor(ts, a, base, j) \in Nat /\ Ceiling(s, ts, a, top, j) \in Nat
BY LeastsType, DepthsType DEF Floor, Ceiling

\* Where two ways meet, less is known of the stack: what holds of the levels
\* before holds of those after.
LEMMA HoldsFits ==
    ASSUME NEW s, Leasts(s), NEW t, Leasts(t), NEW ts, Depths(ts),
           NEW a \in Nat, NEW b \in 0 .. Len(ts), NEW base \in Nat, NEW top \in Nat,
           Holds(s, base, ts, a, b, top), Fits(s, t)
    PROVE  Holds(t, base, ts, a, b, top)
<1>1. Len(s) = Len(t) /\ b = a + Len(t) - 1
  BY DEF Fits, Holds
<1>2. \A j \in 2 .. Len(t) :
          ts[a + j - 1].catch = t[j].catch /\ ts[a + j - 1].binding = t[j].binding
  BY <1>1, LeastsType DEF Fits, Holds
<1>3. ASSUME NEW i \in 1 .. Len(t), NEW j \in 1 .. Len(t), i <= j
      PROVE  Floor(ts, a, base, i) + t[i].least <= Ceiling(t, ts, a, top, j)
  <2>1. Floor(ts, a, base, i) + s[i].least <= Ceiling(s, ts, a, top, j)
    BY <1>1, <1>3 DEF Holds
  <2>2. Ceiling(s, ts, a, top, j) = Ceiling(t, ts, a, top, j)
    BY <1>1 DEF Ceiling
  <2>3. s[i].least >= t[i].least
    BY <1>1 DEF Fits
  <2>4. s[i].least \in Nat /\ t[i].least \in Nat
    BY <1>1, LeastsType
  <2>5. Floor(ts, a, base, i) \in Nat /\ Ceiling(t, ts, a, top, j) \in Nat
    BY <1>1, HoldsType
  <2> QED
    BY <2>1, <2>2, <2>3, <2>4, <2>5, SMTT(60)
<1> QED
  BY <1>1, <1>2, <1>3 DEF Holds

\* One value more on the top level, d = 1, or one less.
LEMMA HoldsMoved ==
    ASSUME NEW s, Leasts(s), NEW t, Leasts(t), NEW ts, Depths(ts),
           NEW a \in Nat, NEW b \in 0 .. Len(ts), NEW base \in Nat, NEW top \in Nat,
           Holds(s, base, ts, a, b, top),
           NEW d \in Int, Len(t) = Len(s),
           \A j \in 1 .. Len(s) - 1 : t[j] = s[j],
           t[Len(s)].catch = s[Len(s)].catch, t[Len(s)].binding = s[Len(s)].binding,
           t[Len(s)].least = s[Len(s)].least + d
    PROVE  top + d \in Nat /\ Holds(t, base, ts, a, b, top + d)
<1>1. b = a + Len(s) - 1
  BY DEF Holds
<1>2. /\ \A j \in 1 .. Len(s) : s[j].least \in Nat /\ t[j].least \in Nat
      /\ Len(s) \in 1 .. Len(s) /\ Len(s) \in Nat
  BY LeastsType
<1>3. \A i \in 1 .. Len(s) :
          /\ Floor(ts, a, base, i) \in Nat
          /\ i < Len(s) => Ceiling(s, ts, a, top, i) \in Nat
          /\ Ceiling(s, ts, a, top, Len(s)) = top
  BY <1>1, HoldsType DEF Ceiling
<1>4. \A j \in 1 .. Len(s) - 1 : Ceiling(t, ts, a, top + d, j) = Ceiling(s, ts, a, top, j)
  BY <1>2 DEF Ceiling
<1>5. ASSUME NEW i \in 1 .. Len(s), NEW j \in 1 .. Len(s), i <= j
      PROVE  Floor(ts, a, base, i) + s[i].least <= Ceiling(s, ts, a, top, j)
  BY <1>5 DEF Holds
<1>6. top + d \in Nat
  <2>1. Floor(ts, a, base, Len(s)) + s[Len(s)].least <= top
    BY <1>2, <1>3, <1>5
  <2> QED
    BY <1>2, <1>3, <2>1, SMTT(60)
<1>7. Ceiling(t, ts, a, top + d, Len(s)) = top + d
  BY DEF Ceiling
<1>8. ASSUME NEW i \in 1 .. Len(s), i # Len(s)
      PROVE  Floor(ts, a, base, i) + s[i].least <= Ceiling(s, ts, a, top, Len(s) - 1)
  <2>1. Len(s) - 1 \in 1 .. Len(s) /\ i <= Len(s) - 1
    BY <1>2, <1>8
  <2> QED
    BY <1>5, <2>1
<1>9. Len(s) > 1 => Floor(ts, a, base, Len(s)) = Ceiling(s, ts, a, top, Len(s) - 1)
  <2> HAVE Len(s) > 1
  <2>1. Len(s) # 1 /\ Len(s) - 1 # Len(s)
    <3>1. PICK k : k = Len(s)
      OBVIOUS
    <3>2. k \in Nat /\ k > 1
      BY <1>2, <3>1
    <3>3. k # 1 /\ k - 1 # k
      BY <3>2
    <3> QED
      BY <3>1, <3>3
  <2>2. a + Len(s) - 1 = a + (Len(s) - 1)
    BY <1>2
  <2>3. Floor(ts, a, base, Len(s)) = Depth(ts[a + Len(s) - 1])
    BY <2>1 DEF Floor
  <2>4. Ceiling(s, ts, a, top, Len(s) - 1) = Depth(ts[a + (Len(s) - 1)])
    BY <2>1 DEF Ceiling
  <2> QED
    BY <2>2, <2>3, <2>4
<1>10. \A i \in 1 .. Len(s) : Floor(ts, a, base, i) + t[i].least <= top + d
  <2> TAKE i \in 1 .. Len(s)
  <2>1. Floor(ts, a, base, Len(s)) + s[Len(s)].least <= top
    BY <1>2, <1>3, <1>5
  <2>2. CASE i = Len(s)
    BY <1>2, <1>3, <2>1, <2>2
  <2>3. CASE i # Len(s)
    <3>1. t[i] = s[i] /\ Len(s) > 1
      BY <1>2, <2>3
    <3>2. Floor(ts, a, base, i) + s[i].least <= Floor(ts, a, base, Len(s))
      BY <1>8, <1>9, <2>3, <3>1
    <3>3. Floor(ts, a, base, Len(s)) <= top + d
      BY <1>2, <1>3, <2>1, SMTT(60)
    <3> QED
      BY <1>2, <1>3, <3>1, <3>2, <3>3
  <2> QED
    BY <2>2, <2>3
<1>11. ASSUME NEW i \in 1 .. Len(t), NEW j \in 1 .. Len(t), i <= j
      PROVE  Floor(ts, a, base, i) + t[i].least <= Ceiling(t, ts, a, top + d, j)
  <2>1. CASE j = Len(s)
    BY <1>7, <1>10, <2>1
  <2>2. CASE j # Len(s)
    <3>1. t[i] = s[i] /\ j \in 1 .. Len(s) - 1
      BY <1>2, <1>11, <2>2
    <3> QED
      BY <1>4, <1>5, <1>11, <3>1
  <2> QED
    BY <2>1, <2>2
<1>12. \A j \in 2 .. Len(t) :
          ts[a + j - 1].catch = t[j].catch /\ ts[a + j - 1].binding = t[j].binding
  <2> TAKE j \in 2 .. Len(t)
  <2>1. ts[a + j - 1].catch = s[j].catch /\ ts[a + j - 1].binding = s[j].binding
    BY DEF Holds
  <2>2. CASE j = Len(s)
    BY <2>1, <2>2
  <2>3. CASE j # Len(s)
    <3>1. j \in 1 .. Len(s) - 1
      BY <1>2, <2>3
    <3>2. t[j] = s[j]
      BY <3>1
    <3> QED
      BY <2>1, <3>2
  <2> QED
    BY <2>2, <2>3
<1> QED
  BY <1>1, <1>6, <1>11, <1>12 DEF Holds

\* The handlers up to b are all that matter, and their depths only relative to
\* the base.
LEMMA HoldsElsewhere ==
    ASSUME NEW s, Leasts(s), NEW ts, Depths(ts), NEW us, Depths(us),
           NEW a \in Nat, NEW b \in 0 .. Len(ts), b <= Len(us),
           NEW base \in Nat, NEW top \in Nat, NEW d \in Int,
           base + d \in Nat, top + d \in Nat,
           Holds(s, base, ts, a, b, top),
           \A n \in a + 1 .. b : /\ us[n].catch = ts[n].catch
                                 /\ us[n].binding = ts[n].binding
                                 /\ Depth(us[n]) = Depth(ts[n]) + d
    PROVE  Holds(s, base + d, us, a, b, top + d)
<1>1. b = a + Len(s) - 1
  BY DEF Holds
<1>2. /\ \A j \in 1 .. Len(s) : s[j].least \in Nat
      /\ Len(s) \in Nat
  BY LeastsType
<1>3. \A j \in 2 .. Len(s) :
          us[a + j - 1].catch = s[j].catch /\ us[a + j - 1].binding = s[j].binding
  <2> TAKE j \in 2 .. Len(s)
  <2>1. a + j - 1 \in a + 1 .. b
    BY <1>1, <1>2
  <2> QED
    BY <2>1 DEF Holds
<1>4. \A j \in 1 .. Len(s) : Floor(us, a, base + d, j) = Floor(ts, a, base, j) + d
  <2> TAKE j \in 1 .. Len(s)
  <2>1. j # 1 => a + j - 1 \in a + 1 .. b
    BY <1>1, <1>2, SMTT(60)
  <2> QED
    BY <2>1 DEF Floor
<1>5. \A j \in 1 .. Len(s) : Ceiling(s, us, a, top + d, j) = Ceiling(s, ts, a, top, j) + d
  <2> TAKE j \in 1 .. Len(s)
  <2>1. j # Len(s) => a + j \in a + 1 .. b
    BY <1>1, <1>2
  <2> QED
    BY <2>1 DEF Ceiling
<1>6. ASSUME NEW i \in 1 .. Len(s), NEW j \in 1 .. Len(s), i <= j
      PROVE  Floor(us, a, base + d, i) + s[i].least <= Ceiling(s, us, a, top + d, j)
  <2>1. Floor(ts, a, base, i) + s[i].least <= Ceiling(s, ts, a, top, j)
    BY <1>6 DEF Holds
  <2>2. Floor(ts, a, base, i) \in Nat /\ Ceiling(s, ts, a, top, j) \in Nat
    BY <1>1, HoldsType
  <2> QED
    BY <1>2, <1>4, <1>5, <2>1, <2>2, SMTT(60)
<1> QED
  BY <1>1, <1>3, <1>6 DEF Holds

\* Levels do not see handlers of other functions.
LEMMA HoldsSame ==
    ASSUME NEW s, Leasts(s), NEW ts, Depths(ts), NEW us, Depths(us),
           NEW a \in Nat, NEW b \in 0 .. Len(ts), b <= Len(us),
           NEW base \in Nat, NEW top \in Nat,
           Holds(s, base, ts, a, b, top), \A n \in a + 1 .. b : us[n] = ts[n]
    PROVE  Holds(s, base, us, a, b, top)
<1>1. \A n \in a + 1 .. b : /\ us[n].catch = ts[n].catch
                            /\ us[n].binding = ts[n].binding
                            /\ Depth(us[n]) = Depth(ts[n]) + 0
  <2> TAKE n \in a + 1 .. b
  <2>1. n \in 1 .. Len(ts) /\ us[n] = ts[n]
    BY DepthsType
  <2> QED
    BY <2>1, DepthsType
<1>2. base + 0 = base /\ top + 0 = top /\ 0 \in Int
  OBVIOUS
<1> DEFINE d == 0
<1>4. d \in Int /\ base + d \in Nat /\ top + d \in Nat /\ d = 0
  BY <1>2
<1> HIDE DEF d
<1>3. Holds(s, base + d, us, a, b, top + d)
  BY <1>1, <1>4, HoldsElsewhere
<1> QED
  BY <1>2, <1>3, <1>4

\* What is below the j-th level when the stack is cut there.
LEMMA HoldsBelow ==
    ASSUME NEW s, Leasts(s), NEW ts, Depths(ts), NEW a \in Nat, NEW b \in 0 .. Len(ts),
           NEW base \in Nat, NEW top \in Nat, Holds(s, base, ts, a, b, top),
           NEW j \in 2 .. Len(s), NEW height \in Nat, Depth(ts[a + j - 1]) <= height
    PROVE  Holds(SubSeq(s, 1, j - 1), base, ts, a, a + j - 2, height)
<1> DEFINE t == SubSeq(s, 1, j - 1)
<1>1. b = a + Len(s) - 1
  BY DEF Holds
<1>2. /\ \A i \in 1 .. Len(s) : s[i].least \in Nat
      /\ Len(s) \in Nat /\ j - 1 \in 0 .. Len(s)
  BY LeastsType
<1>3. Len(t) = j - 1 /\ \A i \in 1 .. j - 1 : t[i] = s[i]
  BY <1>2, SeqPrefix DEF Leasts, IsSeq
<1> HIDE DEF t
<1>4. a + j - 1 \in 1 .. Len(ts) /\ Depth(ts[a + j - 1]) \in Nat
  BY <1>1, <1>2, DepthsType
<1>5. ASSUME NEW i \in 1 .. Len(t), NEW k \in 1 .. Len(t), i <= k
      PROVE  Floor(ts, a, base, i) + t[i].least <= Ceiling(t, ts, a, height, k)
  <2>1. i \in 1 .. Len(s) /\ k \in 1 .. Len(s) /\ k # Len(s) /\ t[i] = s[i]
    BY <1>2, <1>3
  <2>2. Floor(ts, a, base, i) + s[i].least <= Ceiling(s, ts, a, top, k)
    BY <1>5, <2>1 DEF Holds
  <2>3. Ceiling(s, ts, a, top, k) = Depth(ts[a + k])
    BY <2>1 DEF Ceiling
  <2>4. CASE k # j - 1
    <3>1. Ceiling(t, ts, a, height, k) = Depth(ts[a + k])
      BY <1>3, <2>4 DEF Ceiling
    <3> QED
      BY <2>1, <2>2, <2>3, <3>1
  <2>5. CASE k = j - 1
    <3>1. Ceiling(t, ts, a, height, k) = height /\ a + k = a + j - 1
      BY <1>3, <2>5 DEF Ceiling
    <3>2. Floor(ts, a, base, i) \in Nat /\ s[i].least \in Nat
      BY <1>1, <1>2, <2>1, HoldsType
    <3>3. Floor(ts, a, base, i) + s[i].least <= Depth(ts[a + j - 1])
      BY <2>2, <2>3, <3>1
    <3> QED
      BY <1>4, <2>1, <3>1, <3>2, <3>3, SMTT(60)
  <2> QED
    BY <2>4, <2>5
<1>6. \A i \in 2 .. Len(t) :
          ts[a + i - 1].catch = t[i].catch /\ ts[a + i - 1].binding = t[i].binding
  <2> TAKE i \in 2 .. Len(t)
  <2>1. i \in 1 .. j - 1
    BY <1>2, <1>3
  <2>2. i \in 2 .. Len(s) /\ t[i] = s[i]
    BY <1>2, <1>3, <2>1
  <2> QED
    BY <2>2 DEF Holds
<1>7. a + j - 2 = a + Len(t) - 1
  BY <1>3
<1>8. Holds(t, base, ts, a, a + j - 2, height)
  BY <1>5, <1>6, <1>7 DEF Holds
<1> QED
  BY <1>8 DEF t

\* A handler more: `us` are the handlers ts and the new one.
Added(us, ts, h) ==
    Len(us) = Len(ts) + 1 /\ us[Len(us)] = h /\ \A n \in 1 .. Len(ts) : us[n] = ts[n]

\* The topmost level may give up values to a new one above it (SetupTry).
LEMMA HoldsAbove ==
    ASSUME NEW s, Leasts(s), NEW t, Leasts(t), NEW ts, Depths(ts), NEW us, Depths(us),
           NEW a \in Nat, NEW base \in Nat, NEW top \in Nat, NEW height \in Nat,
           Holds(s, base, ts, a, Len(ts), top),
           NEW h, NEW l, Added(us, ts, h), Added(t, s, l),
           h.catch = l.catch, h.binding = l.binding,
           Depth(h) = top, top + l.least <= height
    PROVE  Holds(t, base, us, a, Len(us), height)
<1> USE DEF Added
<1>1. Len(ts) = a + Len(s) - 1
  BY DEF Holds
<1>2. /\ \A j \in 1 .. Len(t) : t[j].least \in Nat
      /\ Len(s) \in Nat /\ Len(s) > 0 /\ Len(ts) \in Nat
  BY LeastsType, DepthsType
<1>3. Len(us) = a + Len(t) - 1 /\ Len(us) = a + Len(s) /\ Len(t) \in 1 .. Len(t)
  BY <1>1, <1>2
<1>4. \A j \in 1 .. Len(s) : Floor(us, a, base, j) = Floor(ts, a, base, j)
  <2> TAKE j \in 1 .. Len(s)
  <2>1. j # 1 => a + j - 1 \in 1 .. Len(ts)
    BY <1>1, <1>2
  <2> QED
    BY <2>1 DEF Floor
<1>5. \A j \in 1 .. Len(s) : Ceiling(t, us, a, height, j) = Ceiling(s, ts, a, top, j)
  <2> TAKE j \in 1 .. Len(s)
  <2>1. j # Len(t)
    BY <1>2
  <2>2. CASE j = Len(s)
    BY <1>3, <2>1, <2>2 DEF Ceiling
  <2>3. CASE j # Len(s)
    <3>1. a + j \in 1 .. Len(ts)
      BY <1>1, <1>2, <2>3
    <3> QED
      BY <2>1, <2>3, <3>1 DEF Ceiling
  <2> QED
    BY <2>2, <2>3
<1>6. ASSUME NEW i \in 1 .. Len(s), NEW j \in 1 .. Len(s), i <= j
      PROVE  Floor(us, a, base, i) + t[i].least <= Ceiling(t, us, a, height, j)
  BY <1>4, <1>5, <1>6 DEF Holds
<1>7. Ceiling(t, us, a, height, Len(t)) = height
  BY DEF Ceiling
<1>8. Floor(us, a, base, Len(t)) = top
  <2>1. Len(t) # 1
    BY <1>2
  <2>2. a + Len(t) - 1 = Len(us)
    BY <1>3
  <2> QED
    BY <2>1, <2>2 DEF Floor
<1>9. Len(s) \in 1 .. Len(s) /\ Ceiling(t, us, a, height, Len(s)) = top
  BY <1>2, <1>5 DEF Ceiling
<1>10. ASSUME NEW i \in 1 .. Len(t), NEW j \in 1 .. Len(t), i <= j
      PROVE  Floor(us, a, base, i) + t[i].least <= Ceiling(t, us, a, height, j)
  <2>1. CASE j \in 1 .. Len(s)
    BY <1>2, <1>6, <1>10, <2>1
  <2>2. CASE j = Len(t) /\ i = Len(t)
    BY <1>7, <1>8, <2>2
  <2>3. CASE j = Len(t) /\ i \in 1 .. Len(s)
    <3>1. Floor(us, a, base, i) + t[i].least <= top
      BY <1>6, <1>9, <2>3
    <3>2. Floor(us, a, base, i) \in Nat
      <4>1. Floor(ts, a, base, i) \in Nat
        <5>1. Len(ts) \in 0 .. Len(ts)
          BY <1>2
        <5> QED
          BY <1>1, <2>3, <5>1, HoldsType
      <4> QED
        BY <1>4, <2>3, <4>1
    <3>3. t[i].least \in Nat /\ t[Len(t)].least \in Nat
      BY <1>2, <1>3
    <3>4. Floor(us, a, base, i) + t[i].least <= height
      BY <3>1, <3>2, <3>3, SMTT(60)
    <3> QED
      BY <1>7, <2>3, <3>4
  <2> QED
    BY <1>2, <2>1, <2>2, <2>3
<1>11. \A j \in 2 .. Len(t) :
          us[a + j - 1].catch = t[j].catch /\ us[a + j - 1].binding = t[j].binding
  <2> TAKE j \in 2 .. Len(t)
  <2>1. CASE j = Len(t)
    BY <1>3, <2>1
  <2>2. CASE j # Len(t)
    <3>1. j \in 2 .. Len(s) /\ a + j - 1 \in 1 .. Len(ts) /\ j \in 1 .. Len(s)
      BY <1>1, <1>2, <2>2
    <3> QED
      BY <3>1 DEF Holds
  <2> QED
    BY <2>1, <2>2
<1> QED
  BY <1>3, <1>10, <1>11 DEF Holds

\* A handler less: the topmost levels become one.
LEMMA HoldsJoined ==
    ASSUME NEW s, Leasts(s), NEW t, Leasts(t), NEW ts, Depths(ts),
           NEW a \in Nat, NEW b \in 0 .. Len(ts), NEW base \in Nat, NEW top \in Nat,
           Holds(s, base, ts, a, b, top),
           Len(t) = Len(s) - 1, \A j \in 1 .. Len(t) - 1 : t[j] = s[j],
           t[Len(t)].catch = s[Len(t)].catch, t[Len(t)].binding = s[Len(t)].binding,
           t[Len(t)].least = s[Len(t)].least + s[Len(s)].least
    PROVE  Holds(t, base, ts, a, b - 1, top)
<1>1. b = a + Len(s) - 1 /\ b - 1 = a + Len(t) - 1
  BY LeastsType DEF Holds
<1>2. /\ \A j \in 1 .. Len(s) : s[j].least \in Nat
      /\ \A j \in 1 .. Len(t) : t[j].least \in Nat
      /\ Len(s) \in Nat /\ Len(t) \in Nat /\ Len(t) > 0 /\ Len(t) \in 1 .. Len(s)
      /\ Len(s) \in 1 .. Len(s) /\ Len(t) \in 1 .. Len(t)
  BY LeastsType
<1>3. \A j \in 1 .. Len(s) : Floor(ts, a, base, j) \in Nat
  BY <1>1, HoldsType
<1>4. ASSUME NEW i \in 1 .. Len(s), NEW j \in 1 .. Len(s), i <= j
      PROVE  Floor(ts, a, base, i) + s[i].least <= Ceiling(s, ts, a, top, j)
  BY <1>4 DEF Holds
<1>5. Ceiling(t, ts, a, top, Len(t)) = top /\ Ceiling(s, ts, a, top, Len(s)) = top
  BY DEF Ceiling
<1>6. \A j \in 1 .. Len(t) - 1 : Ceiling(t, ts, a, top, j) = Ceiling(s, ts, a, top, j)
  BY <1>2 DEF Ceiling
<1>7. Ceiling(s, ts, a, top, Len(t)) = Floor(ts, a, base, Len(s))
  <2>1. Len(t) = Len(s) - 1
    OBVIOUS
  <2>4. Len(t) < Len(s) /\ Len(s) > 1
    BY <1>2, <2>1
  <2>3. Len(t) # Len(s)
    BY <1>2, <2>4
  <2>5. Len(s) # 1
    BY <1>2, <2>4
  <2>2. a + Len(t) = a + Len(s) - 1
    BY <1>2, <2>1
  <2> QED
    BY <2>2, <2>3, <2>5 DEF Floor, Ceiling
<1>8. Floor(ts, a, base, Len(s)) + s[Len(s)].least <= top
  BY <1>2, <1>4, <1>5
<1>9. Floor(ts, a, base, Len(t)) + s[Len(t)].least <= Floor(ts, a, base, Len(s))
  BY <1>2, <1>4, <1>7
<1>10. Floor(ts, a, base, Len(t)) + t[Len(t)].least <= top
  <2>1. s[Len(t)].least \in Nat /\ s[Len(s)].least \in Nat
        /\ Floor(ts, a, base, Len(t)) \in Nat /\ Floor(ts, a, base, Len(s)) \in Nat
    BY <1>2, <1>3
  <2> QED
    BY <1>8, <1>9, <2>1, SMTT(60)
<1>11. ASSUME NEW i \in 1 .. Len(t), NEW j \in 1 .. Len(t), i <= j
      PROVE  Floor(ts, a, base, i) + t[i].least <= Ceiling(t, ts, a, top, j)
  <2>1. i \in 1 .. Len(s) /\ j \in 1 .. Len(s)
    BY <1>2
  <2>2. CASE j # Len(t)
    <3>1. i \in 1 .. Len(t) - 1 /\ j \in 1 .. Len(t) - 1
      BY <1>2, <1>11, <2>2, SMTT(60)
    <3> QED
      BY <1>4, <1>6, <1>11, <2>1, <3>1
  <2>3. CASE j = Len(t) /\ i # Len(t)
    <3>1. i \in 1 .. Len(t) - 1 /\ i <= Len(s)
      BY <1>2, <2>1, <2>3, SMTT(60)
    <3>2. Floor(ts, a, base, i) + s[i].least <= Ceiling(s, ts, a, top, Len(s))
      BY <1>2, <1>4, <2>1, <3>1
    <3> QED
      BY <1>5, <2>3, <3>1, <3>2
  <2>4. CASE j = Len(t) /\ i = Len(t)
    BY <1>5, <1>10, <2>4
  <2> QED
    BY <2>2, <2>3, <2>4
<1>12. \A j \in 2 .. Len(t) :
          ts[a + j - 1].catch = t[j].catch /\ ts[a + j - 1].binding = t[j].binding
  <2> TAKE j \in 2 .. Len(t)
  <2>1. j \in 2 .. Len(s)
    BY <1>2
  <2>2. ts[a + j - 1].catch = s[j].catch /\ ts[a + j - 1].binding = s[j].binding
    BY <2>1 DEF Holds
  <2>3. CASE j = Len(t)
    BY <2>2, <2>3
  <2>4. CASE j # Len(t)
    <3>1. j \in 1 .. Len(t) - 1
      BY <1>2, <2>4
    <3> QED
      BY <2>2, <3>1
  <2> QED
    BY <2>3, <2>4
<1> QED
  BY <1>1, <1>11, <1>12 DEF Holds

----------------------------------------------------------------------------
\* What `back`, the place a call returns to, and `bp` may be.
FrameType(at) == [bp : Nat \ {0}, back : {0} \cup DOMAIN at]

\* The frames that run the program's code: a script has none, a generator and
\* an async function theirs, which is on top, and a function its calls.
Outermost(kind, fs) == IF kind = "function" THEN 1 ELSE Len(fs)
Place(p, fs, k) == IF k = Len(fs) THEN p ELSE fs[k + 1].back
Base(fs, k) == IF k = 0 THEN 0 ELSE fs[k].bp
Top(n, fs, k) == IF k = Len(fs) THEN n ELSE fs[k + 1].bp - 1

\* The calls that are under way.
Framed(at, kind, fs) ==
    /\ kind = "script" <=> fs = <<>>
    /\ kind = "generator" => Len(fs) = 1
    /\ kind # "script" => fs[Outermost(kind, fs)].back = 0
    /\ \A k \in Outermost(kind, fs) + 1 .. Len(fs) : fs[k].back \in DOMAIN at

\* The handlers of the frames, each frame's after those of its caller: the k-th
\* has those from start[k] + 1 to start[k + 1], and its levels at the place where
\* it runs, or waits for the call above it to return, describe them.
Segments(at, kind, p, n, fs, ts, start) ==
    /\ start[Outermost(kind, fs)] = 0 /\ start[Len(fs) + 1] = Len(ts)
    /\ \A k, l \in Outermost(kind, fs) .. Len(fs) + 1 :
          start[k] \in Nat /\ (k <= l => start[k] <= start[l])
    /\ \A k \in Outermost(kind, fs) .. Len(fs), i \in DOMAIN ts :
          /\ start[k] < i /\ i <= start[k + 1] => ts[i].frameDepth = k
          /\ i <= start[k] => ts[i].frameDepth < k /\ Depth(ts[i]) < Base(fs, k)
          /\ start[k + 1] < i => ts[i].frameDepth > k
    /\ \A i \in DOMAIN ts : ts[i].frameDepth \in Outermost(kind, fs) .. Len(fs)
    /\ \A k \in Outermost(kind, fs) .. Len(fs) :
          Holds(at[Place(p, fs, k)], Base(fs, k), ts, start[k], start[k + 1], Top(n, fs, k))

\* The levels of all instructions can be counted with.
Levelled(at) == \A m \in DOMAIN at : Leasts(at[m])

\* What Framed tells of every frame.
LEMMA FramesType ==
    ASSUME NEW at, NEW kind, NEW fs \in Seq(FrameType(at)), Framed(at, kind, fs),
           NEW p \in DOMAIN at, NEW n \in Nat
    PROVE  /\ Len(fs) \in Nat /\ Outermost(kind, fs) \in 0 .. Len(fs)
           /\ (Outermost(kind, fs) = 0 => Len(fs) = 0)
           /\ \A k \in 1 .. Len(fs) : fs[k].bp \in Nat \ {0}
           /\ \A k \in Outermost(kind, fs) .. Len(fs) :
                 /\ Place(p, fs, k) \in DOMAIN at
                 /\ Base(fs, k) \in Nat /\ Top(n, fs, k) \in Nat
<1> DEFINE F == Len(fs)
<1>1. F \in Nat /\ (fs = <<>> <=> F = 0)
  OBVIOUS
<1>2. \A k \in 1 .. F : fs[k].bp \in Nat \ {0}
  <2>1. \A k \in 1 .. F : fs[k] \in FrameType(at)
    OBVIOUS
  <2> QED
    BY <2>1 DEF FrameType
<1>3. Outermost(kind, fs) \in 0 .. F /\ (Outermost(kind, fs) = 0 => F = 0)
  BY <1>1 DEF Outermost, Framed
<1>4. ASSUME NEW k \in Outermost(kind, fs) .. F
      PROVE  Place(p, fs, k) \in DOMAIN at /\ Base(fs, k) \in Nat /\ Top(n, fs, k) \in Nat
  <2>1. k \in 0 .. F /\ (k # 0 => k \in 1 .. F)
    BY <1>3
  <2>2. CASE k = F
    BY <1>2, <2>1, <2>2 DEF Place, Base, Top
  <2>3. CASE k # F
    <3>1. k + 1 \in Outermost(kind, fs) + 1 .. F /\ k + 1 \in 1 .. F
      BY <1>1, <1>3, <2>1, <2>3
    <3>2. fs[k + 1].back \in DOMAIN at /\ fs[k + 1].bp - 1 \in Nat
      BY <1>2, <3>1 DEF Framed
    <3> QED
      BY <1>2, <2>1, <2>3, <3>2 DEF Place, Base, Top
  <2> QED
    BY <2>2, <2>3
<1> QED
  BY <1>1, <1>2, <1>3, <1>4

\* The handlers ts up to the a-th, and others that are the k-th frame's.
Grafted(us, ts, a, k) ==
    /\ a <= Len(us) /\ \A i \in 1 .. a : us[i] = ts[i]
    /\ \A i \in a + 1 .. Len(us) : us[i].frameDepth = k

\* A step that goes on in the innermost frame need only look after that frame's
\* levels: those of the callers stay.
LEMMA NewTop ==
    ASSUME NEW at, Levelled(at), NEW kind, NEW fs \in Seq(FrameType(at)), Framed(at, kind, fs),
           NEW ts, Depths(ts), NEW us, Depths(us), NEW p \in DOMAIN at, NEW q \in DOMAIN at,
           NEW n \in Nat, NEW m \in Nat, NEW start,
           Segments(at, kind, p, n, fs, ts, start),
           Grafted(us, ts, start[Len(fs)], Len(fs)),
           Holds(at[q], Base(fs, Len(fs)), us, start[Len(fs)], Len(us), m)
    PROVE  \E first : Segments(at, kind, q, m, fs, us, first)
<1> USE DEF Grafted
<1> DEFINE F == Len(fs)
           O == Outermost(kind, fs)
           first == [k \in O .. F + 1 |-> IF k = F + 1 THEN Len(us) ELSE start[k]]
<1>1. F \in Nat /\ O \in 0 .. F
  BY FramesType
<1>2. Len(us) \in Nat /\ Len(ts) \in Nat /\ DOMAIN us = 1 .. Len(us) /\ DOMAIN ts = 1 .. Len(ts)
  BY DepthsType
<1>3. /\ start[O] = 0 /\ start[F + 1] = Len(ts)
      /\ \A k, l \in O .. F + 1 : start[k] \in Nat /\ (k <= l => start[k] <= start[l])
  BY DEF Segments
<1>4. first[F + 1] = Len(us) /\ first[O] = 0 /\ \A k \in O .. F : first[k] = start[k]
  BY <1>1, <1>3
<1> HIDE DEF first
<1>5. start[F] \in Nat /\ start[F] <= Len(us) /\ start[F] <= Len(ts)
  <2>1. F \in O .. F + 1 /\ F + 1 \in O .. F + 1 /\ F <= F + 1
    BY <1>1
  <2> QED
    BY <1>3, <2>1
<1>6. \A k \in O .. F : start[k] \in Nat /\ start[k] <= start[F]
  BY <1>1, <1>3
<1>7. ASSUME NEW k \in O .. F + 1, NEW l \in O .. F + 1
      PROVE  first[k] \in Nat /\ (k <= l => first[k] <= first[l])
  <2>1. CASE k \in O .. F /\ l \in O .. F
    BY <1>3, <1>4, <2>1
  <2>2. CASE k \in O .. F /\ l = F + 1
    BY <1>2, <1>4, <1>5, <1>6, <2>2
  <2>3. CASE k = F + 1
    BY <1>1, <1>2, <1>4, <2>3
  <2> QED
    BY <1>1, <2>1, <2>2, <2>3
<1>8. ASSUME NEW i \in DOMAIN us
      PROVE  us[i].frameDepth \in O .. F
  <2>1. CASE i <= start[F]
    <3>1. i \in 1 .. start[F] /\ i \in DOMAIN ts
      BY <1>2, <1>5, <2>1
    <3> QED
      BY <3>1 DEF Segments
  <2>2. CASE ~(i <= start[F])
    <3>1. i \in start[F] + 1 .. Len(us)
      BY <1>2, <1>5, <2>2
    <3> QED
      BY <1>1, <3>1
  <2> QED
    BY <2>1, <2>2
<1>9. ASSUME NEW k \in O .. F, NEW i \in DOMAIN us
      PROVE  /\ first[k] < i /\ i <= first[k + 1] => us[i].frameDepth = k
             /\ i <= first[k] => us[i].frameDepth < k /\ Depth(us[i]) < Base(fs, k)
             /\ first[k + 1] < i => us[i].frameDepth > k
  <2>1. CASE i <= start[F]
    <3>1. i \in 1 .. start[F] /\ i \in DOMAIN ts
      BY <1>2, <1>5, <2>1
    <3>2. us[i] = ts[i]
      BY <3>1
    <3>3. /\ start[k] < i /\ i <= start[k + 1] => ts[i].frameDepth = k
          /\ i <= start[k] => ts[i].frameDepth < k /\ Depth(ts[i]) < Base(fs, k)
          /\ start[k + 1] < i => ts[i].frameDepth > k
      BY <3>1 DEF Segments
    <3>4. CASE k # F
      <4>1. k + 1 \in O .. F
        BY <1>1, <3>4
      <4> QED
        BY <1>4, <3>2, <3>3, <4>1
    <3>5. CASE k = F
      <4>1. ~(first[k] < i) /\ ~(first[k + 1] < i)
        BY <1>1, <1>2, <1>4, <1>5, <2>1, <3>5
      <4> QED
        BY <1>4, <3>2, <3>3, <4>1
    <3> QED
      BY <3>4, <3>5
  <2>2. CASE ~(i <= start[F])
    <3>1. i \in start[F] + 1 .. Len(us)
      BY <1>2, <1>5, <2>2
    <3>2. us[i].frameDepth = F
      BY <3>1
    <3>3. ~(i <= first[k])
      BY <1>2, <1>4, <1>5, <1>6, <2>2
    <3>4. CASE k # F
      <4>1. k + 1 \in O .. F /\ k < F
        BY <1>1, <3>4
      <4>2. ~(i <= first[k + 1])
        BY <1>2, <1>4, <1>5, <1>6, <2>2, <4>1
      <4> QED
        BY <3>2, <3>3, <4>1, <4>2
    <3>5. CASE k = F
      <4>1. ~(first[k + 1] < i)
        BY <1>1, <1>2, <1>4, <3>5
      <4> QED
        BY <3>2, <3>3, <3>5, <4>1
    <3> QED
      BY <3>4, <3>5
  <2> QED
    BY <2>1, <2>2
<1>10. ASSUME NEW k \in O .. F
       PROVE  Holds(at[Place(q, fs, k)], Base(fs, k), us, first[k], first[k + 1], Top(m, fs, k))
  <2>1. CASE k = F
    <3>1. Place(q, fs, k) = q /\ Top(m, fs, k) = m
      BY <2>1 DEF Place, Top
    <3> QED
      BY <1>1, <1>4, <2>1, <3>1
  <2>2. CASE k # F
    <3>1. Place(q, fs, k) = Place(p, fs, k) /\ Top(m, fs, k) = Top(n, fs, k)
      BY <2>2 DEF Place, Top
    <3>2. k + 1 \in O .. F /\ first[k] = start[k] /\ first[k + 1] = start[k + 1]
      BY <1>1, <1>4, <2>2
    <3>3. Holds(at[Place(p, fs, k)], Base(fs, k), ts, start[k], start[k + 1], Top(n, fs, k))
      BY DEF Segments
    <3>4. /\ Leasts(at[Place(p, fs, k)]) /\ Base(fs, k) \in Nat /\ Top(n, fs, k) \in Nat
      BY FramesType DEF Levelled
    <3>5. /\ start[k] \in Nat /\ start[k + 1] \in 0 .. Len(ts) /\ start[k + 1] <= Len(us)
          /\ start[k + 1] <= start[F]
      BY <1>2, <1>5, <1>6, <3>2
    <3>6. \A i \in start[k] + 1 .. start[k + 1] : us[i] = ts[i]
      BY <1>5, <3>5
    <3>7. Holds(at[Place(p, fs, k)], Base(fs, k), us, start[k], start[k + 1], Top(n, fs, k))
      BY <3>3, <3>4, <3>5, <3>6, HoldsSame
    <3> QED
      BY <3>1, <3>2, <3>7
  <2> QED
    BY <2>1, <2>2
<1>11. Segments(at, kind, q, m, fs, us, first)
  BY <1>4, <1>7, <1>8, <1>9, <1>10 DEF Segments
<1> QED
  BY <1>11

\* A return, or an exception that a caller catches: the frame it goes on in
\* has the levels of its own place again.
LEMMA DropFrames ==
    ASSUME NEW at, Levelled(at), NEW kind, NEW fs \in Seq(FrameType(at)), Framed(at, kind, fs),
           NEW ts, Depths(ts), NEW p \in DOMAIN at, NEW n \in Nat, NEW start,
           Segments(at, kind, p, n, fs, ts, start),
           NEW k \in Outermost(kind, fs) .. Len(fs),
           NEW gs \in Seq(FrameType(at)), Len(gs) = k, \A j \in 1 .. k : gs[j] = fs[j],
           NEW us, IsSeq(us), Len(us) = start[k + 1],
           \A i \in 1 .. start[k + 1] : us[i] = ts[i]
    PROVE  /\ Framed(at, kind, gs) /\ Depths(us) /\ Len(us) <= Len(ts)
           /\ Outermost(kind, gs) = Outermost(kind, fs) /\ Base(gs, k) = Base(fs, k)
           /\ Segments(at, kind, Place(p, fs, k), Top(n, fs, k), gs, us, start)
<1> DEFINE F == Len(fs)
           O == Outermost(kind, fs)
<1>1. F \in Nat /\ O \in 0 .. F /\ k \in 0 .. F /\ (O = 0 => F = 0)
  <2>1. F \in Nat /\ O \in 0 .. F /\ (O = 0 => F = 0)
    BY FramesType
  <2> QED
    BY <2>1
<1>2. Len(ts) \in Nat /\ DOMAIN ts = 1 .. Len(ts)
  BY DepthsType
<1>3. /\ start[O] = 0 /\ start[F + 1] = Len(ts)
      /\ \A j, l \in O .. F + 1 : start[j] \in Nat /\ (j <= l => start[j] <= start[l])
  BY DEF Segments
<1>4. k \in O .. F + 1 /\ k + 1 \in O .. F + 1 /\ F + 1 \in O .. F + 1 /\ k + 1 <= F + 1
  BY <1>1
<1>5. start[k + 1] \in 0 .. Len(ts)
  BY <1>2, <1>3, <1>4
<1>6. gs \in Seq(FrameType(at)) /\ Len(gs) = k /\ \A j \in 1 .. k : gs[j] = fs[j]
  OBVIOUS
<1>7. IsSeq(us) /\ Len(us) = start[k + 1] /\ \A i \in 1 .. Len(us) : us[i] = ts[i]
  OBVIOUS
<1>8. Depths(us) /\ Len(us) <= Len(ts) /\ DOMAIN us = 1 .. Len(us)
  <2>1. \A i \in 1 .. Len(us) : Depth(us[i]) \in Nat
    <3> TAKE i \in 1 .. Len(us)
    <3>1. i \in 1 .. Len(ts) /\ us[i] = ts[i]
      BY <1>5, <1>7
    <3> QED
      BY <3>1, DepthsType
  <2>2. DOMAIN us = 1 .. Len(us)
    BY <1>7, SeqType
  <2> QED
    BY <1>5, <1>7, <2>1, <2>2 DEF Depths
<1>18. \A i \in DOMAIN us : i \in 1 .. Len(us) /\ i \in DOMAIN ts /\ us[i] = ts[i]
  <2> TAKE i \in DOMAIN us
  <2>1. i \in 1 .. Len(us)
    BY <1>8
  <2>2. Len(us) \in Nat /\ Len(us) <= Len(ts)
    BY <1>2, <1>5, <1>7
  <2>3. i \in 1 .. Len(ts)
    BY <1>2, <2>1, <2>2
  <2> QED
    BY <1>2, <1>7, <2>1, <2>3
<1>9. Outermost(kind, gs) = O
  <2>1. kind # "function" => O = F /\ k = F
    BY <1>1 DEF Outermost
  <2> QED
    BY <1>6, <2>1 DEF Outermost
<1>10. Framed(at, kind, gs)
  <2>1. kind = "script" <=> gs = <<>>
    <3>1. kind = "script" <=> F = 0
      BY DEF Framed
    <3>2. kind = "function" => O = 1 /\ k # 0
      BY <1>1 DEF Outermost
    <3>3. kind # "function" => k = F
      BY <1>1 DEF Outermost
    <3>4. gs = <<>> <=> k = 0
      BY <1>6
    <3> QED
      BY <3>1, <3>2, <3>3, <3>4
  <2>2. kind = "generator" => Len(gs) = 1
    BY <1>1, <1>6 DEF Framed, Outermost
  <2>3. kind # "script" => gs[O].back = 0
    <3>1. kind # "script" => O \in 1 .. k
      <4>1. kind # "script" => F # 0
        BY DEF Framed
      <4> QED
        BY <1>1, <4>1
    <3> QED
      BY <1>6, <3>1 DEF Framed
  <2>4. \A j \in O + 1 .. k : gs[j].back \in DOMAIN at
    <3> TAKE j \in O + 1 .. k
    <3>1. j \in 1 .. k /\ j \in O + 1 .. F
      BY <1>1
    <3> QED
      BY <1>6, <3>1 DEF Framed
  <2> QED
    BY <1>6, <1>9, <2>1, <2>2, <2>3, <2>4 DEF Framed
<1>11. \A j \in O .. k : /\ Place(Place(p, fs, k), gs, j) = Place(p, fs, j)
                        /\ Base(gs, j) = Base(fs, j)
                        /\ Top(Top(n, fs, k), gs, j) = Top(n, fs, j)
  <2> TAKE j \in O .. k
  <2>1. Base(gs, j) = Base(fs, j)
    <3>1. j = 0 \/ j \in 1 .. k
      BY <1>1
    <3> QED
      BY <1>6, <3>1 DEF Base
  <2>2. CASE j = k
    BY <1>6, <2>1, <2>2 DEF Place, Top
  <2>3. CASE j # k
    <3>1. j + 1 \in 1 .. k /\ j < k /\ j < F
      BY <1>1, <2>3
    <3>2. j # F /\ gs[j + 1] = fs[j + 1]
      BY <1>1, <1>6, <3>1
    <3> QED
      BY <1>6, <2>1, <2>3, <3>2 DEF Place, Top
  <2> QED
    BY <2>2, <2>3
<1>12. ASSUME NEW j \in O .. k + 1, NEW l \in O .. k + 1
       PROVE  start[j] \in Nat /\ (j <= l => start[j] <= start[l])
  <2>1. j \in O .. F + 1 /\ l \in O .. F + 1
    BY <1>1
  <2> QED
    BY <1>3, <2>1
<1>13. ASSUME NEW j \in O .. k, NEW i \in DOMAIN us
       PROVE  /\ start[j] < i /\ i <= start[j + 1] => us[i].frameDepth = j
              /\ i <= start[j] => us[i].frameDepth < j /\ Depth(us[i]) < Base(gs, j)
              /\ start[j + 1] < i => us[i].frameDepth > j
  <2>1. j \in O .. F
    BY <1>1
  <2>2. i \in DOMAIN ts /\ us[i] = ts[i]
    BY <1>18
  <2> QED
    BY <1>11, <2>1, <2>2, SMTT(60) DEF Segments
<1>14. ASSUME NEW i \in DOMAIN us
       PROVE  us[i].frameDepth \in O .. k
  <2>1. i \in DOMAIN ts /\ us[i] = ts[i] /\ i <= start[k + 1] /\ i \in 1 .. Len(us)
    <3>1. i \in DOMAIN ts /\ us[i] = ts[i] /\ i \in 1 .. Len(us)
      BY <1>18
    <3>2. i <= start[k + 1]
      BY <1>5, <1>7, <3>1
    <3> QED
      BY <3>1, <3>2
  <2>2. us[i].frameDepth \in O .. F
    BY <2>1 DEF Segments
  <2>3. i <= start[k] => us[i].frameDepth < k
    BY <2>1 DEF Segments
  <2>4. start[k] < i => us[i].frameDepth = k
    BY <2>1 DEF Segments
  <2>5. start[k] \in Nat
    BY <1>3, <1>4
  <2>6. i \in Nat
    BY <1>2, <2>1
  <2>7. i <= start[k] \/ start[k] < i
    BY <2>5, <2>6
  <2>8. us[i].frameDepth <= k
    <3>1. us[i].frameDepth \in Nat
      BY <1>1, <2>2
    <3> QED
      BY <1>1, <2>3, <2>4, <2>7, <3>1
  <2> QED
    BY <1>1, <2>2, <2>8
<1>15. ASSUME NEW j \in O .. k
       PROVE  Holds(at[Place(Place(p, fs, k), gs, j)], Base(gs, j), us, start[j], start[j + 1],
                    Top(Top(n, fs, k), gs, j))
  <2>1. j \in O .. F /\ j \in O .. k + 1 /\ j + 1 \in O .. k + 1 /\ k + 1 \in O .. k + 1
        /\ j + 1 <= k + 1
    BY <1>1
  <2>2. Holds(at[Place(p, fs, j)], Base(fs, j), ts, start[j], start[j + 1], Top(n, fs, j))
    BY <2>1 DEF Segments
  <2>3. Leasts(at[Place(p, fs, j)]) /\ Base(fs, j) \in Nat /\ Top(n, fs, j) \in Nat
    BY <2>1, FramesType DEF Levelled
  <2>4. start[j] \in Nat /\ start[j + 1] \in 0 .. Len(ts) /\ start[j + 1] <= Len(us)
    BY <1>5, <1>7, <1>12, <2>1
  <2>5. \A i \in start[j] + 1 .. start[j + 1] : us[i] = ts[i]
    <3>1. \A i \in start[j] + 1 .. start[j + 1] : i \in 1 .. Len(us)
      BY <1>5, <1>7, <2>4
    <3> QED
      BY <1>7, <3>1
  <2>6. Holds(at[Place(p, fs, j)], Base(fs, j), us, start[j], start[j + 1], Top(n, fs, j))
    BY <1>8, <2>2, <2>3, <2>4, <2>5, HoldsSame
  <2> QED
    BY <1>11, <2>6
<1>16. Segments(at, kind, Place(p, fs, k), Top(n, fs, k), gs, us, start)
  BY <1>3, <1>6, <1>7, <1>9, <1>12, <1>13, <1>14, <1>15 DEF Segments
<1>17. Base(gs, k) = Base(fs, k)
  BY <1>1, <1>11
<1> QED
  BY <1>6, <1>7, <1>8, <1>9, <1>10, <1>16, <1>17

\* Handlers are at the bottom of their levels: between base and top.
LEMMA HoldsBounds ==
    ASSUME NEW s, Leasts(s), NEW ts, Depths(ts), NEW a \in Nat, NEW b \in 0 .. Len(ts),
           NEW base \in Nat, NEW top \in Nat, Holds(s, base, ts, a, b, top)
    PROVE  /\ b = a + Len(s) - 1 /\ base <= top
           /\ \A i \in a + 1 .. b : base <= Depth(ts[i]) /\ Depth(ts[i]) <= top
<1>1. b = a + Len(s) - 1
  BY DEF Holds
<1>2. /\ \A j \in 1 .. Len(s) : s[j].least \in Nat
      /\ Len(s) \in Nat /\ Len(s) > 0
  BY LeastsType
<1>3. \A j \in 1 .. Len(s) : Floor(ts, a, base, j) \in Nat /\ Ceiling(s, ts, a, top, j) \in Nat
  BY <1>1, HoldsType
<1>4. ASSUME NEW i \in 1 .. Len(s), NEW j \in 1 .. Len(s), i <= j
      PROVE  Floor(ts, a, base, i) <= Ceiling(s, ts, a, top, j)
  <2>1. Floor(ts, a, base, i) + s[i].least <= Ceiling(s, ts, a, top, j)
    BY <1>4 DEF Holds
  <2>2. s[i].least \in Nat /\ Floor(ts, a, base, i) \in Nat /\ Ceiling(s, ts, a, top, j) \in Nat
    BY <1>2, <1>3
  <2> QED
    BY <2>1, <2>2
<1>5. Floor(ts, a, base, 1) = base /\ Ceiling(s, ts, a, top, Len(s)) = top
  BY DEF Floor, Ceiling
<1>6. 1 \in 1 .. Len(s) /\ Len(s) \in 1 .. Len(s) /\ 1 <= Len(s)
  BY <1>2
<1>7. base <= top
  BY <1>4, <1>5, <1>6
<1>8. ASSUME NEW i \in a + 1 .. b
      PROVE  base <= Depth(ts[i]) /\ Depth(ts[i]) <= top
  <2> DEFINE j == i - a
  <2>1. /\ j \in 1 .. Len(s) /\ j + 1 \in 1 .. Len(s) /\ 1 <= j /\ j + 1 <= Len(s)
        /\ j < Len(s) /\ a + j = i /\ a + (j + 1) - 1 = i
    BY <1>1, <1>2
  <2> HIDE DEF j
  <2>2. j # Len(s) /\ j + 1 # 1
    BY <1>2, <2>1
  <2>3. Ceiling(s, ts, a, top, j) = Depth(ts[i])
    BY <2>1, <2>2 DEF Ceiling
  <2>4. Floor(ts, a, base, j + 1) = Depth(ts[i])
    BY <2>1, <2>2 DEF Floor
  <2> QED
    BY <1>4, <1>5, <1>6, <2>1, <2>3, <2>4
<1> QED
  BY <1>1, <1>7, <1>8

\* What the innermost frame has.
LEMMA TopFacts ==
    ASSUME NEW at, Levelled(at), NEW kind, NEW fs \in Seq(FrameType(at)), Framed(at, kind, fs),
           NEW ts, Depths(ts), NEW p \in DOMAIN at, NEW n \in Nat, NEW start,
           Segments(at, kind, p, n, fs, ts, start)
    PROVE  /\ start[Len(fs)] \in 0 .. Len(ts) /\ Base(fs, Len(fs)) \in Nat
           /\ Holds(at[p], Base(fs, Len(fs)), ts, start[Len(fs)], Len(ts), n)
           /\ Len(ts) = start[Len(fs)] + Len(at[p]) - 1 /\ Base(fs, Len(fs)) <= n
           /\ \A i \in DOMAIN ts : /\ Depth(ts[i]) <= n
                                   /\ ts[i].frameDepth \in Outermost(kind, fs) .. Len(fs)
           /\ \A i \in DOMAIN ts : ts[i].frameDepth = Len(fs) <=> i > start[Len(fs)]
           /\ \A i \in DOMAIN ts : i > start[Len(fs)] => Base(fs, Len(fs)) <= Depth(ts[i])
           /\ \A i \in DOMAIN ts : i <= start[Len(fs)] => Depth(ts[i]) < Base(fs, Len(fs))
<1> DEFINE F == Len(fs)
           O == Outermost(kind, fs)
<1>1. F \in Nat /\ O \in 0 .. F /\ Base(fs, F) \in Nat
  <2>1. F \in Nat /\ O \in 0 .. F
    BY FramesType
  <2>2. F \in O .. F
    BY <2>1
  <2> QED
    BY <2>1, <2>2, FramesType
<1>2. Len(ts) \in Nat /\ DOMAIN ts = 1 .. Len(ts) /\ Len(ts) \in 0 .. Len(ts)
      /\ \A i \in 1 .. Len(ts) : Depth(ts[i]) \in Nat
  BY DepthsType
<1>3. F \in O .. F /\ F \in O .. F + 1 /\ F + 1 \in O .. F + 1 /\ F <= F + 1
  BY <1>1
<1>4. start[F] \in 0 .. Len(ts) /\ start[F + 1] = Len(ts) /\ start[F] \in Nat
  BY <1>2, <1>3 DEF Segments
<1>5. Holds(at[p], Base(fs, F), ts, start[F], Len(ts), n)
  <2>1. Place(p, fs, F) = p /\ Top(n, fs, F) = n
    BY DEF Place, Top
  <2>2. Holds(at[Place(p, fs, F)], Base(fs, F), ts, start[F], start[F + 1], Top(n, fs, F))
    BY <1>3 DEF Segments
  <2> QED
    BY <1>4, <2>1, <2>2
<1>6. Leasts(at[p])
  BY DEF Levelled
<1>7. /\ Len(ts) = start[F] + Len(at[p]) - 1 /\ Base(fs, F) <= n
      /\ \A i \in start[F] + 1 .. Len(ts) : Base(fs, F) <= Depth(ts[i]) /\ Depth(ts[i]) <= n
  BY <1>1, <1>2, <1>4, <1>5, <1>6, HoldsBounds
<1>8. \A i \in DOMAIN ts : ts[i].frameDepth \in O .. F
  BY DEF Segments
<1>9. ASSUME NEW i \in DOMAIN ts
      PROVE  /\ Depth(ts[i]) <= n
             /\ ts[i].frameDepth = F <=> i > start[F]
             /\ i > start[F] => Base(fs, F) <= Depth(ts[i])
             /\ i <= start[F] => Depth(ts[i]) < Base(fs, F)
  <2>1. i \in 1 .. Len(ts) /\ i \in Nat
    BY <1>2
  <2>2. CASE i > start[F]
    <3>1. i \in start[F] + 1 .. Len(ts) /\ start[F] < i /\ i <= start[F + 1]
      BY <1>4, <2>1, <2>2
    <3>2. ts[i].frameDepth = F
      BY <1>3, <3>1 DEF Segments
    <3>3. ~(i <= start[F])
      BY <1>4, <2>1, <2>2
    <3> QED
      BY <1>7, <2>2, <3>1, <3>2, <3>3
  <2>3. CASE ~(i > start[F])
    <3>1. i <= start[F]
      BY <1>4, <2>1, <2>3
    <3>2. ts[i].frameDepth < F /\ Depth(ts[i]) < Base(fs, F)
      BY <1>3, <3>1 DEF Segments
    <3>3. Depth(ts[i]) \in Nat
      BY <1>2, <2>1
    <3>4. Depth(ts[i]) <= n
      BY <1>1, <1>7, <3>2, <3>3
    <3>5. ts[i].frameDepth # F
      <4>1. ts[i].frameDepth \in Nat
        BY <1>1, <1>8
      <4> QED
        BY <1>1, <3>2, <4>1
    <3> QED
      BY <2>3, <3>2, <3>4, <3>5
  <2> QED
    BY <2>2, <2>3
<1> QED
  BY <1>1, <1>4, <1>5, <1>7, <1>8, <1>9

\* A call: the caller's levels are kept for its return, the callee has those of
\* the first instruction.
LEMMA PushFrame ==
    ASSUME NEW at, Levelled(at), NEW fs \in Seq(FrameType(at)), Framed(at, "function", fs),
           NEW ts, Depths(ts), NEW p \in DOMAIN at, NEW r \in DOMAIN at,
           NEW n \in Nat, NEW m \in Nat, NEW start,
           Segments(at, "function", p, n, fs, ts, start),
           NEW gs \in Seq(FrameType(at)), Len(gs) = Len(fs) + 1,
           \A j \in 1 .. Len(fs) : gs[j] = fs[j],
           gs[Len(gs)].bp = n + 1, gs[Len(gs)].back = p,
           Holds(at[r], n + 1, ts, Len(ts), Len(ts), m)
    PROVE  /\ Framed(at, "function", gs)
           /\ \E first : Segments(at, "function", r, m, gs, ts, first)
<1> DEFINE F == Len(fs)
           kind == "function"
           first == [k \in 1 .. F + 2 |-> IF k = F + 2 THEN Len(ts) ELSE start[k]]
<1>1. F \in Nat /\ Outermost(kind, fs) = 1 /\ F \in 1 .. F /\ Outermost(kind, gs) = 1
  BY FramesType DEF Outermost
<1>2. Len(ts) \in Nat /\ DOMAIN ts = 1 .. Len(ts)
      /\ \A i \in 1 .. Len(ts) : Depth(ts[i]) \in Nat
  BY DepthsType
<1>3. /\ start[1] = 0 /\ start[F + 1] = Len(ts)
      /\ \A k, l \in 1 .. F + 1 : start[k] \in Nat /\ (k <= l => start[k] <= start[l])
  BY <1>1 DEF Segments
<1>4. Len(gs) = F + 1 /\ gs[F + 1].bp = n + 1 /\ gs[F + 1].back = p
  OBVIOUS
<1>5. first[F + 2] = Len(ts) /\ \A k \in 1 .. F + 1 : first[k] = start[k]
  BY <1>1
<1>6. first[1] = 0
  BY <1>1, <1>3, <1>5
<1> HIDE DEF first
<1>7. Framed(at, kind, gs)
  <2>1. gs # <<>> /\ kind # "script" /\ kind # "generator"
    BY <1>1, <1>4
  <2>2. gs[1] = fs[1] /\ fs[1].back = 0
    BY <1>1 DEF Framed
  <2>3. \A k \in 2 .. F + 1 : gs[k].back \in DOMAIN at
    <3> TAKE k \in 2 .. F + 1
    <3>1. CASE k = F + 1
      BY <1>4, <3>1
    <3>2. CASE k # F + 1
      <4>1. k \in Outermost(kind, fs) + 1 .. F /\ k \in 1 .. F
        BY <1>1, <3>2
      <4> QED
        BY <4>1 DEF Framed
    <3> QED
      BY <3>1, <3>2
  <2> QED
    BY <1>1, <1>4, <2>1, <2>2, <2>3 DEF Framed
<1>8. \A k \in 1 .. F : /\ Place(r, gs, k) = Place(p, fs, k) /\ Top(m, gs, k) = Top(n, fs, k)
                        /\ Base(gs, k) = Base(fs, k)
  <2> TAKE k \in 1 .. F
  <2>1. Base(gs, k) = Base(fs, k)
    BY DEF Base
  <2>2. k # Len(gs)
    BY <1>1, <1>4
  <2>3. CASE k = F
    BY <1>4, <2>1, <2>2, <2>3 DEF Place, Top
  <2>4. CASE k # F
    <3>1. k + 1 \in 1 .. F
      BY <1>1, <2>4
    <3> QED
      BY <2>1, <2>2, <2>4, <3>1 DEF Place, Top
  <2> QED
    BY <2>3, <2>4
<1>9. Place(r, gs, F + 1) = r /\ Top(m, gs, F + 1) = m /\ Base(gs, F + 1) = n + 1
  <2>1. F + 1 # 0
    BY <1>1
  <2> QED
    BY <1>4, <2>1 DEF Place, Top, Base
<1>10. ASSUME NEW k \in 1 .. F + 2, NEW l \in 1 .. F + 2
       PROVE  first[k] \in Nat /\ (k <= l => first[k] <= first[l])
  <2>1. \A j \in 1 .. F + 1 : start[j] \in Nat /\ start[j] <= Len(ts)
    <3> TAKE j \in 1 .. F + 1
    <3>1. F + 1 \in 1 .. F + 1 /\ j <= F + 1
      BY <1>1
    <3> QED
      BY <1>3, <3>1
  <2>2. CASE k \in 1 .. F + 1 /\ l \in 1 .. F + 1
    BY <1>3, <1>5, <2>2
  <2>3. CASE k \in 1 .. F + 1 /\ l = F + 2
    BY <1>5, <2>1, <2>3
  <2>4. CASE k = F + 2
    BY <1>1, <1>2, <1>5, <2>4
  <2> QED
    BY <1>1, <2>2, <2>3, <2>4
<1>11. \A i \in DOMAIN ts : /\ ts[i].frameDepth \in 1 .. F /\ i <= Len(ts)
                            /\ Depth(ts[i]) <= n /\ Depth(ts[i]) \in Nat
  <2>1. \A i \in DOMAIN ts : Depth(ts[i]) <= n /\ ts[i].frameDepth \in 1 .. F
    BY <1>1, TopFacts
  <2> QED
    BY <1>2, <2>1
<1>12. ASSUME NEW k \in 1 .. F + 1, NEW i \in DOMAIN ts
       PROVE  /\ first[k] < i /\ i <= first[k + 1] => ts[i].frameDepth = k
              /\ i <= first[k] => ts[i].frameDepth < k /\ Depth(ts[i]) < Base(gs, k)
              /\ first[k + 1] < i => ts[i].frameDepth > k
  <2>1. CASE k = F + 1
    <3>1. first[k] = Len(ts) /\ first[k + 1] = Len(ts)
      BY <1>1, <1>3, <1>5, <2>1
    <3>2. ~(Len(ts) < i)
      BY <1>2, <1>11
    <3>3. ts[i].frameDepth < k /\ Depth(ts[i]) < Base(gs, k)
      BY <1>1, <1>9, <1>11, <2>1
    <3> QED
      BY <3>1, <3>2, <3>3
  <2>2. CASE k # F + 1
    <3>1. k \in 1 .. F /\ k \in 1 .. F + 1 /\ k + 1 \in 1 .. F + 1
      BY <1>1, <2>2
    <3>2. first[k] = start[k] /\ first[k + 1] = start[k + 1] /\ Base(gs, k) = Base(fs, k)
      BY <1>5, <1>8, <3>1
    <3> QED
      BY <1>1, <3>1, <3>2 DEF Segments
  <2> QED
    BY <2>1, <2>2
<1>13. ASSUME NEW k \in 1 .. F + 1
       PROVE  Holds(at[Place(r, gs, k)], Base(gs, k), ts, first[k], first[k + 1], Top(m, gs, k))
  <2>1. CASE k = F + 1
    <3>1. first[k] = Len(ts) /\ first[k + 1] = Len(ts)
      BY <1>1, <1>3, <1>5, <2>1
    <3> QED
      BY <1>9, <2>1, <3>1
  <2>2. CASE k # F + 1
    <3>1. k \in 1 .. F /\ k \in 1 .. F + 1 /\ k + 1 \in 1 .. F + 1
      BY <1>1, <2>2
    <3>2. first[k] = start[k] /\ first[k + 1] = start[k + 1]
      BY <1>5, <3>1
    <3>3. Holds(at[Place(p, fs, k)], Base(fs, k), ts, start[k], start[k + 1], Top(n, fs, k))
      BY <1>1, <3>1 DEF Segments
    <3> QED
      BY <1>8, <3>1, <3>2, <3>3
  <2> QED
    BY <2>1, <2>2
<1>14. \A i \in DOMAIN ts : ts[i].frameDepth \in 1 .. F + 1
  BY <1>1, <1>11
<1>15. Segments(at, kind, r, m, gs, ts, first)
  <2>1. F + 1 + 1 = F + 2
    BY <1>1
  <2> QED
    BY <1>1, <1>4, <1>5, <1>6, <1>10, <1>12, <1>13, <1>14, <2>1 DEF Segments
<1> QED
  BY <1>7, <1>15

\* Where a throw goes from any of the levels, it is found what the handler's
\* code expects.
Catching(at) ==
    \A n \in DOMAIN at : \A j \in 2 .. Len(at[n]) :
        at[n][j].catch \in DOMAIN at /\ Fits(SubSeq(at[n], 1, j - 1), at[at[n][j].catch])

\* An exception: the innermost handler's catch block finds the levels it is
\* compiled for, in whatever frame it is.
LEMMA Unwinds ==
    ASSUME NEW at, Levelled(at), Catching(at),
           NEW kind, NEW fs \in Seq(FrameType(at)), Framed(at, kind, fs),
           NEW ts, Depths(ts), NEW p \in DOMAIN at, NEW n \in Nat, NEW start,
           Segments(at, kind, p, n, fs, ts, start),
           NEW m \in 1 .. Len(ts), NEW h \in Nat, Depth(ts[m]) <= h,
           NEW us, Depths(us), Len(us) = m - 1, \A i \in 1 .. m - 1 : us[i] = ts[i]
    PROVE  LET gs == SubSeq(fs, 1, ts[m].frameDepth)
           IN /\ ts[m].catch \in DOMAIN at /\ gs \in Seq(FrameType(at))
              /\ Len(gs) = ts[m].frameDepth /\ Framed(at, kind, gs)
              /\ \E first : Segments(at, kind, ts[m].catch, h, gs, us, first)
<1> DEFINE F == Len(fs)
           O == Outermost(kind, fs)
           k == ts[m].frameDepth
           gs == SubSeq(fs, 1, k)
           vs == SubSeq(ts, 1, start[k + 1])
           P == Place(p, fs, k)
           T == Top(n, fs, k)
           B == Base(gs, k)
           j == m - start[k] + 1
           s == at[P]
           below == SubSeq(s, 1, j - 1)
<1>1. F \in Nat /\ O \in 0 .. F
  BY FramesType
<1>2. Len(ts) \in Nat /\ DOMAIN ts = 1 .. Len(ts) /\ m \in DOMAIN ts
  BY DepthsType
<1>3. k \in O .. F
  BY <1>2 DEF Segments
<1>4. k \in 0 .. F /\ k \in O .. F + 1 /\ k + 1 \in O .. F + 1 /\ F + 1 \in O .. F + 1
      /\ k + 1 <= F + 1 /\ k <= k + 1
  BY <1>1, <1>3, SMTT(60)
<1>5. start[k] \in Nat /\ start[k + 1] \in 0 .. Len(ts) /\ start[k] <= start[k + 1]
  BY <1>2, <1>4, SMTT(60) DEF Segments
<1>6. start[k] < m /\ m <= start[k + 1]
  <2>1. m <= start[k] => k < k
    BY <1>2, <1>3 DEF Segments
  <2>2. start[k + 1] < m => k > k
    BY <1>2, <1>3 DEF Segments
  <2> QED
    BY <1>2, <1>4, <1>5, <2>1, <2>2, SMTT(60)
<1> HIDE DEF k
<1>7. gs \in Seq(FrameType(at)) /\ Len(gs) = k /\ \A i \in 1 .. k : gs[i] = fs[i]
  BY <1>4, SeqPrefix
<1>8. IsSeq(vs) /\ Len(vs) = start[k + 1] /\ \A i \in 1 .. start[k + 1] : vs[i] = ts[i]
  BY <1>5, SeqPrefix DEF IsSeq, Depths
<1> HIDE DEF gs, vs
<1>9. P \in DOMAIN at /\ T \in Nat
  BY <1>3, FramesType
<1>10. /\ Framed(at, kind, gs) /\ Depths(vs) /\ Len(vs) <= Len(ts)
       /\ Segments(at, kind, P, T, gs, vs, start)
  <2>1. k \in Outermost(kind, fs) .. Len(fs)
    BY <1>3
  <2>2. Framed(at, kind, gs) /\ Depths(vs) /\ Len(vs) <= Len(ts)
    BY <1>7, <1>8, <2>1, DropFrames
  <2>3. Segments(at, kind, Place(p, fs, k), Top(n, fs, k), gs, vs, start)
    BY <1>7, <1>8, <2>1, DropFrames
  <2> QED
    BY <2>2, <2>3
<1> HIDE DEF P, T
<1>11. /\ Holds(s, B, vs, start[k], Len(vs), T) /\ B \in Nat
       /\ Len(vs) = start[k] + Len(s) - 1
  <2>1. k = Len(gs)
    BY <1>7
  <2> QED
    BY <1>7, <1>9, <1>10, <2>1, TopFacts
<1>12. Leasts(s) /\ IsSeq(s) /\ Len(s) \in Nat
  BY <1>9, LeastsType DEF Levelled, Leasts
<1>13. j \in 2 .. Len(s) /\ start[k] + j - 1 = m /\ start[k] + j - 2 = m - 1
       /\ j \in 1 .. Len(s) /\ j - 1 \in 0 .. Len(s) /\ j - 1 > 0
  <2>1. j \in Int /\ j > 1 /\ m \in Int
    BY <1>5, <1>6
  <2>2. j <= Len(s)
    BY <1>5, <1>6, <1>8, <1>11, <1>12
  <2>3. start[k] + j - 1 = m /\ start[k] + j - 2 = m - 1
    BY <1>5
  <2> QED
    BY <1>12, <2>1, <2>2, <2>3, SMTT(60)
<1> HIDE DEF j, s, B
<1>14. vs[m] = ts[m] /\ m \in 1 .. Len(vs) /\ Len(vs) \in 0 .. Len(vs)
  BY <1>5, <1>6, <1>8
<1>15. Holds(below, B, vs, start[k], m - 1, h)
  <2>1. Depth(vs[start[k] + j - 1]) <= h
    BY <1>13, <1>14
  <2>2. Holds(below, B, vs, start[k], start[k] + j - 2, h)
    BY <1>5, <1>9, <1>10, <1>11, <1>12, <1>13, <1>14, <2>1, HoldsBelow
  <2> QED
    BY <1>13, <2>2
<1>16. Leasts(below)
  <2>1. PICK S : s \in Seq(S)
    BY <1>12 DEF IsSeq
  <2>2. /\ below \in Seq(S) /\ Len(below) = j - 1
        /\ \A i \in 1 .. j - 1 : below[i] = s[i]
    BY <1>13, <2>1, SeqPrefix
  <2>3. \A i \in 1 .. Len(below) : below[i].least \in Nat
    BY <1>12, <1>13, <2>2, LeastsType
  <2>4. below # <<>>
    BY <1>13, <2>2
  <2> QED
    BY <2>2, <2>3, <2>4 DEF Leasts, IsSeq
<1>17. ts[m].catch = s[j].catch
  <2>1. vs[start[k] + j - 1].catch = s[j].catch
    BY <1>11, <1>13 DEF Holds
  <2> QED
    BY <1>13, <1>14, <2>1
<1>18. ts[m].catch \in DOMAIN at /\ Fits(below, at[ts[m].catch])
  BY <1>9, <1>13, <1>17 DEF Catching, s
<1> HIDE DEF below
<1>19. Leasts(at[ts[m].catch]) /\ m - 1 \in 0 .. Len(vs) /\ m - 1 <= Len(us)
  BY <1>5, <1>6, <1>8, <1>18 DEF Levelled
<1>20. Holds(at[ts[m].catch], B, vs, start[k], m - 1, h)
  BY <1>5, <1>10, <1>11, <1>15, <1>16, <1>18, <1>19, HoldsFits
<1>21. \A i \in 1 .. m - 1 : us[i] = vs[i]
  <2> TAKE i \in 1 .. m - 1
  <2>1. i \in 1 .. start[k + 1]
    BY <1>5, <1>6
  <2> QED
    BY <1>8, <2>1
<1>22. Holds(at[ts[m].catch], B, us, start[k], Len(us), h)
  <2>1. \A i \in start[k] + 1 .. m - 1 : us[i] = vs[i]
    <3> TAKE i \in start[k] + 1 .. m - 1
    <3>1. i \in 1 .. m - 1
      BY <1>5
    <3> QED
      BY <1>21, <3>1
  <2>2. PICK t : t = at[ts[m].catch]
    OBVIOUS
  <2>3. PICK a : a = start[k]
    OBVIOUS
  <2>4. PICK b : b = m - 1
    OBVIOUS
  <2>5. /\ Leasts(t) /\ a \in Nat /\ b \in 0 .. Len(vs) /\ b <= Len(us)
        /\ Holds(t, B, vs, a, b, h) /\ \A i \in a + 1 .. b : us[i] = vs[i]
    BY <1>5, <1>19, <1>20, <2>1, <2>2, <2>3, <2>4
  <2>6. Holds(t, B, us, a, b, h)
    BY <1>10, <1>11, <2>5, HoldsSame
  <2> QED
    BY <2>2, <2>3, <2>4, <2>6
<1>23. \A i \in start[k] + 1 .. Len(us) : us[i].frameDepth = k
  <2> TAKE i \in start[k] + 1 .. Len(us)
  <2>1. i \in 1 .. m - 1 /\ i \in DOMAIN ts /\ start[k] < i /\ i <= start[k + 1]
    BY <1>2, <1>5, <1>6
  <2> QED
    BY <1>3, <2>1 DEF Segments
<1>24. start[k] <= Len(us) /\ \A i \in 1 .. start[k] : us[i] = vs[i]
  <2>1. start[k] <= m - 1
    BY <1>5, <1>6
  <2>2. \A i \in 1 .. start[k] : i \in 1 .. m - 1
    BY <1>5, <2>1
  <2> QED
    BY <1>21, <2>1, <2>2
<1>25. \E first : Segments(at, kind, ts[m].catch, h, gs, us, first)
  <2>1. k = Len(gs)
    BY <1>7
  <2>2. Holds(at[ts[m].catch], Base(gs, Len(gs)), us, start[Len(gs)], Len(us), h)
    BY <1>22, <2>1 DEF B
  <2>3. Grafted(us, vs, start[Len(gs)], Len(gs))
    BY <1>23, <1>24, <2>1 DEF Grafted
  <2>4. PICK q : q = ts[m].catch
    OBVIOUS
  <2>5. q \in DOMAIN at /\ Holds(at[q], Base(gs, Len(gs)), us, start[Len(gs)], Len(us), h)
    BY <1>18, <2>2, <2>4
  <2>6. gs \in Seq(FrameType(at)) /\ Depths(vs)
    BY <1>7, <1>10
  <2>7. Framed(at, kind, gs) /\ Segments(at, kind, P, T, gs, vs, start)
    BY <1>10
  <2>8. \E first : Segments(at, kind, q, h, gs, us, first)
    BY <1>9, <2>3, <2>5, <2>6, <2>7, NewTop, SMTT(60)
  <2> QED
    BY <2>4, <2>8
<1> QED
  BY <1>7, <1>10, <1>18, <1>25 DEF gs, k

----------------------------------------------------------------------------
\* A script, a generator and an async function have one frame.
LEMMA OneSegment ==
    ASSUME NEW at, NEW kind, NEW fs \in Seq(FrameType(at)), Outermost(kind, fs) = Len(fs),
           NEW ts, Depths(ts), NEW p \in DOMAIN at, NEW n \in Nat,
           \A i \in DOMAIN ts : ts[i].frameDepth = Len(fs),
           Holds(at[p], Base(fs, Len(fs)), ts, 0, Len(ts), n)
    PROVE  \E start : Segments(at, kind, p, n, fs, ts, start)
<1> DEFINE F == Len(fs)
           start == [k \in {F, F + 1} |-> IF k = F THEN 0 ELSE Len(ts)]
<1>1. F \in Nat /\ Len(ts) \in Nat /\ DOMAIN ts = 1 .. Len(ts)
  BY DepthsType
<1>2. start[F] = 0 /\ start[F + 1] = Len(ts)
  BY <1>1
<1> HIDE DEF start
<1>3. ASSUME NEW k \in F .. F + 1, NEW l \in F .. F + 1
      PROVE  start[k] \in Nat /\ (k <= l => start[k] <= start[l])
  <2>1. (k = F \/ k = F + 1) /\ (l = F \/ l = F + 1)
    BY <1>1
  <2> QED
    BY <1>1, <1>2, <2>1
<1>4. ASSUME NEW k \in F .. F, NEW i \in DOMAIN ts
      PROVE  /\ start[k] < i /\ i <= start[k + 1] => ts[i].frameDepth = k
             /\ i <= start[k] => ts[i].frameDepth < k /\ Depth(ts[i]) < Base(fs, k)
             /\ start[k + 1] < i => ts[i].frameDepth > k
  <2>1. k = F /\ i \in 1 .. Len(ts)
    BY <1>1
  <2>2. ~(i <= start[k]) /\ ~(start[k + 1] < i)
    BY <1>1, <1>2, <2>1
  <2> QED
    BY <2>1, <2>2
<1>5. \A i \in DOMAIN ts : ts[i].frameDepth \in F .. F
  BY <1>1
<1>6. ASSUME NEW k \in F .. F
      PROVE  Holds(at[Place(p, fs, k)], Base(fs, k), ts, start[k], start[k + 1], Top(n, fs, k))
  <2>1. k = F
    BY <1>1
  <2> QED
    BY <1>2, <2>1 DEF Place, Top
<1>7. Segments(at, kind, p, n, fs, ts, start)
  BY <1>2, <1>3, <1>4, <1>5, <1>6 DEF Segments
<1> QED
  BY <1>7

\* A function begins with one level and its argument.
LEMMA HoldsEntry ==
    ASSUME NEW s, Leasts(s), Len(s) = 1, NEW ts, NEW a \in Nat,
           NEW base \in Nat, NEW top \in Nat, base + s[1].least <= top
    PROVE  Holds(s, base, ts, a, a, top)
<1>1. a = a + Len(s) - 1
  OBVIOUS
<1>2. \A j \in 1 .. Len(s) : j = 1
  OBVIOUS
<1>3. \A j \in 2 .. Len(s) : FALSE
  OBVIOUS
<1>4. Floor(ts, a, base, 1) = base /\ Ceiling(s, ts, a, top, 1) = top
  BY DEF Floor, Ceiling
<1> QED
  BY <1>1, <1>2, <1>3, <1>4 DEF Holds

----------------------------------------------------------------------------
(* The greatest of a bounded set.                                           *)

\* The least of a set of numbers.
LEMMA LeastIn ==
    ASSUME NEW T, T \subseteq Nat, T # {}
    PROVE  \E x \in T : \A y \in T : x <= y
<1> DEFINE R == OpToRel(<, Nat)
<1>1. IsWellFoundedOn(R, Nat) /\ \A y, x \in Nat : y < x => <<y, x>> \in R
  <2>1. \A y, x \in Nat : y < x => <<y, x>> \in R
    BY DEF OpToRel
  <2> QED
    BY <2>1, NatLessThanWellFounded, Zenon
<1> HIDE DEF R
<1>2. PICK x \in T : \A y \in T : ~(<<y, x>> \in R)
  <2>1. IsWellFoundedOn(R, Nat)
    BY <1>1
  <2>2. T \subseteq Nat /\ T # {}
    OBVIOUS
  <2> QED
    BY <2>1, <2>2, WFMin, Zenon
<1>3. \A y \in T : x <= y
  <2> TAKE y \in T
  <2>1. x \in Nat /\ y \in Nat
    OBVIOUS
  <2>2. ~(y < x)
    BY <1>1, <1>2, <2>1
  <2> QED
    BY <2>1, <2>2
<1> QED
  BY <1>3

\* The greatest, of a bounded set.
LEMMA GreatestIn ==
    ASSUME NEW T, NEW n \in Nat, T \subseteq 0 .. n, T # {}
    PROVE  \E x \in T : \A y \in T : x >= y
<1> DEFINE U == {n - x : x \in T}
<1>1. U \subseteq Nat /\ U # {}
  <2>1. \A x \in T : n - x \in Nat
    <3> TAKE x \in T
    <3>1. x \in 0 .. n
      OBVIOUS
    <3> QED
      BY <3>1
  <2> QED
    BY <2>1
<1> HIDE DEF U
<1>2. PICK u \in U : \A v \in U : u <= v
  BY <1>1, LeastIn
<1>3. PICK x \in T : u = n - x
  BY DEF U
<1>4. \A y \in T : x >= y
  <2> TAKE y \in T
  <2>1. n - y \in U
    BY DEF U
  <2>2. n - x <= n - y /\ x \in Nat /\ y \in Nat
    BY <1>2, <1>3, <2>1
  <2> QED
    BY <2>2
<1> QED
  BY <1>4

\* Max of the library is that one.
LEMMA MaxIn ==
    ASSUME NEW T, NEW n \in Nat, T \subseteq 0 .. n, T # {}
    PROVE  Max(T) \in T /\ \A y \in T : Max(T) >= y
<1>1. \E x \in T : \A y \in T : x >= y
  BY GreatestIn
<1> QED
  BY <1>1 DEF Max

\* And so is Min.
LEMMA MinIn ==
    ASSUME NEW T, T \subseteq Nat, T # {}
    PROVE  Min(T) \in T /\ \A y \in T : Min(T) <= y
<1>1. \E x \in T : \A y \in T : x <= y
  BY LeastIn
<1> QED
  BY <1>1 DEF Min

\* What is kept of the handlers is a prefix.
LEMMA PrefixTo ==
    ASSUME NEW S, NEW ts \in Seq(S), NEW N, N \subseteq DOMAIN ts
    PROVE  /\ Max({0} \cup N) \in 0 .. Len(ts) /\ Max({0} \cup N) \in {0} \cup N
           /\ \A i \in N : i <= Max({0} \cup N)
           /\ SubSeq(ts, 1, Max({0} \cup N)) \in Seq(S)
           /\ Len(SubSeq(ts, 1, Max({0} \cup N))) = Max({0} \cup N)
           /\ \A i \in 1 .. Max({0} \cup N) : SubSeq(ts, 1, Max({0} \cup N))[i] = ts[i]
<1> DEFINE T == {0} \cup N
<1>1. Len(ts) \in Nat /\ T \subseteq 0 .. Len(ts) /\ T # {} /\ N \subseteq T /\ N \subseteq Nat
  OBVIOUS
<1> HIDE DEF T
<1>2. Max(T) \in T /\ \A y \in T : Max(T) >= y
  BY <1>1, MaxIn
<1>3. Max(T) \in 0 .. Len(ts)
  BY <1>1, <1>2
<1>4. \A i \in N : i <= Max(T)
  BY <1>1, <1>2, <1>3
<1>5. /\ SubSeq(ts, 1, Max(T)) \in Seq(S) /\ Len(SubSeq(ts, 1, Max(T))) = Max(T)
      /\ \A i \in 1 .. Max(T) : SubSeq(ts, 1, Max(T))[i] = ts[i]
  BY <1>3, SeqPrefix
<1> QED
  BY <1>2, <1>3, <1>4, <1>5 DEF T

\* generator_return_pending passes over the innermost handlers only.
LEMMA HandlersPrefix ==
    ASSUME NEW S, NEW ts \in Seq(S), NEW returned
    PROVE  /\ Handlers(ts, returned) \in Seq(S)
           /\ Len(Handlers(ts, returned)) \in 0 .. Len(ts)
           /\ \A i \in 1 .. Len(Handlers(ts, returned)) : Handlers(ts, returned)[i] = ts[i]
<1>1. CASE returned = None
  BY <1>1 DEF Handlers
<1>2. CASE returned # None
  <2> DEFINE N == {n \in DOMAIN ts : ts[n].forFinally}
             hs == SubSeq(ts, 1, Max({0} \cup N))
  <2>1. Handlers(ts, returned) = hs
    BY <1>2 DEF Handlers
  <2>2. N \subseteq DOMAIN ts
    OBVIOUS
  <2> HIDE DEF N
  <2>3. /\ Max({0} \cup N) \in 0 .. Len(ts) /\ hs \in Seq(S) /\ Len(hs) = Max({0} \cup N)
        /\ \A i \in 1 .. Max({0} \cup N) : hs[i] = ts[i]
    BY <2>2, PrefixTo
  <2> QED
    BY <2>1, <2>3
<1> QED
  BY <1>1, <1>2

----------------------------------------------------------------------------
(* Levels and what follows an instruction.                                  *)

\* The levels of code can be counted with.
LEMMA TypeLeasts ==
    ASSUME NEW code, NEW s \in Seq(LevelType(code)), s # <<>>
    PROVE  /\ Leasts(s) /\ Len(s) \in 1 .. Len(s)
           /\ s[Len(s)] \in LevelType(code) /\ s[Len(s)].least \in Nat
<1>1. Len(s) \in 1 .. Len(s) /\ IsSeq(s)
  BY DEF IsSeq
<1>2. \A j \in 1 .. Len(s) : s[j] \in LevelType(code)
  OBVIOUS
<1>3. \A l \in LevelType(code) : l.least \in Nat
  BY DEF LevelType
<1> QED
  BY <1>1, <1>2, <1>3 DEF Leasts

\* A level that changes its number of values only.
LEMMA Moved ==
    ASSUME NEW code, NEW s \in Seq(LevelType(code)), s # <<>>, NEW d \in Nat,
           NEW t, t = [s EXCEPT ![Len(s)].least = d]
    PROVE  /\ t \in Seq(LevelType(code)) /\ t # <<>> /\ Len(t) = Len(s)
           /\ \A j \in 1 .. Len(s) - 1 : t[j] = s[j]
           /\ t[Len(s)].catch = s[Len(s)].catch /\ t[Len(s)].binding = s[Len(s)].binding
           /\ t[Len(s)].least = d
<1> DEFINE L == LevelType(code)
           n == Len(s)
           l == [s[n] EXCEPT !.least = d]
<1>1. n \in 1 .. n /\ n \in Nat /\ s[n] \in L
  BY TypeLeasts
<1>2. l \in L /\ l.catch = s[n].catch /\ l.binding = s[n].binding /\ l.least = d
  BY <1>1 DEF LevelType
<1>3. t = [s EXCEPT ![n] = l]
  OBVIOUS
<1> HIDE DEF l, L
<1>4. s \in [1 .. n -> L]
  BY DEF L
<1>5. t \in [1 .. n -> L] /\ t[n] = l /\ \A j \in 1 .. n - 1 : t[j] = s[j]
  BY <1>1, <1>2, <1>3, <1>4
<1>6. t \in Seq(L) /\ Len(t) = n
  BY <1>1, <1>5
<1>7. t # <<>>
  BY <1>1, <1>6
<1> QED
  BY <1>2, <1>5, <1>6, <1>7 DEF L

\* What a push makes of the levels.
LEMMA RaisedFacts ==
    ASSUME NEW code, NEW s \in Seq(LevelType(code)), s # <<>>
    PROVE  /\ Leasts(Raised(s)) /\ Len(Raised(s)) = Len(s)
           /\ \A j \in 1 .. Len(s) - 1 : Raised(s)[j] = s[j]
           /\ Raised(s)[Len(s)].catch = s[Len(s)].catch
           /\ Raised(s)[Len(s)].binding = s[Len(s)].binding
           /\ Raised(s)[Len(s)].least = s[Len(s)].least + 1
<1> DEFINE d == s[Len(s)].least + 1
<1>1. d \in Nat
  BY TypeLeasts
<1>2. Raised(s) = [s EXCEPT ![Len(s)].least = d]
  BY DEF Raised
<1> HIDE DEF d
<1>3. /\ Raised(s) \in Seq(LevelType(code)) /\ Raised(s) # <<>> /\ Len(Raised(s)) = Len(s)
      /\ \A j \in 1 .. Len(s) - 1 : Raised(s)[j] = s[j]
      /\ Raised(s)[Len(s)].catch = s[Len(s)].catch
      /\ Raised(s)[Len(s)].binding = s[Len(s)].binding
      /\ Raised(s)[Len(s)].least = d
  BY <1>1, <1>2, Moved
<1> QED
  BY <1>3, TypeLeasts DEF d

\* What a pop makes of them, if there is something to pop.
LEMMA LoweredFacts ==
    ASSUME NEW code, NEW s \in Seq(LevelType(code)), s # <<>>, s[Len(s)].least > 0
    PROVE  /\ Lowered(s) \in Seq(LevelType(code)) /\ Lowered(s) # <<>>
           /\ Leasts(Lowered(s)) /\ Len(Lowered(s)) = Len(s)
           /\ \A j \in 1 .. Len(s) - 1 : Lowered(s)[j] = s[j]
           /\ Lowered(s)[Len(s)].catch = s[Len(s)].catch
           /\ Lowered(s)[Len(s)].binding = s[Len(s)].binding
           /\ Lowered(s)[Len(s)].least = s[Len(s)].least + (-1)
<1> DEFINE d == s[Len(s)].least - 1
<1>1. d \in Nat /\ d = s[Len(s)].least + (-1)
  BY TypeLeasts
<1>2. Lowered(s) = [s EXCEPT ![Len(s)].least = d]
  BY DEF Lowered
<1> HIDE DEF d
<1>3. /\ Lowered(s) \in Seq(LevelType(code)) /\ Lowered(s) # <<>> /\ Len(Lowered(s)) = Len(s)
      /\ \A j \in 1 .. Len(s) - 1 : Lowered(s)[j] = s[j]
      /\ Lowered(s)[Len(s)].catch = s[Len(s)].catch
      /\ Lowered(s)[Len(s)].binding = s[Len(s)].binding
      /\ Lowered(s)[Len(s)].least = d
  BY <1>1, <1>2, Moved
<1> QED
  BY <1>1, <1>3, TypeLeasts

\* What TeardownTry makes of them.
LEMMA UnguardedFacts ==
    ASSUME NEW code, NEW s \in Seq(LevelType(code)), Len(s) > 1
    PROVE  LET t == Unguarded(s)
           IN /\ Leasts(t) /\ Len(t) = Len(s) - 1
              /\ \A j \in 1 .. Len(t) - 1 : t[j] = s[j]
              /\ t[Len(t)].catch = s[Len(t)].catch /\ t[Len(t)].binding = s[Len(t)].binding
              /\ t[Len(t)].least = s[Len(t)].least + s[Len(s)].least
<1> DEFINE n == Len(s) - 1
           u == SubSeq(s, 1, n)
           d == s[n].least + s[Len(s)].least
<1>1. n \in Nat /\ n > 0 /\ n \in 0 .. Len(s) /\ n \in 1 .. n /\ n \in 1 .. Len(s)
  OBVIOUS
<1>2. u \in Seq(LevelType(code)) /\ Len(u) = n /\ \A j \in 1 .. n : u[j] = s[j]
  BY <1>1, SeqPrefix
<1>3. d \in Nat
  <2>1. s # <<>>
    BY <1>1
  <2>2. Leasts(s)
    BY <2>1, TypeLeasts
  <2> QED
    BY <1>1, <2>2, LeastsType
<1>4. u[n].least + s[Len(s)].least = d
  <2>1. u[n] = s[n]
    BY <1>1, <1>2
  <2> QED
    BY <2>1
<1>11. u # <<>>
  <2> HIDE DEF u
  <2>1. Len(u) > 0 /\ u \in Seq(LevelType(code))
    BY <1>1, <1>2
  <2> QED
    BY <2>1
<1>5. Unguarded(s) = [u EXCEPT ![n].least = @ + s[Len(s)].least]
  BY DEF Unguarded
<1> HIDE DEF u, d
<1>6. Unguarded(s) = [u EXCEPT ![Len(u)].least = d]
  BY <1>2, <1>4, <1>5
<1> DEFINE t == Unguarded(s)
<1> HIDE DEF t
<1>7. /\ t \in Seq(LevelType(code)) /\ t # <<>> /\ Len(t) = n
      /\ \A j \in 1 .. n - 1 : t[j] = u[j]
      /\ t[n].catch = u[n].catch /\ t[n].binding = u[n].binding
      /\ t[n].least = d
  <2> DEFINE v == [u EXCEPT ![Len(u)].least = d]
  <2>1. t = v
    BY <1>6 DEF t
  <2> HIDE DEF v
  <2>3. v = [u EXCEPT ![Len(u)].least = d]
    BY DEF v
  <2>2. /\ v \in Seq(LevelType(code)) /\ v # <<>> /\ Len(v) = Len(u)
        /\ \A j \in 1 .. Len(u) - 1 : v[j] = u[j]
        /\ v[Len(u)].catch = u[Len(u)].catch /\ v[Len(u)].binding = u[Len(u)].binding
        /\ v[Len(u)].least = d
    BY <1>2, <1>3, <1>11, <2>3, Moved
  <2> QED
    BY <1>2, <2>1, <2>2
<1>8. \A j \in 1 .. n - 1 : t[j] = s[j]
  <2> TAKE j \in 1 .. n - 1
  <2>1. j \in 1 .. n
    BY <1>1
  <2> QED
    BY <1>2, <1>7, <2>1
<1>9. t[n].catch = s[n].catch /\ t[n].binding = s[n].binding
  BY <1>1, <1>2, <1>7
<1>10. Leasts(t)
  BY <1>7, TypeLeasts
<1> QED
  BY <1>7, <1>8, <1>9, <1>10 DEF t, d

\* What it means that code nests, in the parts the proofs use.
LEMMA NestsFacts ==
    ASSUME NEW p, NEW at, NestsAt(p, at)
    PROVE  /\ Levelled(at) /\ Catching(at) /\ DOMAIN at \subseteq DOMAIN Code(p)
           /\ 1 \in DOMAIN at /\ Fits(Entry(p), at[1])
           /\ \A n \in DOMAIN at :
                 /\ at[n] \in Seq(LevelType(Code(p))) /\ at[n] # <<>>
                 /\ Code(p)[n].handlers = Len(at[n]) - 1
                 /\ Enough(Code(p)[n], at[n]) /\ InPlace(Code(p)[n], p)
                 /\ \A q, t : <<q, t>> \in Following(Code(p)[n], n, at[n]) =>
                        q \in DOMAIN at /\ Fits(t, at[q])
<1> DEFINE code == Code(p)
<1>1. DOMAIN at \subseteq DOMAIN code /\ 1 \in DOMAIN at /\ Fits(Entry(p), at[1])
  BY DEF NestsAt
<1>2. ASSUME NEW n \in DOMAIN at
      PROVE  /\ at[n] \in Seq(LevelType(code)) /\ at[n] # <<>>
             /\ code[n].handlers = Len(at[n]) - 1
             /\ Enough(code[n], at[n]) /\ InPlace(code[n], p)
             /\ \A next \in Following(code[n], n, at[n]) :
                   next[1] \in DOMAIN at /\ Fits(next[2], at[next[1]])
             /\ \A j \in 2 .. Len(at[n]) :
                   at[n][j].catch \in DOMAIN at /\ Fits(SubSeq(at[n], 1, j - 1), at[at[n][j].catch])
  BY DEF NestsAt
<1>3. Levelled(at)
  BY <1>2, TypeLeasts DEF Levelled
<1>4. Catching(at)
  BY <1>2 DEF Catching
<1>5. ASSUME NEW n \in DOMAIN at, NEW q, NEW t, <<q, t>> \in Following(code[n], n, at[n])
      PROVE  q \in DOMAIN at /\ Fits(t, at[q])
  <2>1. <<q, t>>[1] = q /\ <<q, t>>[2] = t
    OBVIOUS
  <2>2. <<q, t>>[1] \in DOMAIN at /\ Fits(<<q, t>>[2], at[<<q, t>>[1]])
    BY <1>2, <1>5
  <2> QED
    BY <2>1, <2>2
<1> QED
  BY <1>1, <1>2, <1>3, <1>4, <1>5

\* The instructions that leave the stack as high as it was go on to the next.
LEMMA FollowingKeeping ==
    ASSUME NEW i, NEW n, NEW s, i.op \in Keeping
    PROVE  Following(i, n, s) = {<<n + 1, s>>}
BY DEF Following, Keeping, Pushing, Popping, Testing

\* So do those that push,
LEMMA FollowingPushing ==
    ASSUME NEW i, NEW n, NEW s, i.op \in Pushing
    PROVE  Following(i, n, s) = {<<n + 1, Raised(s)>>}
BY DEF Following, Keeping, Pushing, Popping, Testing

\* and those that pop.
LEMMA FollowingPopping ==
    ASSUME NEW i, NEW n, NEW s, i.op \in Popping
    PROVE  Following(i, n, s) = {<<n + 1, Lowered(s)>>}
BY DEF Following, Keeping, Pushing, Popping, Testing

\* A test may also jump.
LEMMA FollowingTesting ==
    ASSUME NEW i, NEW n, NEW s, i.op \in Testing
    PROVE  Following(i, n, s) = {<<n + 1, s>>, <<i.to, s>>}
BY DEF Following, Keeping, Pushing, Popping, Testing

\* A jump jumps.
LEMMA FollowingJump ==
    ASSUME NEW i, NEW n, NEW s, i.op = "jump"
    PROVE  Following(i, n, s) = {<<i.to, s>>}
BY DEF Following, Keeping, Pushing, Popping, Testing

\* Iterate pushes the item or leaves the loop.
LEMMA FollowingIterate ==
    ASSUME NEW i, NEW n, NEW s, i.op = "iterate"
    PROVE  Following(i, n, s) = {<<n + 1, Raised(s)>>, <<i.to, s>>}
BY DEF Following, Keeping, Pushing, Popping, Testing

\* SetupTry adds a level.
LEMMA FollowingSetup ==
    ASSUME NEW i, NEW n, NEW s, i.op = "setupTry"
    PROVE  Following(i, n, s) = {<<n + 1, Guarded(s, i)>>}
BY DEF Following, Keeping, Pushing, Popping, Testing

\* TeardownTry takes one off.
LEMMA FollowingTeardown ==
    ASSUME NEW i, NEW n, NEW s, i.op = "teardownTry"
    PROVE  Following(i, n, s) = {<<n + 1, Unguarded(s)>>}
BY DEF Following, Keeping, Pushing, Popping, Testing

----------------------------------------------------------------------------
(* The invariant.                                                           *)

\* A handler on the try_stack: made by a SetupTry of the code, with a catch
\* block whose levels are known.
HandlerType(code, at) ==
    LET guards == {n \in DOMAIN code : code[n].op = "setupTry"}
    IN {t \in [catch : DOMAIN at, binding : {code[n].binding : n \in guards},
               forFinally : {code[n].forFinally : n \in guards},
               depth : Nat, frameDepth : Nat] : Depth(t) \in Nat}

\* Handlers that were set up later are higher on the stack.
Ordered(ts) == \A m, n \in DOMAIN ts : m <= n => Depth(ts[m]) <= Depth(ts[n])

\* The running program: its frames, and the handlers and values of each.
Stands(at) ==
    /\ program.instances > 0 => sent # <<>>
    /\ Framed(at, program.kind, frames)
    /\ \E start : Segments(at, program.kind, ip, Len(stack), frames, tries, start)

\* Where a suspended generator's part of the stack begins (an async function's
\* is saved from its first local), and how many values it will have.
BaseOf(st) == IF program.kind = "generator" THEN st.bp ELSE 0
Values(st) == Len(st.locals) + IF st.sent = <<>> THEN 0 ELSE 1

\* A suspended generator or async function: what it has saved agrees with the
\* levels of the instruction it will go on at.
Waits(st, at) ==
    /\ st.bp \in Nat /\ IsSeq(st.locals) /\ IsSeq(st.sent)
    /\ st.tries \in Seq(HandlerType(chunk, at)) /\ Ordered(st.tries)
    /\ st.sent = <<>> => st.tries = <<>>
    /\ \A n \in DOMAIN st.tries :
          /\ st.tries[n].frameDepth = IF program.kind = "generator" THEN 1 ELSE 0
          /\ Depth(st.tries[n]) <= BaseOf(st) + Len(st.locals)
    /\ Holds(at[st.ip], BaseOf(st), st.tries, 0, Len(st.tries), BaseOf(st) + Values(st))

\* One that is not running, whatever it waits for.
Kept(st, at) ==
    /\ st.ip \in DOMAIN at /\ IsSeq(st.sent)
    /\ st.completion = Suspended => Waits(st, at)

\* The program and its code do not change.
Fixed(at) == program \in Programs /\ chunk = Code(program) /\ NestsAt(program, at)

\* The types of what the VM keeps.
Typed(at) ==
    /\ ip \in DOMAIN at /\ IsSeq(stack)
    /\ frames \in Seq(FrameType(at))
    /\ tries \in Seq(HandlerType(chunk, at)) /\ Ordered(tries)
    /\ IsSeq(sent)

\* So are all the other generators and async functions.
OthersKept(at) == IsSeq(others) /\ \A g \in DOMAIN others : Kept(others[g], at)

\* The inductive invariant, for given levels.
TryInv(at) ==
    /\ Fixed(at) /\ Typed(at)
    /\ completion = Running => Stands(at)
    /\ completion = Suspended => Waits(Current, at)
    /\ OthersKept(at)

\* What the type of the handlers tells.
LEMMA HandlersType ==
    ASSUME NEW code, NEW at, NEW ts \in Seq(HandlerType(code, at))
    PROVE  /\ Depths(ts) /\ IsSeq(ts) /\ Len(ts) \in Nat /\ DOMAIN ts = 1 .. Len(ts)
           /\ \A n \in DOMAIN ts : /\ ts[n] \in HandlerType(code, at)
                                  /\ ts[n].catch \in DOMAIN at
                                  /\ Depth(ts[n]) \in Nat /\ Depth(ts[n]) <= ts[n].depth
                                  /\ ts[n].depth \in Nat /\ ts[n].frameDepth \in Nat
<1>1. IsSeq(ts) /\ Len(ts) \in Nat /\ DOMAIN ts = 1 .. Len(ts)
  BY DEF IsSeq
<1>2. \A n \in 1 .. Len(ts) : ts[n] \in HandlerType(code, at)
  OBVIOUS
<1>3. \A t \in HandlerType(code, at) :
          /\ t.catch \in DOMAIN at /\ Depth(t) \in Nat
          /\ t.depth \in Nat /\ t.frameDepth \in Nat
  BY DEF HandlerType
<1>4. \A t \in HandlerType(code, at) : Depth(t) <= t.depth
  BY <1>3 DEF Depth
<1> QED
  BY <1>1, <1>2, <1>3, <1>4 DEF Depths

\* What Fixed tells.
LEMMA Constants ==
    ASSUME NEW at, Fixed(at)
    PROVE  /\ Levelled(at) /\ Catching(at) /\ DOMAIN at \subseteq DOMAIN chunk
           /\ program.kind \in {"script", "function", "generator", "async"}
           /\ program.instances \in Nat
           /\ program.instances > 0 <=> program.kind \in {"generator", "async"}
           /\ program.sends \subseteq {"next", "throw", "return"}
BY NestsFacts, ProgramsAssumption DEF Fixed

\* The levels of what follows an instruction are those known of it, or more.
LEMMA Follows ==
    ASSUME NEW at, Fixed(at), ip \in DOMAIN at, NEW q, NEW t,
           <<q, t>> \in Following(Instruction, ip, at[ip])
    PROVE  q \in DOMAIN at /\ Fits(t, at[q]) /\ Leasts(at[q])
<1>1. Instruction = Code(program)[ip]
  BY DEF Instruction, Fixed
<1>2. q \in DOMAIN at /\ Fits(t, at[q])
  BY <1>1, NestsFacts DEF Fixed
<1> QED
  BY <1>2, NestsFacts DEF Fixed, Levelled

\* A step that leaves the program alone keeps what is said of those that wait.
LEMMA Unchanged ==
    ASSUME NEW at, Fixed(at), UNCHANGED <<program, chunk>>
    PROVE  /\ Fixed(at)'
           /\ \A st : Waits(st, at) <=> Waits(st, at)'
           /\ \A st : Kept(st, at) <=> Kept(st, at)'
<1>1. Fixed(at)'
  BY DEF Fixed
<1>2. ASSUME NEW st
      PROVE  Waits(st, at) <=> Waits(st, at)'
  BY DEF Waits, BaseOf
<1>3. ASSUME NEW st
      PROVE  Kept(st, at) <=> Kept(st, at)'
  BY <1>2 DEF Kept
<1> QED
  BY <1>1, <1>2, <1>3

\* A completion is neither running nor suspended.
LEMMA Completions ==
    /\ Running # Suspended
    /\ \A v : Completion(v) # Running /\ Completion(v) # Suspended
BY DEF Running, Suspended, Completion

\* An instruction after which the VM goes on with the same frames.
LEMMA GoesOn ==
    ASSUME NEW at, TryInv(at), completion = Running, completion' = Running,
           UNCHANGED <<program, chunk, frames, sent, others>>,
           IsSeq(stack'), ip' \in DOMAIN at,
           tries' \in Seq(HandlerType(chunk, at)), Ordered(tries'),
           NEW start,
           Segments(at, program.kind, ip', Len(stack'), frames, tries', start)
    PROVE  TryInv(at)'
<1>1. Fixed(at)' /\ \A st : Kept(st, at) <=> Kept(st, at)'
  BY Unchanged DEF TryInv
<1>2. Typed(at)'
  BY DEF TryInv, Typed
<1>3. Stands(at)'
  BY DEF TryInv, Stands
<1>4. completion' # Suspended
  BY Completions
<1>5. OthersKept(at)'
  BY DEF TryInv, OthersKept, Kept, Waits, BaseOf
<1> QED
  BY <1>1, <1>2, <1>3, <1>4, <1>5 DEF TryInv

\* A step within a frame that sets up no handler and takes none off.
LEMMA Straight ==
    ASSUME NEW at, TryInv(at), completion = Running, completion' = Running,
           UNCHANGED <<program, chunk, frames, tries, sent, others>>,
           IsSeq(stack'), NEW t, Leasts(t), <<ip', t>> \in Following(Instruction, ip, at[ip]),
           NEW d \in Int, Len(stack') = Len(stack) + d, Len(t) = Len(at[ip]),
           \A j \in 1 .. Len(t) - 1 : t[j] = at[ip][j],
           t[Len(t)].catch = at[ip][Len(t)].catch, t[Len(t)].binding = at[ip][Len(t)].binding,
           t[Len(t)].least = at[ip][Len(t)].least + d
    PROVE  TryInv(at)'
<1> DEFINE F == Len(frames)
           B == Base(frames, F)
           n == Len(stack)
<1>1. Fixed(at) /\ Typed(at) /\ Stands(at)
  BY DEF TryInv
<1>2. Levelled(at) /\ ip' \in DOMAIN at /\ Fits(t, at[ip']) /\ Leasts(at[ip'])
  BY <1>1, Constants, Follows DEF Typed
<1>3. /\ ip \in DOMAIN at /\ Leasts(at[ip]) /\ frames \in Seq(FrameType(at))
      /\ tries \in Seq(HandlerType(chunk, at)) /\ Ordered(tries) /\ Depths(tries)
      /\ DOMAIN tries = 1 .. Len(tries) /\ Len(tries) \in Nat
      /\ n \in Nat /\ Len(stack') \in Nat /\ Framed(at, program.kind, frames)
  BY <1>1, <1>2, HandlersType, SeqType DEF Typed, Stands, Levelled
<1>4. PICK start : Segments(at, program.kind, ip, n, frames, tries, start)
  BY <1>1 DEF Stands
<1> HIDE DEF n
<1>5. /\ start[F] \in 0 .. Len(tries) /\ B \in Nat
      /\ Holds(at[ip], B, tries, start[F], Len(tries), n)
      /\ \A i \in DOMAIN tries : tries[i].frameDepth = F <=> i > start[F]
  BY <1>2, <1>3, <1>4, TopFacts
<1> HIDE DEF B
<1>6. Holds(t, B, tries, start[F], Len(tries), n + d)
  <2>1. start[F] \in Nat /\ Len(tries) \in 0 .. Len(tries)
    BY <1>3, <1>5
  <2> QED
    BY <1>3, <1>5, <2>1, HoldsMoved
<1>7. Holds(at[ip'], B, tries, start[F], Len(tries), Len(stack'))
  <2>1. start[F] \in Nat /\ Len(tries) \in 0 .. Len(tries)
    BY <1>3, <1>5
  <2>2. Holds(t, B, tries, start[F], Len(tries), Len(stack'))
    BY <1>6 DEF n
  <2> QED
    BY <1>2, <1>3, <1>5, <2>1, <2>2, HoldsFits
<1>8. PICK first : Segments(at, program.kind, ip', Len(stack'), frames, tries, first)
  <2>1. /\ start[F] <= Len(tries)
        /\ \A i \in start[F] + 1 .. Len(tries) : tries[i].frameDepth = F
    <3>1. \A i \in start[F] + 1 .. Len(tries) : i \in DOMAIN tries /\ i > start[F]
      BY <1>3, <1>5
    <3>2. start[F] <= Len(tries)
      BY <1>5
    <3> QED
      BY <1>5, <3>1, <3>2
  <2> QED
    BY <1>2, <1>3, <1>4, <1>5, <1>7, <2>1, NewTop DEF B, Grafted
<1>9. Segments(at, program.kind, ip', Len(stack'), frames, tries', first)
  BY <1>8
<1> QED
  BY <1>2, <1>3, <1>9, GoesOn

\* What the invariant tells of the running instruction.
LEMMA Here ==
    ASSUME NEW at, TryInv(at)
    PROVE  /\ ip \in DOMAIN at /\ IsSeq(stack) /\ Len(stack) \in Nat
           /\ at[ip] \in Seq(LevelType(chunk)) /\ at[ip] # <<>> /\ Leasts(at[ip])
           /\ Len(at[ip]) \in 1 .. Len(at[ip]) /\ at[ip][Len(at[ip])].least \in Nat
           /\ Instruction.handlers = Len(at[ip]) - 1
           /\ Enough(Instruction, at[ip]) /\ InPlace(Instruction, program)
<1>1. ip \in DOMAIN at /\ IsSeq(stack) /\ Len(stack) \in Nat
  BY SeqType DEF TryInv, Typed
<1>2. /\ at[ip] \in Seq(LevelType(chunk)) /\ at[ip] # <<>>
      /\ Instruction.handlers = Len(at[ip]) - 1
      /\ Enough(Instruction, at[ip]) /\ InPlace(Instruction, program)
  BY <1>1, NestsFacts DEF TryInv, Fixed, Instruction
<1> QED
  BY <1>1, <1>2, TypeLeasts

\* Such a step with the stack as high as before,
LEMMA StraightOn ==
    ASSUME NEW at, TryInv(at), completion = Running, completion' = Running,
           UNCHANGED <<program, chunk, frames, tries, sent, others>>,
           IsSeq(stack'), Len(stack') = Len(stack),
           <<ip', at[ip]>> \in Following(Instruction, ip, at[ip])
    PROVE  TryInv(at)'
<1> DEFINE s == at[ip]
           d == 0
<1>1. Leasts(s) /\ s[Len(s)].least \in Nat /\ Len(stack) \in Nat
  BY Here
<1>2. d \in Int /\ Len(stack') = Len(stack) + d /\ s[Len(s)].least = s[Len(s)].least + d
  BY <1>1
<1> HIDE DEF d
<1> QED
  BY <1>1, <1>2, Straight

\* one value higher,
LEMMA StraightUp ==
    ASSUME NEW at, TryInv(at), completion = Running, completion' = Running,
           UNCHANGED <<program, chunk, frames, tries, sent, others>>,
           IsSeq(stack'), Len(stack') = Len(stack) + 1,
           <<ip', Raised(at[ip])>> \in Following(Instruction, ip, at[ip])
    PROVE  TryInv(at)'
<1> DEFINE s == at[ip]
           t == Raised(s)
           d == 1
<1>1. /\ Leasts(t) /\ Len(t) = Len(s) /\ \A j \in 1 .. Len(t) - 1 : t[j] = s[j]
      /\ t[Len(t)].catch = s[Len(t)].catch /\ t[Len(t)].binding = s[Len(t)].binding
      /\ t[Len(t)].least = s[Len(t)].least + d
  BY Here, RaisedFacts
<1>2. d \in Int /\ Len(stack') = Len(stack) + d
  OBVIOUS
<1> HIDE DEF d, t
<1>3. <<ip', t>> \in Following(Instruction, ip, at[ip])
  BY DEF t
<1> QED
  BY <1>1, <1>2, <1>3, Straight

\* or one lower.
LEMMA StraightDown ==
    ASSUME NEW at, TryInv(at), completion = Running, completion' = Running,
           UNCHANGED <<program, chunk, frames, tries, sent, others>>,
           IsSeq(stack'), Len(stack') = Len(stack) - 1, Instruction.op \in Popping, ip' = ip + 1
    PROVE  TryInv(at)'
<1> DEFINE s == at[ip]
           t == Lowered(s)
           d == -1
<1>1. s[Len(s)].least > 0
  BY Here DEF Enough
<1>2. /\ Leasts(t) /\ Len(t) = Len(s) /\ \A j \in 1 .. Len(t) - 1 : t[j] = s[j]
      /\ t[Len(t)].catch = s[Len(t)].catch /\ t[Len(t)].binding = s[Len(t)].binding
      /\ t[Len(t)].least = s[Len(t)].least + d
  BY <1>1, Here, LoweredFacts
<1>3. d \in Int /\ Len(stack') = Len(stack) + d
  BY Here
<1> HIDE DEF d
<1>4. <<ip', t>> \in Following(Instruction, ip, at[ip])
  BY FollowingPopping
<1> HIDE DEF t
<1> QED
  BY <1>2, <1>3, <1>4, Straight

\* What is popped is there.
LEMMA Poppable ==
    ASSUME NEW at, TryInv(at), completion = Running, at[ip][Len(at[ip])].least > 0
    PROVE  stack # <<>> /\ Len(stack) - 1 \in Nat
<1> DEFINE F == Len(frames)
           B == Base(frames, F)
           n == Len(stack)
           s == at[ip]
<1>1. Fixed(at) /\ Typed(at) /\ Stands(at) /\ Levelled(at)
  BY Constants DEF TryInv
<1>2. /\ ip \in DOMAIN at /\ Leasts(s) /\ frames \in Seq(FrameType(at)) /\ Depths(tries)
      /\ n \in Nat /\ Framed(at, program.kind, frames) /\ Len(tries) \in Nat
  BY <1>1, HandlersType, SeqType DEF Typed, Stands, Levelled
<1>3. PICK start : Segments(at, program.kind, ip, n, frames, tries, start)
  BY <1>1 DEF Stands
<1> HIDE DEF n
<1>4. /\ start[F] \in 0 .. Len(tries) /\ B \in Nat
      /\ Holds(s, B, tries, start[F], Len(tries), n)
  BY <1>1, <1>2, <1>3, TopFacts
<1>5. /\ Len(tries) = start[F] + Len(s) - 1 /\ Len(s) \in 1 .. Len(s) /\ s[Len(s)].least \in Nat
  BY <1>2, <1>4, LeastsType DEF Holds
<1>6. Floor(tries, start[F], B, Len(s)) + s[Len(s)].least <= n
  <2>1. Ceiling(s, tries, start[F], n, Len(s)) = n
    BY DEF Ceiling
  <2> QED
    BY <1>4, <1>5, <2>1 DEF Holds
<1>7. Floor(tries, start[F], B, Len(s)) \in Nat
  <2>1. start[F] \in Nat /\ Len(tries) \in 0 .. Len(tries)
    BY <1>2, <1>4
  <2> QED
    BY <1>2, <1>4, <1>5, <2>1, HoldsType
<1>8. n - 1 \in Nat /\ n # 0
  BY <1>2, <1>5, <1>6, <1>7
<1> QED
  BY <1>1, <1>8, SeqType DEF n, Typed

\* SetLocal, whatever it stores, keeps the stack's height.
LEMMA StoreKeeps ==
    ASSUME NEW slot, NEW v, NEW st, IsSeq(st), Store(slot, v, st)
    PROVE  IsSeq(stack') /\ Len(stack') = Len(st)
<1>1. CASE slot.local = 0
  BY <1>1 DEF Store
<1>2. CASE slot.local # 0
  <2> DEFINE i == Bp + slot.local
             t == [st EXCEPT ![i] = v]
  <2>1. stack' = t
    BY <1>2 DEF Store
  <2> HIDE DEF i
  <2>2. IsSeq(t) /\ Len(t) = Len(st)
    BY SeqExcept
  <2> HIDE DEF t
  <2> QED
    BY <2>1, <2>2
<1> QED
  BY <1>1, <1>2

----------------------------------------------------------------------------
(* The steps.                                                               *)

\* Constants, locals and new resources are pushed.
LEMMA PushKeeps ==
    ASSUME NEW at, TryInv(at), PushOp \/ PushSlot \/ AcquireOp
    PROVE  TryInv(at)'
<1>1. /\ completion = Running /\ completion' = Running /\ Instruction.op \in Pushing
      /\ ip' = ip + 1 /\ UNCHANGED <<program, chunk, frames, tries, sent, others>>
      /\ \E v : stack' = Append(stack, v)
  BY DEF PushOp, PushSlot, AcquireOp, At, Onward, Goto, generators, Pushing
<1>2. IsSeq(stack') /\ Len(stack') = Len(stack) + 1
  BY <1>1, Here, SeqAppend
<1>3. <<ip', Raised(at[ip])>> \in Following(Instruction, ip, at[ip])
  BY <1>1, FollowingPushing
<1> QED
  BY <1>1, <1>2, <1>3, StraightUp

\* Pop, and what a yield logs.
LEMMA PopKeeps ==
    ASSUME NEW at, TryInv(at), Pop \/ LogTop
    PROVE  TryInv(at)'
<1>1. /\ completion = Running /\ completion' = Running /\ Instruction.op \in Popping
      /\ ip' = ip + 1 /\ UNCHANGED <<program, chunk, frames, tries, sent, others>>
      /\ stack' = Front(stack)
  BY DEF Pop, LogTop, At, Onward, Goto, generators, Popping
<1>2. stack # <<>> /\ IsSeq(stack)
  BY <1>1, Here, Poppable DEF Enough
<1>3. IsSeq(stack') /\ Len(stack') = Len(stack) - 1
  BY <1>1, <1>2, SeqFrontCut
<1> QED
  BY <1>1, <1>3, StraightDown

\* A let binds the value on the stack.
LEMMA BindKeeps ==
    ASSUME NEW at, TryInv(at), Bind
    PROVE  TryInv(at)'
<1>1. /\ completion = Running /\ completion' = Running /\ Instruction.op \in Popping
      /\ ip' = ip + 1 /\ UNCHANGED <<program, chunk, frames, tries, sent, others>>
      /\ Store(Instruction.slot, Last(stack), Front(stack))
  BY DEF Bind, At, Onward, Goto, generators, Popping
<1>2. stack # <<>> /\ IsSeq(stack)
  BY <1>1, Here, Poppable DEF Enough
<1>3. IsSeq(Front(stack)) /\ Len(Front(stack)) = Len(stack) - 1
  BY <1>2, SeqFrontCut
<1>4. IsSeq(stack') /\ Len(stack') = Len(stack) - 1
  BY <1>1, <1>3, StoreKeeps
<1> QED
  BY <1>1, <1>4, StraightDown

\* The instructions that leave the stack as it was, or assign to a slot of it.
LEMMA SameHeight ==
    ASSUME NEW at, TryInv(at), completion = Running, completion' = Running,
           UNCHANGED <<program, chunk, frames, tries, sent, others>>,
           ip' = ip + 1, Instruction.op \in Keeping,
           stack' = stack \/ \E slot, v : Store(slot, v, stack)
    PROVE  TryInv(at)'
<1>1. IsSeq(stack') /\ Len(stack') = Len(stack)
  BY Here, StoreKeeps
<1>2. <<ip', at[ip]>> \in Following(Instruction, ip, at[ip])
  BY FollowingKeeping
<1> QED
  BY <1>1, <1>2, StraightOn

\* Variables are defined, assigned, counted and deleted.
LEMMA AssignKeeps ==
    ASSUME NEW at, TryInv(at),
           Define \/ AssignOp \/ RemoveKey \/ DeleteOp \/ Increment
    PROVE  TryInv(at)'
<1>1. /\ completion = Running /\ completion' = Running /\ Instruction.op \in Keeping
      /\ ip' = ip + 1 /\ UNCHANGED <<program, chunk, frames, tries, sent, others>>
  BY DEF Define, AssignOp, RemoveKey, DeleteOp, Increment, At, Onward, Goto, generators, Keeping
<1>2. stack' = stack \/ \E slot, v : Store(slot, v, stack)
  <2>1. CASE Define \/ DeleteOp
    BY <2>1 DEF Define, DeleteOp
  <2>2. CASE AssignOp
    BY <2>2 DEF AssignOp
  <2>3. CASE RemoveKey
    BY <2>3 DEF RemoveKey
  <2>4. CASE Increment
    BY <2>4 DEF Increment
  <2> QED
    BY <2>1, <2>2, <2>3, <2>4
<1> QED
  BY <1>1, <1>2, SameHeight

\* Effects of the program, of its iterators and of its resources.
LEMMA EffectKeeps ==
    ASSUME NEW at, TryInv(at), LogOp \/ Close \/ DisposeOp
    PROVE  TryInv(at)'
<1>1. /\ completion = Running /\ completion' = Running /\ Instruction.op \in Keeping
      /\ ip' = ip + 1 /\ UNCHANGED <<program, chunk, stack, frames, tries, sent, others>>
  BY DEF LogOp, Close, DisposeOp, At, Onward, Goto, memory, generators, Keeping
<1> QED
  BY <1>1, SameHeight

\* Jumps and tests.
LEMMA JumpKeeps ==
    ASSUME NEW at, TryInv(at),
           JumpOp \/ JumpUnlessOp \/ JumpUnlessReturn \/ JumpUnlessIn \/ Test \/ IterateDone
    PROVE  TryInv(at)'
<1>1. /\ completion = Running /\ completion' = Running
      /\ UNCHANGED <<program, chunk, stack, frames, tries, sent, others>>
      /\ \/ Instruction.op \in {"jump", "iterate"} /\ ip' = Instruction.to
         \/ Instruction.op \in Testing /\ (ip' = ip + 1 \/ ip' = Instruction.to)
  BY DEF JumpOp, JumpUnlessOp, JumpUnlessReturn, JumpUnlessIn, Test, IterateDone, At, Onward,
         Goto, memory, generators, Testing
<1>2. <<ip', at[ip]>> \in Following(Instruction, ip, at[ip])
  BY <1>1, FollowingJump, FollowingIterate, FollowingTesting
<1>3. IsSeq(stack') /\ Len(stack') = Len(stack)
  BY <1>1, Here
<1> QED
  BY <1>1, <1>2, <1>3, StraightOn

\* The next item of a for-of loop.
LEMMA IterateKeeps ==
    ASSUME NEW at, TryInv(at), Iterate
    PROVE  TryInv(at)'
<1>1. /\ completion = Running /\ completion' = Running /\ Instruction.op = "iterate"
      /\ ip' = ip + 1 /\ UNCHANGED <<program, chunk, frames, tries, sent, others>>
      /\ \E slot, v, w : Store(slot, v, Append(stack, w))
  BY DEF Iterate, At, Onward, Goto, generators
<1>2. PICK slot, v, w : Store(slot, v, Append(stack, w))
  BY <1>1
<1>3. IsSeq(Append(stack, w)) /\ Len(Append(stack, w)) = Len(stack) + 1
  BY Here, SeqAppend
<1>4. IsSeq(stack') /\ Len(stack') = Len(stack) + 1
  BY <1>2, <1>3, StoreKeeps
<1>5. <<ip', Raised(at[ip])>> \in Following(Instruction, ip, at[ip])
  BY <1>1, FollowingIterate
<1> QED
  BY <1>1, <1>4, <1>5, StraightUp

\* What the invariant tells of the innermost frame.
LEMMA InFrame ==
    ASSUME NEW at, TryInv(at), completion = Running
    PROVE  /\ frames \in Seq(FrameType(at)) /\ Framed(at, program.kind, frames)
           /\ Depths(tries) /\ Len(tries) \in Nat /\ DOMAIN tries = 1 .. Len(tries)
           /\ tries \in Seq(HandlerType(chunk, at)) /\ Ordered(tries)
           /\ Len(frames) \in Nat /\ Base(frames, Len(frames)) \in Nat
           /\ Base(frames, Len(frames)) <= Len(stack)
           /\ \A i \in DOMAIN tries : Depth(tries[i]) <= Len(stack)
           /\ \A i \in DOMAIN tries :
                 tries[i].frameDepth \in Outermost(program.kind, frames) .. Len(frames)
           /\ \E start :
                 /\ Segments(at, program.kind, ip, Len(stack), frames, tries, start)
                 /\ start[Len(frames)] \in 0 .. Len(tries)
                 /\ Holds(at[ip], Base(frames, Len(frames)), tries, start[Len(frames)],
                          Len(tries), Len(stack))
                 /\ Len(tries) = start[Len(frames)] + Len(at[ip]) - 1
                 /\ \A i \in DOMAIN tries :
                       /\ tries[i].frameDepth = Len(frames) <=> i > start[Len(frames)]
                       /\ i > start[Len(frames)] =>
                             Base(frames, Len(frames)) <= Depth(tries[i])
                       /\ i <= start[Len(frames)] =>
                             Depth(tries[i]) < Base(frames, Len(frames))
<1> DEFINE n == Len(stack)
<1>1. Fixed(at) /\ Typed(at) /\ Stands(at) /\ Levelled(at)
  BY Constants DEF TryInv
<1>2. /\ ip \in DOMAIN at /\ frames \in Seq(FrameType(at)) /\ Depths(tries)
      /\ n \in Nat /\ Framed(at, program.kind, frames) /\ Len(tries) \in Nat
      /\ DOMAIN tries = 1 .. Len(tries) /\ Len(frames) \in Nat
      /\ tries \in Seq(HandlerType(chunk, at)) /\ Ordered(tries)
  BY <1>1, HandlersType, SeqType DEF Typed, Stands
<1>3. PICK start : Segments(at, program.kind, ip, n, frames, tries, start)
  BY <1>1 DEF Stands
<1> HIDE DEF n
<1>4. /\ start[Len(frames)] \in 0 .. Len(tries) /\ Base(frames, Len(frames)) \in Nat
      /\ Holds(at[ip], Base(frames, Len(frames)), tries, start[Len(frames)], Len(tries), n)
      /\ Len(tries) = start[Len(frames)] + Len(at[ip]) - 1 /\ Base(frames, Len(frames)) <= n
      /\ \A i \in DOMAIN tries :
            /\ Depth(tries[i]) <= n
            /\ tries[i].frameDepth \in Outermost(program.kind, frames) .. Len(frames)
      /\ \A i \in DOMAIN tries : tries[i].frameDepth = Len(frames) <=> i > start[Len(frames)]
      /\ \A i \in DOMAIN tries :
            i > start[Len(frames)] => Base(frames, Len(frames)) <= Depth(tries[i])
      /\ \A i \in DOMAIN tries :
            i <= start[Len(frames)] => Depth(tries[i]) < Base(frames, Len(frames))
  BY <1>1, <1>2, <1>3, TopFacts
<1> QED
  BY <1>2, <1>3, <1>4 DEF n

\* A handler is set up.
LEMMA NewHandler ==
    ASSUME NEW at, Levelled(at), NEW kind, NEW fs \in Seq(FrameType(at)), Framed(at, kind, fs),
           NEW ts, Depths(ts), Ordered(ts), NEW us, Depths(us),
           NEW p \in DOMAIN at, NEW q \in DOMAIN at, NEW n \in Nat, NEW start,
           Segments(at, kind, p, n, fs, ts, start),
           Len(us) = Len(ts) + 1, \A i \in 1 .. Len(ts) : us[i] = ts[i],
           us[Len(us)].frameDepth = Len(fs), Base(fs, Len(fs)) <= Depth(us[Len(us)]),
           \A i \in start[Len(fs)] + 1 .. Len(ts) : Depth(ts[i]) <= Depth(us[Len(us)]),
           NEW u, Leasts(u), Fits(u, at[q]),
           Holds(u, Base(fs, Len(fs)), us, start[Len(fs)], Len(us), n)
    PROVE  Ordered(us) /\ \E first : Segments(at, kind, q, n, fs, us, first)
<1> DEFINE F == Len(fs)
           B == Base(fs, F)
<1>1. F \in Nat /\ B \in Nat /\ start[F] \in 0 .. Len(ts)
  BY TopFacts
<1>2. \A i \in DOMAIN ts : ts[i].frameDepth = F <=> i > start[F]
  BY TopFacts
<1>3. \A i \in DOMAIN ts : i <= start[F] => Depth(ts[i]) < B
  BY TopFacts
<1>4. Len(ts) \in Nat /\ DOMAIN ts = 1 .. Len(ts) /\ DOMAIN us = 1 .. Len(us)
      /\ (\A i \in 1 .. Len(ts) : Depth(ts[i]) \in Nat) /\ Depth(us[Len(us)]) \in Nat
      /\ Len(us) \in 0 .. Len(us) /\ start[F] \in Nat
  <2>1. Len(ts) \in Nat /\ DOMAIN ts = 1 .. Len(ts) /\ DOMAIN us = 1 .. Len(us)
        /\ (\A i \in 1 .. Len(ts) : Depth(ts[i]) \in Nat)
    BY DepthsType
  <2>2. Len(us) \in 1 .. Len(us)
    BY <2>1
  <2>3. Depth(us[Len(us)]) \in Nat
    BY <2>2, DepthsType
  <2> QED
    BY <1>1, <2>1, <2>2, <2>3
<1>5. Holds(at[q], B, us, start[F], Len(us), n)
  <2>1. Leasts(at[q])
    BY DEF Levelled
  <2> HIDE DEF B
  <2>2. Holds(u, B, us, start[F], Len(us), n)
    BY DEF B
  <2> QED
    BY <1>1, <1>4, <2>1, <2>2, HoldsFits
<1>6. start[F] <= Len(us) /\ \A i \in 1 .. start[F] : us[i] = ts[i]
  BY <1>1, <1>4
<1>7. \A i \in start[F] + 1 .. Len(us) : us[i].frameDepth = F
  <2> TAKE i \in start[F] + 1 .. Len(us)
  <2>1. CASE i = Len(us)
    BY <2>1
  <2>2. CASE i # Len(us)
    <3>1. i \in 1 .. Len(ts) /\ i > start[F]
      BY <1>1, <1>4, <2>2
    <3>2. us[i] = ts[i] /\ i \in DOMAIN ts
      BY <1>4, <3>1
    <3> QED
      BY <1>2, <3>1, <3>2
  <2> QED
    BY <2>1, <2>2
<1>8. \E first : Segments(at, kind, q, n, fs, us, first)
  BY <1>5, <1>6, <1>7, NewTop DEF Grafted
<1>9. \A i \in 1 .. Len(ts) : Depth(ts[i]) <= Depth(us[Len(us)])
  <2> TAKE i \in 1 .. Len(ts)
  <2>1. CASE i > start[F]
    <3>1. i \in start[F] + 1 .. Len(ts)
      BY <1>1, <1>4, <2>1
    <3> QED
      BY <3>1
  <2>2. CASE ~(i > start[F])
    <3>1. i \in DOMAIN ts /\ i <= start[F]
      BY <1>1, <1>4, <2>2
    <3>2. Depth(ts[i]) < B
      BY <1>3, <3>1
    <3>3. B <= Depth(us[Len(us)])
      OBVIOUS
    <3> QED
      BY <1>1, <1>4, <3>2, <3>3
  <2> QED
    BY <2>1, <2>2
<1>10. ASSUME NEW i \in DOMAIN us, NEW j \in DOMAIN us, i <= j
       PROVE  Depth(us[i]) <= Depth(us[j])
  <2>1. i \in 1 .. Len(us) /\ j \in 1 .. Len(us)
    BY <1>4
  <2>2. CASE j \in 1 .. Len(ts)
    <3>1. i \in 1 .. Len(ts)
      BY <1>4, <1>10, <2>1, <2>2
    <3> QED
      BY <1>4, <1>10, <2>2, <3>1 DEF Ordered
  <2>3. CASE j = Len(us) /\ i \in 1 .. Len(ts)
    BY <1>9, <2>3
  <2>4. CASE j = Len(us) /\ i = Len(us)
    BY <1>4, <2>4
  <2> QED
    BY <1>4, <1>10, <2>1, <2>2, <2>3, <2>4
<1> QED
  BY <1>8, <1>10 DEF Ordered

\* One level more.
LEMMA AppendedLevel ==
    ASSUME NEW s, Leasts(s), NEW l, l.least \in Nat
    PROVE  /\ Leasts(Append(s, l)) /\ Len(Append(s, l)) = Len(s) + 1
           /\ \A j \in 1 .. Len(s) : Append(s, l)[j] = s[j]
           /\ Append(s, l)[Len(s) + 1] = l
<1> DEFINE t == Append(s, l)
<1>1. PICK S : s \in Seq(S)
  BY DEF Leasts, IsSeq
<1>2. s \in Seq(S \cup {l}) /\ l \in S \cup {l}
  BY <1>1
<1>3. /\ t \in Seq(S \cup {l}) /\ Len(t) = Len(s) + 1 /\ t[Len(s) + 1] = l
      /\ \A j \in 1 .. Len(s) : t[j] = s[j]
  BY <1>2, SeqAppended
<1> HIDE DEF t
<1>4. Len(s) \in Nat /\ \A j \in 1 .. Len(s) : s[j].least \in Nat
  BY LeastsType
<1>5. \A j \in 1 .. Len(t) : t[j].least \in Nat
  <2> TAKE j \in 1 .. Len(t)
  <2>1. j \in 1 .. Len(s) \/ j = Len(s) + 1
    BY <1>3, <1>4
  <2> QED
    BY <1>3, <1>4, <2>1
<1>6. t # <<>> /\ IsSeq(t)
  BY <1>3, <1>4 DEF IsSeq
<1> QED
  BY <1>3, <1>5, <1>6 DEF t, Leasts

\* SetupTry: the new handler is at the top of the stack, or below the item of
\* a for-of loop, and the levels with it are those of Guarded.
LEMMA Guards ==
    ASSUME NEW code, NEW s \in Seq(LevelType(code)), s # <<>>,
           NEW i, i.binding = ForOfException => s[Len(s)].least > 0,
           NEW ts, Depths(ts), NEW us, Depths(us), NEW a \in Nat, NEW base \in Nat, NEW n \in Nat,
           Holds(s, base, ts, a, Len(ts), n),
           NEW h, Added(us, ts, h), h.catch = i.to, h.binding = i.binding, h.depth = n
    PROVE  /\ Leasts(Guarded(s, i)) /\ Len(Guarded(s, i)) = Len(s) + 1
           /\ Guarded(s, i)[Len(s) + 1].catch = i.to
           /\ Holds(Guarded(s, i), base, us, a, Len(us), n)
           /\ base <= Depth(h)
           /\ \A j \in a + 1 .. Len(ts) : Depth(ts[j]) <= Depth(h)
<1> DEFINE d == IF i.binding = ForOfException THEN -1 ELSE 0
           l == Level(i.to, i.binding, IF i.binding = ForOfException THEN 1 ELSE 0)
           low == IF i.binding = ForOfException THEN Lowered(s) ELSE s
           u == Append(low, l)
<1>1. Guarded(s, i) = u
  BY DEF Guarded
<1>2. l.catch = i.to /\ l.binding = i.binding /\ l.least \in Nat /\ d \in Int /\ d + l.least = 0
  BY DEF Level
<1>3. Depth(h) = n + d
  BY DEF Depth
<1>4. Leasts(s) /\ Len(ts) \in 0 .. Len(ts) /\ Len(ts) \in Nat
  BY TypeLeasts, DepthsType
<1>5. /\ Leasts(low) /\ Len(low) = Len(s) /\ \A j \in 1 .. Len(s) - 1 : low[j] = s[j]
      /\ low[Len(s)].catch = s[Len(s)].catch /\ low[Len(s)].binding = s[Len(s)].binding
      /\ low[Len(s)].least = s[Len(s)].least + d
  <2>1. CASE i.binding = ForOfException
    BY <2>1, LoweredFacts
  <2>2. CASE i.binding # ForOfException
    <3>1. low = s /\ d = 0 /\ s[Len(s)].least \in Nat
      BY <2>2, TypeLeasts
    <3> HIDE DEF low, d
    <3> QED
      BY <1>4, <3>1
  <2> QED
    BY <2>1, <2>2
<1> HIDE DEF low, d, l
<1>6. n + d \in Nat /\ Holds(low, base, ts, a, Len(ts), n + d)
  BY <1>2, <1>4, <1>5, HoldsMoved
<1>7. /\ Leasts(u) /\ Len(u) = Len(s) + 1 /\ \A j \in 1 .. Len(low) : u[j] = low[j]
      /\ u[Len(u)] = l
  BY <1>2, <1>5, AppendedLevel
<1> HIDE DEF u
<1>8. Holds(u, base, us, a, Len(us), n)
  <2>1. PICK top : top = n + d
    OBVIOUS
  <2>3. top \in Nat /\ Holds(low, base, ts, a, Len(ts), top) /\ top + l.least <= n
    BY <1>2, <1>6, <2>1
  <2>4. h.catch = l.catch /\ h.binding = l.binding /\ Depth(h) = top
    BY <1>2, <1>3, <2>1
  <2>5. Leasts(low) /\ Leasts(u)
    BY <1>5, <1>7
  <2>6. Added(u, low, l)
    BY <1>5, <1>7 DEF Added
  <2> QED
    BY <2>3, <2>4, <2>5, <2>6, HoldsAbove
<1>9. base <= n + d /\ \A j \in a + 1 .. Len(ts) : Depth(ts[j]) <= n + d
  BY <1>4, <1>5, <1>6, HoldsBounds
<1> QED
  BY <1>1, <1>2, <1>3, <1>5, <1>7, <1>8, <1>9

\* SetupTry.
LEMMA SetupKeeps ==
    ASSUME NEW at, TryInv(at), SetupTryOp
    PROVE  TryInv(at)'
<1> DEFINE F == Len(frames)
           B == Base(frames, F)
           n == Len(stack)
           s == at[ip]
           t == [catch |-> Instruction.to, binding |-> Instruction.binding,
                 forFinally |-> Instruction.forFinally, depth |-> n, frameDepth |-> F]
           us == Append(tries, t)
           u == Guarded(s, Instruction)
<1>1. /\ completion = Running /\ completion' = Running /\ Instruction.op = "setupTry"
      /\ ip' = ip + 1 /\ tries' = us
      /\ UNCHANGED <<program, chunk, stack, frames, sent, others>>
  BY DEF SetupTryOp, At, Onward, Goto, generators
<1>2. /\ ip \in DOMAIN at /\ n \in Nat /\ IsSeq(stack) /\ s \in Seq(LevelType(chunk)) /\ s # <<>>
      /\ Instruction.binding = ForOfException => s[Len(s)].least > 0
  BY <1>1, Here DEF Enough
<1>3. /\ frames \in Seq(FrameType(at)) /\ Framed(at, program.kind, frames)
      /\ Depths(tries) /\ Len(tries) \in Nat /\ DOMAIN tries = 1 .. Len(tries)
      /\ tries \in Seq(HandlerType(chunk, at)) /\ Ordered(tries)
      /\ F \in Nat /\ B \in Nat
  BY <1>1, InFrame
<1>4. PICK start :
          /\ Segments(at, program.kind, ip, n, frames, tries, start)
          /\ start[F] \in 0 .. Len(tries)
          /\ Holds(at[ip], B, tries, start[F], Len(tries), n)
  BY <1>1, InFrame
<1>5. ip + 1 \in DOMAIN at /\ Fits(u, at[ip + 1]) /\ Leasts(at[ip + 1])
  <2>1. <<ip + 1, u>> \in Following(Instruction, ip, at[ip])
    BY <1>1, FollowingSetup
  <2> QED
    BY <1>2, <2>1, Follows DEF TryInv
<1>6. Levelled(at) /\ Catching(at) /\ DOMAIN at \subseteq DOMAIN chunk
  BY Constants DEF TryInv
<1>7. Len(u) = Len(s) + 1 /\ u[Len(s) + 1].catch = Instruction.to /\ Len(s) \in Nat /\ Len(s) > 0
  <2>1. Len(s) \in Nat /\ Len(s) > 0
    BY <1>2, TypeLeasts, LeastsType
  <2>2. CASE Instruction.binding = ForOfException
    <3> DEFINE l == Level(Instruction.to, Instruction.binding, 1)
    <3>1. u = Append(Lowered(s), l) /\ l.least \in Nat /\ l.catch = Instruction.to
      BY <2>2 DEF Guarded, Level
    <3> HIDE DEF u, l
    <3>2. Leasts(Lowered(s)) /\ Len(Lowered(s)) = Len(s)
      BY <1>2, <2>2, LoweredFacts
    <3> QED
      BY <2>1, <3>1, <3>2, AppendedLevel
  <2>3. CASE Instruction.binding # ForOfException
    <3> DEFINE l == Level(Instruction.to, Instruction.binding, 0)
    <3>1. u = Append(s, l) /\ l.least \in Nat /\ l.catch = Instruction.to
      BY <2>3 DEF Guarded, Level
    <3> HIDE DEF u, l
    <3>2. Leasts(s)
      BY <1>2, TypeLeasts
    <3> QED
      BY <2>1, <3>1, <3>2, AppendedLevel
  <2> QED
    BY <2>1, <2>2, <2>3
<1>8. Instruction.to \in DOMAIN at
  <2> HIDE DEF u
  <2> DEFINE j == Len(s) + 1
  <2>1. j \in 2 .. Len(at[ip + 1]) /\ j \in 1 .. Len(at[ip + 1])
    BY <1>5, <1>7 DEF Fits
  <2>2. at[ip + 1][j].catch = Instruction.to
    BY <1>5, <1>7, <2>1 DEF Fits
  <2>3. at[ip + 1][j].catch \in DOMAIN at
    BY <1>5, <1>6, <2>1 DEF Catching
  <2> QED
    BY <2>2, <2>3
<1>9. t \in HandlerType(chunk, at)
  <2>1. ip \in DOMAIN chunk
    BY <1>2, <1>6
  <2>2. Depth(t) \in Nat
    <3>1. CASE Instruction.binding = ForOfException
      <4>1. n - 1 \in Nat
        BY <1>1, <1>2, <3>1, Poppable
      <4> QED
        BY <3>1, <4>1 DEF Depth
    <3>2. CASE Instruction.binding # ForOfException
      BY <1>2, <3>2 DEF Depth
    <3> QED
      BY <3>1, <3>2
  <2> QED
    BY <1>1, <1>2, <1>3, <1>8, <2>1, <2>2 DEF HandlerType, Instruction
<1>10. /\ t.catch = Instruction.to /\ t.binding = Instruction.binding
       /\ t.depth = n /\ t.frameDepth = F
  OBVIOUS
<1> HIDE DEF t
<1>11. /\ us \in Seq(HandlerType(chunk, at)) /\ Len(us) = Len(tries) + 1 /\ us[Len(us)] = t
       /\ \A i \in 1 .. Len(tries) : us[i] = tries[i]
  BY <1>3, <1>9, SeqAppended
<1> HIDE DEF us, u, n, B
<1>12. Depths(us)
  BY <1>11, HandlersType
<1>13. /\ us[Len(us)].catch = Instruction.to /\ us[Len(us)].binding = Instruction.binding
       /\ us[Len(us)].depth = n /\ us[Len(us)].frameDepth = F
  BY <1>10, <1>11
<1>14. /\ Leasts(u) /\ Holds(u, B, us, start[F], Len(us), n)
       /\ B <= Depth(us[Len(us)])
       /\ \A j \in start[F] + 1 .. Len(tries) : Depth(tries[j]) <= Depth(us[Len(us)])
  <2>1. Added(us, tries, t)
    BY <1>11 DEF Added
  <2>2. PICK a : a = start[F]
    OBVIOUS
  <2>3. PICK i : i = Instruction
    OBVIOUS
  <2> HIDE DEF s
  <2>4. a \in Nat /\ Holds(s, B, tries, a, Len(tries), n)
    BY <1>3, <1>4, <2>2 DEF s
  <2>5. /\ i.binding = ForOfException => s[Len(s)].least > 0
        /\ t.catch = i.to /\ t.binding = i.binding /\ t.depth = n
    BY <1>2, <1>10, <2>3
  <2>6. /\ s \in Seq(LevelType(chunk)) /\ s # <<>> /\ Depths(tries) /\ Depths(us)
        /\ B \in Nat /\ n \in Nat
    BY <1>2, <1>3, <1>12
  <2>7. /\ Leasts(Guarded(s, i)) /\ Holds(Guarded(s, i), B, us, a, Len(us), n)
        /\ B <= Depth(t) /\ \A j \in a + 1 .. Len(tries) : Depth(tries[j]) <= Depth(t)
    BY <2>1, <2>4, <2>5, <2>6, Guards
  <2> QED
    BY <1>11, <2>2, <2>3, <2>7 DEF u
<1>15. Ordered(us) /\ \E first : Segments(at, program.kind, ip + 1, n, frames, us, first)
  BY <1>2, <1>3, <1>4, <1>5, <1>6, <1>11, <1>12, <1>13, <1>14, NewHandler, SMTT(60) DEF B
<1>16. PICK first : Segments(at, program.kind, ip + 1, n, frames, us, first)
  BY <1>15
<1>17. Segments(at, program.kind, ip', Len(stack'), frames, tries', first) /\ ip' \in DOMAIN at
  BY <1>1, <1>5, <1>16 DEF n
<1> QED
  BY <1>1, <1>2, <1>11, <1>15, <1>17, GoesOn

\* The handlers that remain are still in order.
LEMMA OrderedPrefix ==
    ASSUME NEW ts, IsSeq(ts), Ordered(ts), NEW us, IsSeq(us), Len(us) <= Len(ts),
           \A n \in 1 .. Len(us) : us[n] = ts[n]
    PROVE  Ordered(us)
<1>1. DOMAIN us = 1 .. Len(us) /\ DOMAIN ts = 1 .. Len(ts) /\ Len(us) \in Nat /\ Len(ts) \in Nat
  BY SeqType
<1>2. ASSUME NEW m \in DOMAIN us, NEW n \in DOMAIN us, m <= n
      PROVE  Depth(us[m]) <= Depth(us[n])
  <2>1. m \in DOMAIN ts /\ n \in DOMAIN ts /\ us[m] = ts[m] /\ us[n] = ts[n]
    BY <1>1
  <2> QED
    BY <1>2, <2>1 DEF Ordered
<1> QED
  BY <1>2 DEF Ordered

\* TeardownTry takes off the handler of the innermost level.
LEMMA TeardownKeeps ==
    ASSUME NEW at, TryInv(at), TeardownTryOp
    PROVE  TryInv(at)'
<1> DEFINE F == Len(frames)
           B == Base(frames, F)
           n == Len(stack)
           s == at[ip]
           us == Front(tries)
           u == Unguarded(s)
<1>1. /\ completion = Running /\ completion' = Running /\ Instruction.op = "teardownTry"
      /\ ip' = ip + 1 /\ tries' = us
      /\ UNCHANGED <<program, chunk, stack, frames, sent, others>>
  BY DEF TeardownTryOp, At, Onward, Goto, generators
<1>2. /\ ip \in DOMAIN at /\ n \in Nat /\ IsSeq(stack) /\ s \in Seq(LevelType(chunk)) /\ s # <<>>
      /\ Leasts(s) /\ Len(s) > 1
  BY <1>1, Here DEF Enough
<1>3. /\ frames \in Seq(FrameType(at)) /\ Framed(at, program.kind, frames)
      /\ Depths(tries) /\ Len(tries) \in Nat /\ DOMAIN tries = 1 .. Len(tries)
      /\ tries \in Seq(HandlerType(chunk, at)) /\ Ordered(tries)
      /\ F \in Nat /\ B \in Nat
  BY <1>1, InFrame
<1>4. PICK start :
          /\ Segments(at, program.kind, ip, n, frames, tries, start)
          /\ start[F] \in 0 .. Len(tries)
          /\ Holds(at[ip], B, tries, start[F], Len(tries), n)
          /\ Len(tries) = start[F] + Len(at[ip]) - 1
          /\ \A i \in DOMAIN tries : tries[i].frameDepth = F <=> i > start[F]
  BY <1>1, InFrame
<1>5. Levelled(at)
  BY Constants DEF TryInv
<1>6. ip + 1 \in DOMAIN at /\ Fits(u, at[ip + 1]) /\ Leasts(at[ip + 1])
  <2>1. <<ip + 1, u>> \in Following(Instruction, ip, at[ip])
    BY <1>1, FollowingTeardown
  <2> QED
    BY <1>2, <2>1, Follows DEF TryInv
<1>7. /\ Leasts(u) /\ Len(u) = Len(s) - 1 /\ \A j \in 1 .. Len(u) - 1 : u[j] = s[j]
      /\ u[Len(u)].catch = s[Len(u)].catch /\ u[Len(u)].binding = s[Len(u)].binding
      /\ u[Len(u)].least = s[Len(u)].least + s[Len(s)].least
  BY <1>2, UnguardedFacts
<1>8. Len(s) \in Nat
  BY <1>2, LeastsType
<1>9. PICK a : a = start[F]
  OBVIOUS
<1>10. PICK b : b = Len(tries) - 1
  OBVIOUS
<1>11. a \in Nat /\ b \in 0 .. Len(tries) /\ a <= b /\ b \in Nat
  BY <1>2, <1>3, <1>4, <1>8, <1>9, <1>10
<1>12. us \in Seq(HandlerType(chunk, at)) /\ Len(us) = b /\ \A i \in 1 .. b : us[i] = tries[i]
  <2>1. tries # <<>>
    BY <1>3, <1>10, <1>11
  <2> HIDE DEF us
  <2>2. us = SubSeq(tries, 1, b)
    BY <1>3, <1>10, <2>1, SeqFront DEF us
  <2> QED
    BY <1>3, <1>11, <2>2, SeqPrefix
<1> HIDE DEF us, u, n, B, s
<1>13. Depths(us) /\ IsSeq(us)
  BY <1>12, HandlersType
<1>14. Holds(u, B, tries, a, b, n)
  <2>1. Holds(s, B, tries, a, Len(tries), n) /\ Len(tries) \in 0 .. Len(tries)
    BY <1>3, <1>4, <1>9 DEF s
  <2>2. Holds(u, B, tries, a, Len(tries) - 1, n)
    BY <1>2, <1>3, <1>7, <1>11, <2>1, HoldsJoined
  <2> QED
    BY <1>10, <2>2
<1>15. Holds(u, B, us, a, b, n)
  <2>1. \A i \in a + 1 .. b : us[i] = tries[i]
    BY <1>11, <1>12
  <2>2. b <= Len(us)
    BY <1>11, <1>12
  <2> QED
    BY <1>2, <1>3, <1>7, <1>11, <1>13, <1>14, <2>1, <2>2, HoldsSame
<1>16. PICK q : q = ip + 1
  OBVIOUS
<1>17. Holds(at[q], B, us, a, b, n)
  <2>1. b \in 0 .. Len(us)
    BY <1>11, <1>12
  <2>2. Leasts(at[q]) /\ Fits(u, at[q])
    BY <1>6, <1>16
  <2> QED
    BY <1>2, <1>3, <1>7, <1>11, <1>13, <1>15, <2>1, <2>2, HoldsFits
<1>18. \E first : Segments(at, program.kind, q, n, frames, us, first)
  <2>1. start[Len(frames)] <= Len(us)
    BY <1>9, <1>11, <1>12
  <2>2. \A i \in 1 .. start[Len(frames)] : us[i] = tries[i]
    BY <1>9, <1>11, <1>12
  <2>3. \A i \in start[Len(frames)] + 1 .. Len(us) : us[i].frameDepth = Len(frames)
    <3> TAKE i \in start[Len(frames)] + 1 .. Len(us)
    <3>1. i \in 1 .. b /\ i > a /\ i \in DOMAIN tries
      BY <1>3, <1>9, <1>10, <1>11, <1>12
    <3> QED
      BY <1>4, <1>9, <1>12, <3>1
  <2>4. Holds(at[q], Base(frames, Len(frames)), us, start[Len(frames)], Len(us), n)
    BY <1>9, <1>12, <1>17 DEF B
  <2>5. q \in DOMAIN at
    BY <1>6, <1>16
  <2>6. Grafted(us, tries, start[Len(frames)], Len(frames))
    BY <2>1, <2>2, <2>3 DEF Grafted
  <2> QED
    BY <1>2, <1>3, <1>4, <1>5, <1>13, <2>4, <2>5, <2>6, NewTop
<1>19. PICK first : Segments(at, program.kind, q, n, frames, us, first)
  BY <1>18
<1>20. Segments(at, program.kind, ip', Len(stack'), frames, tries', first) /\ ip' \in DOMAIN at
  BY <1>1, <1>6, <1>16, <1>19 DEF n
<1>21. Ordered(us)
  <2>1. Len(us) <= Len(tries) /\ \A i \in 1 .. Len(us) : us[i] = tries[i]
    BY <1>11, <1>12
  <2>2. IsSeq(tries)
    BY <1>3 DEF IsSeq
  <2> QED
    BY <1>3, <1>13, <2>1, <2>2, OrderedPrefix
<1> QED
  BY <1>1, <1>2, <1>12, <1>20, <1>21, GoesOn

----------------------------------------------------------------------------
(* Calls and returns.                                                       *)

\* An instruction after which the VM goes on with other frames.
LEMMA RunsOn ==
    ASSUME NEW at, TryInv(at), completion = Running, completion' = Running,
           UNCHANGED <<program, chunk, sent, others>>,
           IsSeq(stack'), ip' \in DOMAIN at,
           tries' \in Seq(HandlerType(chunk, at)), Ordered(tries'),
           frames' \in Seq(FrameType(at)), Framed(at, program.kind, frames'),
           NEW start,
           Segments(at, program.kind, ip', Len(stack'), frames', tries', start)
    PROVE  TryInv(at)'
<1>1. Fixed(at)' /\ \A st : Kept(st, at) <=> Kept(st, at)'
  BY Unchanged DEF TryInv
<1>2. Typed(at)'
  BY DEF TryInv, Typed
<1>3. Stands(at)'
  BY DEF TryInv, Stands
<1>4. completion' # Suspended
  BY Completions
<1>5. OthersKept(at)'
  BY DEF TryInv, OthersKept, Kept, Waits, BaseOf
<1> QED
  BY <1>1, <1>2, <1>3, <1>4, <1>5 DEF TryInv

\* What a program begins with.
LEMMA EntryFacts ==
    ASSUME NEW at, Fixed(at)
    PROVE  /\ 1 \in DOMAIN at /\ Leasts(at[1]) /\ Len(at[1]) = 1 /\ at[1][1].least \in Nat
           /\ at[1][1].least <= IF program.kind = "script" THEN 0 ELSE 1
<1>1. 1 \in DOMAIN at /\ Fits(Entry(program), at[1]) /\ Levelled(at)
  BY NestsFacts DEF Fixed
<1>2. Leasts(at[1])
  BY <1>1 DEF Levelled
<1> DEFINE v == IF program.kind = "script" THEN 0 ELSE 1
<1>3. Len(Entry(program)) = 1 /\ Entry(program)[1].least = v
  BY DEF Entry, Level
<1> HIDE DEF v
<1>4. Len(at[1]) = 1 /\ v >= at[1][1].least
  <2>1. Len(at[1]) = 1
    BY <1>1, <1>3 DEF Fits
  <2>2. 1 \in 1 .. Len(at[1])
    BY <2>1
  <2> QED
    BY <1>1, <1>3, <2>1, <2>2 DEF Fits
<1>5. at[1][1].least \in Nat
  <2>1. 1 \in 1 .. Len(at[1])
    BY <1>4
  <2> QED
    BY <1>2, <2>1, LeastsType
<1>6. v \in Nat
  BY DEF v
<1> QED
  BY <1>1, <1>2, <1>4, <1>5, <1>6 DEF v

\* The instruction that a call returns to is next.
LEMMA ReturnsHere ==
    ASSUME NEW at, TryInv(at), completion = Running,
           NEW q, <<q, at[ip]>> \in Following(Instruction, ip, at[ip])
    PROVE  /\ q \in DOMAIN at
           /\ \E start : Segments(at, program.kind, q, Len(stack), frames, tries, start)
<1> DEFINE F == Len(frames)
           B == Base(frames, F)
           n == Len(stack)
<1>1. ip \in DOMAIN at /\ n \in Nat /\ Leasts(at[ip])
  BY Here
<1>2. /\ frames \in Seq(FrameType(at)) /\ Framed(at, program.kind, frames)
      /\ Depths(tries) /\ Len(tries) \in Nat /\ DOMAIN tries = 1 .. Len(tries)
      /\ F \in Nat /\ B \in Nat
  BY InFrame
<1>3. PICK start :
          /\ Segments(at, program.kind, ip, n, frames, tries, start)
          /\ start[F] \in 0 .. Len(tries)
          /\ Holds(at[ip], B, tries, start[F], Len(tries), n)
          /\ \A i \in DOMAIN tries : tries[i].frameDepth = F <=> i > start[F]
  BY InFrame
<1>4. Levelled(at)
  BY Constants DEF TryInv
<1>5. q \in DOMAIN at /\ Fits(at[ip], at[q]) /\ Leasts(at[q])
  BY <1>1, Follows DEF TryInv
<1> HIDE DEF n
<1>6. PICK a : a = start[F]
  OBVIOUS
<1>7. a \in Nat /\ a <= Len(tries)
  BY <1>2, <1>3, <1>6
<1>8. Grafted(tries, tries, start[F], F)
  <2>1. \A i \in a + 1 .. Len(tries) : i \in DOMAIN tries /\ i > a
    BY <1>2, <1>7
  <2> QED
    BY <1>3, <1>6, <1>7, <2>1 DEF Grafted
<1>9. Holds(at[q], Base(frames, F), tries, start[F], Len(tries), n)
  <2> HIDE DEF B
  <2>1. Len(tries) \in 0 .. Len(tries) /\ Holds(at[ip], B, tries, a, Len(tries), n)
    BY <1>2, <1>3, <1>6
  <2>2. Holds(at[q], B, tries, a, Len(tries), n)
    BY <1>1, <1>2, <1>5, <1>7, <2>1, HoldsFits
  <2> QED
    BY <1>6, <2>2 DEF B
<1>10. \E first : Segments(at, program.kind, q, n, frames, tries, first)
  BY <1>1, <1>2, <1>3, <1>4, <1>5, <1>8, <1>9, NewTop
<1> QED
  BY <1>5, <1>10 DEF n

\* A function calls itself.
LEMMA CallKeeps ==
    ASSUME NEW at, TryInv(at), Call
    PROVE  TryInv(at)'
<1> DEFINE n == Len(stack)
           v == <<Function, Number(stack[Bp + 1][1] - 1)>>
           f == [bp |-> n + 1, back |-> ip + 1]
           gs == Append(frames, f)
<1>1. /\ completion = Running /\ completion' = Running /\ Instruction.op = "call"
      /\ ip' = 1 /\ stack' = stack \o v /\ frames' = gs /\ tries' = tries
      /\ UNCHANGED <<program, chunk, sent, others>>
  BY DEF Call, At, Goto, generators
<1>2. program.kind = "function"
  BY <1>1, Here DEF InPlace
<1>3. /\ ip \in DOMAIN at /\ n \in Nat /\ IsSeq(stack)
  BY Here
<1>4. /\ frames \in Seq(FrameType(at)) /\ Framed(at, "function", frames)
      /\ Depths(tries) /\ Len(tries) \in Nat
      /\ tries \in Seq(HandlerType(chunk, at)) /\ Ordered(tries)
  BY <1>1, <1>2, InFrame
<1>5. PICK p : p = ip + 1
  OBVIOUS
<1>6. <<p, at[ip]>> \in Following(Instruction, ip, at[ip])
  BY <1>1, <1>5, FollowingKeeping DEF Keeping
<1>7. p \in DOMAIN at /\ \E start : Segments(at, "function", p, n, frames, tries, start)
  BY <1>1, <1>2, <1>6, ReturnsHere
<1>8. PICK start : Segments(at, "function", p, n, frames, tries, start)
  BY <1>7
<1>9. f \in FrameType(at) /\ f.bp = n + 1 /\ f.back = p
  BY <1>3, <1>5, <1>7 DEF FrameType
<1> HIDE DEF f
<1>10. /\ gs \in Seq(FrameType(at)) /\ Len(gs) = Len(frames) + 1 /\ gs[Len(gs)] = f
       /\ \A j \in 1 .. Len(frames) : gs[j] = frames[j]
  BY <1>4, <1>9, SeqAppended
<1>11. IsSeq(stack') /\ Len(stack') = n + 2
  <2>1. v \in Seq({v[1], v[2]}) /\ Len(v) = 2
    OBVIOUS
  <2>2. IsSeq(v)
    BY <2>1 DEF IsSeq
  <2> HIDE DEF v
  <2> QED
    BY <1>1, <1>3, <2>1, <2>2, SeqConcat
<1> HIDE DEF n, v, gs
<1>12. PICK m : m = n + 2
  OBVIOUS
<1>13. Levelled(at) /\ 1 \in DOMAIN at
  BY Constants, EntryFacts DEF TryInv
<1>14. PICK k : k = n + 1
  OBVIOUS
<1>15. PICK r : r = 1
  OBVIOUS
<1>16. Holds(at[r], n + 1, tries, Len(tries), Len(tries), m)
  <2>1. Leasts(at[r]) /\ Len(at[r]) = 1 /\ at[r][1].least \in Nat /\ at[r][1].least <= 1
    BY <1>2, <1>15, EntryFacts DEF TryInv
  <2>2. k + at[r][1].least <= m /\ k \in Nat /\ m \in Nat
    BY <1>3, <1>12, <1>14, <2>1
  <2>3. Holds(at[r], k, tries, Len(tries), Len(tries), m)
    BY <1>4, <2>1, <2>2, HoldsEntry
  <2> QED
    BY <1>14, <2>3
<1>17. Framed(at, "function", gs) /\ \E first : Segments(at, "function", r, m, gs, tries, first)
  <2>1. gs[Len(gs)].bp = n + 1 /\ gs[Len(gs)].back = p
    BY <1>9, <1>10
  <2>2. r \in DOMAIN at /\ m \in Nat
    BY <1>3, <1>12, <1>13, <1>15
  <2> QED
    BY <1>3, <1>4, <1>7, <1>8, <1>10, <1>13, <1>16, <2>1, <2>2, PushFrame
<1>18. PICK first : Segments(at, "function", r, m, gs, tries, first)
  BY <1>17
<1>19. /\ Segments(at, program.kind, ip', Len(stack'), frames', tries', first)
       /\ ip' \in DOMAIN at /\ Framed(at, program.kind, frames')
       /\ frames' \in Seq(FrameType(at))
  BY <1>1, <1>2, <1>10, <1>11, <1>12, <1>13, <1>15, <1>17, <1>18
<1>20. tries' \in Seq(HandlerType(chunk, at)) /\ Ordered(tries')
  BY <1>1, <1>4
<1> QED
  BY <1>1, <1>11, <1>19, <1>20, RunsOn

\* A program that has ended.
LEMMA Ended ==
    ASSUME NEW at, TryInv(at), UNCHANGED <<program, chunk>>,
           completion' # Running, completion' # Suspended, Typed(at)', OthersKept(at)'
    PROVE  TryInv(at)'
<1>1. Fixed(at)'
  BY Unchanged DEF TryInv
<1> QED
  BY <1>1 DEF TryInv

\* Those that wait are not disturbed by a step of the one that runs.
LEMMA OthersStay ==
    ASSUME NEW at, TryInv(at), UNCHANGED <<program, chunk, others>>
    PROVE  OthersKept(at)'
BY DEF TryInv, OthersKept, Kept, Waits, BaseOf

\* The end of a script.
LEMMA ScriptEndsKeeps ==
    ASSUME NEW at, TryInv(at), ScriptEnds
    PROVE  TryInv(at)'
<1>1. /\ completion' # Running /\ completion' # Suspended
      /\ UNCHANGED <<program, chunk, ip, stack, frames, tries, sent, others>>
  BY Completions DEF ScriptEnds, memory, generators
<1>2. Typed(at)'
  BY <1>1 DEF TryInv, Typed
<1> QED
  BY <1>1, <1>2, Ended, OthersStay

\* What a return leaves.
LEMMA LeftByReturn ==
    ASSUME NEW at, TryInv(at), Return
    PROVE  /\ completion = Running /\ UNCHANGED <<program, chunk, sent, others>>
           /\ Len(frames) \in Nat \ {0} /\ IsSeq(stack')
           /\ Len(stack') = frames[Len(frames)].bp - 1
           /\ frames' \in Seq(FrameType(at)) /\ Len(frames') = Len(frames) - 1
           /\ \A j \in 1 .. Len(frames) - 1 : frames'[j] = frames[j]
           /\ tries' \in Seq(HandlerType(chunk, at)) /\ Ordered(tries')
           /\ \E start :
                 /\ Segments(at, program.kind, ip, Len(stack), frames, tries, start)
                 /\ Len(tries') = start[Len(frames)]
                 /\ \A i \in 1 .. Len(tries') : tries'[i] = tries[i]
<1> DEFINE F == Len(frames)
           N == {i \in DOMAIN tries : tries[i].frameDepth <= F - 1}
           b == Max({0} \cup N)
<1>1. /\ completion = Running /\ frames # <<>> /\ tries' = KeptByReturn(F - 1)
      /\ stack' = SubSeq(stack, 1, Bp - 1) /\ frames' = Front(frames)
      /\ UNCHANGED <<program, chunk, sent, others>>
  BY DEF Return, At
<1>2. tries' = SubSeq(tries, 1, b)
  BY <1>1 DEF KeptByReturn
<1>3. /\ frames \in Seq(FrameType(at)) /\ F \in Nat /\ IsSeq(tries)
      /\ tries \in Seq(HandlerType(chunk, at)) /\ Ordered(tries)
      /\ Len(tries) \in Nat /\ DOMAIN tries = 1 .. Len(tries)
      /\ Base(frames, F) \in Nat /\ Base(frames, F) <= Len(stack)
  BY <1>1, InFrame DEF IsSeq
<1>4. IsSeq(stack) /\ Len(stack) \in Nat
  BY Here
<1>5. F \in 1 .. F /\ F # 0 /\ F - 1 \in 0 .. F
  BY <1>1, <1>3
<1>6. Bp = frames[F].bp /\ Base(frames, F) = Bp /\ Bp \in Nat \ {0}
  <2>1. frames[F] \in FrameType(at)
    BY <1>3, <1>5
  <2>2. Last(frames) = frames[F]
    BY <1>1, <1>3, SeqFront
  <2> QED
    BY <1>1, <1>5, <2>1, <2>2 DEF Bp, Base, FrameType
<1>7. IsSeq(stack') /\ Len(stack') = frames[F].bp - 1
  <2>1. Bp - 1 \in 0 .. Len(stack)
    BY <1>3, <1>4, <1>6
  <2>2. PICK m : m = Bp - 1
    OBVIOUS
  <2>3. IsSeq(SubSeq(stack, 1, m)) /\ Len(SubSeq(stack, 1, m)) = m
    BY <1>4, <2>1, <2>2, SeqCut
  <2> QED
    BY <1>1, <1>6, <2>2, <2>3
<1>8. /\ frames' \in Seq(FrameType(at)) /\ Len(frames') = F - 1
      /\ \A j \in 1 .. F - 1 : frames'[j] = frames[j]
  <2>1. frames' = SubSeq(frames, 1, F - 1)
    BY <1>1, <1>3, SeqFront
  <2>2. PICK m : m = F - 1
    OBVIOUS
  <2> QED
    BY <1>3, <1>5, <2>1, <2>2, SeqPrefix
<1>9. N \subseteq DOMAIN tries
  OBVIOUS
<1>10. PICK start :
          /\ Segments(at, program.kind, ip, Len(stack), frames, tries, start)
          /\ start[F] \in 0 .. Len(tries)
          /\ \A i \in DOMAIN tries : tries[i].frameDepth = F <=> i > start[F]
  BY <1>1, InFrame
<1>11. \A i \in DOMAIN tries : tries[i].frameDepth <= F /\ tries[i].frameDepth \in Nat
  <2> TAKE i \in DOMAIN tries
  <2>1. tries[i].frameDepth \in Outermost(program.kind, frames) .. Len(frames)
    BY <1>1, InFrame
  <2>2. tries[i].frameDepth \in Nat
    BY <1>3, HandlersType
  <2> QED
    BY <1>3, <2>1, <2>2
<1>12. \A i \in DOMAIN tries : i \in N <=> i <= start[F]
  BY <1>3, <1>10, <1>11
<1> HIDE DEF N
<1>13. /\ b \in 0 .. Len(tries) /\ b \in {0} \cup N /\ \A i \in N : i <= b
       /\ SubSeq(tries, 1, b) \in Seq(HandlerType(chunk, at)) /\ Len(SubSeq(tries, 1, b)) = b
       /\ \A i \in 1 .. b : SubSeq(tries, 1, b)[i] = tries[i]
  <2>1. PICK S : S = HandlerType(chunk, at)
    OBVIOUS
  <2>2. tries \in Seq(S)
    BY <1>3, <2>1
  <2>3. /\ b \in 0 .. Len(tries) /\ b \in {0} \cup N /\ \A i \in N : i <= b
        /\ SubSeq(tries, 1, b) \in Seq(S) /\ Len(SubSeq(tries, 1, b)) = b
        /\ \A i \in 1 .. b : SubSeq(tries, 1, b)[i] = tries[i]
    BY <1>9, <2>2, PrefixTo
  <2> QED
    BY <2>1, <2>3
<1> HIDE DEF b
<1>14. b = start[F]
  <2>1. b <= start[F]
    BY <1>3, <1>9, <1>10, <1>12, <1>13
  <2>2. start[F] <= b
    BY <1>3, <1>10, <1>12, <1>13
  <2> QED
    BY <1>3, <1>10, <1>13, <2>1, <2>2
<1>15. /\ tries' \in Seq(HandlerType(chunk, at)) /\ Len(tries') = b
       /\ \A i \in 1 .. b : tries'[i] = tries[i]
  BY <1>2, <1>13
<1>16. Ordered(tries')
  <2>1. IsSeq(tries') /\ Len(tries') <= Len(tries)
    BY <1>3, <1>13, <1>15 DEF IsSeq
  <2> QED
    BY <1>3, <1>15, <2>1, OrderedPrefix
<1> QED
  BY <1>1, <1>3, <1>5, <1>7, <1>8, <1>10, <1>14, <1>15, <1>16

\* A return takes the handlers of its function with it.
LEMMA ReturnKeeps ==
    ASSUME NEW at, TryInv(at), Return
    PROVE  TryInv(at)'
<1> DEFINE F == Len(frames)
<1>1. /\ completion = Running /\ UNCHANGED <<program, chunk, sent, others>>
      /\ F \in Nat \ {0} /\ IsSeq(stack')
      /\ Len(stack') = frames[F].bp - 1
      /\ frames' \in Seq(FrameType(at)) /\ Len(frames') = F - 1
      /\ \A j \in 1 .. F - 1 : frames'[j] = frames[j]
      /\ tries' \in Seq(HandlerType(chunk, at)) /\ Ordered(tries')
  BY LeftByReturn
<1>2. ip \in DOMAIN at /\ frames # <<>>
  BY Here DEF Return
<1>3. frames \in Seq(FrameType(at)) /\ Framed(at, program.kind, frames) /\ Depths(tries)
  BY <1>1, InFrame
<1>4. Last(frames) = frames[F]
  BY <1>2, <1>3, SeqFront
<1>5. CASE frames[F].back = 0
  <2>1. completion' = Completion(Returned) /\ ip' = ip
    BY <1>4, <1>5 DEF Return, Goto
  <2>2. completion' # Running /\ completion' # Suspended
    BY <2>1, Completions
  <2>3. Typed(at)'
    BY <1>1, <1>2, <2>1 DEF TryInv, Typed
  <2> QED
    BY <1>1, <2>2, <2>3, Ended, OthersStay
<1>6. CASE frames[F].back # 0
  <2> DEFINE O == Outermost(program.kind, frames)
             k == F - 1
  <2>1. completion' = Running /\ ip' = frames[F].back
    BY <1>1, <1>4, <1>6 DEF Return, Goto
  <2>2. PICK start :
          /\ Segments(at, program.kind, ip, Len(stack), frames, tries, start)
          /\ Len(tries') = start[F]
          /\ \A i \in 1 .. Len(tries') : tries'[i] = tries[i]
    BY LeftByReturn
  <2>3. O \in 0 .. F /\ Len(stack) \in Nat
    BY <1>2, <1>3, Here, FramesType
  <2>4. O # F
    BY <1>1, <1>2, <1>3, <1>6 DEF Framed
  <2>5. k \in O .. F /\ k + 1 = F /\ k # F
    BY <1>1, <2>3, <2>4
  <2>6. frames[F].back \in DOMAIN at
    <3>1. F \in O + 1 .. F
      BY <1>1, <2>3, <2>4
    <3> QED
      BY <1>3, <3>1 DEF Framed
  <2>7. Place(ip, frames, k) = frames[F].back /\ Top(Len(stack), frames, k) = frames[F].bp - 1
    BY <2>5 DEF Place, Top
  <2> HIDE DEF k, O
  <2>8. IsSeq(tries') /\ Levelled(at)
    BY <1>1, Constants DEF TryInv, IsSeq
  <2>9. PICK gs : gs = frames'
    OBVIOUS
  <2>10. PICK us : us = tries'
    OBVIOUS
  <2>11. /\ gs \in Seq(FrameType(at)) /\ Len(gs) = k /\ \A j \in 1 .. k : gs[j] = frames[j]
         /\ IsSeq(us) /\ Len(us) = start[k + 1] /\ \A i \in 1 .. start[k + 1] : us[i] = tries[i]
    BY <1>1, <2>2, <2>5, <2>8, <2>9, <2>10 DEF k
  <2>12. /\ Framed(at, program.kind, gs)
         /\ Segments(at, program.kind, Place(ip, frames, k), Top(Len(stack), frames, k),
                     gs, us, start)
    BY <1>2, <1>3, <2>2, <2>3, <2>5, <2>8, <2>11, DropFrames DEF O
  <2>13. /\ Framed(at, program.kind, frames')
         /\ Segments(at, program.kind, ip', Len(stack'), frames', tries', start)
    BY <1>1, <2>1, <2>7, <2>9, <2>10, <2>12
  <2>14. ip' \in DOMAIN at
    BY <2>1, <2>6
  <2> QED
    BY <1>1, <2>1, <2>13, <2>14, RunsOn
<1> QED
  BY <1>5, <1>6

----------------------------------------------------------------------------
(* Exceptions.                                                              *)

\* A throw, in a running program or where one is resumed: the innermost of
\* the handlers that count catches it.
LEMMA UnwindFacts ==
    ASSUME NEW at, Levelled(at), Catching(at),
           NEW kind, NEW fs \in Seq(FrameType(at)), Framed(at, kind, fs),
           NEW ts \in Seq(HandlerType(chunk, at)), Ordered(ts), NEW p \in DOMAIN at,
           NEW n \in Nat, NEW start, Segments(at, kind, p, n, fs, ts, start),
           NEW st, IsSeq(st), \A i \in DOMAIN ts : Depth(ts[i]) <= Len(st),
           NEW returned, Handlers(ts, returned) # <<>>, NEW v,
           Unwind(v, st, fs, Handlers(ts, returned))
    PROVE  /\ tries' \in Seq(HandlerType(chunk, at)) /\ Ordered(tries')
           /\ IsSeq(stack') /\ ip' \in DOMAIN at
           /\ frames' \in Seq(FrameType(at)) /\ Framed(at, kind, frames')
           /\ \E first : Segments(at, kind, ip', Len(stack'), frames', tries', first)
<1> DEFINE hs == Handlers(ts, returned)
           m == Len(hs)
           t == Last(hs)
           h == Min({t.depth, Len(st)})
<1>1. /\ tries' = Front(hs) /\ stack' = SubSeq(st, 1, h)
      /\ frames' = SubSeq(fs, 1, t.frameDepth) /\ ip' = t.catch /\ hs # <<>>
  BY DEF Unwind, Goto
<1> HIDE DEF hs
<1>2. hs \in Seq(HandlerType(chunk, at)) /\ m \in 0 .. Len(ts) /\ \A i \in 1 .. m : hs[i] = ts[i]
  BY HandlersPrefix DEF hs
<1>3. Depths(ts) /\ IsSeq(ts) /\ Len(ts) \in Nat /\ DOMAIN ts = 1 .. Len(ts)
  BY HandlersType
<1>4. /\ Front(hs) = SubSeq(hs, 1, m - 1) /\ m - 1 \in 0 .. m /\ t = hs[m] /\ m \in 1 .. m
  BY <1>1, <1>2, SeqFront
<1>5. m \in 1 .. Len(ts) /\ t = ts[m] /\ m \in DOMAIN ts
  BY <1>2, <1>3, <1>4
<1> HIDE DEF m, t
<1>6. Depth(t) \in Nat /\ Depth(t) <= t.depth /\ t.depth \in Nat /\ Depth(t) <= Len(st)
  BY <1>5, HandlersType
<1>7. Len(st) \in Nat
  BY SeqType
<1>8. h \in 0 .. Len(st) /\ Depth(t) <= h /\ h \in Nat
  <2>1. {t.depth, Len(st)} \subseteq Nat /\ {t.depth, Len(st)} # {}
    BY <1>6, <1>7
  <2>2. h \in {t.depth, Len(st)} /\ \A y \in {t.depth, Len(st)} : h <= y
    BY <2>1, MinIn
  <2> QED
    BY <1>6, <1>7, <2>2
<1> HIDE DEF h
<1>9. IsSeq(stack') /\ Len(stack') = h
  BY <1>1, <1>8, SeqCut
<1>10. PICK us : us = tries'
  OBVIOUS
<1>11. us \in Seq(HandlerType(chunk, at)) /\ Len(us) = m - 1 /\ \A i \in 1 .. m - 1 : us[i] = ts[i]
  <2>1. PICK k : k = m - 1
    OBVIOUS
  <2>2. us = SubSeq(hs, 1, k) /\ k \in 0 .. Len(hs)
    BY <1>1, <1>4, <1>10, <2>1 DEF m
  <2>3. us \in Seq(HandlerType(chunk, at)) /\ Len(us) = k /\ \A i \in 1 .. k : us[i] = hs[i]
    BY <1>2, <2>2, SeqPrefix
  <2>4. \A i \in 1 .. k : i \in 1 .. m
    BY <1>5, <2>1
  <2> QED
    BY <1>2, <2>1, <2>3, <2>4
<1>12. Depths(us) /\ IsSeq(us)
  BY <1>11, HandlersType
<1>13. Ordered(us)
  <2>1. Len(us) <= Len(ts) /\ \A i \in 1 .. Len(us) : us[i] = ts[i]
    BY <1>3, <1>5, <1>11
  <2> QED
    BY <1>3, <1>12, <2>1, OrderedPrefix
<1>14. PICK gs : gs = SubSeq(fs, 1, ts[m].frameDepth)
  OBVIOUS
<1>15. /\ ts[m].catch \in DOMAIN at /\ gs \in Seq(FrameType(at)) /\ Framed(at, kind, gs)
       /\ \E first : Segments(at, kind, ts[m].catch, h, gs, us, first)
  <2>1. Depth(ts[m]) <= h
    BY <1>5, <1>8
  <2> QED
    BY <1>3, <1>5, <1>8, <1>11, <1>12, <1>14, <2>1, Unwinds
<1> QED
  BY <1>1, <1>5, <1>9, <1>10, <1>11, <1>13, <1>14, <1>15

\* An exception with a handler to go to.
LEMMA ThrowKeeps ==
    ASSUME NEW at, TryInv(at), Throw
    PROVE  TryInv(at)'
<1>1. /\ completion = Running /\ completion' = Running
      /\ UNCHANGED <<program, chunk, sent, others>>
      /\ Handlers(tries, returning) # <<>>
      /\ Unwind(Thrown, stack, frames, Handlers(tries, returning))
  BY DEF Throw, Throwing, NextThrows, ReturnThrows, InitializerThrows, DisposeThrows, At,
         generators
<1>2. ip \in DOMAIN at /\ IsSeq(stack) /\ Len(stack) \in Nat
  BY Here
<1>3. /\ frames \in Seq(FrameType(at)) /\ Framed(at, program.kind, frames)
      /\ tries \in Seq(HandlerType(chunk, at)) /\ Ordered(tries)
      /\ \A i \in DOMAIN tries : Depth(tries[i]) <= Len(stack)
  BY <1>1, InFrame
<1>4. PICK start : Segments(at, program.kind, ip, Len(stack), frames, tries, start)
  BY <1>1, InFrame
<1>5. Levelled(at) /\ Catching(at)
  BY Constants DEF TryInv
<1>6. PICK n : n = Len(stack)
  OBVIOUS
<1>7. n \in Nat /\ Segments(at, program.kind, ip, n, frames, tries, start)
  BY <1>2, <1>4, <1>6
<1>8. /\ tries' \in Seq(HandlerType(chunk, at)) /\ Ordered(tries')
      /\ IsSeq(stack') /\ ip' \in DOMAIN at
      /\ frames' \in Seq(FrameType(at)) /\ Framed(at, program.kind, frames')
      /\ \E first : Segments(at, program.kind, ip', Len(stack'), frames', tries', first)
  BY <1>1, <1>2, <1>3, <1>5, <1>7, UnwindFacts
<1>9. PICK first : Segments(at, program.kind, ip', Len(stack'), frames', tries', first)
  BY <1>8
<1> QED
  BY <1>1, <1>8, <1>9, RunsOn

\* Nothing runs after an exception that nothing catches.
LEMMA EndsUncaughtEnds ==
    ASSUME NEW v, NEW returned, EndsUncaught(v, returned)
    PROVE  completion' # Running /\ completion' # Suspended
BY DEF EndsUncaught, Running, Suspended

\* An exception without one.
LEMMA UncaughtKeeps ==
    ASSUME NEW at, TryInv(at), Uncaught
    PROVE  TryInv(at)'
<1>1. /\ completion' # Running /\ completion' # Suspended
      /\ UNCHANGED <<program, chunk, ip, stack, frames, tries, sent, others>>
  BY EndsUncaughtEnds DEF Uncaught, memory
<1>2. Typed(at)'
  BY <1>1 DEF TryInv, Typed
<1> QED
  BY <1>1, <1>2, Ended, OthersStay

----------------------------------------------------------------------------
(* Generators and async functions that yield or await.                      *)

\* Where one yields or awaits there is no frame but its own.
LEMMA Suspending ==
    ASSUME NEW at, TryInv(at), completion = Running, Instruction.op \in {"yield", "await"}
    PROVE  /\ program.kind = IF Instruction.op = "yield" THEN "generator" ELSE "async"
           /\ IsSeq(sent) /\ sent # <<>> /\ Len(frames) \in Nat
           /\ program.kind = "generator" => Len(frames) = 1
           /\ Bp \in Nat /\ Bp <= Len(stack) /\ Len(stack) \in Nat
           /\ IsSeq(SubSeq(stack, Bp + 1, Len(stack)))
           /\ Len(SubSeq(stack, Bp + 1, Len(stack))) = Len(stack) - Bp
           /\ \A i \in DOMAIN tries : /\ tries[i].frameDepth = Len(frames)
                                      /\ Bp <= Depth(tries[i]) /\ Depth(tries[i]) <= Len(stack)
           /\ ip + 1 \in DOMAIN at
           /\ Holds(at[ip + 1], Bp, tries, 0, Len(tries), Len(stack) + 1)
<1> DEFINE F == Len(frames)
           B == Base(frames, F)
           n == Len(stack)
           s == at[ip]
           u == Raised(s)
<1>1. program.kind = IF Instruction.op = "yield" THEN "generator" ELSE "async"
  BY Here DEF InPlace
<1>2. Framed(at, program.kind, frames) /\ sent # <<>> /\ IsSeq(sent)
  <2>1. program.instances > 0
    BY <1>1, Constants DEF TryInv
  <2> QED
    BY <2>1 DEF TryInv, Stands, Typed
<1>3. /\ frames \in Seq(FrameType(at)) /\ F \in Nat /\ B \in Nat /\ B <= n
      /\ Depths(tries) /\ Len(tries) \in Nat /\ DOMAIN tries = 1 .. Len(tries)
  BY InFrame
<1>4. F # 0 /\ frames # <<>>
  BY <1>1, <1>2, <1>3 DEF Framed
<1>5. Bp = B
  <2>1. Last(frames) = frames[F]
    BY <1>3, <1>4, SeqFront
  <2> QED
    BY <1>4, <2>1 DEF Bp, Base
<1>6. Outermost(program.kind, frames) = F
  BY <1>1 DEF Outermost
<1>7. PICK start :
          /\ Segments(at, program.kind, ip, n, frames, tries, start)
          /\ Holds(at[ip], B, tries, start[F], Len(tries), n)
          /\ \A i \in DOMAIN tries :
                /\ tries[i].frameDepth = F <=> i > start[F]
                /\ i > start[F] => B <= Depth(tries[i])
  BY InFrame
<1>8. start[F] = 0
  BY <1>6, <1>7 DEF Segments
<1>9. \A i \in DOMAIN tries : tries[i].frameDepth = F /\ B <= Depth(tries[i])
  BY <1>3, <1>7, <1>8
<1>10. \A i \in DOMAIN tries : Depth(tries[i]) <= n
  BY InFrame
<1>11. /\ ip \in DOMAIN at /\ n \in Nat /\ IsSeq(stack) /\ Leasts(s)
       /\ s \in Seq(LevelType(chunk)) /\ s # <<>>
  BY Here
<1>12. PICK q : q = ip + 1
  OBVIOUS
<1>13. q \in DOMAIN at /\ Fits(u, at[q]) /\ Leasts(at[q])
  <2>1. <<q, u>> \in Following(Instruction, ip, at[ip])
    BY <1>12, FollowingPushing DEF Pushing
  <2> QED
    BY <1>11, <2>1, Follows DEF TryInv
<1>14. /\ Leasts(u) /\ Len(u) = Len(s) /\ \A j \in 1 .. Len(s) - 1 : u[j] = s[j]
       /\ u[Len(s)].catch = s[Len(s)].catch /\ u[Len(s)].binding = s[Len(s)].binding
       /\ u[Len(s)].least = s[Len(s)].least + 1
  BY <1>11, RaisedFacts
<1> HIDE DEF u, n, B
<1>15. PICK m : m = n + 1
  OBVIOUS
<1>16. Holds(at[q], B, tries, 0, Len(tries), m)
  <2> HIDE DEF s
  <2>1. Holds(s, B, tries, 0, Len(tries), n) /\ Len(tries) \in 0 .. Len(tries) /\ 0 \in Nat
    BY <1>3, <1>7, <1>8 DEF s
  <2>2. PICK d : d = 1
    OBVIOUS
  <2>3. d \in Int /\ u[Len(s)].least = s[Len(s)].least + d
    BY <1>14, <2>2
  <2>4. Holds(u, B, tries, 0, Len(tries), n + d)
    BY <1>3, <1>11, <1>14, <2>1, <2>3, HoldsMoved
  <2>5. Holds(u, B, tries, 0, Len(tries), m) /\ m \in Nat
    BY <1>11, <1>15, <2>2, <2>4
  <2> QED
    BY <1>3, <1>13, <1>14, <2>1, <2>5, HoldsFits
<1>17. /\ IsSeq(SubSeq(stack, Bp + 1, n)) /\ Len(SubSeq(stack, Bp + 1, n)) = n - Bp
  <2>1. Bp \in 0 .. Len(stack)
    BY <1>3, <1>5, <1>11 DEF n
  <2>2. PICK h : h = Bp
    OBVIOUS
  <2>3. /\ IsSeq(SubSeq(stack, h + 1, Len(stack)))
        /\ Len(SubSeq(stack, h + 1, Len(stack))) = Len(stack) - h
    BY <1>11, <2>1, <2>2, SeqFrom
  <2> QED
    BY <2>2, <2>3 DEF n
<1>18. program.kind = "generator" => F = 1
  BY <1>2 DEF Framed
<1> QED
  BY <1>1, <1>2, <1>3, <1>5, <1>9, <1>10, <1>11, <1>12, <1>13, <1>15, <1>16, <1>17, <1>18 DEF n

\* A step that suspends, if what it saves agrees with the levels.
LEMMA Suspends ==
    ASSUME NEW at, TryInv(at), UNCHANGED <<program, chunk, others>>, completion' = Suspended,
           Typed(at)', NEW st, st = Current', Waits(st, at)
    PROVE  TryInv(at)'
<1>1. Fixed(at)' /\ Waits(st, at)'
  BY Unchanged DEF TryInv
<1>2. Waits(Current, at)'
  BY <1>1
<1>3. completion' # Running
  BY Completions
<1> QED
  BY <1>1, <1>2, <1>3, OthersStay DEF TryInv

\* A yield saves the part of the stack above the frame's base, and the handlers.
LEMMA YieldKeeps ==
    ASSUME NEW at, TryInv(at), Yield
    PROVE  TryInv(at)'
<1>1. /\ completion = Running /\ completion' = Suspended /\ Instruction.op = "yield"
      /\ ip' = ip + 1
      /\ UNCHANGED <<program, chunk, stack, frames, tries, sent, others>>
  BY DEF Yield, At, Onward, Goto, memory, generators
<1>2. /\ program.kind = "generator" /\ IsSeq(sent) /\ sent # <<>> /\ Len(frames) = 1
      /\ Bp \in Nat /\ Bp <= Len(stack) /\ Len(stack) \in Nat
      /\ IsSeq(SubSeq(stack, Bp + 1, Len(stack)))
      /\ Len(SubSeq(stack, Bp + 1, Len(stack))) = Len(stack) - Bp
      /\ \A i \in DOMAIN tries : /\ tries[i].frameDepth = Len(frames)
                                 /\ Depth(tries[i]) <= Len(stack)
      /\ ip + 1 \in DOMAIN at
      /\ Holds(at[ip + 1], Bp, tries, 0, Len(tries), Len(stack) + 1)
  BY <1>1, Suspending
<1>3. tries \in Seq(HandlerType(chunk, at)) /\ Ordered(tries)
  BY <1>1, InFrame
<1>4. PICK st : st = Current'
  OBVIOUS
<1>5. /\ st.ip = ip + 1 /\ st.bp = Bp /\ st.locals = SubSeq(stack, Bp + 1, Len(stack))
      /\ st.tries = tries /\ st.sent = sent
  BY <1>1, <1>4 DEF Current, Bp
<1>6. BaseOf(st) = Bp /\ Values(st) = Len(stack) - Bp + 1
  BY <1>2, <1>5 DEF BaseOf, Values
<1>7. Waits(st, at)
  <2>1. BaseOf(st) + Values(st) = Len(stack) + 1 /\ BaseOf(st) + Len(st.locals) = Len(stack)
    BY <1>2, <1>5, <1>6
  <2> QED
    BY <1>2, <1>3, <1>5, <1>6, <2>1 DEF Waits
<1>8. Typed(at)'
  BY <1>1, <1>2 DEF TryInv, Typed
<1> QED
  BY <1>1, <1>4, <1>7, <1>8, Suspends

\* A handler, and handlers, at another place: d further up, of the frame e.
Elsewhere(t, d, e) == [t EXCEPT !.depth = @ + d, !.frameDepth = e]
AllElsewhere(ts, d, e) == [n \in DOMAIN ts |-> Elsewhere(ts[n], d, e)]

\* It is still one of the code's.
LEMMA HandlerMoved ==
    ASSUME NEW code, NEW at, NEW t \in HandlerType(code, at), NEW d \in Int, NEW e \in Nat,
           t.depth + d \in Nat, Depth(t) + d \in Nat
    PROVE  LET u == Elsewhere(t, d, e)
           IN /\ u \in HandlerType(code, at) /\ Depth(u) = Depth(t) + d /\ u.frameDepth = e
              /\ u.catch = t.catch /\ u.binding = t.binding
<1> DEFINE u == Elsewhere(t, d, e)
           guards == {n \in DOMAIN code : code[n].op = "setupTry"}
           R == [catch : DOMAIN at, binding : {code[n].binding : n \in guards},
                 forFinally : {code[n].forFinally : n \in guards},
                 depth : Nat, frameDepth : Nat]
<1>1. t \in R /\ \A x : x \in HandlerType(code, at) <=> x \in R /\ Depth(x) \in Nat
  BY DEF HandlerType
<1>2. t.depth \in Nat
  BY <1>1
<1>3. u \in R
  BY <1>1 DEF Elsewhere
<1>4. /\ u.depth = t.depth + d /\ u.frameDepth = e /\ u.catch = t.catch
      /\ u.binding = t.binding
  BY <1>1 DEF Elsewhere
<1> HIDE DEF R, u
<1>5. Depth(u) = Depth(t) + d
  <2>1. CASE t.binding = ForOfException
    BY <1>2, <1>4, <2>1 DEF Depth
  <2>2. CASE t.binding # ForOfException
    BY <1>2, <1>4, <2>2 DEF Depth
  <2> QED
    BY <2>1, <2>2
<1> QED
  BY <1>1, <1>3, <1>4, <1>5 DEF u

\* A function on 1 .. n into S is a sequence of S.
LEMMA SeqMade ==
    ASSUME NEW S, NEW n \in Nat, NEW s \in [1 .. n -> S]
    PROVE  s \in Seq(S) /\ Len(s) = n /\ DOMAIN s = 1 .. n
OBVIOUS

\* All of them keep their order.
LEMMA HandlersMoved ==
    ASSUME NEW code, NEW at, NEW ts \in Seq(HandlerType(code, at)), Ordered(ts),
           NEW d \in Int, NEW e \in Nat,
           \A n \in DOMAIN ts : ts[n].depth + d \in Nat /\ Depth(ts[n]) + d \in Nat
    PROVE  LET us == AllElsewhere(ts, d, e)
           IN /\ us \in Seq(HandlerType(code, at)) /\ Ordered(us) /\ Len(us) = Len(ts)
              /\ \A n \in DOMAIN ts : /\ Depth(us[n]) = Depth(ts[n]) + d
                                      /\ us[n].frameDepth = e
                                      /\ us[n].catch = ts[n].catch
                                      /\ us[n].binding = ts[n].binding
<1> DEFINE us == AllElsewhere(ts, d, e)
<1>1. /\ Len(ts) \in Nat /\ DOMAIN ts = 1 .. Len(ts)
      /\ \A n \in DOMAIN ts : ts[n] \in HandlerType(code, at) /\ Depth(ts[n]) \in Nat
  BY HandlersType
<1>2. us = [n \in 1 .. Len(ts) |-> Elsewhere(ts[n], d, e)]
  BY <1>1 DEF AllElsewhere
<1> HIDE DEF us
<1>3. ASSUME NEW n \in DOMAIN ts
      PROVE  /\ us[n] \in HandlerType(code, at)
             /\ Depth(us[n]) = Depth(ts[n]) + d /\ us[n].frameDepth = e
             /\ us[n].catch = ts[n].catch /\ us[n].binding = ts[n].binding
  <2>1. us[n] = Elsewhere(ts[n], d, e)
    BY <1>1, <1>2
  <2>2. PICK t : t = ts[n]
    OBVIOUS
  <2>3. t \in HandlerType(code, at) /\ t.depth + d \in Nat /\ Depth(t) + d \in Nat
    BY <1>1, <2>2
  <2>4. /\ Elsewhere(t, d, e) \in HandlerType(code, at)
        /\ Depth(Elsewhere(t, d, e)) = Depth(t) + d /\ Elsewhere(t, d, e).frameDepth = e
        /\ Elsewhere(t, d, e).catch = t.catch /\ Elsewhere(t, d, e).binding = t.binding
    BY <2>3, HandlerMoved
  <2> QED
    BY <2>1, <2>2, <2>4
<1>4. Len(us) = Len(ts) /\ DOMAIN us = 1 .. Len(ts) /\ us \in Seq(HandlerType(code, at))
  <2>1. PICK S : S = HandlerType(code, at)
    OBVIOUS
  <2>2. \A n \in 1 .. Len(ts) : us[n] \in S
    BY <1>1, <1>3, <2>1
  <2>3. us \in [1 .. Len(ts) -> S]
    BY <1>2, <2>2
  <2> QED
    BY <1>1, <2>1, <2>3, SeqMade
<1>5. ASSUME NEW m \in DOMAIN us, NEW n \in DOMAIN us, m <= n
      PROVE  Depth(us[m]) <= Depth(us[n])
  <2>1. m \in DOMAIN ts /\ n \in DOMAIN ts
    BY <1>1, <1>4
  <2>2. PICK x : x = Depth(ts[m])
    OBVIOUS
  <2>3. PICK y : y = Depth(ts[n])
    OBVIOUS
  <2>4. x <= y /\ x \in Nat /\ y \in Nat
    BY <1>1, <1>5, <2>1, <2>2, <2>3 DEF Ordered
  <2>5. x + d <= y + d
    BY <2>4
  <2>6. Depth(us[m]) = x + d /\ Depth(us[n]) = y + d
    BY <1>3, <2>1, <2>2, <2>3
  <2> QED
    BY <2>5, <2>6
<1>6. Ordered(us)
  BY <1>5 DEF Ordered
<1> QED
  BY <1>3, <1>4, <1>6 DEF us

\* An await saves its handlers relative to the async function's first local.
LEMMA AwaitKeeps ==
    ASSUME NEW at, TryInv(at), Await
    PROVE  TryInv(at)'
<1> DEFINE own(t) == t.frameDepth >= Len(frames) /\ t.depth >= Bp
           relative(t) == [t EXCEPT !.depth = @ - Bp, !.frameDepth = @ - Len(frames)]
           N == {n \in DOMAIN tries : own(tries[n])}
           first == Min({Len(tries) + 1} \cup N)
           kept == SubSeq(tries, first, Len(tries))
           us == [n \in DOMAIN kept |-> relative(kept[n])]
<1>1. /\ completion = Running /\ completion' = Suspended /\ Instruction.op = "await"
      /\ ip' = ip + 1 /\ tries' = us
      /\ UNCHANGED <<program, chunk, stack, frames, sent, others>>
  BY DEF Await, At, Onward, Goto, generators
<1>2. /\ program.kind = "async" /\ IsSeq(sent) /\ sent # <<>> /\ Len(frames) \in Nat
      /\ Bp \in Nat /\ Bp <= Len(stack) /\ Len(stack) \in Nat
      /\ IsSeq(SubSeq(stack, Bp + 1, Len(stack)))
      /\ Len(SubSeq(stack, Bp + 1, Len(stack))) = Len(stack) - Bp
      /\ \A i \in DOMAIN tries : /\ tries[i].frameDepth = Len(frames)
                                 /\ Bp <= Depth(tries[i]) /\ Depth(tries[i]) <= Len(stack)
      /\ ip + 1 \in DOMAIN at
      /\ Holds(at[ip + 1], Bp, tries, 0, Len(tries), Len(stack) + 1)
  BY <1>1, Suspending
<1>3. /\ tries \in Seq(HandlerType(chunk, at)) /\ Ordered(tries) /\ Depths(tries)
      /\ Len(tries) \in Nat /\ DOMAIN tries = 1 .. Len(tries)
      /\ \A n \in DOMAIN tries :
            /\ Depth(tries[n]) \in Nat /\ Depth(tries[n]) <= tries[n].depth
            /\ tries[n].depth \in Nat /\ tries[n] \in HandlerType(chunk, at)
  BY <1>1, InFrame, HandlersType
<1>4. N = DOMAIN tries
  BY <1>2, <1>3
<1>5. first = 1
  <2>1. {Len(tries) + 1} \cup N \subseteq Nat /\ {Len(tries) + 1} \cup N # {}
    BY <1>3, <1>4
  <2> HIDE DEF N
  <2>2. /\ first \in {Len(tries) + 1} \cup N
        /\ \A y \in {Len(tries) + 1} \cup N : first <= y
    BY <2>1, MinIn
  <2> HIDE DEF first
  <2>3. CASE Len(tries) = 0
    BY <1>3, <1>4, <2>2, <2>3
  <2>4. CASE Len(tries) # 0
    <3>1. 1 \in N
      BY <1>3, <1>4, <2>4
    <3> QED
      BY <1>3, <1>4, <2>2, <3>1
  <2> QED
    BY <2>3, <2>4
<1> HIDE DEF first
<1>6. kept = tries
  BY <1>3, <1>5
<1> HIDE DEF kept
<1>7. PICK d : d = 0 - Bp
  OBVIOUS
<1>8. PICK vs : vs = tries'
  OBVIOUS
<1>9. vs = AllElsewhere(tries, d, 0)
  <2>1. \A n \in DOMAIN tries : relative(tries[n]) = Elsewhere(tries[n], d, 0)
    <3> TAKE n \in DOMAIN tries
    <3>1. tries[n].depth - Bp = tries[n].depth + d /\ tries[n].frameDepth - Len(frames) = 0
      BY <1>2, <1>3, <1>7
    <3>2. tries[n] \in HandlerType(chunk, at)
      BY <1>3
    <3> QED
      BY <3>1, <3>2 DEF HandlerType, Elsewhere
  <2> HIDE DEF relative
  <2> QED
    BY <1>1, <1>6, <1>8, <2>1 DEF AllElsewhere
<1>10. /\ d \in Int /\ 0 \in Nat
       /\ \A n \in DOMAIN tries : tries[n].depth + d \in Nat /\ Depth(tries[n]) + d \in Nat
  BY <1>2, <1>3, <1>7
<1>11. /\ vs \in Seq(HandlerType(chunk, at)) /\ Ordered(vs) /\ Len(vs) = Len(tries)
       /\ \A n \in DOMAIN tries : /\ Depth(vs[n]) = Depth(tries[n]) + d /\ vs[n].frameDepth = 0
                                  /\ vs[n].catch = tries[n].catch
                                  /\ vs[n].binding = tries[n].binding
  BY <1>3, <1>9, <1>10, HandlersMoved
<1>12. Depths(vs) /\ DOMAIN vs = 1 .. Len(vs)
  BY <1>11, HandlersType
<1>13. PICK q : q = ip + 1
  OBVIOUS
<1>14. PICK m : m = Len(stack) + 1
  OBVIOUS
<1>15. Holds(at[q], Bp + d, vs, 0, Len(tries), m + d)
  <2>1. Leasts(at[q]) /\ Holds(at[q], Bp, tries, 0, Len(tries), m)
    BY <1>2, <1>13, <1>14, Constants DEF TryInv, Levelled
  <2>2. /\ Bp + d \in Nat /\ m + d \in Nat /\ m \in Nat /\ Len(tries) \in 0 .. Len(tries)
        /\ Len(tries) <= Len(vs)
    BY <1>2, <1>3, <1>7, <1>11, <1>14
  <2>3. \A n \in 0 + 1 .. Len(tries) :
           /\ vs[n].catch = tries[n].catch /\ vs[n].binding = tries[n].binding
           /\ Depth(vs[n]) = Depth(tries[n]) + d
    BY <1>3, <1>11
  <2>4. PICK b : b = Bp
    OBVIOUS
  <2>5. Holds(at[q], b + d, vs, 0, Len(tries), m + d)
    BY <1>2, <1>3, <1>10, <1>12, <2>1, <2>2, <2>3, <2>4, HoldsElsewhere
  <2> QED
    BY <2>4, <2>5
<1>16. PICK st : st = Current'
  OBVIOUS
<1>17. /\ st.ip = ip + 1 /\ st.bp = Bp /\ st.locals = SubSeq(stack, Bp + 1, Len(stack))
       /\ st.tries = vs /\ st.sent = sent
  BY <1>1, <1>8, <1>16 DEF Current, Bp
<1>18. BaseOf(st) = 0 /\ Values(st) = Len(stack) - Bp + 1
  BY <1>2, <1>17 DEF BaseOf, Values
<1>19. Waits(st, at)
  <2>1. /\ BaseOf(st) + Values(st) = m + d /\ BaseOf(st) + Len(st.locals) = Len(stack) + d
        /\ Bp + d = 0
    BY <1>2, <1>7, <1>14, <1>17, <1>18
  <2>2. Holds(at[st.ip], BaseOf(st), st.tries, 0, Len(st.tries), BaseOf(st) + Values(st))
    BY <1>11, <1>13, <1>15, <1>17, <1>18, <2>1
  <2>3. \A n \in DOMAIN st.tries :
           /\ st.tries[n].frameDepth = 0
           /\ Depth(st.tries[n]) <= BaseOf(st) + Len(st.locals)
    <3> TAKE n \in DOMAIN st.tries
    <3>1. n \in DOMAIN tries
      BY <1>3, <1>11, <1>12, <1>17
    <3>2. /\ st.tries[n].frameDepth = 0 /\ Depth(st.tries[n]) = Depth(tries[n]) + d
          /\ Depth(tries[n]) \in Nat /\ Depth(tries[n]) <= Len(stack)
      BY <1>2, <1>3, <1>11, <1>17, <3>1
    <3> QED
      BY <1>2, <1>10, <2>1, <3>2
  <2> QED
    BY <1>2, <1>11, <1>17, <2>2, <2>3 DEF Waits
<1>20. Typed(at)'
  <2>1. vs \in Seq(HandlerType(chunk, at)) /\ Ordered(vs)
    BY <1>11
  <2> QED
    BY <1>1, <1>2, <1>8, <2>1 DEF TryInv, Typed
<1> QED
  BY <1>1, <1>16, <1>19, <1>20, Suspends

----------------------------------------------------------------------------
(* The host resumes a generator or an async function.                       *)

\* What is resumed was suspended, and what is left is kept.
LEMMA Switched ==
    ASSUME NEW at, TryInv(at), NEW g \in 0 .. Len(others), NEW command, Switch(g, command)
    PROVE  /\ UNCHANGED <<program, chunk>> /\ program.kind \in {"generator", "async"}
           /\ Kept(Resumable(g), at) /\ OthersKept(at)'
           /\ IsSeq(sent') /\ sent' # <<>>
<1>1. /\ program.instances > 0 /\ completion # Running /\ UNCHANGED <<program, chunk>>
      /\ sent' = Append(Resumable(g).sent, command)
      /\ others' = IF g = 0 THEN others ELSE [others EXCEPT ![g] = Current]
  BY DEF Switch
<1>2. program.kind \in {"generator", "async"}
  BY <1>1, Constants DEF TryInv
<1>3. Kept(Current, at)
  <2>1. Current.ip = ip /\ Current.sent = sent /\ Current.completion = completion
    BY DEF Current
  <2> QED
    BY <2>1 DEF TryInv, Typed, Kept
<1>4. IsSeq(others) /\ \A h \in DOMAIN others : Kept(others[h], at)
  BY DEF TryInv, OthersKept
<1>5. Len(others) \in Nat /\ DOMAIN others = 1 .. Len(others)
  BY <1>4, SeqType
<1>6. Kept(Resumable(g), at)
  BY <1>3, <1>4, <1>5 DEF Resumable
<1>7. IsSeq(sent') /\ sent' # <<>>
  <2>1. IsSeq(Resumable(g).sent)
    BY <1>6 DEF Kept
  <2> QED
    BY <1>1, <2>1, SeqAppend
<1>8. PICK c : c = Current
  OBVIOUS
<1>9. PICK os : os = others'
  OBVIOUS
<1>10. IsSeq(os) /\ \A h \in DOMAIN os : Kept(os[h], at)
  <2>1. CASE g = 0
    BY <1>1, <1>4, <1>9, <2>1
  <2>2. CASE g # 0
    <3>1. os = [others EXCEPT ![g] = c]
      BY <1>1, <1>8, <1>9, <2>2
    <3>2. IsSeq(os)
      BY <1>4, <3>1, SeqExcept
    <3>3. ASSUME NEW h \in DOMAIN os
          PROVE  Kept(os[h], at)
      <4>1. h \in DOMAIN others /\ (h = g => os[h] = c) /\ (h # g => os[h] = others[h])
        BY <3>1
      <4> QED
        BY <1>3, <1>4, <1>8, <4>1
    <3> QED
      BY <3>2, <3>3
  <2> QED
    BY <2>1, <2>2
<1>11. OthersKept(at)'
  <2>1. \A st : Kept(st, at) <=> Kept(st, at)'
    BY <1>1, Unchanged DEF TryInv
  <2>2. \A h \in DOMAIN os : Kept(os[h], at)'
    BY <1>10, <2>1
  <2>3. IsSeq(others')
    BY <1>9, <1>10
  <2>4. (\A h \in DOMAIN others : Kept(others[h], at))'
    BY <1>9, <2>2
  <2> QED
    BY <2>3, <2>4 DEF OthersKept
<1> QED
  BY <1>1, <1>2, <1>6, <1>7, <1>11

\* A program that has ended with nothing left.
LEMMA EndsEmpty ==
    ASSUME NEW at, TryInv(at), NEW g \in 0 .. Len(others), NEW command, Switch(g, command),
           completion' # Running, completion' # Suspended,
           ip' = Resumable(g).ip, tries' = <<>>, stack' = <<>>, frames' = <<>>
    PROVE  TryInv(at)'
<1>1. /\ UNCHANGED <<program, chunk>> /\ Kept(Resumable(g), at) /\ OthersKept(at)'
      /\ IsSeq(sent')
  BY Switched
<1>2. ip' \in DOMAIN at
  BY <1>1 DEF Kept
<1>3. /\ IsSeq(stack') /\ frames' \in Seq(FrameType(at))
      /\ tries' \in Seq(HandlerType(chunk, at)) /\ Ordered(tries')
  BY DEF IsSeq, Ordered
<1>4. Typed(at)'
  BY <1>1, <1>2, <1>3 DEF Typed
<1> QED
  BY <1>1, <1>4, Ended

\* What a host is told at once leaves nothing running.
LEMMA AnswerEnds ==
    ASSUME NEW n, NEW mode
    PROVE  Answer(<<n, mode>>) # Running /\ Answer(<<n, mode>>) # Suspended
BY DEF Answer, Running, Suspended, Normal

\* A generator that has not begun, or has ended, answers at once.
LEMMA SendAnsweredKeeps ==
    ASSUME NEW at, TryInv(at), NEW g \in 0 .. Len(others), NEW mode, SendAnswered(g, mode)
    PROVE  TryInv(at)'
<1>1. PICK command : command = <<Total, mode>>
  OBVIOUS
<1>2. /\ Switch(g, command) /\ completion' = Answer(<<Total, mode>>)
      /\ ip' = Resumable(g).ip /\ tries' = <<>> /\ stack' = <<>> /\ frames' = <<>>
  BY <1>1 DEF SendAnswered
<1>3. completion' # Running /\ completion' # Suspended
  BY <1>2, AnswerEnds
<1> QED
  BY <1>2, <1>3, EndsEmpty

\* The handlers of what is resumed stand at its new place as they stood at the
\* old one.
LEMMA RebasedFacts ==
    ASSUME NEW at, Fixed(at), program.kind \in {"generator", "async"},
           NEW st, st.ip \in DOMAIN at, Waits(st, at), NEW bp \in Nat
    PROVE  LET us == Rebased(st, bp)
           IN /\ us \in Seq(HandlerType(chunk, at)) /\ Ordered(us) /\ Depths(us)
              /\ Len(us) = Len(st.tries) /\ Len(us) \in Nat /\ DOMAIN us = 1 .. Len(us)
              /\ \A i \in DOMAIN us : /\ us[i].frameDepth = 1
                                      /\ Depth(us[i]) <= bp + Len(st.locals)
              /\ Holds(at[st.ip], bp, us, 0, Len(us), bp + Values(st))
<1>1. PICK ts : ts = st.tries
  OBVIOUS
<1>2. PICK base : base = BaseOf(st)
  OBVIOUS
<1>3. PICK d : d = bp - base
  OBVIOUS
<1>4. PICK top : top = base + Values(st)
  OBVIOUS
<1>5. /\ ts \in Seq(HandlerType(chunk, at)) /\ Ordered(ts) /\ st.bp \in Nat
      /\ IsSeq(st.locals) /\ IsSeq(st.sent)
      /\ \A n \in DOMAIN ts :
            /\ ts[n].frameDepth = IF program.kind = "generator" THEN 1 ELSE 0
            /\ Depth(ts[n]) <= base + Len(st.locals)
      /\ Holds(at[st.ip], base, ts, 0, Len(ts), top)
  BY <1>1, <1>2, <1>4 DEF Waits
<1>6. /\ Depths(ts) /\ Len(ts) \in Nat /\ DOMAIN ts = 1 .. Len(ts) /\ Len(ts) \in 0 .. Len(ts)
      /\ \A n \in DOMAIN ts :
            /\ Depth(ts[n]) \in Nat /\ Depth(ts[n]) <= ts[n].depth
            /\ ts[n].depth \in Nat /\ ts[n] \in HandlerType(chunk, at)
  BY <1>5, HandlersType
<1>7. base \in Nat /\ Len(st.locals) \in Nat /\ Values(st) \in Nat /\ top \in Nat /\ d \in Int
  <2>1. Len(st.locals) \in Nat
    BY <1>5, SeqType
  <2>2. base \in Nat
    BY <1>2, <1>5 DEF BaseOf
  <2>3. Values(st) = Len(st.locals) \/ Values(st) = Len(st.locals) + 1
    <3>1. CASE st.sent = <<>>
      BY <2>1, <3>1 DEF Values
    <3>2. CASE st.sent # <<>>
      BY <2>1, <3>2 DEF Values
    <3> QED
      BY <3>1, <3>2
  <2>4. Values(st) \in Nat
    BY <2>1, <2>3
  <2> QED
    BY <1>3, <1>4, <2>1, <2>2, <2>4
<1>8. Leasts(at[st.ip])
  BY Constants DEF Levelled
<1>9. \A i \in 0 + 1 .. Len(ts) : base <= Depth(ts[i])
  BY <1>5, <1>6, <1>7, <1>8, HoldsBounds
<1>10. \A n \in DOMAIN ts : ts[n].depth + d \in Nat /\ Depth(ts[n]) + d \in Nat
  <2> TAKE n \in DOMAIN ts
  <2>1. base <= Depth(ts[n])
    BY <1>6, <1>9
  <2>2. PICK x : x = Depth(ts[n])
    OBVIOUS
  <2>3. x \in Nat /\ base <= x /\ x <= ts[n].depth /\ ts[n].depth \in Nat
    BY <1>6, <2>1, <2>2
  <2> QED
    BY <1>3, <1>7, <2>2, <2>3
<1>11. PICK us : us = Rebased(st, bp)
  OBVIOUS
<1>12. PICK e : e = 1
  OBVIOUS
<1>13. us = AllElsewhere(ts, d, e)
  <2>1. CASE program.kind = "generator"
    <3>1. us = [n \in DOMAIN ts |-> [ts[n] EXCEPT !.depth = (@ + bp) - st.bp]]
      BY <1>1, <1>11, <2>1 DEF Rebased
    <3>2. ASSUME NEW n \in DOMAIN ts
          PROVE  [ts[n] EXCEPT !.depth = (@ + bp) - st.bp] = Elsewhere(ts[n], d, e)
      <4>1. ts[n] \in HandlerType(chunk, at) /\ ts[n].frameDepth = e /\ ts[n].depth \in Nat
        BY <1>5, <1>6, <1>12, <2>1
      <4>2. base = st.bp
        BY <1>2, <2>1 DEF BaseOf
      <4>3. (ts[n].depth + bp) - st.bp = ts[n].depth + d
        BY <1>3, <1>5, <4>1, <4>2
      <4> QED
        BY <4>1, <4>3 DEF HandlerType, Elsewhere
    <3> QED
      BY <3>1, <3>2 DEF AllElsewhere
  <2>2. CASE program.kind # "generator"
    <3>1. us = [n \in DOMAIN ts |-> [ts[n] EXCEPT !.depth = @ + bp, !.frameDepth = @ + 1]]
      BY <1>1, <1>11, <2>2 DEF Rebased
    <3>2. ASSUME NEW n \in DOMAIN ts
          PROVE  [ts[n] EXCEPT !.depth = @ + bp, !.frameDepth = @ + 1] = Elsewhere(ts[n], d, e)
      <4>1. ts[n] \in HandlerType(chunk, at) /\ ts[n].frameDepth + 1 = e
        BY <1>5, <1>6, <1>12, <2>2
      <4>2. d = bp
        BY <1>2, <1>3, <2>2 DEF BaseOf
      <4> QED
        BY <4>1, <4>2 DEF HandlerType, Elsewhere
    <3> QED
      BY <3>1, <3>2 DEF AllElsewhere
  <2> QED
    BY <2>1, <2>2
<1>14. /\ us \in Seq(HandlerType(chunk, at)) /\ Ordered(us) /\ Len(us) = Len(ts)
       /\ \A n \in DOMAIN ts : /\ Depth(us[n]) = Depth(ts[n]) + d /\ us[n].frameDepth = e
                               /\ us[n].catch = ts[n].catch
                               /\ us[n].binding = ts[n].binding
  <2>1. e \in Nat
    BY <1>12
  <2> QED
    BY <1>5, <1>7, <1>10, <1>13, <2>1, HandlersMoved
<1>15. Depths(us) /\ Len(us) \in Nat /\ DOMAIN us = 1 .. Len(us) /\ DOMAIN us = DOMAIN ts
  BY <1>6, <1>14, HandlersType
<1>16. Holds(at[st.ip], base + d, us, 0, Len(ts), top + d)
  <2>1. base + d \in Nat /\ top + d \in Nat /\ Len(ts) <= Len(us) /\ 0 \in Nat
    BY <1>3, <1>4, <1>6, <1>7, <1>14
  <2>2. \A n \in 0 + 1 .. Len(ts) : /\ us[n].catch = ts[n].catch
                                    /\ us[n].binding = ts[n].binding
                                    /\ Depth(us[n]) = Depth(ts[n]) + d
    BY <1>6, <1>14
  <2> QED
    BY <1>5, <1>6, <1>7, <1>8, <1>15, <2>1, <2>2, HoldsElsewhere
<1>17. Holds(at[st.ip], bp, us, 0, Len(us), bp + Values(st))
  <2>1. base + d = bp /\ top + d = bp + Values(st)
    BY <1>3, <1>4, <1>7
  <2> QED
    BY <1>14, <1>16, <2>1
<1>18. ASSUME NEW i \in DOMAIN us
       PROVE  us[i].frameDepth = 1 /\ Depth(us[i]) <= bp + Len(st.locals)
  <2>1. us[i].frameDepth = 1 /\ Depth(us[i]) = Depth(ts[i]) + d
    BY <1>12, <1>14, <1>15
  <2>2. PICK x : x = Depth(ts[i])
    OBVIOUS
  <2>3. x \in Nat /\ x <= base + Len(st.locals)
    BY <1>5, <1>6, <1>15, <2>2
  <2>4. x + d <= bp + Len(st.locals)
    BY <1>3, <1>7, <2>3
  <2> QED
    BY <2>1, <2>2, <2>4
<1> QED
  BY <1>1, <1>11, <1>14, <1>15, <1>17, <1>18

\* The stack on which a generator goes on.
LEMMA RestoredFacts ==
    ASSUME NEW st, IsSeq(st.locals), NEW bp \in Nat \ {0}
    PROVE  /\ IsSeq(Restored(st, bp)) /\ Len(Restored(st, bp)) = bp + Len(st.locals)
           /\ Len(st.locals) \in Nat
<1> DEFINE below == [i \in 1 .. bp - 1 |-> Undefined]
           function == <<Function>>
<1>1. Restored(st, bp) = (below \o function) \o st.locals
  BY DEF Restored
<1>2. IsSeq(below) /\ Len(below) = bp - 1
  <2>1. bp - 1 \in Nat
    OBVIOUS
  <2>2. below \in [1 .. bp - 1 -> {Undefined}]
    OBVIOUS
  <2> HIDE DEF below
  <2>3. PICK n : n = bp - 1
    OBVIOUS
  <2>4. below \in Seq({Undefined}) /\ Len(below) = n
    BY <2>1, <2>2, <2>3, SeqMade
  <2> QED
    BY <2>3, <2>4 DEF IsSeq
<1>3. IsSeq(function) /\ Len(function) = 1
  <2>1. function \in Seq({Function}) /\ Len(function) = 1
    OBVIOUS
  <2> HIDE DEF function
  <2> QED
    BY <2>1 DEF IsSeq
<1> HIDE DEF below, function
<1>4. IsSeq(below \o function) /\ Len(below \o function) = bp
  <2>1. /\ IsSeq(below \o function)
        /\ Len(below \o function) = Len(below) + Len(function)
    BY <1>2, <1>3, SeqConcat
  <2> QED
    BY <1>2, <1>3, <2>1
<1>5. PICK b : b = below \o function
  OBVIOUS
<1>6. IsSeq(b \o st.locals) /\ Len(b \o st.locals) = Len(b) + Len(st.locals)
  BY <1>4, <1>5, SeqConcat
<1>7. Len(st.locals) \in Nat
  BY SeqType
<1> QED
  BY <1>1, <1>4, <1>5, <1>6, <1>7

\* The frame in which it does.
LEMMA GeneratorFrameFacts ==
    ASSUME NEW at, NEW bp \in Nat \ {0}
    PROVE  /\ GeneratorFrame(bp) \in Seq(FrameType(at)) /\ Len(GeneratorFrame(bp)) = 1
           /\ GeneratorFrame(bp)[1].bp = bp /\ GeneratorFrame(bp)[1].back = 0
<1> DEFINE f == [bp |-> bp, back |-> 0]
<1>1. f \in FrameType(at) /\ f.bp = bp /\ f.back = 0
  BY DEF FrameType
<1>2. GeneratorFrame(bp) = <<f>>
  BY DEF GeneratorFrame
<1> HIDE DEF f
<1>3. <<f>> \in Seq(FrameType(at)) /\ Len(<<f>>) = 1 /\ <<f>>[1] = f
  BY <1>1
<1> QED
  BY <1>1, <1>2, <1>3

\* One more frame.
LEMMA SeqJoined ==
    ASSUME NEW S, NEW s \in Seq(S), NEW t \in Seq(S), Len(t) = 1
    PROVE  /\ s \o t \in Seq(S) /\ Len(s \o t) = Len(s) + 1
           /\ (s \o t)[Len(s \o t)] = t[1]
<1>1. /\ s \o t \in Seq(S) /\ Len(s \o t) = Len(s) + Len(t)
      /\ \A i \in 1 .. Len(s) + Len(t) :
            (s \o t)[i] = IF i <= Len(s) THEN s[i] ELSE t[i - Len(s)]
  BY ConcatProperties
<1>2. PICK n : n = Len(s)
  OBVIOUS
<1>3. PICK u : u = s \o t
  OBVIOUS
<1>4. n \in Nat /\ n + 1 \in 1 .. n + 1 /\ ~(n + 1 <= n) /\ (n + 1) - n = 1
  BY <1>2
<1>5. \A i \in 1 .. n + 1 : u[i] = IF i <= n THEN s[i] ELSE t[i - n]
  BY <1>1, <1>2, <1>3
<1>6. u[n + 1] = t[1]
  BY <1>4, <1>5
<1> QED
  BY <1>1, <1>2, <1>3, <1>6

\* The frames of what runs on.
LEMMA FramesFacts ==
    ASSUME NEW at, program.kind \in {"generator", "async"}, NEW st, NEW bp \in Nat \ {0}
    PROVE  LET fs == Frames(st, bp)
           IN /\ fs \in Seq(FrameType(at)) /\ Len(fs) \in Nat /\ Len(fs) > 0
              /\ fs[Len(fs)].bp = bp /\ fs[Len(fs)].back = 0
              /\ program.kind = "generator" \/ st.sent # <<>> => Len(fs) = 1
<1> DEFINE fs == Frames(st, bp)
           own == GeneratorFrame(bp)
           below == [n \in 1 .. bp - 1 |-> [bp |-> n, back |-> 0]]
<1>1. own \in Seq(FrameType(at)) /\ Len(own) = 1 /\ own[1].bp = bp /\ own[1].back = 0
  BY GeneratorFrameFacts
<1> HIDE DEF own
<1>2. CASE program.kind = "async" /\ st.sent = <<>>
  <2>1. fs = below \o own
    BY <1>2 DEF Frames, own
  <2>2. bp - 1 \in Nat
    OBVIOUS
  <2>3. \A n \in 1 .. bp - 1 : [bp |-> n, back |-> 0] \in FrameType(at)
    BY DEF FrameType
  <2>4. below \in [1 .. bp - 1 -> FrameType(at)]
    BY <2>3
  <2> HIDE DEF below
  <2>5. PICK m : m = bp - 1
    OBVIOUS
  <2>6. PICK S : S = FrameType(at)
    OBVIOUS
  <2>7. below \in Seq(S) /\ Len(below) = m /\ m \in Nat
    BY <2>2, <2>4, <2>5, <2>6, SeqMade
  <2>8. own \in Seq(S) /\ Len(own) = 1
    BY <1>1, <2>6
  <2>9. /\ below \o own \in Seq(S) /\ Len(below \o own) = Len(below) + 1
        /\ (below \o own)[Len(below \o own)] = own[1]
    BY <2>7, <2>8, SeqJoined
  <2>10. Len(below) + 1 = bp
    BY <2>5, <2>7
  <2>11. PICK all : all = fs
    OBVIOUS
  <2>12. all \in Seq(FrameType(at)) /\ Len(all) = bp /\ all[Len(all)] = own[1]
    BY <2>1, <2>6, <2>9, <2>10, <2>11
  <2> QED
    BY <1>1, <1>2, <2>11, <2>12
<1>3. CASE ~(program.kind = "async" /\ st.sent = <<>>)
  <2>1. fs = own
    BY <1>3 DEF Frames, own
  <2> HIDE DEF fs
  <2>2. fs \in Seq(FrameType(at)) /\ Len(fs) = 1 /\ fs[1].bp = bp /\ fs[1].back = 0
    BY <1>1, <2>1
  <2>3. Len(fs) \in Nat /\ Len(fs) > 0 /\ fs[Len(fs)] = fs[1]
    BY <2>2
  <2> QED
    BY <2>2, <2>3 DEF fs
<1> QED
  BY <1>2, <1>3

\* The frame of a generator or an async function has no caller of the code.
LEMMA OwnFrame ==
    ASSUME NEW at, NEW kind \in {"generator", "async"}, NEW fs \in Seq(FrameType(at)),
           Len(fs) \in Nat, Len(fs) > 0, fs[Len(fs)].back = 0,
           kind = "generator" => Len(fs) = 1
    PROVE  /\ Framed(at, kind, fs) /\ Outermost(kind, fs) = Len(fs)
           /\ Base(fs, Len(fs)) = fs[Len(fs)].bp
<1>1. Outermost(kind, fs) = Len(fs)
  BY DEF Outermost
<1>2. fs # <<>> /\ \A k \in Len(fs) + 1 .. Len(fs) : FALSE
  OBVIOUS
<1> QED
  BY <1>1, <1>2 DEF Framed, Base

\* A program that goes on where it was suspended.
LEMMA ResumesOn ==
    ASSUME NEW at, TryInv(at), NEW g \in 0 .. Len(others), NEW command, Switch(g, command),
           completion' = Running,
           IsSeq(stack'), ip' \in DOMAIN at,
           tries' \in Seq(HandlerType(chunk, at)), Ordered(tries'),
           frames' \in Seq(FrameType(at)), Framed(at, program.kind, frames'),
           NEW start,
           Segments(at, program.kind, ip', Len(stack'), frames', tries', start)
    PROVE  TryInv(at)'
<1>1. /\ UNCHANGED <<program, chunk>> /\ OthersKept(at)' /\ IsSeq(sent') /\ sent' # <<>>
  BY Switched
<1>2. Fixed(at)'
  BY <1>1, Unchanged DEF TryInv
<1>3. Typed(at)'
  BY <1>1 DEF Typed
<1>4. Stands(at)'
  BY <1>1 DEF Stands
<1>5. completion' # Suspended
  BY Completions
<1> QED
  BY <1>1, <1>2, <1>3, <1>4, <1>5 DEF TryInv

\* A generator or async function is resumed, or begins.
LEMMA SendNextKeeps ==
    ASSUME NEW at, TryInv(at), NEW g \in 0 .. Len(others), NEW bp \in Bases, SendNext(g, bp)
    PROVE  TryInv(at)'
<1>1. PICK st : st = Resumable(g)
  OBVIOUS
<1>2. PICK command : command = <<Total, "next">>
  OBVIOUS
<1>3. /\ Resumes(st, "next") /\ Switch(g, command) /\ ip' = st.ip
      /\ stack' = IF st.sent = <<>> THEN Restored(st, bp) ELSE Append(Restored(st, bp), command)
      /\ frames' = Frames(st, bp) /\ tries' = Rebased(st, bp) /\ completion' = Running
  BY <1>1, <1>2 DEF SendNext
<1>4. program.kind \in {"generator", "async"} /\ Kept(st, at)
  BY <1>1, <1>3, Switched
<1>5. st.completion = Suspended
  BY <1>3 DEF Resumes, AnswersAtOnce
<1>6. Waits(st, at) /\ st.ip \in DOMAIN at
  BY <1>4, <1>5 DEF Kept
<1>7. bp \in Nat \ {0} /\ bp \in Nat
  BY DEF Bases
<1>8. PICK us : us = Rebased(st, bp)
  OBVIOUS
<1>9. PICK fs : fs = Frames(st, bp)
  OBVIOUS
<1>10. /\ us \in Seq(HandlerType(chunk, at)) /\ Ordered(us) /\ Depths(us)
       /\ Len(us) = Len(st.tries) /\ Len(us) \in Nat /\ DOMAIN us = 1 .. Len(us)
       /\ \A i \in DOMAIN us : us[i].frameDepth = 1
       /\ Holds(at[st.ip], bp, us, 0, Len(us), bp + Values(st))
  BY <1>4, <1>6, <1>7, <1>8, RebasedFacts DEF TryInv
<1>11. /\ fs \in Seq(FrameType(at)) /\ Len(fs) \in Nat /\ Len(fs) > 0
       /\ fs[Len(fs)].bp = bp /\ fs[Len(fs)].back = 0
       /\ program.kind = "generator" \/ st.sent # <<>> => Len(fs) = 1
  BY <1>4, <1>7, <1>9, FramesFacts
<1>12. /\ Framed(at, program.kind, fs) /\ Outermost(program.kind, fs) = Len(fs)
       /\ Base(fs, Len(fs)) = bp
  BY <1>4, <1>11, OwnFrame
<1>13. IsSeq(stack') /\ Len(stack') = bp + Values(st) /\ Len(stack') \in Nat
  <2>1. /\ IsSeq(Restored(st, bp)) /\ Len(Restored(st, bp)) = bp + Len(st.locals)
        /\ Len(st.locals) \in Nat
    BY <1>6, <1>7, RestoredFacts DEF Waits
  <2>2. PICK r : r = Restored(st, bp)
    OBVIOUS
  <2>3. CASE st.sent = <<>>
    BY <1>3, <1>7, <2>1, <2>3 DEF Values
  <2>4. CASE st.sent # <<>>
    <3>1. IsSeq(Append(r, command)) /\ Len(Append(r, command)) = Len(r) + 1
      BY <2>1, <2>2, SeqAppend
    <3>2. Values(st) = Len(st.locals) + 1
      BY <2>4 DEF Values
    <3>3. Len(r) = bp + Len(st.locals) /\ stack' = Append(r, command)
      BY <1>3, <2>1, <2>2, <2>4
    <3> QED
      BY <1>7, <2>1, <3>1, <3>2, <3>3
  <2> QED
    BY <2>3, <2>4
<1>14. \A i \in DOMAIN us : us[i].frameDepth = Len(fs)
  <2>1. CASE st.sent = <<>> /\ program.kind # "generator"
    <3>1. st.tries = <<>>
      BY <1>6, <2>1 DEF Waits
    <3>2. Len(us) = 0
      BY <1>10, <3>1
    <3> QED
      BY <1>10, <3>2
  <2>2. CASE ~(st.sent = <<>> /\ program.kind # "generator")
    BY <1>10, <1>11, <2>2
  <2> QED
    BY <2>1, <2>2
<1>15. PICK n : n = bp + Values(st)
  OBVIOUS
<1>16. PICK p : p = st.ip
  OBVIOUS
<1>17. \E start : Segments(at, program.kind, p, n, fs, us, start)
  <2>1. Holds(at[p], Base(fs, Len(fs)), us, 0, Len(us), n) /\ n \in Nat /\ p \in DOMAIN at
    BY <1>6, <1>10, <1>12, <1>13, <1>15, <1>16
  <2> QED
    BY <1>10, <1>11, <1>12, <1>14, <2>1, OneSegment
<1>18. PICK start : Segments(at, program.kind, p, n, fs, us, start)
  BY <1>17
<1>19. Segments(at, program.kind, ip', Len(stack'), frames', tries', start)
  BY <1>3, <1>8, <1>9, <1>13, <1>15, <1>16, <1>18
<1>20. /\ tries' \in Seq(HandlerType(chunk, at)) /\ Ordered(tries')
       /\ frames' \in Seq(FrameType(at)) /\ Framed(at, program.kind, frames')
       /\ ip' \in DOMAIN at
  BY <1>3, <1>6, <1>8, <1>9, <1>10, <1>11, <1>12
<1> QED
  BY <1>3, <1>13, <1>19, <1>20, ResumesOn

\* It is resumed with an exception or a return, which unwinds at once.
LEMMA SendAbruptKeeps ==
    ASSUME NEW at, TryInv(at), NEW g \in 0 .. Len(others), NEW bp \in Bases,
           NEW mode \in program.sends \ {"next"}, SendAbrupt(g, mode, bp)
    PROVE  TryInv(at)'
<1>1. PICK st : st = Resumable(g)
  OBVIOUS
<1>2. PICK command : command = <<Total, mode>>
  OBVIOUS
<1>3. PICK returned : returned = IF mode = "return" THEN command ELSE returning
  OBVIOUS
<1>4. PICK us : us = Rebased(st, bp)
  OBVIOUS
<1>5. /\ Resumes(st, mode) /\ Switch(g, command)
      /\ IF Handlers(us, returned) = <<>>
         THEN /\ EndsUncaught(command, returned)
              /\ ip' = st.ip /\ tries' = <<>> /\ stack' = <<>> /\ frames' = <<>>
         ELSE /\ Unwind(command, Restored(st, bp), GeneratorFrame(bp), Handlers(us, returned))
              /\ completion' = Running
  BY <1>1, <1>2, <1>3, <1>4 DEF SendAbrupt
<1>6. program.kind \in {"generator", "async"} /\ Kept(st, at)
  BY <1>1, <1>5, Switched
<1>7. st.completion = Suspended
  BY <1>5 DEF Resumes, AnswersAtOnce
<1>8. Waits(st, at) /\ st.ip \in DOMAIN at
  BY <1>6, <1>7 DEF Kept
<1>9. CASE Handlers(us, returned) = <<>>
  <2>1. completion' # Running /\ completion' # Suspended
    BY <1>5, <1>9, EndsUncaughtEnds
  <2> QED
    BY <1>1, <1>5, <1>9, <2>1, EndsEmpty
<1>10. CASE Handlers(us, returned) # <<>>
  <2>1. bp \in Nat \ {0} /\ bp \in Nat
    BY DEF Bases
  <2>2. /\ us \in Seq(HandlerType(chunk, at)) /\ Ordered(us) /\ Depths(us)
        /\ Len(us) \in Nat /\ DOMAIN us = 1 .. Len(us)
        /\ \A i \in DOMAIN us : us[i].frameDepth = 1 /\ Depth(us[i]) <= bp + Len(st.locals)
        /\ Holds(at[st.ip], bp, us, 0, Len(us), bp + Values(st))
    BY <1>4, <1>6, <1>8, <2>1, RebasedFacts DEF TryInv
  <2>3. PICK fs : fs = GeneratorFrame(bp)
    OBVIOUS
  <2>4. /\ fs \in Seq(FrameType(at)) /\ Len(fs) = 1 /\ Len(fs) \in Nat /\ Len(fs) > 0
        /\ fs[Len(fs)].bp = bp /\ fs[Len(fs)].back = 0
    BY <2>1, <2>3, GeneratorFrameFacts
  <2>5. /\ Framed(at, program.kind, fs) /\ Outermost(program.kind, fs) = Len(fs)
        /\ Base(fs, Len(fs)) = bp
    BY <1>6, <2>4, OwnFrame
  <2>6. PICK n : n = bp + Values(st)
    OBVIOUS
  <2>7. PICK r : r = Restored(st, bp)
    OBVIOUS
  <2>8. IsSeq(r) /\ Len(r) = bp + Len(st.locals) /\ Len(st.locals) \in Nat
    BY <1>8, <2>1, <2>7, RestoredFacts DEF Waits
  <2>9. n \in Nat
    <3>1. Values(st) = Len(st.locals) \/ Values(st) = Len(st.locals) + 1
      <4>1. CASE st.sent = <<>>
        BY <2>8, <4>1 DEF Values
      <4>2. CASE st.sent # <<>>
        BY <2>8, <4>2 DEF Values
      <4> QED
        BY <4>1, <4>2
    <3> QED
      BY <2>1, <2>6, <2>8, <3>1
  <2>10. PICK p : p = st.ip
    OBVIOUS
  <2>11. \E start : Segments(at, program.kind, p, n, fs, us, start)
    <3>1. /\ Holds(at[p], Base(fs, Len(fs)), us, 0, Len(us), n) /\ p \in DOMAIN at
          /\ \A i \in DOMAIN us : us[i].frameDepth = Len(fs)
      BY <1>8, <2>2, <2>4, <2>5, <2>6, <2>10
    <3> QED
      BY <2>2, <2>4, <2>5, <2>9, <3>1, OneSegment
  <2>12. PICK start : Segments(at, program.kind, p, n, fs, us, start)
    BY <2>11
  <2>13. Levelled(at) /\ Catching(at)
    BY Constants DEF TryInv
  <2>14. Unwind(command, r, fs, Handlers(us, returned)) /\ completion' = Running
    BY <1>5, <1>10, <2>3, <2>7
  <2>15. /\ tries' \in Seq(HandlerType(chunk, at)) /\ Ordered(tries')
         /\ IsSeq(stack') /\ ip' \in DOMAIN at
         /\ frames' \in Seq(FrameType(at)) /\ Framed(at, program.kind, frames')
         /\ \E first : Segments(at, program.kind, ip', Len(stack'), frames', tries', first)
    <3>1. p \in DOMAIN at /\ \A i \in DOMAIN us : Depth(us[i]) <= Len(r)
      BY <1>8, <2>2, <2>8, <2>10
    <3> QED
      BY <1>10, <2>2, <2>4, <2>5, <2>8, <2>9, <2>12, <2>13, <2>14, <3>1, UnwindFacts
  <2>16. PICK first : Segments(at, program.kind, ip', Len(stack'), frames', tries', first)
    BY <2>15
  <2> QED
    BY <1>5, <2>14, <2>15, <2>16, ResumesOn
<1> QED
  BY <1>9, <1>10

----------------------------------------------------------------------------
(* The invariant.                                                           *)

\* No handlers at all.
LEMMA EmptyTries ==
    ASSUME NEW code, NEW at, NEW ts, ts = <<>>
    PROVE  /\ ts \in Seq(HandlerType(code, at)) /\ Ordered(ts) /\ Depths(ts)
           /\ Len(ts) = 0 /\ DOMAIN ts = {} /\ IsSeq(ts)
BY DEF Ordered, Depths, IsSeq

\* A program that runs from its beginning, in a frame of its own if it is a
\* function.
LEMMA Begins ==
    ASSUME NEW at, Fixed(at), NEW fs \in Seq(FrameType(at)), Len(fs) \in Nat,
           Outermost(program.kind, fs) = Len(fs),
           NEW n \in Nat, Base(fs, Len(fs)) \in Nat,
           n = Base(fs, Len(fs)) + IF program.kind = "script" THEN 0 ELSE 1
    PROVE  \E start : Segments(at, program.kind, 1, n, fs, <<>>, start)
<1>1. /\ 1 \in DOMAIN at /\ Leasts(at[1]) /\ Len(at[1]) = 1 /\ at[1][1].least \in Nat
      /\ at[1][1].least <= IF program.kind = "script" THEN 0 ELSE 1
  BY EntryFacts
<1>2. PICK base : base = Base(fs, Len(fs))
  OBVIOUS
<1>3. PICK ts : ts = <<>>
  OBVIOUS
<1>4. Depths(ts) /\ Len(ts) = 0 /\ DOMAIN ts = {}
  BY <1>3, EmptyTries
<1>5. PICK a : a = 0
  OBVIOUS
<1>6. PICK p : p = 1
  OBVIOUS
<1>7. Holds(at[p], base, ts, a, a, n)
  <2>1. /\ Leasts(at[p]) /\ Len(at[p]) = 1 /\ a \in Nat /\ base \in Nat
        /\ base + at[p][1].least <= n
    BY <1>1, <1>2, <1>5, <1>6
  <2> QED
    BY <2>1, HoldsEntry
<1>8. \E start : Segments(at, program.kind, p, n, fs, ts, start)
  <2>1. Holds(at[p], Base(fs, Len(fs)), ts, 0, Len(ts), n) /\ p \in DOMAIN at
    BY <1>1, <1>2, <1>4, <1>5, <1>6, <1>7
  <2>2. \A i \in DOMAIN ts : ts[i].frameDepth = Len(fs)
    BY <1>4
  <2> QED
    BY <1>4, <2>1, <2>2, OneSegment
<1> QED
  BY <1>3, <1>6, <1>8

\* A generator or async function that was not called yet.
LEMMA NotCalled ==
    ASSUME NEW at, Fixed(at), program.kind \in {"generator", "async"},
           NEW st, st.ip = 1, st.bp = 1, st.tries = <<>>, st.sent = <<>>,
           IsSeq(st.locals), Len(st.locals) = 1
    PROVE  Kept(st, at) /\ Waits(st, at)
<1>1. /\ 1 \in DOMAIN at /\ Leasts(at[1]) /\ Len(at[1]) = 1 /\ at[1][1].least \in Nat
      /\ at[1][1].least <= 1
  BY EntryFacts
<1>2. /\ st.tries \in Seq(HandlerType(chunk, at)) /\ Ordered(st.tries)
      /\ Len(st.tries) = 0 /\ DOMAIN st.tries = {} /\ IsSeq(st.sent)
  BY EmptyTries DEF IsSeq
<1>3. PICK base : base = BaseOf(st)
  OBVIOUS
<1>4. base \in Nat /\ Values(st) = 1
  <2>1. base \in {0, 1}
    BY <1>3 DEF BaseOf
  <2>2. Values(st) = 1
    BY DEF Values
  <2> QED
    BY <2>1, <2>2
<1>5. PICK p : p = st.ip
  OBVIOUS
<1>6. PICK ts : ts = st.tries
  OBVIOUS
<1>7. PICK a : a = 0
  OBVIOUS
<1>8. PICK top : top = base + 1
  OBVIOUS
<1>9. Holds(at[p], base, ts, a, a, top)
  <2>1. /\ Leasts(at[p]) /\ Len(at[p]) = 1 /\ a \in Nat /\ base + at[p][1].least <= top
        /\ top \in Nat
    BY <1>1, <1>4, <1>5, <1>7, <1>8
  <2> QED
    BY <1>4, <2>1, HoldsEntry
<1>10. Holds(at[st.ip], BaseOf(st), st.tries, 0, Len(st.tries), BaseOf(st) + Values(st))
  BY <1>2, <1>3, <1>4, <1>5, <1>6, <1>7, <1>8, <1>9
<1>11. Waits(st, at)
  BY <1>2, <1>10 DEF Waits
<1> QED
  BY <1>1, <1>2, <1>11 DEF Kept

\* A program begins with the levels of its entry.
LEMMA Starts ==
    ASSUME NEW at, NestsAt(program, at), Init
    PROVE  TryInv(at)
<1>1. /\ program \in Programs /\ chunk = Code(program) /\ ip = 1
      /\ stack = IF program.kind # "script" THEN <<Function, Number(1)>> ELSE <<>>
      /\ frames = IF program.kind # "script" THEN <<[bp |-> 1, back |-> 0]>> ELSE <<>>
      /\ tries = <<>> /\ sent = <<>>
      /\ completion = IF program.instances > 0 THEN Suspended ELSE Running
      /\ others = [i \in 1 .. program.instances - 1 |-> Created]
  BY DEF Init
<1>2. Fixed(at)
  BY <1>1 DEF Fixed
<1>3. /\ program.kind \in {"script", "function", "generator", "async"}
      /\ program.instances \in Nat
      /\ program.instances > 0 <=> program.kind \in {"generator", "async"}
  BY <1>2, Constants
<1>4. ip \in DOMAIN at
  BY <1>1, <1>2, EntryFacts
<1>5. frames \in Seq(FrameType(at)) /\ Len(frames) \in Nat
  <2>1. CASE program.kind = "script"
    BY <1>1, <2>1
  <2>2. CASE program.kind # "script"
    <3>1. frames = GeneratorFrame(1)
      BY <1>1, <2>2 DEF GeneratorFrame
    <3> QED
      BY <3>1, GeneratorFrameFacts
  <2> QED
    BY <2>1, <2>2
<1>6. /\ tries \in Seq(HandlerType(chunk, at)) /\ Ordered(tries) /\ IsSeq(sent)
  BY <1>1, EmptyTries DEF IsSeq
<1>7. IsSeq(stack) /\ Len(stack) = IF program.kind = "script" THEN 0 ELSE 2
  <2>1. CASE program.kind = "script"
    BY <1>1, <2>1 DEF IsSeq
  <2>2. CASE program.kind # "script"
    <3>1. stack \in Seq({Function, Number(1)}) /\ Len(stack) = 2
      BY <1>1, <2>2
    <3> QED
      BY <2>2, <3>1 DEF IsSeq
  <2> QED
    BY <2>1, <2>2
<1>8. Typed(at)
  BY <1>4, <1>5, <1>6, <1>7 DEF Typed
<1>9. ASSUME program.instances > 0
      PROVE  IsSeq(Created.locals) /\ Kept(Created, at) /\ Waits(Current, at)
  <2>1. program.kind \in {"generator", "async"} /\ program.kind # "script"
    BY <1>3, <1>9
  <2>2. /\ Created.ip = 1 /\ Created.bp = 1 /\ Created.tries = <<>> /\ Created.sent = <<>>
        /\ Created.locals = <<Number(1)>>
    BY DEF Created
  <2>3. <<Number(1)>> \in Seq({Number(1)}) /\ Len(<<Number(1)>>) = 1
    OBVIOUS
  <2>4. IsSeq(Created.locals) /\ Len(Created.locals) = 1
    BY <2>2, <2>3 DEF IsSeq
  <2>5. Kept(Created, at)
    BY <1>2, <2>1, <2>2, <2>4, NotCalled
  <2>6. Bp = 1
    <3>1. frames = GeneratorFrame(1)
      BY <1>1, <2>1 DEF GeneratorFrame
    <3>2. frames \in Seq(FrameType(at)) /\ Len(frames) = 1 /\ frames[1].bp = 1
      BY <3>1, GeneratorFrameFacts
    <3>3. frames # <<>>
      BY <3>2
    <3>4. Last(frames) = frames[1]
      BY <3>2, <3>3, SeqFront
    <3> QED
      BY <3>2, <3>3, <3>4 DEF Bp
  <2>7. /\ Current.ip = 1 /\ Current.bp = 1 /\ Current.tries = <<>> /\ Current.sent = <<>>
        /\ Current.locals = SubSeq(stack, Bp + 1, Len(stack))
    BY <1>1, <2>6 DEF Current
  <2>8. IsSeq(Current.locals) /\ Len(Current.locals) = 1
    <3>1. PICK m : m = 1
      OBVIOUS
    <3>2. m \in 0 .. Len(stack) /\ Len(stack) - m = 1
      BY <1>7, <2>1, <3>1
    <3>3. /\ IsSeq(SubSeq(stack, m + 1, Len(stack)))
          /\ Len(SubSeq(stack, m + 1, Len(stack))) = Len(stack) - m
      BY <1>7, <3>2, SeqFrom
    <3> QED
      BY <2>6, <2>7, <3>1, <3>2, <3>3
  <2>9. Waits(Current, at)
    BY <1>2, <2>1, <2>7, <2>8, NotCalled
  <2> QED
    BY <2>4, <2>5, <2>9
<1>10. OthersKept(at)
  <2>1. CASE program.instances > 0
    <3>1. PICK m : m = program.instances - 1
      OBVIOUS
    <3>2. m \in Nat /\ others \in [1 .. m -> {Created}]
      BY <1>1, <1>3, <2>1, <3>1
    <3>3. others \in Seq({Created}) /\ DOMAIN others = 1 .. m
      BY <3>2, SeqMade
    <3>4. IsSeq(others) /\ \A g \in DOMAIN others : others[g] = Created
      BY <3>2, <3>3 DEF IsSeq
    <3> QED
      BY <1>9, <2>1, <3>4 DEF OthersKept
  <2>2. CASE ~(program.instances > 0)
    <3>1. others = <<>>
      BY <1>1, <1>3, <2>2
    <3> QED
      BY <3>1 DEF OthersKept, IsSeq
  <2> QED
    BY <2>1, <2>2
<1>11. ASSUME completion = Running
       PROVE  Stands(at)
  <2>1. ~(program.instances > 0) /\ program.kind \in {"script", "function"}
    BY <1>1, <1>3, <1>11, Completions
  <2>2. Framed(at, program.kind, frames) /\ Outermost(program.kind, frames) = Len(frames)
    <3>1. CASE program.kind = "script"
      BY <1>1, <3>1 DEF Framed, Outermost
    <3>2. CASE program.kind = "function"
      <4>1. frames = GeneratorFrame(1)
        BY <1>1, <3>2 DEF GeneratorFrame
      <4>2. Len(frames) = 1 /\ frames[1].back = 0 /\ frames # <<>>
        BY <4>1, GeneratorFrameFacts
      <4> QED
        BY <3>2, <4>2 DEF Framed, Outermost
    <3> QED
      BY <2>1, <3>1, <3>2
  <2>3. Base(frames, Len(frames)) = IF program.kind = "script" THEN 0 ELSE 1
    <3>1. CASE program.kind = "script"
      BY <1>1, <3>1 DEF Base
    <3>2. CASE program.kind = "function"
      <4>1. frames = GeneratorFrame(1)
        BY <1>1, <3>2 DEF GeneratorFrame
      <4>2. Len(frames) = 1 /\ frames[1].bp = 1
        BY <4>1, GeneratorFrameFacts
      <4> QED
        BY <3>2, <4>2 DEF Base
    <3> QED
      BY <2>1, <3>1, <3>2
  <2>4. PICK n : n = Len(stack)
    OBVIOUS
  <2>5. /\ n \in Nat /\ Base(frames, Len(frames)) \in Nat
        /\ n = Base(frames, Len(frames)) + IF program.kind = "script" THEN 0 ELSE 1
    BY <1>7, <2>3, <2>4
  <2>6. \E start : Segments(at, program.kind, 1, n, frames, <<>>, start)
    BY <1>2, <1>5, <2>2, <2>5, Begins
  <2> QED
    BY <1>1, <2>1, <2>2, <2>4, <2>6 DEF Stands
<1>12. completion = Suspended => Waits(Current, at)
  BY <1>1, <1>9, Completions
<1> QED
  BY <1>2, <1>8, <1>10, <1>11, <1>12 DEF TryInv

\* Every instruction.
LEMMA StepKeeps ==
    ASSUME NEW at, TryInv(at), Step
    PROVE  TryInv(at)'
<1>1. CASE PushOp \/ PushSlot \/ AcquireOp
  BY <1>1, PushKeeps
<1>2. CASE Pop \/ LogTop
  BY <1>2, PopKeeps
<1>3. CASE Bind
  BY <1>3, BindKeeps
<1>4. CASE Define \/ AssignOp \/ RemoveKey \/ DeleteOp \/ Increment
  BY <1>4, AssignKeeps
<1>5. CASE LogOp \/ Close \/ DisposeOp
  BY <1>5, EffectKeeps
<1>6. CASE JumpOp \/ JumpUnlessOp \/ JumpUnlessReturn \/ JumpUnlessIn \/ Test \/ IterateDone
  BY <1>6, JumpKeeps
<1>7. CASE Iterate
  BY <1>7, IterateKeeps
<1>8. CASE Call
  BY <1>8, CallKeeps
<1>9. CASE Return
  BY <1>9, ReturnKeeps
<1>10. CASE ScriptEnds
  BY <1>10, ScriptEndsKeeps
<1>11. CASE SetupTryOp
  BY <1>11, SetupKeeps
<1>12. CASE TeardownTryOp
  BY <1>12, TeardownKeeps
<1>13. CASE Throw
  BY <1>13, ThrowKeeps
<1>14. CASE Uncaught
  BY <1>14, UncaughtKeeps
<1>15. CASE Yield
  BY <1>15, YieldKeeps
<1>16. CASE Await
  BY <1>16, AwaitKeeps
<1> QED
  BY <1>1, <1>2, <1>3, <1>4, <1>5, <1>6, <1>7, <1>8, <1>9, <1>10, <1>11, <1>12, <1>13,
     <1>14, <1>15, <1>16 DEF Step

\* Every resumption.
LEMMA HostKeeps ==
    ASSUME NEW at, TryInv(at), Host
    PROVE  TryInv(at)'
<1>1. PICK g \in 0 .. Len(others) :
          \/ \E mode \in program.sends : SendAnswered(g, mode)
          \/ \E bp \in Bases : SendNext(g, bp)
          \/ \E bp \in Bases, mode \in program.sends \ {"next"} : SendAbrupt(g, mode, bp)
  BY DEF Host
<1>2. CASE \E mode \in program.sends : SendAnswered(g, mode)
  BY <1>2, SendAnsweredKeeps
<1>3. CASE \E bp \in Bases : SendNext(g, bp)
  BY <1>3, SendNextKeeps
<1>4. CASE \E bp \in Bases, mode \in program.sends \ {"next"} : SendAbrupt(g, mode, bp)
  BY <1>4, SendAbruptKeeps
<1> QED
  BY <1>1, <1>2, <1>3, <1>4

\* And nothing else changes the state.
LEMMA StutterKeeps ==
    ASSUME NEW at, TryInv(at), UNCHANGED vars
    PROVE  TryInv(at)'
<1>1. UNCHANGED <<program, chunk, ip, stack, frames, tries, log, completion, sent, others>>
  BY DEF vars, memory, generators
<1>2. Fixed(at)' /\ \A st : Waits(st, at) <=> Waits(st, at)'
  BY <1>1, Unchanged DEF TryInv
<1>3. Typed(at)' /\ OthersKept(at)'
  BY <1>1, OthersStay DEF TryInv, Typed
<1>4. completion' = Running => Stands(at)'
  BY <1>1 DEF TryInv, Stands
<1>5. completion' = Suspended => Waits(Current, at)'
  <2>1. PICK st : st = Current
    OBVIOUS
  <2>2. st = Current'
    BY <1>1, <2>1 DEF Current, Bp
  <2> QED
    BY <1>1, <1>2, <2>1, <2>2 DEF TryInv
<1> QED
  BY <1>2, <1>3, <1>4, <1>5 DEF TryInv

\* Some levels of the program's instructions, its handlers and its frames agree.
Inv == \E at : TryInv(at)

\* The invariant implies the types,
LEMMA InvTypeOK ==
    ASSUME Inv
    PROVE  TypeOK
<1>1. PICK at : TryInv(at)
  BY DEF Inv
<1>2. ip \in DOMAIN at /\ DOMAIN at \subseteq DOMAIN chunk
  BY <1>1, Constants DEF TryInv, Typed
<1>3. tries \in Seq(HandlerType(chunk, at)) /\ Ordered(tries)
  BY <1>1 DEF TryInv, Typed
<1>4. /\ Len(tries) \in Nat /\ DOMAIN tries = 1 .. Len(tries)
      /\ \A n \in DOMAIN tries : tries[n].catch \in DOMAIN at
  BY <1>3, HandlersType
<1>5. ASSUME NEW n \in DOMAIN tries, completion = Running
      PROVE  Depth(tries[n]) <= Len(stack) /\ tries[n].frameDepth <= Len(frames)
  <2>1. /\ Depth(tries[n]) <= Len(stack) /\ Len(frames) \in Nat
        /\ tries[n].frameDepth \in Outermost(program.kind, frames) .. Len(frames)
    BY <1>1, <1>5, InFrame
  <2> QED
    BY <2>1
<1>6. ASSUME NEW n \in DOMAIN tries, n > 1
      PROVE  Depth(tries[n - 1]) <= Depth(tries[n])
  <2>1. n - 1 \in DOMAIN tries /\ n - 1 <= n
    BY <1>4, <1>6
  <2> QED
    BY <1>3, <2>1 DEF Ordered
<1> QED
  BY <1>2, <1>4, <1>5, <1>6 DEF TypeOK

\* and that the handlers nest.
LEMMA InvHandlersNest ==
    ASSUME Inv
    PROVE  HandlersNest
<1> SUFFICES ASSUME completion = Running
             PROVE  Cardinality({n \in DOMAIN tries : tries[n].frameDepth = Len(frames)})
                        = Instruction.handlers
  BY DEF HandlersNest
<1>1. PICK at : TryInv(at)
  BY DEF Inv
<1>2. PICK start :
          /\ start[Len(frames)] \in 0 .. Len(tries)
          /\ Len(tries) = start[Len(frames)] + Len(at[ip]) - 1
          /\ \A i \in DOMAIN tries : tries[i].frameDepth = Len(frames) <=> i > start[Len(frames)]
  BY <1>1, InFrame
<1>3. Len(tries) \in Nat /\ DOMAIN tries = 1 .. Len(tries)
  BY <1>1, InFrame
<1>4. Instruction.handlers = Len(at[ip]) - 1 /\ Len(at[ip]) \in Nat /\ Len(at[ip]) > 0
  BY <1>1, Here, LeastsType
<1>5. PICK a : a = start[Len(frames)] + 1
  OBVIOUS
<1>6. {n \in DOMAIN tries : tries[n].frameDepth = Len(frames)} = a .. Len(tries)
  BY <1>2, <1>3, <1>5
<1>7. a \in Int /\ Len(tries) \in Int
  BY <1>2, <1>3, <1>5
<1>8. Cardinality(a .. Len(tries)) = IF a > Len(tries) THEN 0 ELSE Len(tries) - a + 1
  BY <1>7, FS_Interval
<1>9. Cardinality(a .. Len(tries)) = Len(at[ip]) - 1
  BY <1>2, <1>3, <1>4, <1>5, <1>8, SMTT(60)
<1> QED
  BY <1>4, <1>6, <1>9

\* So it holds of every run.
LEMMA Invariant ==
    ASSUME \A p \in Programs : Nests(p)
    PROVE  Spec => []Inv
<1>1. Init => Inv
  <2> SUFFICES ASSUME Init
               PROVE  Inv
    OBVIOUS
  <2>1. program \in Programs
    BY DEF Init
  <2>2. PICK at : NestsAt(program, at)
    BY <2>1 DEF Nests
  <2> QED
    BY <2>2, Starts DEF Inv
<1>2. Inv /\ [Next]_vars => Inv'
  <2> SUFFICES ASSUME Inv, [Next]_vars
               PROVE  Inv'
    OBVIOUS
  <2>1. PICK at : TryInv(at)
    BY DEF Inv
  <2>2. TryInv(at)'
    BY <2>1, StepKeeps, HostKeeps, StutterKeeps DEF Next
  <2> QED
    BY <2>2 DEF Inv
<1> QED
  BY <1>1, <1>2, PTL DEF Spec

\* The VM of a program whose handlers nest is always somewhere in its code, with
\* its handlers one inside the other at the depths they remember (run_inner,
\* handle_throw, Return, and the resumption of generators and async functions).
THEOREM TypeCorrect ==
    ASSUME \A p \in Programs : Nests(p)
    PROVE  Spec => []TypeOK
BY Invariant, InvTypeOK, PTL

\* ... and has at every instruction exactly the handlers that the code is
\* compiled for: SetupTry and TeardownTry are paired, and handle_throw, a return
\* and a resumption take off, leave and restore just the right ones.
THEOREM HandlersMatch ==
    ASSUME \A p \in Programs : Nests(p)
    PROVE  Spec => []HandlersNest
BY Invariant, InvHandlersNest, PTL

=============================================================================
