---------------------------- MODULE AtomicsProofs --------------------------
(***************************************************************************)
(* The safety of AtomicsWait for any number of threads, cells and waits.   *)
(* The inductive invariant says who holds the mutex, that each queue lists *)
(* waiters of its cell in the order of their arrival, that whoever still   *)
(* waits is in it, and how far a running notify has got.                   *)
(*                                                                         *)
(* And that of SharedCell: its compare-and-swap loop implements the atomic *)
(* operations for any number of threads, calls and element values.         *)
(* CellTypeOK is inductive, and a swap that succeeds finds the bytes it    *)
(* computed from: its update of the old bytes is the update of the element.*)
(***************************************************************************)
EXTENDS AtomicsWait, SharedCell, FiniteSetTheorems, TLAPS

HolderInv == \A a \in Agents : pc[a] \in {"visit", "retain"} <=> holder = a

IdleInv == holder = NoAgent => woken = 0

MineInv ==
    \A a \in Agents :
        /\ pc[a] \in {"test", "asleep", "leave"} => mine[a] \in 1 .. arrived
        /\ pc[a] = "leave" => complete[mine[a]]

QueueInv ==
    \A c \in Cells : \A i \in 1 .. Len(queue[c]) :
        /\ queue[c][i] \in 1 .. arrived
        /\ site[queue[c][i]] = c
        /\ \A j \in 1 .. Len(queue[c]) : i < j => queue[c][i] < queue[c][j]

StateInv ==
    \A w \in Waiters :
        /\ notified[w] => complete[w]
        /\ outcome[w] # "none" => complete[w]
        /\ complete[w] => w <= arrived

VisitInv ==
    \A a \in Agents : pc[a] = "visit" =>
        \A i \in 1 .. Len(queue[target]) :
            i < pos => complete[queue[target][i]]

IInv ==
    /\ TypeOK
    /\ HolderInv /\ IdleInv /\ MineInv
    /\ QueueInv /\ StillFindable
    /\ StateInv /\ OutcomeAgrees
    /\ VisitInv /\ NotifyExhausts

----------------------------------------------------------------------------
(* The queue operators.                                                     *)

\* DropAt takes out the i-th entry and keeps the rest in order.
LEMMA DropAtFacts ==
    ASSUME NEW S, NEW s \in Seq(S), NEW i \in 1 .. Len(s)
    PROVE  /\ DropAt(s, i) \in Seq(S)
           /\ Len(DropAt(s, i)) = Len(s) - 1
           /\ \A j \in 1 .. Len(s) - 1 :
                 DropAt(s, i)[j] = IF j < i THEN s[j] ELSE s[j + 1]
<1>1. Len(s) \in Nat /\ Len(s) - 1 \in Nat
  OBVIOUS
<1>2. \A j \in 1 .. Len(s) - 1 : (IF j < i THEN s[j] ELSE s[j + 1]) \in S
  OBVIOUS
<1>3. DropAt(s, i) \in [1 .. Len(s) - 1 -> S]
  BY <1>2 DEF DropAt
<1>4. DropAt(s, i) \in Seq(S)
  BY <1>1, <1>3
<1>5. Len(DropAt(s, i)) = Len(s) - 1
  BY <1>1, <1>3, <1>4
<1> QED
  BY <1>4, <1>5 DEF DropAt

\* Without takes w out of a queue and nothing else.
LEMMA WithoutFacts ==
    ASSUME NEW S, NEW s \in Seq(S), NEW w
    PROVE  \/ Without(s, w) = s /\ \A i \in 1 .. Len(s) : s[i] # w
           \/ \E i \in 1 .. Len(s) : s[i] = w /\ Without(s, w) = DropAt(s, i)
<1>1. DOMAIN s = 1 .. Len(s)
  OBVIOUS
<1>2. CASE \E i \in DOMAIN s : s[i] = w
  <2> DEFINE k == CHOOSE i \in DOMAIN s : s[i] = w
  <2>1. k \in DOMAIN s /\ s[k] = w
    BY <1>2
  <2>2. Without(s, w) = DropAt(s, k)
    BY <1>2 DEF Without
  <2> QED
    BY <1>1, <2>1, <2>2
<1>3. CASE ~ \E i \in DOMAIN s : s[i] = w
  BY <1>1, <1>3 DEF Without
<1> QED
  BY <1>2, <1>3

\* Taking one entry out of an ordered queue keeps every other entry in it.
LEMMA DropAtKeeps ==
    ASSUME NEW S, NEW s \in Seq(S), NEW i \in 1 .. Len(s),
           NEW j \in 1 .. Len(s), j # i
    PROVE  \E k \in 1 .. Len(DropAt(s, i)) : DropAt(s, i)[k] = s[j]
<1>1. CASE j < i
  <2>1. j \in 1 .. Len(s) - 1
    BY <1>1
  <2> QED
    BY <2>1, <1>1, DropAtFacts
<1>2. CASE j > i
  <2>1. j - 1 \in 1 .. Len(s) - 1 /\ ~(j - 1 < i) /\ (j - 1) + 1 = j
    BY <1>2
  <2>2. DropAt(s, i)[j - 1] = s[j]
    BY <2>1, DropAtFacts
  <2> QED
    BY <2>1, <2>2, DropAtFacts
<1> QED
  BY <1>1, <1>2

----------------------------------------------------------------------------

LEMMA AnyCellIsCell == AnyCell \in Cells
  BY CellsAssumption DEF AnyCell

LEMMA InitIInv == Init => IInv
<1> SUFFICES ASSUME Init PROVE IInv
  OBVIOUS
<1> USE AnyCellIsCell, AgentsAssumption, WaitsAssumption DEF Init
<1>1. TypeOK
  BY DEF TypeOK, Waiters
<1>2. HolderInv /\ IdleInv /\ MineInv
  BY DEF HolderInv, IdleInv, MineInv
<1>3. QueueInv /\ StillFindable
  BY DEF QueueInv, StillFindable, Entered
<1>4. StateInv /\ OutcomeAgrees
  BY DEF StateInv, OutcomeAgrees
<1>5. VisitInv /\ NotifyExhausts
  BY DEF VisitInv, NotifyExhausts
<1> QED
  BY <1>1, <1>2, <1>3, <1>4, <1>5 DEF IInv

QueueTyped(q) == q \in [Cells -> Seq(Waiters)]

\* What the queues hold depends on nothing a thread does elsewhere.
LEMMA Unmoved ==
    ASSUME TypeOK, QueueInv, StillFindable,
           UNCHANGED <<queue, site, complete, arrived>>
    PROVE  QueueTyped(queue') /\ QueueInv' /\ StillFindable'
  BY DEF TypeOK, QueueTyped, QueueInv, StillFindable, Entered

\* A waiter that is complete may go from its queue.
LEMMA DropComplete ==
    ASSUME TypeOK, QueueInv, StillFindable,
           NEW c \in Cells, NEW i \in 1 .. Len(queue[c]), complete[queue[c][i]],
           queue' = [queue EXCEPT ![c] = DropAt(@, i)],
           UNCHANGED <<site, complete, arrived>>
    PROVE  QueueTyped(queue') /\ QueueInv' /\ StillFindable'
<1>1. queue[c] \in Seq(Waiters) /\ queue'[c] = DropAt(queue[c], i)
  BY DEF TypeOK
<1>2. /\ queue'[c] \in Seq(Waiters)
      /\ Len(queue'[c]) = Len(queue[c]) - 1
      /\ \A j \in 1 .. Len(queue'[c]) :
            queue'[c][j] = IF j < i THEN queue[c][j] ELSE queue[c][j + 1]
  <2> DEFINE s == queue[c]
  <2>1. s \in Seq(Waiters) /\ i \in 1 .. Len(s) /\ queue'[c] = DropAt(s, i)
    BY <1>1
  <2> HIDE DEF s
  <2>2. /\ DropAt(s, i) \in Seq(Waiters)
        /\ Len(DropAt(s, i)) = Len(s) - 1
        /\ \A j \in 1 .. Len(s) - 1 :
              DropAt(s, i)[j] = IF j < i THEN s[j] ELSE s[j + 1]
    BY <2>1, DropAtFacts
  <2> QED
    BY <2>1, <2>2 DEF s
<1>3. \A d \in Cells : d # c => queue'[d] = queue[d]
  BY DEF TypeOK
<1>4. QueueTyped(queue')
  BY <1>2, <1>3 DEF TypeOK, QueueTyped
<1>5. QueueInv'
  <2>1. ASSUME NEW j \in 1 .. Len(queue'[c])
        PROVE  /\ queue'[c][j] \in 1 .. arrived
               /\ site[queue'[c][j]] = c
               /\ \A k \in 1 .. Len(queue'[c]) :
                     j < k => queue'[c][j] < queue'[c][k]
    <3>1. Len(queue[c]) \in Nat
      BY <1>1
    <3>2. \A k \in 1 .. Len(queue'[c]) :
             \E m \in {k, k + 1} :
                /\ m \in 1 .. Len(queue[c])
                /\ m = IF k < i THEN k ELSE k + 1
                /\ queue'[c][k] = queue[c][m]
      BY <1>2, <3>1
    <3>3. PICK m \in {j, j + 1} :
             /\ m \in 1 .. Len(queue[c])
             /\ m = IF j < i THEN j ELSE j + 1
             /\ queue'[c][j] = queue[c][m]
      BY <3>2
    <3>4. ASSUME NEW k \in 1 .. Len(queue'[c]), j < k
          PROVE  queue'[c][j] < queue'[c][k]
      <4>1. PICK n \in {k, k + 1} :
               /\ n \in 1 .. Len(queue[c])
               /\ n = IF k < i THEN k ELSE k + 1
               /\ queue'[c][k] = queue[c][n]
        BY <3>2
      <4>2. m < n
        BY <3>1, <3>3, <3>4, <4>1, <1>2
      <4> QED
        BY <3>3, <4>1, <4>2 DEF QueueInv
    <3> QED
      BY <3>3, <3>4 DEF QueueInv
  <2> QED
    BY <1>3, <2>1 DEF QueueInv
<1>6. StillFindable'
  <2>1. ASSUME NEW w \in 1 .. arrived, ~complete[w]
        PROVE  \E k \in 1 .. Len(queue'[site[w]]) : queue'[site[w]][k] = w
    <3>1. PICK j \in 1 .. Len(queue[site[w]]) : queue[site[w]][j] = w
      BY <2>1 DEF StillFindable, Entered
    <3>2. CASE site[w] = c
      <4>1. j # i
        BY <2>1, <3>1, <3>2
      <4> QED
        BY <1>1, <3>1, <3>2, <4>1, DropAtKeeps
    <3>3. CASE site[w] # c
      <4>1. site[w] \in Cells
        BY WaitsAssumption DEF TypeOK, Waiters
      <4> QED
        BY <1>3, <3>1, <3>3, <4>1
    <3> QED
      BY <3>2, <3>3
  <2> QED
    BY <2>1 DEF StillFindable, Entered
<1> QED
  BY <1>4, <1>5, <1>6

\* Every action keeps the invariant.
LEMMA NextIInv == IInv /\ [Next]_vars => IInv'
<1> SUFFICES ASSUME IInv, [Next]_vars PROVE IInv'
  OBVIOUS
<1> USE AnyCellIsCell, AgentsAssumption, WaitsAssumption, CountsAssumption
    DEF IInv
<1>1. ASSUME NEW a \in Agents, NEW c \in Cells, NEW t \in BOOLEAN, Enter(a, c, t)
      PROVE  IInv'
  <2> USE <1>1 DEF Enter, notifyVars
  <2>1. TypeOK'
    BY DEF TypeOK, Waiters
  <2>2. HolderInv' /\ IdleInv' /\ MineInv'
    BY DEF TypeOK, HolderInv, IdleInv, MineInv, Waiters
  <2>3. QueueInv'
    <3>1. arrived + 1 \in Waiters /\ queue[c] \in Seq(Waiters)
      BY DEF TypeOK, Waiters
    <3>2. /\ Len(queue'[c]) = Len(queue[c]) + 1
          /\ queue'[c][Len(queue[c]) + 1] = arrived + 1
          /\ \A i \in 1 .. Len(queue[c]) : queue'[c][i] = queue[c][i]
      BY <3>1 DEF TypeOK
    <3>3. \A i \in 1 .. Len(queue'[c]) :
             i \in 1 .. Len(queue[c]) \/ i = Len(queue[c]) + 1
      BY <3>1, <3>2
    <3>4. \A d \in Cells : d # c => queue'[d] = queue[d]
      BY DEF TypeOK
    <3>5. \A v \in 1 .. arrived : v # arrived + 1 /\ site'[v] = site[v]
      BY <3>1 DEF TypeOK, Waiters
    <3>6. site'[arrived + 1] = c
      BY <3>1 DEF TypeOK
    <3>7. ASSUME NEW i \in 1 .. Len(queue'[c])
          PROVE  /\ queue'[c][i] \in 1 .. arrived'
                 /\ site'[queue'[c][i]] = c
                 /\ \A j \in 1 .. Len(queue'[c]) :
                       i < j => queue'[c][i] < queue'[c][j]
      BY SMTT(30), <3>1, <3>2, <3>3, <3>5, <3>6, <3>7 DEF TypeOK, QueueInv, Waiters
    <3>8. ASSUME NEW d \in Cells, d # c, NEW i \in 1 .. Len(queue'[d])
          PROVE  /\ queue'[d][i] \in 1 .. arrived'
                 /\ site'[queue'[d][i]] = d
                 /\ \A j \in 1 .. Len(queue'[d]) :
                       i < j => queue'[d][i] < queue'[d][j]
      BY <3>4, <3>5, <3>8 DEF TypeOK, QueueInv
    <3> QED
      BY <3>7, <3>8 DEF QueueInv
  <2>4. StillFindable'
    <3>1. arrived + 1 \in Waiters /\ queue[c] \in Seq(Waiters)
      BY DEF TypeOK, Waiters
    <3>2. /\ Len(queue'[c]) = Len(queue[c]) + 1
          /\ queue'[c][Len(queue[c]) + 1] = arrived + 1
          /\ \A i \in 1 .. Len(queue[c]) : queue'[c][i] = queue[c][i]
      BY <3>1 DEF TypeOK
    <3>3. ASSUME NEW v \in 1 .. arrived, ~complete[v]
          PROVE  \E i \in 1 .. Len(queue'[site'[v]]) : queue'[site'[v]][i] = v
      <4>1. v # arrived + 1 /\ v \in Waiters /\ site'[v] = site[v] /\ site[v] \in Cells
        BY <3>1 DEF TypeOK, Waiters
      <4>2. PICK i \in 1 .. Len(queue[site[v]]) : queue[site[v]][i] = v
        BY <3>3 DEF StillFindable, Entered
      <4>3. CASE site[v] = c
        <5>1. i \in 1 .. Len(queue'[c]) /\ queue'[c][i] = v
          BY <3>1, <3>2, <4>2, <4>3
        <5> QED
          BY <4>1, <4>3, <5>1
      <4>4. CASE site[v] # c
        BY <4>1, <4>2, <4>4 DEF TypeOK
      <4> QED
        BY <4>3, <4>4
    <3>4. Len(queue[c]) + 1 \in 1 .. Len(queue'[c]) /\ site'[arrived + 1] = c
      BY <3>1, <3>2 DEF TypeOK
    <3>5. \A v \in 1 .. arrived' : v \in 1 .. arrived \/ v = arrived + 1
      BY DEF TypeOK
    <3> QED
      BY <3>2, <3>3, <3>4, <3>5 DEF StillFindable, Entered
  <2>5. StateInv' /\ OutcomeAgrees'
    BY DEF TypeOK, MineInv, StateInv, OutcomeAgrees, Waiters
  <2>6. VisitInv' /\ NotifyExhausts'
    BY DEF TypeOK, HolderInv, VisitInv, NotifyExhausts
  <2> QED
    BY <2>1, <2>2, <2>3, <2>4, <2>5, <2>6
<1>2. ASSUME NEW w \in Waiters, Elapse(w)
      PROVE  IInv'
  <2> USE <1>2 DEF Elapse, notifyVars
  <2>1. TypeOK'
    BY DEF TypeOK, Waiters
  <2>2. HolderInv' /\ IdleInv' /\ MineInv'
    BY DEF TypeOK, HolderInv, IdleInv, MineInv, Waiters
  <2>3. QueueInv'
    BY DEF TypeOK, QueueInv, Waiters
  <2>4. StillFindable'
    BY DEF TypeOK, QueueInv, StillFindable, Entered, Waiters
  <2>5. StateInv' /\ OutcomeAgrees'
    BY DEF TypeOK, MineInv, StateInv, OutcomeAgrees, Waiters
  <2>6. VisitInv' /\ NotifyExhausts'
    BY DEF TypeOK, HolderInv, VisitInv, NotifyExhausts
  <2> QED
    BY <2>1, <2>2, <2>3, <2>4, <2>5, <2>6
<1>3. ASSUME NEW a \in Agents, Sleep(a)
      PROVE  IInv'
  <2> USE <1>3 DEF Sleep, notifyVars, waiterVars
  <2>1. TypeOK'
    BY DEF TypeOK, Waiters
  <2>2. HolderInv' /\ IdleInv' /\ MineInv'
    BY DEF TypeOK, HolderInv, IdleInv, MineInv, Waiters
  <2>3. QueueInv'
    BY DEF TypeOK, QueueInv, Waiters
  <2>4. StillFindable'
    BY DEF TypeOK, QueueInv, StillFindable, Entered, Waiters
  <2>5. StateInv' /\ OutcomeAgrees'
    BY DEF TypeOK, MineInv, StateInv, OutcomeAgrees, Waiters
  <2>6. VisitInv' /\ NotifyExhausts'
    BY DEF TypeOK, HolderInv, VisitInv, NotifyExhausts
  <2> QED
    BY <2>1, <2>2, <2>3, <2>4, <2>5, <2>6
<1>4. ASSUME NEW a \in Agents, Finish(a)
      PROVE  IInv'
  <2> USE <1>4 DEF Finish, Verdict, notifyVars
  <2>1. TypeOK'
    BY DEF TypeOK, Waiters
  <2>2. HolderInv' /\ IdleInv' /\ MineInv'
    BY DEF TypeOK, HolderInv, IdleInv, MineInv, Waiters
  <2>3. QueueInv'
    BY DEF TypeOK, QueueInv, Waiters
  <2>4. StillFindable'
    BY DEF TypeOK, QueueInv, StillFindable, Entered, Waiters
  <2>5. StateInv' /\ OutcomeAgrees'
    BY DEF TypeOK, MineInv, StateInv, OutcomeAgrees, Waiters
  <2>6. VisitInv' /\ NotifyExhausts'
    BY DEF TypeOK, HolderInv, VisitInv, NotifyExhausts
  <2> QED
    BY <2>1, <2>2, <2>3, <2>4, <2>5, <2>6
<1>5. ASSUME NEW a \in Agents, Timer(a)
      PROVE  IInv'
  <2> USE <1>5 DEF Timer, notifyVars, waiterVars
  <2>1. TypeOK'
    BY DEF TypeOK, Waiters
  <2>2. HolderInv' /\ IdleInv' /\ MineInv'
    BY DEF TypeOK, HolderInv, IdleInv, MineInv, Waiters
  <2>3. QueueInv'
    BY DEF TypeOK, QueueInv, Waiters
  <2>4. StillFindable'
    BY DEF TypeOK, QueueInv, StillFindable, Entered, Waiters
  <2>5. StateInv' /\ OutcomeAgrees'
    BY DEF TypeOK, MineInv, StateInv, OutcomeAgrees, Waiters
  <2>6. VisitInv' /\ NotifyExhausts'
    BY DEF TypeOK, HolderInv, VisitInv, NotifyExhausts
  <2> QED
    BY <2>1, <2>2, <2>3, <2>4, <2>5, <2>6
<1>14. ASSUME NEW a \in Agents, Spurious(a)
      PROVE  IInv'
  <2> USE <1>14 DEF Spurious, notifyVars, waiterVars
  <2>1. TypeOK'
    BY DEF TypeOK, Waiters
  <2>2. HolderInv' /\ IdleInv' /\ MineInv'
    BY DEF TypeOK, HolderInv, IdleInv, MineInv, Waiters
  <2>3. QueueInv'
    BY DEF TypeOK, QueueInv, Waiters
  <2>4. StillFindable'
    BY DEF TypeOK, QueueInv, StillFindable, Entered, Waiters
  <2>5. StateInv' /\ OutcomeAgrees'
    BY DEF TypeOK, MineInv, StateInv, OutcomeAgrees, Waiters
  <2>6. VisitInv' /\ NotifyExhausts'
    BY DEF TypeOK, HolderInv, VisitInv, NotifyExhausts
  <2> QED
    BY <2>1, <2>2, <2>3, <2>4, <2>5, <2>6
<1>6. ASSUME NEW a \in Agents, Leave(a)
      PROVE  IInv'
  <2> USE <1>6 DEF Leave, notifyVars, waiterVars
  <2> DEFINE w == mine[a]
             c == site[w]
  <2>0. w \in Waiters /\ w \in Entered /\ complete[w] /\ c \in Cells
        /\ queue[c] \in Seq(Waiters)
    BY DEF TypeOK, MineInv, Waiters, Entered
  <2>a. QueueTyped(queue') /\ QueueInv' /\ StillFindable'
    <3>1. CASE Without(queue[c], w) = queue[c]
      <4>1. queue' = queue
        BY <2>0, <3>1 DEF TypeOK
      <4>2. UNCHANGED <<site, complete, arrived>>
        OBVIOUS
      <4> QED
        BY <4>1, <4>2, Unmoved
    <3>2. ASSUME NEW i \in 1 .. Len(queue[c]), queue[c][i] = w,
                 Without(queue[c], w) = DropAt(queue[c], i)
          PROVE  QueueTyped(queue') /\ QueueInv' /\ StillFindable'
      <4>1. queue' = [queue EXCEPT ![c] = DropAt(@, i)]
        BY <2>0, <3>2 DEF TypeOK
      <4> QED
        BY <2>0, <3>2, <4>1, DropComplete
    <3>3. \/ Without(queue[c], w) = queue[c]
          \/ \E i \in 1 .. Len(queue[c]) :
                queue[c][i] = w /\ Without(queue[c], w) = DropAt(queue[c], i)
      <4> DEFINE s == queue[c]
      <4>1. s \in Seq(Waiters)
        BY <2>0
      <4> HIDE DEF s
      <4>2. \/ Without(s, w) = s
            \/ \E i \in 1 .. Len(s) : s[i] = w /\ Without(s, w) = DropAt(s, i)
        BY <4>1, WithoutFacts
      <4> QED
        BY <4>2 DEF s
    <3> QED
      BY <3>1, <3>2, <3>3
  <2>1. TypeOK'
    BY <2>a DEF TypeOK, QueueTyped, Waiters
  <2>2. HolderInv' /\ IdleInv' /\ MineInv'
    BY DEF TypeOK, HolderInv, IdleInv, MineInv, Waiters
  <2>3. QueueInv'
    BY <2>a
  <2>4. StillFindable'
    BY <2>a
  <2>5. StateInv' /\ OutcomeAgrees'
    BY DEF TypeOK, MineInv, StateInv, OutcomeAgrees, Waiters
  <2>6. VisitInv' /\ NotifyExhausts'
    BY DEF TypeOK, HolderInv, VisitInv, NotifyExhausts
  <2> QED
    BY <2>1, <2>2, <2>3, <2>4, <2>5, <2>6
<1>7. ASSUME NEW a \in Agents, NEW c \in Cells, NEW n \in Counts, NotifyBegin(a, c, n)
      PROVE  IInv'
  <2> USE <1>7 DEF NotifyBegin, waiterVars
  <2>1. TypeOK'
    BY SMTT(30) DEF TypeOK, Waiters
  <2>2. HolderInv' /\ IdleInv' /\ MineInv'
    BY DEF TypeOK, HolderInv, IdleInv, MineInv, Waiters
  <2>3. QueueInv'
    BY DEF TypeOK, QueueInv, Waiters
  <2>4. StillFindable'
    BY DEF TypeOK, QueueInv, StillFindable, Entered, Waiters
  <2>5. StateInv' /\ OutcomeAgrees'
    BY DEF TypeOK, MineInv, StateInv, OutcomeAgrees, Waiters
  <2>6. VisitInv' /\ NotifyExhausts'
    BY DEF TypeOK, HolderInv, VisitInv, NotifyExhausts
  <2> QED
    BY <2>1, <2>2, <2>3, <2>4, <2>5, <2>6
<1>8. ASSUME NEW a \in Agents, Wake(a)
      PROVE  IInv'
  <2> USE <1>8 DEF Wake, StillWaits, Signals, Visiting, waiterVars
  <2>0. /\ pos \in 1 .. Len(queue[target]) /\ queue[target][pos] \in Waiters
        /\ queue[target][pos] <= arrived
    BY DEF TypeOK, QueueInv, Waiters
  <2>1. TypeOK'
    BY SMTT(30) DEF TypeOK, Waiters
  <2>2. HolderInv' /\ IdleInv' /\ MineInv'
    BY DEF TypeOK, HolderInv, IdleInv, MineInv, Waiters
  <2>3. QueueInv'
    BY DEF TypeOK, QueueInv, Waiters
  <2>4. StillFindable'
    BY DEF TypeOK, QueueInv, StillFindable, Entered, Waiters
  <2>5. StateInv' /\ OutcomeAgrees'
    BY <2>0 DEF TypeOK, StateInv, OutcomeAgrees
  <2>6. VisitInv' /\ NotifyExhausts'
    BY DEF TypeOK, HolderInv, VisitInv, NotifyExhausts
  <2> QED
    BY <2>1, <2>2, <2>3, <2>4, <2>5, <2>6
<1>9. ASSUME NEW a \in Agents, Skip(a)
      PROVE  IInv'
  <2> USE <1>9 DEF Skip, StillWaits, Visiting, waiterVars
  <2>0. /\ pos \in 1 .. Len(queue[target]) /\ queue[target][pos] \in Waiters
        /\ queue[target][pos] <= arrived
    BY DEF TypeOK, QueueInv, Waiters
  <2>1. TypeOK'
    BY SMTT(30) DEF TypeOK, Waiters
  <2>2. HolderInv' /\ IdleInv' /\ MineInv'
    BY DEF TypeOK, HolderInv, IdleInv, MineInv, Waiters
  <2>3. QueueInv'
    BY DEF TypeOK, QueueInv, Waiters
  <2>4. StillFindable'
    BY DEF TypeOK, QueueInv, StillFindable, Entered, Waiters
  <2>5. StateInv' /\ OutcomeAgrees'
    BY DEF TypeOK, MineInv, StateInv, OutcomeAgrees, Waiters
  <2>b. complete[queue[target][pos]]
    BY <2>0 DEF StateInv
  <2>6. VisitInv' /\ NotifyExhausts'
    BY <2>b DEF TypeOK, HolderInv, VisitInv, NotifyExhausts
  <2> QED
    BY <2>1, <2>2, <2>3, <2>4, <2>5, <2>6
<1>10. ASSUME NEW a \in Agents, VisitsDone(a)
      PROVE  IInv'
  <2> USE <1>10 DEF VisitsDone, Visiting, waiterVars
  <2>1. TypeOK'
    BY DEF TypeOK, Waiters
  <2>2. HolderInv' /\ IdleInv' /\ MineInv'
    BY DEF TypeOK, HolderInv, IdleInv, MineInv, Waiters
  <2>3. QueueInv'
    BY DEF TypeOK, QueueInv, Waiters
  <2>4. StillFindable'
    BY DEF TypeOK, QueueInv, StillFindable, Entered, Waiters
  <2>5. StateInv' /\ OutcomeAgrees'
    BY DEF TypeOK, MineInv, StateInv, OutcomeAgrees, Waiters
  <2>6. VisitInv' /\ NotifyExhausts'
    BY DEF TypeOK, HolderInv, VisitInv, NotifyExhausts
  <2> QED
    BY <2>1, <2>2, <2>3, <2>4, <2>5, <2>6
<1>11. ASSUME NEW a \in Agents, Retain(a)
      PROVE  IInv'
  <2> USE <1>11 DEF Retain, waiterVars
  <2>0. pos \in 1 .. Len(queue[target]) /\ target \in Cells
        /\ queue[target] \in Seq(Waiters)
    BY DEF TypeOK
  <2>a. QueueTyped(queue') /\ QueueInv' /\ StillFindable'
    <3>1. CASE complete[queue[target][pos]]
      BY <2>0, <3>1, DropComplete
    <3>2. CASE ~complete[queue[target][pos]]
      BY <3>2, Unmoved
    <3> QED
      BY <3>1, <3>2
  <2>1. TypeOK'
    <3>1. pos' \in Nat \ {0}
      BY DEF TypeOK
    <3> QED
      BY <2>a, <3>1 DEF TypeOK, QueueTyped, Waiters
  <2>2. HolderInv' /\ IdleInv' /\ MineInv'
    BY DEF TypeOK, HolderInv, IdleInv, MineInv, Waiters
  <2>3. QueueInv'
    BY <2>a
  <2>4. StillFindable'
    BY <2>a
  <2>5. StateInv' /\ OutcomeAgrees'
    BY DEF TypeOK, MineInv, StateInv, OutcomeAgrees, Waiters
  <2>6. VisitInv' /\ NotifyExhausts'
    <3>1. VisitInv' /\ holder = a
      BY DEF TypeOK, HolderInv, VisitInv
    <3>2. ASSUME ~ woken >= limit, complete[queue[target][pos]],
                 NEW i \in 1 .. Len(queue'[target])
          PROVE  complete[queue'[target][i]]
      <4>1. queue'[target] = DropAt(queue[target], pos)
        BY <2>0, <3>2 DEF TypeOK
      <4>2. PICK k \in 1 .. Len(queue[target]) :
               queue'[target][i] = queue[target][k]
        <5> DEFINE s == queue[target]
        <5>1. s \in Seq(Waiters) /\ pos \in 1 .. Len(s) /\ Len(s) \in Nat
          BY <2>0
        <5> HIDE DEF s
        <5>2. \A j \in 1 .. Len(DropAt(s, pos)) :
                 \E k \in 1 .. Len(s) : DropAt(s, pos)[j] = s[k]
          <6>1. /\ Len(DropAt(s, pos)) = Len(s) - 1
                /\ \A j \in 1 .. Len(s) - 1 :
                      DropAt(s, pos)[j] = IF j < pos THEN s[j] ELSE s[j + 1]
            BY <5>1, DropAtFacts
          <6> QED
            BY <5>1, <6>1
        <5> QED
          BY <4>1, <5>2 DEF s
      <4> QED
        BY <3>2, <4>2 DEF TypeOK, NotifyExhausts
    <3> QED
      BY <3>1, <3>2 DEF TypeOK, HolderInv, NotifyExhausts
  <2> QED
    BY <2>1, <2>2, <2>3, <2>4, <2>5, <2>6
<1>12. ASSUME NEW a \in Agents, NotifyEnd(a)
      PROVE  IInv'
  <2> USE <1>12 DEF NotifyEnd, waiterVars
  <2>1. TypeOK'
    BY DEF TypeOK, Waiters
  <2>2. HolderInv' /\ IdleInv' /\ MineInv'
    BY DEF TypeOK, HolderInv, IdleInv, MineInv, Waiters
  <2>3. QueueInv'
    BY DEF TypeOK, QueueInv, Waiters
  <2>4. StillFindable'
    BY DEF TypeOK, QueueInv, StillFindable, Entered, Waiters
  <2>5. StateInv' /\ OutcomeAgrees'
    BY DEF TypeOK, MineInv, StateInv, OutcomeAgrees, Waiters
  <2>6. VisitInv' /\ NotifyExhausts'
    BY DEF TypeOK, HolderInv, VisitInv, NotifyExhausts
  <2> QED
    BY <2>1, <2>2, <2>3, <2>4, <2>5, <2>6
<1>13. ASSUME UNCHANGED vars
      PROVE  IInv'
  <2> USE <1>13 DEF vars, notifyVars, waiterVars
  <2>1. TypeOK'
    BY DEF TypeOK, Waiters
  <2>2. HolderInv' /\ IdleInv' /\ MineInv'
    BY DEF TypeOK, HolderInv, IdleInv, MineInv, Waiters
  <2>3. QueueInv'
    BY DEF TypeOK, QueueInv, Waiters
  <2>4. StillFindable'
    BY DEF TypeOK, QueueInv, StillFindable, Entered, Waiters
  <2>5. StateInv' /\ OutcomeAgrees'
    BY DEF TypeOK, MineInv, StateInv, OutcomeAgrees, Waiters
  <2>6. VisitInv' /\ NotifyExhausts'
    BY DEF TypeOK, HolderInv, VisitInv, NotifyExhausts
  <2> QED
    BY <2>1, <2>2, <2>3, <2>4, <2>5, <2>6
<1> QED
  BY <1>1, <1>2, <1>3, <1>4, <1>5, <1>6, <1>7, <1>8, <1>9, <1>10, <1>11,
     <1>12, <1>13, <1>14 DEF Next, Progress

\* The waiter a notify looks at.
LEMMA VisitedWaiter ==
    ASSUME IInv, NEW a \in Agents, Visiting(a)
    PROVE  /\ target \in Cells /\ pos \in 1 .. Len(queue[target])
           /\ queue[target][pos] \in Waiters
           /\ queue[target][pos] <= arrived
           /\ site[queue[target][pos]] = target
<1>1. target \in Cells /\ pos \in 1 .. Len(queue[target])
  BY DEF IInv, TypeOK, Visiting
<1>2. /\ queue[target][pos] \in 1 .. arrived
      /\ site[queue[target][pos]] = target
      /\ arrived \in 0 .. MaxWaits
  BY <1>1 DEF IInv, TypeOK, QueueInv
<1> QED
  BY <1>1, <1>2, WaitsAssumption DEF Waiters

LEMMA Inductive == Spec => []IInv
  BY InitIInv, NextIInv, PTL DEF Spec

\* The variables keep their types in every behaviour of js_agent.rs.
THEOREM TypeCorrect == Spec => []TypeOK
<1>1. IInv => TypeOK
  BY DEF IInv
<1> QED
  BY <1>1, Inductive, PTL

\* For any number of threads, whoever neither timed out nor was notified is
\* still where the next notify looks (js_agent.rs:161 and :190).
THEOREM Findable == Spec => []StillFindable
<1>1. IInv => StillFindable
  BY DEF IInv
<1> QED
  BY <1>1, Inductive, PTL

\* A deadline and a notify that race decide the outcome once
\* (js_agent.rs:155 and :181).
THEOREM OutcomeSound == Spec => []OutcomeAgrees
<1>1. IInv => OutcomeAgrees
  BY DEF IInv
<1> QED
  BY <1>1, Inductive, PTL

\* A notify that wakes fewer than it may leaves nobody waiting in its queue
\* (js_agent.rs:176-182).
THEOREM Exhaustive == Spec => []NotifyExhausts
<1>1. IInv => NotifyExhausts
  BY DEF IInv
<1> QED
  BY <1>1, Inductive, PTL

----------------------------------------------------------------------------
(* The counts.                                                              *)

LEMMA WokenFinite == TypeOK => IsFiniteSet(Woken) /\ Cardinality(Woken) \in Nat
<1>1. IsFiniteSet(Waiters)
  BY WaitsAssumption, FS_Interval DEF Waiters
<1>2. IsFiniteSet(Woken)
  BY <1>1, FS_Subset DEF Woken
<1> QED
  BY <1>2, FS_CardinalityType

LEMMA CountedNext == IInv /\ EveryWakeCounted /\ [Next]_vars => EveryWakeCounted'
<1> SUFFICES ASSUME IInv, EveryWakeCounted, [Next]_vars
             PROVE  EveryWakeCounted'
  OBVIOUS
<1> DEFINE Kept == /\ credited' + woken' = credited + woken
                   /\ notified' = notified
<1>1. Kept => EveryWakeCounted'
  BY DEF EveryWakeCounted, Woken
<1>2. ASSUME NEW a \in Agents, Wake(a)
      PROVE  EveryWakeCounted'
  <2> DEFINE w == queue[target][pos]
  <2>1. w \in Waiters /\ w \notin Woken
    BY <1>2, VisitedWaiter DEF Wake, StillWaits, Signals, Woken
  <2>2. Woken' = Woken \cup {w}
    BY <1>2, <2>1 DEF IInv, TypeOK, Wake, StillWaits, Signals, Woken
  <2>3. Cardinality(Woken') = Cardinality(Woken) + 1
    BY <2>1, <2>2, WokenFinite, FS_AddElement DEF IInv
  <2> QED
    BY <1>2, <2>3, WokenFinite DEF IInv, TypeOK, Wake, StillWaits, Signals, EveryWakeCounted
<1>3. ASSUME NEW a \in Agents, NotifyEnd(a)
      PROVE  Kept
  BY <1>3 DEF IInv, TypeOK, NotifyEnd
<1>4. ASSUME NEW a \in Agents, NEW c \in Cells, NEW n \in Counts,
             NotifyBegin(a, c, n)
      PROVE  Kept
  BY <1>4 DEF IInv, IdleInv, NotifyBegin
<1>5. ASSUME NEW a \in Agents,
             \/ \E c \in Cells, t \in BOOLEAN : Enter(a, c, t)
             \/ Sleep(a) \/ Finish(a) \/ Timer(a) \/ Leave(a) \/ Skip(a)
             \/ VisitsDone(a) \/ Retain(a) \/ Spurious(a)
      PROVE  Kept
  BY <1>5 DEF Enter, Sleep, Finish, Verdict, Timer, Leave, Skip, StillWaits, VisitsDone, Retain,
              Spurious, notifyVars
<1>6. ASSUME NEW w \in Waiters, Elapse(w)
      PROVE  Kept
  BY <1>6 DEF Elapse, notifyVars
<1>7. CASE UNCHANGED vars
  BY <1>1, <1>7 DEF vars, notifyVars
<1> HIDE DEF Kept
<1> QED
  BY <1>1, <1>2, <1>3, <1>4, <1>5, <1>6, <1>7 DEF Next, Progress

\* Each waiter woken is in the count returned by exactly one notify
\* (js_agent.rs:186).
THEOREM Counted == Spec => []EveryWakeCounted
<1>1. Init => EveryWakeCounted
  <2>1. Init => Woken = {}
    BY DEF Init, Woken
  <2> QED
    BY SMTT(30), <2>1, FS_EmptySet DEF Init, EveryWakeCounted
<1> QED
  BY <1>1, CountedNext, Inductive, PTL DEF Spec

----------------------------------------------------------------------------
(* The list of waiters.                                                     *)

LEMMA ListInit == Init => List!Init
<1> SUFFICES ASSUME Init PROVE List!Init
  OBVIOUS
<1>1. \A w \in Waiters : Status(w) = "fresh"
  BY WaitsAssumption DEF Init, Status, Waiters
<1> QED
  BY <1>1, AnyCellIsCell DEF Init, List!Init, List!Waiters, Waiters

\* A step that moves no waiter's status is a stutter of the list.
LEMMA ListStutter ==
    ASSUME UNCHANGED <<site, arrived, notified>>,
           \A w \in Waiters : complete'[w] = complete[w] \/ notified[w]
    PROVE  UNCHANGED List!listVars
<1>1. \A w \in Waiters : Status(w)' = Status(w)
  BY DEF Status
<1> QED
  BY <1>1 DEF List!listVars

LEMMA ListNext == IInv /\ [Next]_vars => [List!Next]_(List!listVars)
<1> SUFFICES ASSUME IInv, [Next]_vars
             PROVE  List!Next \/ UNCHANGED List!listVars
  OBVIOUS
<1> DEFINE st == [v \in Waiters |-> Status(v)]
<1>0. List!Waiters = Waiters
  BY DEF List!Waiters, Waiters
<1>1. ASSUME NEW a \in Agents, NEW c \in Cells, NEW t \in BOOLEAN, Enter(a, c, t)
      PROVE  List!Next
  <2> DEFINE w == arrived + 1
  <2>1. w \in Waiters /\ arrived' = w
    BY <1>1, WaitsAssumption DEF IInv, TypeOK, Waiters, Enter
  <2>2. ~notified[w] /\ ~complete[w]
    BY <2>1 DEF IInv, TypeOK, StateInv
  <2>3. \A v \in Waiters :
           Status(v)' = IF v = w THEN "waiting" ELSE Status(v)
    BY <1>1, <2>1, <2>2 DEF IInv, TypeOK, Waiters, Status, Enter
  <2>4. st' = [st EXCEPT ![w] = "waiting"]
    BY <2>1, <2>3
  <2>5. List!Join(w, c)
    BY <1>1, <2>1, <2>4, <1>0 DEF List!Join, Enter
  <2> QED
    BY <2>1, <2>5, <1>0 DEF List!Next
<1>2. ASSUME NEW a \in Agents, Wake(a)
      PROVE  List!Next
  <2> DEFINE w == queue[target][pos]
  <2>1. /\ w \in Waiters /\ w <= arrived /\ site[w] = target
        /\ target \in Cells
        /\ pos \in 1 .. Len(queue[target])
    BY <1>2, VisitedWaiter DEF Wake, StillWaits, Signals
  <2>2. Status(w) = "waiting"
    BY <1>2, <2>1, <1>2 DEF IInv, TypeOK, Waiters, Wake, StillWaits, Signals, Status
  <2>3. ASSUME NEW v \in Waiters, Status(v) = "waiting", site[v] = target
        PROVE  w <= v
    <3>1. v \in 1 .. arrived /\ ~complete[v]
      BY <2>3 DEF IInv, TypeOK, Waiters, Status
    <3>2. PICK i \in 1 .. Len(queue[target]) : queue[target][i] = v
      BY <2>3, <3>1 DEF IInv, StillFindable, Entered
    <3>3. ~(i < pos)
      BY <1>2, <3>1, <3>2 DEF IInv, VisitInv, Wake, StillWaits, Signals, Visiting
    <3>4. CASE pos < i
      BY <2>1, <3>2, <3>4 DEF IInv, QueueInv, TypeOK, Waiters
    <3>5. CASE i = pos
      BY <2>1, <3>2, <3>5 DEF Waiters
    <3> QED
      BY <2>1, <3>2, <3>3, <3>4, <3>5
  <2>4. \A v \in Waiters : Status(v)' = IF v = w THEN "ok" ELSE Status(v)
    BY <1>2, <2>1 DEF IInv, TypeOK, Waiters, Status, Wake, StillWaits, Signals, waiterVars
  <2>5. st' = [st EXCEPT ![w] = "ok"]
    BY <2>1, <2>4
  <2>6. List!WakeOldest(w, target)
    BY <1>2, <2>1, <2>2, <2>3, <2>5, <1>0
       DEF List!WakeOldest, List!Waiting, Wake, StillWaits, Signals, waiterVars
  <2> QED
    BY <2>1, <2>6, <1>0 DEF List!Next
<1>3. ASSUME NEW a \in Agents, Finish(a)
      PROVE  List!Next \/ UNCHANGED List!listVars
  <2> DEFINE w == mine[a]
  <2>1. w \in Waiters /\ w <= arrived
    <3>1. w \in 1 .. arrived /\ arrived \in 0 .. MaxWaits
      BY <1>3 DEF IInv, TypeOK, MineInv, Finish, Verdict
    <3> QED
      BY <3>1, WaitsAssumption DEF Waiters
  <2>2. CASE notified[w] \/ complete[w]
    <3>1. \A v \in Waiters : complete'[v] = complete[v] \/ notified[v]
      BY <1>3, <2>1, <2>2 DEF IInv, TypeOK, Finish, Verdict
    <3> QED
      BY <1>3, <3>1, ListStutter DEF Finish, Verdict
  <2>3. CASE ~notified[w] /\ ~complete[w]
    <3>1. Status(w) = "waiting"
      BY <2>1, <2>3 DEF IInv, TypeOK, Waiters, Status
    <3>2. \A v \in Waiters :
             Status(v)' = IF v = w THEN "timed-out" ELSE Status(v)
      BY <1>3, <2>1, <2>3 DEF IInv, TypeOK, Waiters, Status, Finish, Verdict
    <3>3. st' = [st EXCEPT ![w] = "timed-out"]
      BY <2>1, <3>2
    <3>4. List!TimeOut(w)
      BY <1>3, <2>1, <3>1, <3>3 DEF List!TimeOut, Finish, Verdict
    <3> QED
      BY <2>1, <3>4, <1>0 DEF List!Next
  <2> QED
    BY <2>2, <2>3
<1>4. ASSUME NEW a \in Agents,
             \/ \E c \in Cells, n \in Counts : NotifyBegin(a, c, n)
             \/ Sleep(a) \/ Timer(a) \/ Leave(a) \/ Skip(a)
             \/ VisitsDone(a) \/ Retain(a) \/ NotifyEnd(a) \/ Spurious(a)
      PROVE  UNCHANGED List!listVars
  <2>1. UNCHANGED <<site, arrived, notified, complete>>
    BY <1>4 DEF NotifyBegin, Sleep, Timer, Leave, Skip, StillWaits, VisitsDone, Retain,
                NotifyEnd, Spurious, waiterVars
  <2> QED
    BY <2>1, ListStutter
<1>5. ASSUME NEW w \in Waiters, Elapse(w)
      PROVE  UNCHANGED List!listVars
  BY <1>5, ListStutter DEF Elapse
<1>6. CASE UNCHANGED vars
  BY <1>6, ListStutter DEF vars, waiterVars
<1> QED
  BY <1>1, <1>2, <1>3, <1>4, <1>5, <1>6 DEF Next, Progress

\* The threads implement the list of waiters: arrivals in one order, wake-ups
\* from the front, a waiter out of the list for good once it timed out
\* (js_agent.rs:129-198).
THEOREM Implements == Spec => ListSpec
  BY ListInit, ListNext, Inductive, PTL DEF Spec, ListSpec, List!Spec

----------------------------------------------------------------------------
(* Operations on an element of a shared typed array                         *)

\* The conversions stay within an element's values (typedarray.rs:3053-3200).
LEMMA Conversions ==
    /\ \A n \in Int : Encode(n) \in Raw
    /\ \A raw \in Raw : Decode(raw) \in Int
<1>1. ASSUME NEW n \in Int
      PROVE  n % Modulus \in 0 .. Modulus - 1
  BY ModulusAssumption
<1>2. \A raw \in Raw : Decode(raw) \in Int
  BY ModulusAssumption DEF Decode, Raw
<1> QED
  BY <1>1, <1>2 DEF Encode, Raw

\* An operation leaves an element an element.
LEMMA UpdatedIsRaw ==
    ASSUME NEW j \in Job, NEW raw \in Raw
    PROVE  Updated(j, raw) \in Raw
<1>1. /\ Decode(raw) \in Int /\ j.by \in Int
      /\ j.op \in {"add", "sub", "exchange", "store", "load", "compareExchange"}
  BY Conversions, OperandsAssumption DEF Job
<1>2. /\ Encode(Decode(raw) + j.by) \in Raw /\ Encode(Decode(raw) - j.by) \in Raw
      /\ Encode(j.by) \in Raw
  BY <1>1, Conversions
<1> QED
  BY <1>1, <1>2 DEF Updated

\* It returns a number.
LEMMA ResultIsInt ==
    ASSUME NEW j \in Job, NEW raw \in Raw
    PROVE  Result(j, raw) \in Int
  BY Conversions, OperandsAssumption DEF Job, Result

\* The types hold throughout, and the old bytes are there when a swap needs
\* them.
THEOREM CellTypeCorrect == SharedSpec => []CellTypeOK
<1>1. SharedInit => CellTypeOK
  BY IdleAssumption, CallsAssumption DEF SharedInit, CellInit, CellTypeOK
<1>2. CellTypeOK /\ [SharedNext]_sharedVars => CellTypeOK'
  <2> SUFFICES ASSUME CellTypeOK, [SharedNext]_sharedVars
               PROVE  CellTypeOK'
    OBVIOUS
  <2> USE IdleAssumption DEF CellTypeOK
  <2>1. ASSUME NEW t \in Threads, NEW j \in Job, Begin(t, j)
        PROVE  CellTypeOK'
    BY <2>1, CallsAssumption DEF Begin, Call
  <2>2. ASSUME NEW t \in Threads, Direct(t)
        PROVE  CellTypeOK'
    <3>1. job[t] \in Job /\ cell \in Raw
      BY <2>2 DEF Direct, TakeEffect
    <3>2. Updated(job[t], cell) \in Raw /\ Result(job[t], cell) \in Int
      BY <3>1, UpdatedIsRaw, ResultIsInt
    <3> QED
      BY <2>2, <3>2 DEF Direct, TakeEffect
  <2>3. ASSUME NEW t \in Threads, Read(t)
        PROVE  CellTypeOK'
    BY <2>3, ModulusAssumption DEF Read, cellVars, Raw
  <2>4. ASSUME NEW t \in Threads, Swap(t)
        PROVE  CellTypeOK'
    <3>1. CASE Matches(t)
      <4>1. job[t] \in Job /\ old[t] \in Raw
        BY <2>4 DEF Swap
      <4>2. Updated(job[t], old[t]) \in Raw /\ Result(job[t], old[t]) \in Int
        BY <4>1, UpdatedIsRaw, ResultIsInt
      <4> QED
        BY <2>4, <3>1, <4>2 DEF Swap
    <3>2. CASE ~Matches(t)
      BY <2>4, <3>2 DEF Swap, cellVars, Retry
    <3> QED
      BY <3>1, <3>2
  <2>5. CASE UNCHANGED sharedVars
    BY <2>5 DEF sharedVars, cellVars
  <2> QED
    BY <2>1, <2>2, <2>3, <2>4, <2>5 DEF SharedNext, Proceed
<1> QED
  BY <1>1, <1>2, PTL DEF SharedSpec

\* No update is lost: every operation is one step of the atomic element.
THEOREM OneStep == SharedSpec => OneStepEach
<1>1. SharedInit => CellInit
  BY DEF SharedInit
<1>2. CellTypeOK /\ [SharedNext]_sharedVars => [CellNext]_cellVars
  <2> SUFFICES ASSUME CellTypeOK, [SharedNext]_sharedVars
               PROVE  [CellNext]_cellVars
    OBVIOUS
  <2>1. ASSUME NEW t \in Threads, NEW j \in Job, Begin(t, j)
        PROVE  CellNext
    BY <2>1 DEF Begin, CellNext
  <2>2. ASSUME NEW t \in Threads, Direct(t)
        PROVE  CellNext
    BY <2>2 DEF Direct, CellNext
  <2>3. ASSUME NEW t \in Threads, Swap(t), Matches(t)
        PROVE  CellNext
    <3>1. old[t] = cell /\ job[t] # Idle
      BY <2>3 DEF Swap, Matches, CellTypeOK
    <3>2. TakeEffect(t)
      BY <2>3, <3>1 DEF Swap, TakeEffect
    <3> QED
      BY <3>2 DEF CellNext
  <2>4. ASSUME NEW t \in Threads, Read(t) \/ (Swap(t) /\ ~Matches(t))
        PROVE  UNCHANGED cellVars
    BY <2>4 DEF Read, Swap
  <2>5. CASE UNCHANGED sharedVars
    BY <2>5 DEF sharedVars
  <2> QED
    BY <2>1, <2>2, <2>3, <2>4, <2>5 DEF SharedNext, Proceed
<1> QED
  BY <1>1, <1>2, CellTypeCorrect, PTL DEF SharedSpec, OneStepEach, CellSpec
=============================================================================
