------------------------- MODULE AgentThreadsProofs -------------------------
(***************************************************************************)
(* The safety of AgentThreads for any number of agents, broadcasts and     *)
(* evaluations.  The generation lags behind the stores of BROADCAST_DATA   *)
(* by the threads between the two halves of a broadcast, and the reset     *)
(* waits for whoever could be one of them.                                 *)
(***************************************************************************)
EXTENDS AgentThreads, FiniteSetTheorems, TLAPS

\* A handle is kept for each thread until it is joined.
HandlesInv ==
    /\ host = "script" => joining = {} /\ handles = {a \in Agents : pc[a] # "none"}
    /\ host = "join" => handles = {} /\ joining = {a \in Agents : pc[a] # "none"}

\* Who is in the middle of a broadcast runs a script.
StoringInv ==
    /\ IsFiniteSet(storing)
    /\ Host \in storing => host = "script"
    /\ \A a \in Agents : a \in storing => pc[a] = "runs"

CountInv ==
    /\ data = writes
    /\ generation + Cardinality(storing) = writes

BornInv ==
    /\ \A a \in Agents : pc[a] # "none" => born[a] \in 1 .. MaxEvaluations
    /\ host = "script" =>
          /\ \A a \in Agents : pc[a] # "none" => born[a] = evaluation
          /\ \A i \in DOMAIN reports : reports[i] = evaluation

IInv ==
    /\ TypeOK
    /\ HandlesInv
    /\ StoringInv
    /\ CountInv
    /\ BornInv
    /\ NotStale

----------------------------------------------------------------------------

LEMMA InitIInv == Init => IInv
<1> SUFFICES ASSUME Init PROVE IInv
  OBVIOUS
<1> USE BoundsAssumption DEF Init
<1>1. TypeOK
  BY DEF TypeOK, Threads
<1>2. HandlesInv /\ BornInv /\ NotStale
  BY DEF HandlesInv, BornInv, NotStale
<1>3. StoringInv /\ CountInv
  BY FS_EmptySet DEF StoringInv, CountInv
<1> QED
  BY <1>1, <1>2, <1>3 DEF IInv

\* The generation never passes the stores.
LEMMA GenerationBounded ==
    ASSUME TypeOK, StoringInv, CountInv
    PROVE  generation <= writes /\ Cardinality(storing) \in Nat
<1>1. Cardinality(storing) \in Nat
  BY FS_CardinalityType DEF StoringInv
<1> QED
  BY <1>1 DEF CountInv, TypeOK

LEMMA StartAgentStep ==
    ASSUME IInv, NEW a \in Agents, StartAgent(a)
    PROVE  IInv'
<1> USE DEF IInv, StartAgent, castVars
<1>1. TypeOK'
  BY BoundsAssumption DEF TypeOK
<1>2. HandlesInv'
  BY DEF HandlesInv, TypeOK, RunsJs
<1>3. StoringInv' /\ CountInv'
  BY DEF StoringInv, CountInv, TypeOK
<1>4. BornInv'
  BY DEF BornInv, TypeOK, RunsJs
<1>5. NotStale'
  BY DEF NotStale, TypeOK
<1> QED
  BY <1>1, <1>2, <1>3, <1>4, <1>5

LEMMA StoreStep ==
    ASSUME IInv, NEW t \in Threads, Store(t)
    PROVE  IInv'
<1> USE DEF IInv, Store, threadVars
<1>1. Cardinality(storing') = Cardinality(storing) + 1 /\ IsFiniteSet(storing')
  BY FS_AddElement DEF StoringInv, RunsJs
<1>2. TypeOK'
  BY BoundsAssumption DEF TypeOK
<1>3. HandlesInv' /\ BornInv' /\ NotStale'
  BY DEF HandlesInv, BornInv, NotStale
<1>4. StoringInv'
  BY <1>1, HostAssumption DEF StoringInv, RunsJs, Threads
<1>5. CountInv'
  BY <1>1, GenerationBounded DEF CountInv, TypeOK
<1> QED
  BY <1>2, <1>3, <1>4, <1>5

LEMMA BumpStep ==
    ASSUME IInv, NEW t \in Threads, Bump(t)
    PROVE  IInv'
<1> USE DEF IInv, Bump, WakeAll, Asleep
<1>1. /\ Cardinality(storing') = Cardinality(storing) - 1 /\ IsFiniteSet(storing')
      /\ Cardinality(storing) \in Nat /\ Cardinality(storing') \in Nat
  BY FS_RemoveElement, FS_CardinalityType DEF StoringInv
<1>2. CountInv'
  BY <1>1 DEF CountInv, TypeOK
<1>3. generation' <= writes
  BY <1>1, <1>2 DEF CountInv, TypeOK
<1>4. TypeOK'
  BY <1>3, BoundsAssumption DEF TypeOK
<1>5. \A a \in Agents : /\ pc'[a] = "none" <=> pc[a] = "none"
                        /\ pc[a] = "runs" => pc'[a] = "runs"
  BY DEF TypeOK
<1>6. HandlesInv' /\ BornInv' /\ NotStale'
  BY <1>5 DEF HandlesInv, BornInv, NotStale
<1>7. StoringInv'
  BY <1>1, <1>5 DEF StoringInv
<1> QED
  BY <1>2, <1>4, <1>6, <1>7

\* Waiting, sleeping and waking change nothing but where the thread is.
LEMMA WaitingStep ==
    ASSUME IInv, NEW a \in Agents,
           Wait(a) \/ Sleep(a) \/ Spurious(a) \/ Block(a) \/ Unblock(a)
    PROVE  IInv'
<1>1. /\ UNCHANGED <<evaluation, host, handles, joining, born, castVars, seen, got, reports>>
      /\ pc[a] # "none" /\ a \notin storing
      /\ \E p \in {"waits", "asleep", "blocked", "runs"} : pc' = [pc EXCEPT ![a] = p]
  BY HostAssumption DEF Wait, Sleep, Spurious, Block, Unblock, RunsJs, IInv, StoringInv
<1> USE <1>1 DEF IInv, castVars
<1>2. TypeOK'
  BY DEF TypeOK
<1>3. \A b \in Agents : /\ pc'[b] = "none" <=> pc[b] = "none"
                        /\ b \in storing => pc'[b] = pc[b]
  BY DEF TypeOK
<1>4. HandlesInv' /\ BornInv' /\ NotStale'
  BY <1>3 DEF HandlesInv, BornInv, NotStale
<1>5. StoringInv' /\ CountInv'
  BY <1>3 DEF StoringInv, CountInv
<1> QED
  BY <1>2, <1>4, <1>5

\* What is received is at least as new as the generation.
LEMMA ReceiveStep ==
    ASSUME IInv, NEW a \in Agents, Receive(a)
    PROVE  IInv'
<1> USE DEF IInv, Receive, castVars
<1>1. TypeOK'
  BY DEF TypeOK
<1>2. \A b \in Agents : /\ pc'[b] = "none" <=> pc[b] = "none"
                        /\ pc[b] = "runs" => pc'[b] = "runs"
  BY DEF TypeOK
<1>3. HandlesInv' /\ BornInv' /\ StoringInv' /\ CountInv'
  BY <1>2 DEF HandlesInv, BornInv, StoringInv, CountInv
<1>4. data >= generation
  BY GenerationBounded DEF CountInv
<1>5. NotStale'
  BY <1>2, <1>4 DEF NotStale, TypeOK
<1> QED
  BY <1>1, <1>3, <1>5

\* A report is one of the evaluation, while the host runs its script.
LEMMA Reported ==
    ASSUME IInv, NEW a \in Agents, pc[a] # "none", reports' = Append(reports, born[a]),
           UNCHANGED <<evaluation, host>>
    PROVE  /\ reports' \in Seq(1 .. MaxEvaluations)
           /\ host' = "script" => \A i \in DOMAIN reports' : reports'[i] = evaluation'
  BY DEF IInv, TypeOK, BornInv

LEMMA ReportStep ==
    ASSUME IInv, NEW a \in Agents, Report(a)
    PROVE  IInv'
<1> USE DEF IInv, Report, threadVars, castVars
<1>1. /\ reports' \in Seq(1 .. MaxEvaluations)
      /\ host' = "script" => \A i \in DOMAIN reports' : reports'[i] = evaluation'
  BY HostAssumption, Reported DEF RunsJs
<1>2. TypeOK' /\ BornInv'
  BY <1>1 DEF TypeOK, BornInv
<1>3. HandlesInv' /\ StoringInv' /\ CountInv' /\ NotStale'
  BY DEF HandlesInv, StoringInv, CountInv, NotStale
<1> QED
  BY <1>2, <1>3

LEMMA GetReportStep ==
    ASSUME IInv, GetReport
    PROVE  IInv'
<1> USE DEF IInv, GetReport, threadVars, castVars
<1>1. TypeOK' /\ BornInv'
  BY DEF TypeOK, BornInv
<1>2. HandlesInv' /\ StoringInv' /\ CountInv' /\ NotStale'
  BY DEF HandlesInv, StoringInv, CountInv, NotStale
<1> QED
  BY <1>1, <1>2

LEMMA EndStep ==
    ASSUME IInv, NEW a \in Agents, End(a)
    PROVE  IInv'
<1> USE DEF IInv, End, castVars
<1>1. a \notin storing /\ pc[a] = "runs"
  BY HostAssumption DEF RunsJs
<1>2. /\ reports' \in Seq(1 .. MaxEvaluations)
      /\ host' = "script" => \A i \in DOMAIN reports' : reports'[i] = evaluation'
  <2>1. CASE reports' = reports
    BY <2>1 DEF TypeOK, BornInv
  <2>2. CASE reports' = Append(reports, born[a])
    BY <2>2, <1>1, Reported
  <2> QED
    BY <2>1, <2>2
<1>3. TypeOK'
  BY <1>2 DEF TypeOK
<1>4. \A b \in Agents : /\ pc'[b] = "none" <=> pc[b] = "none"
                        /\ b \in storing => pc'[b] = pc[b]
  BY <1>1 DEF TypeOK
<1>5. BornInv'
  BY <1>2, <1>4 DEF BornInv
<1>6. HandlesInv' /\ StoringInv' /\ CountInv' /\ NotStale'
  BY <1>4 DEF HandlesInv, StoringInv, CountInv, NotStale
<1> QED
  BY <1>3, <1>5, <1>6

LEMMA ResetStep ==
    ASSUME IInv, Reset
    PROVE  IInv'
<1> USE DEF IInv, Reset, castVars
<1>1. TypeOK'
  BY BoundsAssumption DEF TypeOK
<1>2. HandlesInv' /\ BornInv' /\ NotStale'
  BY DEF HandlesInv, BornInv, NotStale, RunsJs
<1>3. StoringInv' /\ CountInv'
  BY DEF StoringInv, CountInv, RunsJs
<1> QED
  BY <1>1, <1>2, <1>3

LEMMA JoinStep ==
    ASSUME IInv, NEW a \in Agents, Join(a)
    PROVE  IInv'
<1> USE DEF IInv, Join, castVars
<1>1. TypeOK'
  BY DEF TypeOK
<1>2. HandlesInv'
  BY DEF HandlesInv, TypeOK
<1>3. BornInv' /\ NotStale'
  BY DEF BornInv, NotStale, TypeOK
<1>4. StoringInv' /\ CountInv'
  BY DEF StoringInv, CountInv, TypeOK
<1> QED
  BY <1>1, <1>2, <1>3, <1>4

\* When all are joined nobody is in the middle of a broadcast.
LEMMA ClearStep ==
    ASSUME IInv, Clear
    PROVE  IInv'
<1> USE DEF IInv, Clear, threadVars
<1>1. \A a \in Agents : pc[a] = "none"
  BY DEF HandlesInv
<1>2. storing = {}
  BY <1>1 DEF StoringInv, TypeOK, Threads
<1>3. TypeOK'
  BY BoundsAssumption DEF TypeOK
<1>4. HandlesInv' /\ BornInv' /\ NotStale'
  BY <1>1 DEF HandlesInv, BornInv, NotStale
<1>5. StoringInv' /\ CountInv'
  BY <1>2, FS_EmptySet DEF StoringInv, CountInv
<1> QED
  BY <1>3, <1>4, <1>5

LEMMA NextIInv == IInv /\ [Next]_vars => IInv'
<1> SUFFICES ASSUME IInv, [Next]_vars PROVE IInv'
  OBVIOUS
<1>1. ASSUME NEW t \in Threads, Store(t) \/ Progress(t)
      PROVE  IInv'
  BY <1>1, StoreStep, BumpStep, WaitingStep, ReceiveStep DEF Progress
<1>2. ASSUME NEW a \in Agents,
             \/ StartAgent(a) \/ Wait(a) \/ Spurious(a) \/ Block(a) \/ Unblock(a)
             \/ Report(a) \/ End(a) \/ Join(a)
      PROVE  IInv'
  BY <1>2, StartAgentStep, WaitingStep, ReportStep, EndStep, JoinStep
<1>3. CASE GetReport \/ Reset \/ Clear
  BY <1>3, GetReportStep, ResetStep, ClearStep
<1>4. CASE UNCHANGED vars
  BY <1>4 DEF vars, threadVars, castVars, IInv, TypeOK, BornInv, HandlesInv,
     StoringInv, CountInv, NotStale
<1> QED
  BY <1>1, <1>2, <1>3, <1>4 DEF Next

LEMMA Invariance == Spec => []IInv
<1> QED
  BY InitIInv, NextIInv, PTL DEF Spec

----------------------------------------------------------------------------

\* Every reachable state of the agents' threads, their handles and the
\* broadcast slot is well typed.
THEOREM TypeCorrect == Spec => []TypeOK
<1>1. IInv => TypeOK
  BY DEF IInv
<1> QED
  BY <1>1, Invariance, PTL

\* No agent returns from wait_for_broadcast with less than the broadcast
\* whose generation it marks as seen.
THEOREM NothingStale == Spec => []NotStale
<1>1. IInv => NotStale
  BY DEF IInv
<1> QED
  BY <1>1, Invariance, PTL

\* Whatever the agents of an evaluation do, the next one meets none of them,
\* none of their reports and no generation of theirs.
THEOREM EvaluationsIsolated == Spec => []Isolated
<1>1. IInv => Isolated
  BY GenerationBounded DEF IInv, Isolated, BornInv
<1> QED
  BY <1>1, Invariance, PTL
=============================================================================
