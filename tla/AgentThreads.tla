---------------------------- MODULE AgentThreads ----------------------------
(***************************************************************************)
(* The agents of js_agent.rs: threads that the host's script starts, the   *)
(* broadcast of a shared buffer to them, their reports, and the reset that *)
(* begins the host's next evaluation.  One action is one critical section: *)
(* a broadcast stores BROADCAST_DATA under one mutex and bumps the         *)
(* generation under another, so that other threads run in between.         *)
(***************************************************************************)
EXTENDS Naturals, Sequences

CONSTANTS
    Agents,          \* the threads that can be started in an evaluation
    Host,            \* the thread that is no agent
    MaxBroadcasts,   \* bound: broadcasts of an evaluation
    MaxReports,      \* bound: reports that wait
    MaxEvaluations   \* bound: evaluations of the host

ASSUME HostAssumption == Host \notin Agents
ASSUME BoundsAssumption ==
    MaxBroadcasts \in Nat /\ MaxReports \in Nat /\ MaxEvaluations \in Nat \ {0}

Threads == Agents \cup {Host}

VARIABLES
    evaluation,  \* which evaluation the host is in
    host,        \* "script", or "join" in reset_agent_state
    handles,     \* AGENT_HANDLES
    joining,     \* the handles that the reset took and has not joined
    pc,          \* [Agents -> where the thread is]
    born,        \* history: [Agents -> the evaluation that started it]
    storing,     \* the threads between the two halves of a broadcast
    writes,      \* history: how often BROADCAST_DATA was stored
    data,        \* BROADCAST_DATA: the number of its store, 0 for None
    generation,  \* the count under BROADCAST_CV's mutex
    seen,        \* [Agents -> LAST_BROADCAST_SEEN]
    got,         \* [Agents -> what the last wait_for_broadcast returned]
    reports      \* AGENT_REPORTS: the evaluation of each reporting agent

threadVars == <<handles, joining, pc, born>>
castVars == <<storing, writes, data, generation>>
vars == <<evaluation, host, threadVars, castVars, seen, got, reports>>

Init ==
    /\ evaluation = 1 /\ host = "script"
    /\ handles = {} /\ joining = {}
    /\ pc = [a \in Agents |-> "none"] /\ born = [a \in Agents |-> 0]
    /\ storing = {} /\ writes = 0 /\ data = 0 /\ generation = 0
    /\ seen = [a \in Agents |-> 0] /\ got = [a \in Agents |-> 0]
    /\ reports = <<>>

RunsJs(t) == t \notin storing /\ (IF t = Host THEN host = "script" ELSE pc[t] = "runs")

----------------------------------------------------------------------------
(* What scripts call.                                                       *)

\* The host alone: agents have no $262.agent.start (ci/compose_test.js:79-89).
StartAgent(a) ==
    /\ RunsJs(Host) /\ pc[a] = "none"
    /\ pc' = [pc EXCEPT ![a] = "runs"]
    /\ born' = [born EXCEPT ![a] = evaluation]
    /\ seen' = [seen EXCEPT ![a] = 0] /\ got' = [got EXCEPT ![a] = 0]
    /\ handles' = handles \cup {a}
    /\ UNCHANGED <<evaluation, host, joining, castVars, reports>>

\* broadcast_shared_buffer: the data ...
Store(t) ==
    /\ RunsJs(t) /\ writes < MaxBroadcasts
    /\ writes' = writes + 1
    /\ data' = writes + 1
    /\ storing' = storing \cup {t}
    /\ UNCHANGED <<evaluation, host, threadVars, generation, seen, got, reports>>

Asleep == {a \in Agents : pc[a] = "asleep"}

WakeOne ==
    \/ Asleep = {} /\ pc' = pc
    \/ \E a \in Asleep : pc' = [pc EXCEPT ![a] = "waits"]

\* cv.notify_all
WakeAll == pc' = [a \in Agents |-> IF a \in Asleep THEN "waits" ELSE pc[a]]

\* ... and then the generation.
Bump(t) ==
    /\ t \in storing
    /\ generation' = generation + 1
    /\ WakeAll
    /\ storing' = storing \ {t}
    /\ UNCHANGED <<evaluation, host, handles, joining, born, writes, data, seen,
                   got, reports>>

\* wait_for_broadcast asks for the generation's mutex ...
Wait(a) ==
    /\ RunsJs(a)
    /\ pc' = [pc EXCEPT ![a] = "waits"]
    /\ UNCHANGED <<evaluation, host, handles, joining, born, castVars, seen, got,
                   reports>>

SleepUntested(a) ==
    /\ pc[a] = "waits"
    /\ pc' = [pc EXCEPT ![a] = "asleep"]
    /\ UNCHANGED <<evaluation, host, handles, joining, born, castVars, seen, got,
                   reports>>

\* ... and sleeps until it is past the one the thread has seen ...
Sleep(a) ==
    /\ pc[a] = "waits" /\ generation <= seen[a]
    /\ pc' = [pc EXCEPT ![a] = "asleep"]
    /\ UNCHANGED <<evaluation, host, handles, joining, born, castVars, seen, got,
                   reports>>

Spurious(a) ==
    /\ pc[a] = "asleep"
    /\ pc' = [pc EXCEPT ![a] = "waits"]
    /\ UNCHANGED <<evaluation, host, handles, joining, born, castVars, seen, got,
                   reports>>

ReceiveCached(a) ==
    /\ pc[a] = "waits" /\ generation > seen[a]
    /\ seen' = [seen EXCEPT ![a] = generation]
    /\ got' = [got EXCEPT ![a] = IF @ = 0 THEN data ELSE @]
    /\ pc' = [pc EXCEPT ![a] = "runs"]
    /\ UNCHANGED <<evaluation, host, handles, joining, born, castVars, reports>>

\* ... and reads the data with the generation's mutex still held: nothing
\* bumps it meanwhile, and a store meanwhile is as good as one before.
Receive(a) ==
    /\ pc[a] = "waits" /\ generation > seen[a]
    /\ seen' = [seen EXCEPT ![a] = generation]
    /\ got' = [got EXCEPT ![a] = data]
    /\ pc' = [pc EXCEPT ![a] = "runs"]
    /\ UNCHANGED <<evaluation, host, handles, joining, born, castVars, reports>>

Report(a) ==
    /\ RunsJs(a) /\ Len(reports) < MaxReports
    /\ reports' = Append(reports, born[a])
    /\ UNCHANGED <<evaluation, host, threadVars, castVars, seen, got>>

GetReport ==
    /\ RunsJs(Host) /\ reports # <<>>
    /\ reports' = Tail(reports)
    /\ UNCHANGED <<evaluation, host, threadVars, castVars, seen, got>>

\* Atomics.wait: the thread blocks on the condition variable of its waiter ...
Block(a) ==
    /\ RunsJs(a)
    /\ pc' = [pc EXCEPT ![a] = "blocked"]
    /\ UNCHANGED <<evaluation, host, handles, joining, born, castVars, seen, got,
                   reports>>

\* ... until another thread notifies it, or its time is over, if ever.
Unblock(a) ==
    /\ pc[a] = "blocked"
    /\ pc' = [pc EXCEPT ![a] = "runs"]
    /\ UNCHANGED <<evaluation, host, handles, joining, born, castVars, seen, got,
                   reports>>

\* The agent's script ends; if it threw, with a report.
End(a) ==
    /\ RunsJs(a)
    /\ pc' = [pc EXCEPT ![a] = "ended"]
    /\ \/ reports' = reports
       \/ Len(reports) < MaxReports /\ reports' = Append(reports, born[a])
    /\ UNCHANGED <<evaluation, host, handles, joining, born, castVars, seen, got>>

----------------------------------------------------------------------------
(* reset_agent_state, at the beginning of the host's next evaluation.       *)

Reset ==
    /\ RunsJs(Host) /\ evaluation < MaxEvaluations
    /\ evaluation' = evaluation + 1
    /\ host' = "join"
    /\ joining' = handles /\ handles' = {}
    /\ UNCHANGED <<pc, born, castVars, seen, got, reports>>

JoinNoWait(a) ==
    /\ host = "join" /\ a \in joining
    /\ joining' = joining \ {a}
    /\ UNCHANGED <<evaluation, host, handles, pc, born, castVars, seen, got, reports>>

Join(a) ==
    /\ host = "join" /\ a \in joining
    /\ pc[a] = "ended"
    /\ joining' = joining \ {a}
    /\ pc' = [pc EXCEPT ![a] = "none"]
    /\ UNCHANGED <<evaluation, host, handles, born, castVars, seen, got, reports>>

ClearButGeneration ==
    /\ host = "join" /\ joining = {}
    /\ host' = "script"
    /\ reports' = <<>>
    /\ data' = 0 /\ writes' = 0
    /\ UNCHANGED <<evaluation, threadVars, storing, generation, seen, got>>

\* Every thread was joined, so the mutexes taken one by one make one step.
Clear ==
    /\ host = "join" /\ joining = {}
    /\ host' = "script"
    /\ reports' = <<>>
    /\ data' = 0 /\ generation' = 0 /\ writes' = 0
    /\ UNCHANGED <<evaluation, threadVars, storing, seen, got>>

----------------------------------------------------------------------------

\* What a thread does by itself once it is inside a call.
Progress(t) ==
    \/ Bump(t)
    \/ t \in Agents /\ (Sleep(t) \/ Receive(t))

Next ==
    \/ \E t \in Threads : Store(t) \/ Progress(t)
    \/ \E a \in Agents :
          \/ StartAgent(a) \/ Wait(a) \/ Spurious(a) \/ Block(a) \/ Unblock(a)
          \/ Report(a) \/ End(a) \/ Join(a)
    \/ GetReport \/ Reset \/ Clear

Spec == Init /\ [][Next]_vars

\* Threads inside a call are scheduled, and the script of an agent ends, even
\* one that calls Atomics.wait time and again; nothing makes such a call return.
FairSpec ==
    /\ Spec
    /\ \A t \in Threads : WF_vars(Progress(t))
    /\ \A a \in Agents : SF_vars(End(a)) /\ WF_vars(Join(a))
    /\ WF_vars(Clear)

----------------------------------------------------------------------------
(* Properties                                                               *)

TypeOK ==
    /\ evaluation \in 1 .. MaxEvaluations
    /\ host \in {"script", "join"}
    /\ handles \subseteq Agents /\ joining \subseteq Agents
    /\ pc \in [Agents -> {"none", "runs", "waits", "asleep", "blocked", "ended"}]
    /\ born \in [Agents -> 0 .. MaxEvaluations]
    /\ storing \subseteq Threads
    /\ writes \in 0 .. MaxBroadcasts /\ data \in 0 .. MaxBroadcasts
    /\ generation \in 0 .. MaxBroadcasts
    /\ seen \in [Agents -> 0 .. MaxBroadcasts]
    /\ got \in [Agents -> 0 .. MaxBroadcasts]
    /\ reports \in Seq(1 .. MaxEvaluations)

\* A thread that has seen the n-th generation was given the n-th broadcast or
\* a later one, whichever thread broadcasts at the same time
\* (js_agent.rs:204-210, 224).
NotStale ==
    \A a \in Agents : pc[a] # "none" => got[a] >= seen[a]

\* An evaluation meets nothing of an earlier one: no agent that lives on, no
\* report, and no generation that its own broadcasts did not make
\* (js_agent.rs:241-254).
Isolated ==
    host = "script" =>
        /\ \A a \in Agents : pc[a] # "none" => born[a] = evaluation
        /\ \A i \in DOMAIN reports : reports[i] = evaluation
        /\ generation <= writes

\* A thread that waits while there is a broadcast it has not seen returns
\* (js_agent.rs:211, 218-220).
Delivered ==
    \A a \in Agents :
        pc[a] \in {"waits", "asleep"} /\ generation > seen[a] ~> pc[a] = "runs"

\* An agent that the reset waits for, and that waits itself: in Atomics.wait, or
\* for a broadcast after the last it has seen.
HoldsUp(a) ==
    /\ a \in joining
    /\ \/ pc[a] = "blocked"
       \/ pc[a] \in {"waits", "asleep"} /\ generation <= seen[a]

\* The reset returns, unless one of the agents it joins never comes out of
\* wait_for_broadcast, as no other thread broadcasts again, or of Atomics.wait,
\* as none notifies it; an agent that waits for a time does not keep it
\* (js_agent.rs:151-153, 218-220, 244-246).
ResetReturns ==
    host = "join" ~> (host = "script" \/ \E a \in Agents : []HoldsUp(a))
=============================================================================
