----------------------------- MODULE SharedCell -----------------------------
(***************************************************************************)
(* Atomics operations on an element of a shared typed array.  Only         *)
(* js_agent's calls on the buffer's bytes are under its mutex: a           *)
(* read-modify-write reads the bytes in one of them and writes in another, *)
(* which it makes conditional on the bytes it has read.                    *)
(***************************************************************************)
EXTENDS AtomicCell

CONSTANT MaxCalls   \* bound: operations a thread begins

ASSUME CallsAssumption == MaxCalls \in Nat

VARIABLES
    phase, \* [Threads -> "idle", "direct", "read" or "swap"]
    old,   \* [Threads -> old_raw of the loop, Idle if it was not read]
    calls  \* [Threads -> operations begun]

sharedVars == <<cellVars, phase, old, calls>>

SharedInit ==
    /\ CellInit
    /\ phase = [t \in Threads |-> "idle"]
    /\ old = [t \in Threads |-> Idle]
    /\ calls = [t \in Threads |-> 0]

\* shared_atomic_rmw loops; load, store and compareExchange are one call.
Loops(j) == j.op \in {"add", "sub", "exchange"}

Begin(t, j) ==
    /\ phase[t] = "idle" /\ calls[t] < MaxCalls
    /\ Call(t, j)
    /\ phase' = [phase EXCEPT ![t] = IF Loops(j) THEN "read" ELSE "direct"]
    /\ calls' = [calls EXCEPT ![t] = @ + 1]
    /\ UNCHANGED old

\* shared_buffer_read, shared_buffer_write or shared_buffer_compare_exchange.
Direct(t) ==
    /\ phase[t] = "direct"
    /\ TakeEffect(t)
    /\ phase' = [phase EXCEPT ![t] = "idle"]
    /\ UNCHANGED <<old, calls>>

\* shared_buffer_read.
Read(t) ==
    /\ phase[t] = "read"
    /\ old' = [old EXCEPT ![t] = cell]
    /\ phase' = [phase EXCEPT ![t] = "swap"]
    /\ UNCHANGED <<cellVars, calls>>

MatchesAlways(t) == TRUE

\* current == expected, under the mutex of the bytes.
Matches(t) == cell = old[t]

ReadHoisted == "swap"

\* Where the loop goes when another thread was in between.
Retry == "read"

\* shared_buffer_compare_exchange, with the new value made of the old bytes.
Swap(t) ==
    /\ phase[t] = "swap"
    /\ \/ /\ Matches(t)
          /\ cell' = Updated(job[t], old[t])
          /\ answer' = [answer EXCEPT ![t] = Result(job[t], old[t])]
          /\ job' = [job EXCEPT ![t] = Idle]
          /\ phase' = [phase EXCEPT ![t] = "idle"]
          /\ old' = [old EXCEPT ![t] = Idle]
       \/ /\ ~Matches(t)
          /\ phase' = [phase EXCEPT ![t] = Retry]
          /\ UNCHANGED <<cellVars, old>>
    /\ UNCHANGED calls

Proceed(t) == Direct(t) \/ Read(t) \/ Swap(t)

SharedNext ==
    \E t \in Threads :
        \/ \E j \in Job : Begin(t, j)
        \/ Proceed(t)

SharedSpec == SharedInit /\ [][SharedNext]_sharedVars

\* A thread inside an operation is scheduled.
SharedFairSpec == SharedSpec /\ \A t \in Threads : WF_sharedVars(Proceed(t))

----------------------------------------------------------------------------
(* Properties                                                               *)

CellTypeOK ==
    /\ cell \in Raw
    /\ job \in [Threads -> Job \cup {Idle}]
    /\ answer \in [Threads -> Int \cup {Idle}]
    /\ phase \in [Threads -> {"idle", "direct", "read", "swap"}]
    /\ old \in [Threads -> Raw \cup {Idle}]
    /\ calls \in [Threads -> 0 .. MaxCalls]
    /\ \A t \in Threads : phase[t] = "swap" => old[t] # Idle
    /\ \A t \in Threads : job[t] = Idle <=> phase[t] = "idle"

\* No update is lost and no operation sees a value that was never there: the
\* operations of all threads behave as if each were one step
\* (typedarray.rs:410-432).
OneStepEach == CellSpec

\* Every operation returns once the others, which are bounded, leave it alone.
EveryCallReturns == \A t \in Threads : phase[t] # "idle" ~> phase[t] = "idle"
=============================================================================
