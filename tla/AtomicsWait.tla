----------------------------- MODULE AtomicsWait ----------------------------
(***************************************************************************)
(* js_agent::atomics_wait and js_agent::atomics_notify on one shared       *)
(* buffer, at the grain of their critical sections.  Every agent is a      *)
(* thread.  A wait makes a SharedWaiter, queues it under the buffer's      *)
(* `waiters` mutex, sleeps on the waiter's own condition variable until it *)
(* is notified or its time is up, and takes itself out of the queue under  *)
(* the mutex again.  A notify holds the mutex throughout and locks one     *)
(* waiter at a time, so timeouts fall between two of its visits.           *)
(*                                                                         *)
(* A waiter's own mutex needs no variable: everything done under it        *)
(* (the test, the visit, one entry of the retain) is one action.           *)
(***************************************************************************)
EXTENDS Naturals, Sequences, FiniteSets

CONSTANTS
    Agents,     \* the threads that share the buffer
    MaxWaits,   \* bound: how many times wait is called
    Cells,      \* the byte indices waited on
    Counts,     \* the counts notify is called with, All for usize::MAX
    All, NoAgent

ASSUME AgentsAssumption == NoAgent \notin Agents
ASSUME CellsAssumption == Cells # {}
ASSUME WaitsAssumption == MaxWaits \in Nat
ASSUME CountsAssumption == Counts \subseteq Nat \cup {All} /\ All \notin Nat

\* SharedWaiter allocations, numbered in the order they are queued.
Waiters == 1 .. MaxWaits
NoWaiter == 0
AnyCell == CHOOSE c \in Cells : TRUE

VARIABLES
    queue,      \* [Cells -> Seq(Waiters)]: `waiters`, <<>> for an absent key
    holder,     \* the thread inside atomics_notify, which holds `waiters`
    target, limit, pos, woken,  \* that call's byte_index, wake_limit, place
                                \* in the queue and `notified` count
    credited,   \* history: the sum of what the finished notifies returned
    pc,         \* [Agents -> where the thread is]
    mine,       \* [Agents -> the waiter of the thread's current wait]
    site, timed, due,      \* a waiter's byte_index, whether it has a finite
                           \* timeout, and whether that has elapsed (both
                           \* locals of the call, reset as it ends)
    notified, complete,    \* WaiterState
    outcome,    \* what the wait returns, "none" before it is decided
    arrived     \* how many waiters have been queued: those up to this one

notifyVars == <<target, limit, pos, woken, credited>>
waiterVars == <<site, timed, due, arrived>>
vars == <<queue, holder, notifyVars, pc, mine, waiterVars, notified, complete,
          outcome>>

Init ==
    /\ queue = [c \in Cells |-> <<>>]
    /\ holder = NoAgent
    /\ target = AnyCell /\ limit = 0 /\ pos = 1 /\ woken = 0 /\ credited = 0
    /\ pc = [a \in Agents |-> "idle"]
    /\ mine = [a \in Agents |-> NoWaiter]
    /\ site = [w \in Waiters |-> AnyCell]
    /\ timed = [w \in Waiters |-> FALSE]
    /\ due = [w \in Waiters |-> FALSE]
    /\ notified = [w \in Waiters |-> FALSE]
    /\ complete = [w \in Waiters |-> FALSE]
    /\ outcome = [w \in Waiters |-> "none"]
    /\ arrived = 0

----------------------------------------------------------------------------
(* The queue of a cell.                                                     *)

DropAt(s, i) == [j \in 1 .. Len(s) - 1 |-> IF j < i THEN s[j] ELSE s[j + 1]]

WithoutFirst(s, w) == IF s = <<>> THEN s ELSE Tail(s)

\* retain(not me): an Arc is pushed once, so at most one entry goes.
Without(s, w) ==
    IF \E i \in DOMAIN s : s[i] = w
    THEN DropAt(s, CHOOSE i \in DOMAIN s : s[i] = w)
    ELSE s

----------------------------------------------------------------------------
(* atomics_wait                                                             *)

\* A fresh waiter is pushed at the back of its cell's queue.
Enter(a, c, t) ==
    LET w == arrived + 1 IN
    /\ pc[a] = "idle" /\ holder = NoAgent
    /\ arrived < MaxWaits
    /\ arrived' = w
    /\ queue' = [queue EXCEPT ![c] = Append(@, w)]
    /\ pc' = [pc EXCEPT ![a] = "test"]
    /\ mine' = [mine EXCEPT ![a] = w]
    /\ site' = [site EXCEPT ![w] = c]
    /\ timed' = [timed EXCEPT ![w] = t]
    /\ UNCHANGED <<holder, notifyVars, due, notified, complete, outcome>>

\* The time of a finite wait runs out: nothing the thread does.
Elapse(w) ==
    /\ w <= arrived /\ timed[w] /\ ~due[w] /\ outcome[w] = "none"
    /\ due' = [due EXCEPT ![w] = TRUE]
    /\ UNCHANGED <<queue, holder, notifyVars, pc, mine, site, timed, arrived,
                   notified, complete, outcome>>

\* The loop's test finds no notification and time left: cv.wait.
Sleep(a) ==
    /\ pc[a] = "test"
    /\ ~notified[mine[a]] /\ ~due[mine[a]]
    /\ pc' = [pc EXCEPT ![a] = "asleep"]
    /\ UNCHANGED <<queue, holder, notifyVars, mine, waiterVars, notified,
                   complete, outcome>>

VerdictByClock(w) == IF due[w] THEN "timed-out" ELSE "ok"

\* The test under the waiter's mutex that decides what the wait returns.
Verdict(w) == IF notified[w] THEN "ok" ELSE "timed-out"

\* The test ends the loop; `notified` is read and `complete` set before the
\* waiter's mutex is let go.
Finish(a) ==
    LET w == mine[a] IN
    /\ pc[a] = "test"
    /\ notified[w] \/ due[w]
    /\ complete' = [complete EXCEPT ![w] = TRUE]
    /\ outcome' = [outcome EXCEPT ![w] = Verdict(w)]
    /\ timed' = [timed EXCEPT ![w] = FALSE] /\ due' = [due EXCEPT ![w] = FALSE]
    /\ pc' = [pc EXCEPT ![a] = "leave"]
    /\ UNCHANGED <<queue, holder, notifyVars, mine, site, arrived, notified>>

TimerOfPlainWait(a) == FALSE

\* The sleep ends at its deadline.
Timer(a) ==
    /\ pc[a] = "asleep" /\ due[mine[a]]
    /\ pc' = [pc EXCEPT ![a] = "test"]
    /\ UNCHANGED <<queue, holder, notifyVars, mine, waiterVars, notified,
                   complete, outcome>>

\* A condition variable may wake a thread for no reason.
Spurious(a) ==
    /\ pc[a] = "asleep"
    /\ pc' = [pc EXCEPT ![a] = "test"]
    /\ UNCHANGED <<queue, holder, notifyVars, mine, waiterVars, notified,
                   complete, outcome>>

\* The waiter leaves the queue, if a notify has not taken it out already.
Leave(a) ==
    LET w == mine[a] IN
    /\ pc[a] = "leave" /\ holder = NoAgent
    /\ queue' = [queue EXCEPT ![site[w]] = Without(@, w)]
    /\ pc' = [pc EXCEPT ![a] = "idle"]
    /\ mine' = [mine EXCEPT ![a] = NoWaiter]
    /\ UNCHANGED <<holder, notifyVars, waiterVars, notified, complete, outcome>>

----------------------------------------------------------------------------
(* atomics_notify                                                           *)

\* With no queue for the cell the call returns at once and changes nothing.
NotifyBegin(a, c, n) ==
    /\ pc[a] = "idle" /\ holder = NoAgent
    /\ queue[c] # <<>>
    /\ holder' = a
    /\ target' = c
    /\ limit' = IF n = All THEN Len(queue[c]) ELSE n
    /\ pos' = 1 /\ woken' = 0
    /\ pc' = [pc EXCEPT ![a] = "visit"]
    /\ UNCHANGED <<queue, credited, mine, waiterVars, notified, complete,
                   outcome>>

VisitingFirst(a) == pc[a] = "visit" /\ pos <= Len(queue[target]) /\ pos <= limit

Visiting(a) == pc[a] = "visit" /\ pos <= Len(queue[target]) /\ woken < limit

WaitsUnnotified(w) == ~notified[w]

StillWaits(w) == ~complete[w] /\ ~notified[w]

SignalsNobody(w) == pc

\* cv.notify_one: a waiter's condition variable has one thread to wake.
Signals(w) ==
    [b \in Agents |-> IF pc[b] = "asleep" /\ mine[b] = w THEN "test" ELSE pc[b]]

\* The waiter at `pos` still waits: mark it and signal its condition variable.
Wake(a) ==
    LET w == queue[target][pos] IN
    /\ Visiting(a)
    /\ StillWaits(w)
    /\ notified' = [notified EXCEPT ![w] = TRUE]
    /\ complete' = [complete EXCEPT ![w] = TRUE]
    /\ woken' = woken + 1
    /\ pos' = pos + 1
    /\ pc' = Signals(w)
    /\ UNCHANGED <<queue, holder, target, limit, credited, mine, waiterVars,
                   outcome>>

SkipCounting(a) ==
    /\ Visiting(a) /\ ~StillWaits(queue[target][pos])
    /\ pos' = pos + 1 /\ woken' = woken + 1
    /\ UNCHANGED <<queue, holder, target, limit, credited, pc, mine,
                   waiterVars, notified, complete, outcome>>

\* It has timed out, or an earlier notify took it: skip it.
Skip(a) ==
    /\ Visiting(a) /\ ~StillWaits(queue[target][pos])
    /\ pos' = pos + 1
    /\ UNCHANGED <<queue, holder, target, limit, woken, credited, pc, mine,
                   waiterVars, notified, complete, outcome>>

VisitsDoneFromZero(a) ==
    /\ pc[a] = "visit" /\ ~Visiting(a)
    /\ pc' = [pc EXCEPT ![a] = "retain"]
    /\ pos' = 0
    /\ UNCHANGED <<queue, holder, target, limit, woken, credited, mine,
                   waiterVars, notified, complete, outcome>>

VisitsDone(a) ==
    /\ pc[a] = "visit" /\ ~Visiting(a)
    /\ pc' = [pc EXCEPT ![a] = "retain"]
    /\ pos' = 1
    /\ UNCHANGED <<queue, holder, target, limit, woken, credited, mine,
                   waiterVars, notified, complete, outcome>>

\* One entry of queue.retain(not complete), each read under its own mutex.
Retain(a) ==
    /\ pc[a] = "retain" /\ pos <= Len(queue[target])
    /\ IF complete[queue[target][pos]]
       THEN queue' = [queue EXCEPT ![target] = DropAt(@, pos)] /\ pos' = pos
       ELSE queue' = queue /\ pos' = pos + 1
    /\ UNCHANGED <<holder, target, limit, woken, credited, pc, mine,
                   waiterVars, notified, complete, outcome>>

NotifyEnd(a) ==
    /\ pc[a] = "retain" /\ pos > Len(queue[target])
    /\ holder' = NoAgent
    /\ credited' = credited + woken
    /\ target' = AnyCell /\ limit' = 0 /\ pos' = 1 /\ woken' = 0
    /\ pc' = [pc EXCEPT ![a] = "idle"]
    /\ UNCHANGED <<queue, mine, waiterVars, notified, complete, outcome>>

----------------------------------------------------------------------------

\* What a thread does once it is inside a call.
Progress(a) ==
    \/ Sleep(a) \/ Finish(a) \/ Timer(a) \/ Leave(a)
    \/ Wake(a) \/ Skip(a) \/ VisitsDone(a) \/ Retain(a) \/ NotifyEnd(a)

Next ==
    \/ \E a \in Agents :
          \/ \E c \in Cells, t \in BOOLEAN : Enter(a, c, t)
          \/ \E c \in Cells, n \in Counts : NotifyBegin(a, c, n)
          \/ Progress(a)
          \/ Spurious(a)
    \/ \E w \in Waiters : Elapse(w)

Spec == Init /\ [][Next]_vars

\* A thread inside a call is scheduled, and time passes.  No thread has to
\* call wait or notify.
Fairness ==
    /\ \A a \in Agents : WF_vars(Progress(a))
    /\ \A w \in Waiters : WF_vars(Elapse(w))

FairSpec == Spec /\ Fairness

----------------------------------------------------------------------------
(* Properties                                                               *)

Entered == 1 .. arrived
Woken == {w \in Waiters : notified[w]}

TypeOK ==
    /\ queue \in [Cells -> Seq(Waiters)]
    /\ holder \in Agents \cup {NoAgent}
    /\ target \in Cells
    /\ limit \in Nat /\ pos \in Nat \ {0} /\ woken \in Nat /\ credited \in Nat
    /\ pc \in [Agents -> {"idle", "test", "asleep", "leave", "visit", "retain"}]
    /\ mine \in [Agents -> Waiters \cup {NoWaiter}]
    /\ site \in [Waiters -> Cells]
    /\ timed \in [Waiters -> BOOLEAN] /\ due \in [Waiters -> BOOLEAN]
    /\ notified \in [Waiters -> BOOLEAN] /\ complete \in [Waiters -> BOOLEAN]
    /\ outcome \in [Waiters -> {"none", "ok", "timed-out"}]
    /\ arrived \in 0 .. MaxWaits

\* A waiter that has been neither notified nor timed out is in the queue of
\* its cell, so that a later notify finds it; a retain or a leave of another
\* thread never drops it (js_agent.rs:161 and :190).
StillFindable ==
    \A w \in Entered :
        ~complete[w] => \E i \in 1 .. Len(queue[site[w]]) : queue[site[w]][i] = w

\* A wait that reports "timed-out" was never woken, and one that reports "ok"
\* was: the deadline and a notify that race decide once, under the waiter's
\* mutex (js_agent.rs:155 and :181).
OutcomeAgrees ==
    \A w \in Waiters :
        /\ outcome[w] = "ok" => notified[w]
        /\ outcome[w] = "timed-out" => ~notified[w]

\* Every waiter woken is in the count of exactly one notify: what the finished
\* calls returned and what the running one has counted so far add up to the
\* waiters marked (js_agent.rs:186).
EveryWakeCounted == credited + woken = Cardinality(Woken)

\* A notify returns fewer than it was asked for only when nobody that was in
\* the queue still waits: a waiter that times out under its eyes costs no
\* other waiter its wake-up (js_agent.rs:176-182).
NotifyExhausts ==
    \A a \in Agents : pc[a] = "retain" =>
        \/ woken >= limit
        \/ \A i \in 1 .. Len(queue[target]) : complete[queue[target][i]]

\* The threads are an implementation of the list of waiters: one list order,
\* wake-ups from its front only.
Status(w) ==
    CASE w > arrived -> "fresh"
      [] w <= arrived /\ notified[w] -> "ok"
      [] w <= arrived /\ ~notified[w] /\ complete[w] -> "timed-out"
      [] w <= arrived /\ ~notified[w] /\ ~complete[w] -> "waiting"

List == INSTANCE WaiterList
            WITH status <- [w \in Waiters |-> Status(w)], place <- site

ListSpec == List!Spec

\* A waiter that a notify has marked does return "ok": the signal cannot fall
\* between the waiter's test and its sleep (js_agent.rs:151-153 and :187).  A
\* wait with a finite timeout ends, however often it is woken for nothing
\* (js_agent.rs:144-148).
NotifiedReturns == \A w \in Waiters : notified[w] ~> outcome[w] = "ok"
TimedReturns ==
    \A w \in Waiters : w <= arrived /\ timed[w] ~> outcome[w] # "none"
WaitsReturn == NotifiedReturns /\ TimedReturns
=============================================================================
