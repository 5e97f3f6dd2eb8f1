----------------------------- MODULE WaiterList -----------------------------
(***************************************************************************)
(* What Atomics.wait and Atomics.notify promise, with no threads, locks or *)
(* condition variables: waiters join the list of a memory cell, a notify   *)
(* wakes the oldest one that still waits there, and a waiter that timed    *)
(* out is out of the list for good.  AtomicsWait implements it.            *)
(***************************************************************************)
EXTENDS Naturals

CONSTANTS MaxWaits, Cells

Waiters == 1 .. MaxWaits

VARIABLES
    status,   \* [Waiters -> "fresh", "waiting", "ok" or "timed-out"]
    place,    \* [Waiters -> Cells]: where the waiter waits
    arrived   \* how many have joined; waiters are numbered as they join

listVars == <<status, place, arrived>>

Init ==
    /\ status = [w \in Waiters |-> "fresh"]
    /\ place \in [Waiters -> Cells]
    /\ arrived = 0

Waiting(w, c) == status[w] = "waiting" /\ place[w] = c

Join(w, c) ==
    /\ w = arrived + 1
    /\ arrived' = w
    /\ status' = [status EXCEPT ![w] = "waiting"]
    /\ place' = [place EXCEPT ![w] = c]

\* One waiter of a notify: the oldest of those still waiting on c.
WakeOldest(w, c) ==
    /\ Waiting(w, c)
    /\ \A v \in Waiters : Waiting(v, c) => w <= v
    /\ status' = [status EXCEPT ![w] = "ok"]
    /\ UNCHANGED <<place, arrived>>

TimeOut(w) ==
    /\ status[w] = "waiting"
    /\ status' = [status EXCEPT ![w] = "timed-out"]
    /\ UNCHANGED <<place, arrived>>

Next ==
    \E w \in Waiters :
        \/ \E c \in Cells : Join(w, c) \/ WakeOldest(w, c)
        \/ TimeOut(w)

Spec == Init /\ [][Next]_listVars
=============================================================================
