---------------------------- MODULE InsertionOrder ---------------------------
(***************************************************************************)
(* What ECMAScript says of a Map or Set that changes while something goes  *)
(* through it: entries are visited in the order in which they were         *)
(* inserted, each as it is when its turn comes; what was added meanwhile   *)
(* is visited too, what was deleted is not, and a key that was deleted and *)
(* added again is a new entry, at the end.                                 *)
(***************************************************************************)
EXTENDS Naturals

CONSTANTS Keys, Values

VARIABLES
    live,     \* the entries: a key, its value, and when it was inserted
    births,   \* how many there have been
    cursor,   \* when the entry that was visited last was inserted
    visited,  \* what was visited last
    state     \* "going", "exhausted", or "stopped" by who goes through it

vars == <<live, births, cursor, visited, state>>

Of(k) == {e \in live : e.key = k}

Put(k, v) ==
    /\ IF Of(k) = {}
       THEN /\ live' = live \cup {[key |-> k, value |-> v, born |-> births + 1]}
            /\ births' = births + 1
       ELSE /\ live' = (live \ Of(k)) \cup {[e EXCEPT !.value = v] : e \in Of(k)}
            /\ UNCHANGED births
    /\ UNCHANGED <<cursor, visited, state>>

RemoveKeys(S) ==
    /\ live' = {e \in live : e.key \notin S}
    /\ UNCHANGED <<births, cursor, visited, state>>

Ahead == {e \in live : e.born > cursor}

Visit ==
    /\ state = "going"
    /\ \E e \in Ahead :
          /\ \A f \in Ahead : e.born <= f.born
          /\ cursor' = e.born
          /\ visited' = <<e.key, e.value>>
    /\ UNCHANGED <<live, births, state>>

Exhausted ==
    /\ state = "going" /\ Ahead = {}
    /\ state' = "exhausted"
    /\ UNCHANGED <<live, births, cursor, visited>>

Stopped ==
    /\ state = "going"
    /\ state' = "stopped"
    /\ UNCHANGED <<live, births, cursor, visited>>

Next ==
    \/ \E k \in Keys : RemoveKeys({k}) \/ \E v \in Values : Put(k, v)
    \/ RemoveKeys(Keys)
    \/ Visit \/ Exhausted \/ Stopped
=============================================================================
