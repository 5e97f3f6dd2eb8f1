--------------------------- MODULE KeyedCollections --------------------------
(***************************************************************************)
(* A Map or Set, and something that goes through it while JavaScript       *)
(* changes it: an iterator, Map.prototype.forEach, Set.prototype.forEach,  *)
(* or a method of Set that asks another collection about each of its       *)
(* values (intersection, difference, isSubsetOf, isDisjointFrom).          *)
(*                                                                         *)
(* The entries are a Vec, and each of these keeps its place in another     *)
(* way: the iterator an index, the forEach a schedule of what is still to  *)
(* be visited, the method the value it is at.  InsertionOrder says what    *)
(* they are to do.                                                         *)
(***************************************************************************)
EXTENDS Naturals, Sequences, FiniteSets, SequencesExt

CONSTANTS
    Keys,
    Values,     \* of a Map
    Unit,       \* the value that a key of a Set has
    Hows,       \* which of the four go through it
    Initially,  \* how many entries there are at first
    MaxChanges  \* bound: calls that change the collection

NoKey == <<>>
ASSUME KeysAssumption == Keys # {} /\ NoKey \notin Keys /\ Unit \notin Values
ASSUME HowsAssumption == Hows \subseteq {"iterator", "mapForEach", "setForEach", "setMethod"}
ASSUME BoundsAssumption == Initially \subseteq Nat /\ MaxChanges \in Nat

VARIABLES
    how,
    entries,    \* VmMapData.entries, VmSetData.values
    position,   \* __index__, idx, index: so many are behind
    scheduled,  \* of a forEach: keys and values to visit
    before,     \* of Set's: the keys that were there when the callback began
    current,    \* of a method: the key it is at
    inCallback, \* whether the callback runs
    state,
    changes,
    births, cursor, visits, \* history: entries inserted, and those visited
    removed,    \* history: entries removed since the last visit
    disturbed   \* history: whether a change was one of Disturbs

schedule == <<position, scheduled, before, current>>
history == <<births, cursor, visits>>
vars == <<how, entries, schedule, inCallback, state, changes, history, removed, disturbed>>

ValuesOf(h) == IF h = "mapForEach" THEN Values ELSE {Unit}

\* A collection's entries, each with its key, its value and, as history, when
\* it was inserted.
Entries(keys, values) ==
    [i \in DOMAIN keys |-> [key |-> keys[i], value |-> values[i], born |-> i]]

Pair(e) == <<e.key, e.value>>
Pairs == [i \in DOMAIN entries |-> Pair(entries[i])]
KeysIn(es) == {es[i].key : i \in DOMAIN es}
Entry(k) == entries[CHOOSE i \in DOMAIN entries : entries[i].key = k]

\* A forEach begins with what is there.
Init ==
    /\ how \in Hows
    /\ \E n \in Initially : \E keys \in [1 .. n -> Keys] :
          /\ IsInjective(keys)
          /\ \E values \in [1 .. n -> ValuesOf(how)] : entries = Entries(keys, values)
    /\ position = 0
    /\ scheduled = IF how \in {"mapForEach", "setForEach"} THEN Pairs ELSE <<>>
    /\ before = {} /\ current = NoKey
    /\ inCallback = FALSE /\ state = "going" /\ changes = 0
    /\ births = Len(entries) /\ cursor = 0 /\ visits = <<>>
    /\ removed = {} /\ disturbed = FALSE

----------------------------------------------------------------------------
(* Changes: Map.set, Set.add, delete and clear.                             *)

JsRuns == (how = "iterator" \/ inCallback) /\ changes < MaxChanges

Remaining == SubSeq(scheduled, position + 1, Len(scheduled))

\* Changes after which the VM does not do what InsertionOrder does.
DisturbsByPut(k, v) ==
    CASE how = "mapForEach" -> \/ k \in KeysIn(entries) /\ Entry(k).value # v
                               \/ k \notin KeysIn(entries) /\ <<k, v>> \in Range(scheduled)
      [] how = "setForEach" -> /\ k \notin KeysIn(entries)
                               /\ k \in before \/ <<k, Unit>> \in Range(Remaining)
      [] how = "setMethod"  -> k = current /\ k \notin KeysIn(entries)
      [] OTHER -> FALSE

DisturbsByRemoval(gone) ==
    CASE how = "iterator"  -> \E b \in gone : b <= cursor
      [] how = "setMethod" -> cursor \in gone /\ \E b \in gone : b < cursor
      [] OTHER -> FALSE

Added(k, v) == Append(entries, [key |-> k, value |-> v, born |-> births + 1])

Overwritten(k, v) ==
    [i \in DOMAIN entries |->
        IF entries[i].key = k THEN [entries[i] EXCEPT !.value = v] ELSE entries[i]]

WithAdded(k, v) == Added(k, v)
With(k, v) == IF k \in KeysIn(entries) THEN Overwritten(k, v) ELSE Added(k, v)

Put(k, v) ==
    /\ JsRuns
    /\ entries' = With(k, v)
    /\ births' = IF Len(entries') > Len(entries) THEN births + 1 ELSE births
    /\ disturbed' = (disturbed \/ DisturbsByPut(k, v))
    /\ changes' = changes + 1
    /\ UNCHANGED <<how, schedule, inCallback, state, cursor, visits, removed>>

\* What retain leaves of s, given the places whose elements stay.
Retained(s, places) ==
    [k \in 1 .. Cardinality(places) |->
        s[CHOOSE p \in places : Cardinality({q \in places : q <= p}) = k]]

RemoveKeys(S) ==
    /\ JsRuns
    /\ entries' = Retained(entries, {i \in DOMAIN entries : entries[i].key \notin S})
    /\ removed' = removed \cup {e.born : e \in {f \in Range(entries) : f.key \in S}}
    /\ disturbed' = (disturbed \/ DisturbsByRemoval(removed'))
    /\ changes' = changes + 1
    /\ UNCHANGED <<how, schedule, inCallback, state, history>>

Delete(k) == RemoveKeys({k})
Clear == RemoveKeys(Keys)

----------------------------------------------------------------------------

\* The caller of next(), or the callback, gets the key and the value.
Visit(k, v) ==
    /\ cursor' = Entry(k).born
    /\ visits' = Append(visits, [key |-> k, value |-> v, born |-> Entry(k).born])
    /\ removed' = {}
    /\ UNCHANGED births

Exhausted ==
    /\ state' = "exhausted"
    /\ UNCHANGED <<how, entries, schedule, inCallback, changes, history, removed, disturbed>>

\* next() of an iterator.
IteratorVisits ==
    /\ how = "iterator" /\ state = "going" /\ position < Len(entries)
    /\ position' = position + 1
    /\ Visit(entries[position + 1].key, entries[position + 1].value)
    /\ UNCHANGED <<how, entries, scheduled, before, current, inCallback, state, changes,
                   disturbed>>

\* It lets its collection go: entries that are added later are not visited.
IteratorEnds ==
    /\ how = "iterator" /\ state = "going" /\ position >= Len(entries)
    /\ Exhausted

----------------------------------------------------------------------------
(* forEach.                                                                 *)

ForEach == how \in {"mapForEach", "setForEach"} /\ state = "going" /\ ~inCallback
Scheduled == scheduled[position + 1]

\* A Map's entry has to have the value it was scheduled with.
StillPresent ==
    IF how = "mapForEach" THEN Scheduled \in Range(Pairs)
    ELSE Scheduled[1] \in KeysIn(entries)

\* What is there now and is not scheduled: of a Map's pairs, at all; of a
\* Set's keys, among those still to come, and only if it was not there before
\* the callback.
IsNewByKey(pair) == pair \notin Range(scheduled)
IsNewAgain(pair) == IF how = "mapForEach" THEN pair \notin Range(scheduled)
                    ELSE pair \notin Range(Remaining)
IsNew(pair) ==
    IF how = "mapForEach" THEN pair \notin Range(scheduled)
    ELSE pair[1] \notin before /\ pair \notin Range(Remaining)

WithNew == scheduled \o Retained(Pairs, {i \in DOMAIN Pairs : IsNew(Pairs[i])})

ForEachCalls ==
    /\ ForEach /\ position < Len(scheduled) /\ StillPresent
    /\ Visit(Scheduled[1], Scheduled[2])
    /\ position' = position + 1
    /\ before' = IF how = "setForEach" THEN KeysIn(entries) ELSE before
    /\ inCallback' = TRUE
    /\ UNCHANGED <<how, entries, scheduled, current, state, changes, disturbed>>

ForEachSkips ==
    /\ ForEach /\ position < Len(scheduled) /\ ~StillPresent
    /\ position' = position + 1
    /\ scheduled' = IF how = "mapForEach" THEN WithNew ELSE scheduled
    /\ UNCHANGED <<how, entries, before, current, inCallback, state, changes, history,
                   removed, disturbed>>

ForEachEnds ==
    /\ ForEach /\ position = Len(scheduled)
    /\ Exhausted

----------------------------------------------------------------------------
(* next_live_set_value, in a loop that asks `has` of the other collection.  *)

PositionOf(k) == CHOOSE i \in DOMAIN entries : entries[i].key = k

IndexKept == IF current = NoKey THEN position ELSE position + 1

\* After the value that it is at, if that is still there.
Index == IF current \in KeysIn(entries) THEN PositionOf(current) ELSE position

MethodCalls ==
    /\ how = "setMethod" /\ state = "going" /\ ~inCallback
    /\ Index < Len(entries)
    /\ LET k == entries[Index + 1].key IN
       /\ Visit(k, Unit)
       /\ current' = k
    /\ position' = Index
    /\ inCallback' = TRUE
    /\ UNCHANGED <<how, entries, scheduled, before, state, changes, disturbed>>

MethodEnds ==
    /\ how = "setMethod" /\ state = "going" /\ ~inCallback
    /\ Index >= Len(entries)
    /\ Exhausted

----------------------------------------------------------------------------

CallbackReturns ==
    /\ inCallback
    /\ scheduled' = IF how = "setMethod" THEN scheduled ELSE WithNew
    /\ inCallback' = FALSE
    /\ UNCHANGED <<how, entries, position, before, current, state, changes, history, removed,
                   disturbed>>

\* It throws, or its answer decides the method's.
CallbackStops ==
    /\ inCallback
    /\ inCallback' = FALSE /\ state' = "stopped"
    /\ UNCHANGED <<how, entries, schedule, changes, history, removed, disturbed>>

Change ==
    \/ \E k \in Keys : Delete(k) \/ \E v \in ValuesOf(how) : Put(k, v)
    \/ Clear

Proceed ==
    \/ IteratorVisits \/ IteratorEnds
    \/ ForEachCalls \/ ForEachSkips \/ ForEachEnds
    \/ MethodCalls \/ MethodEnds
    \/ CallbackReturns \/ CallbackStops

Next == Change \/ Proceed

Spec == Init /\ [][Next]_vars

----------------------------------------------------------------------------
(* Properties                                                               *)

\* A key has one entry, and the entries are in the order in which they were
\* inserted (VmMapData, VmSetData, value.rs:8-22).
TypeOK ==
    /\ \A i \in DOMAIN entries :
          /\ entries[i].key \in Keys /\ entries[i].value \in ValuesOf(how)
          /\ entries[i].born \in 1 .. births
          /\ \A j \in DOMAIN entries :
                i < j => /\ entries[i].key # entries[j].key
                         /\ entries[i].born < entries[j].born
    /\ position \in Nat
    /\ Range(scheduled) \subseteq Keys \X ValuesOf(how)
    /\ state \in {"going", "exhausted", "stopped"}

\* Whatever the callback does, nothing is visited twice unless it was deleted
\* and inserted again or, in a Map's forEach, overwritten
\* (vm.rs:37023-37030, 37280-37287, 37913-37916).
VisitedOnce ==
    \A i, j \in DOMAIN visits :
        i # j => \/ visits[i].born # visits[j].born
                 \/ how = "mapForEach" /\ visits[i].value # visits[j].value

\* Whatever the callback does, Set.prototype.forEach has visited every value
\* that is there when it ends (vm.rs:37280-37287).
NothingMissed ==
    how = "setForEach" /\ state = "exhausted" =>
        KeysIn(entries) \subseteq KeysIn(visits)

Order == INSTANCE InsertionOrder WITH
    live <- Range(entries),
    Values <- Values \cup {Unit},
    visited <- IF visits = <<>> THEN <<>> ELSE Pair(Last(visits))

\* Until a change is one of Disturbs, visits are those of ECMAScript, in
\* their order and with their values, and nothing is passed over
\* (make_map_iterator, vm.rs:40078; make_set_iterator, vm.rs:40091).
FollowsInsertion == [][~disturbed' => Order!Next]_<<entries, births, cursor, visits, state>>
=============================================================================
