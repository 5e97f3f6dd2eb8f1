------------------------- MODULE PromiseCombinators -------------------------
(***************************************************************************)
(* Promise.all, any, race, allSettled and the keyed forms of all and       *)
(* allSettled.  Each walks over its elements, turns every one into a       *)
(* promise and registers two functions with its then(); what the functions *)
(* are called with, first, goes into a slot, and the last empty slot       *)
(* settles the result.  An element need not be a promise of this engine: a *)
(* thenable may call its functions at once, more than once, both of them,  *)
(* or never, while the walk goes on or after it.                           *)
(***************************************************************************)
EXTENDS Naturals, Sequences, FiniteSetsExt

CONSTANTS
    Kinds,        \* which of the six
    Values,       \* what elements answer with
    Errors,       \* what the walk, or the closing of its iterator, throws
    MaxElements,  \* bound: elements of the iterable
    MaxAnswers    \* bound: calls of the functions that the elements were given

AllKinds == {"all", "allKeyed", "any", "race", "allSettled", "allSettledKeyed"}
ASSUME KindsAssumption == Kinds \subseteq AllKinds
ASSUME BoundsAssumption == MaxElements \in Nat /\ MaxAnswers \in Nat

Keyed == {"allKeyed", "allSettledKeyed"}
Settling == {"allSettled", "allSettledKeyed"}

VARIABLES
    kind,
    stage,      \* of the walk: "begin", "next" (of the iterator), "resolving"
                \* an element, "then" of it, "closing" the iterator, "over"
    error,      \* what the walk was left with
    slots,      \* values, or the errors of any
    called,     \* alreadyCalled of each element
    remaining,
    given,      \* how many elements have been given their functions
    outcome,    \* of the promise that is returned
    log         \* history: what happened

vars == <<kind, stage, error, slots, called, remaining, given, outcome, log>>

NoError == <<>>
Empty == <<>>
Pending == <<"pending">>
Status == {"fulfilled", "rejected"}
Answer == Status \X Values

Init ==
    /\ kind \in Kinds
    /\ stage = "begin" /\ error = NoError
    /\ slots = <<>> /\ called = <<>>
    /\ remaining = 1
    /\ given = 0
    /\ outcome = Pending
    /\ log = <<>>

Happens(event) == log' = Append(log, event)

----------------------------------------------------------------------------
(* The result and its slots.                                                *)

SettleAlways(o) == outcome' = o

\* promise.__resolve and promise.__reject.
Settle(o) == outcome' = IF outcome = Pending THEN o ELSE outcome

One(answer) == <<answer[1], "one", answer[2]>>
All(s) == <<IF kind = "any" THEN "rejected" ELSE "fulfilled", "all", s>>

\* One of the remaining is gone; the walk itself counts as one.
CountDown(s) ==
    /\ remaining' = remaining - 1
    /\ IF remaining = 1 THEN Settle(All(s)) ELSE UNCHANGED outcome

FillAgain(i, answer) ==
    /\ slots' = [slots EXCEPT ![i] = answer]
    /\ CountDown(slots')
    /\ UNCHANGED called

\* The function made for element i: the first call fills its slot.
Fill(i, answer) ==
    IF called[i] THEN UNCHANGED <<slots, called, remaining, outcome>>
    ELSE /\ called' = [called EXCEPT ![i] = TRUE]
         /\ slots' = [slots EXCEPT ![i] = answer]
         /\ CountDown(slots')

\* Whether a status goes into a slot, or settles the result at once.
Fills(status) ==
    \/ kind \in Settling
    \/ kind \in {"all", "allKeyed"} /\ status = "fulfilled"
    \/ kind = "any" /\ status = "rejected"

\* Element i calls one of its functions.
Answers(i, answer) ==
    /\ i <= given
    /\ Happens(<<"answer", i, answer>>)
    /\ \/ Fills(answer[1]) /\ Fill(i, answer)
       \/ ~Fills(answer[1]) /\ Settle(One(answer)) /\ UNCHANGED <<slots, called, remaining>>
    /\ UNCHANGED <<kind, stage, error, given>>

----------------------------------------------------------------------------
(* The walk, each step of which runs JavaScript.                            *)

StaysSo == UNCHANGED <<slots, called, remaining, given, outcome>>

\* iterable[Symbol.iterator](), or the keys of an object.
Begin ==
    /\ stage = "begin" /\ stage' = "next"
    /\ StaysSo /\ UNCHANGED <<kind, error, log>>

\* What the walk throws rejects the result.
Rejects(e) ==
    /\ stage' = "over"
    /\ Settle(One(<<"rejected", e>>))
    /\ UNCHANGED <<slots, called, remaining, given>>

\* The iterator itself failed: it is not closed.
IteratorThrows(e) ==
    /\ stage \in {"begin", "next"}
    /\ error' = <<e>>
    /\ Happens(<<"failed", e>>)
    /\ Rejects(e)
    /\ UNCHANGED kind

\* An element has come; it has a slot before it is looked at.
NextElement ==
    /\ stage = "next" /\ stage' = "resolving"
    /\ given < MaxElements
    /\ IF kind = "race" THEN UNCHANGED <<slots, called, remaining>>
       ELSE /\ slots' = Append(slots, Empty) /\ called' = Append(called, FALSE)
            /\ remaining' = remaining + 1
    /\ Happens(<<"element">>)
    /\ UNCHANGED <<kind, error, given, outcome>>

\* invokeResolve has returned, and then() is called.
GivenFunctions ==
    /\ stage = "resolving" /\ stage' = "then"
    /\ given' = given + 1
    /\ UNCHANGED <<kind, error, slots, called, remaining, outcome, log>>

ThenReturns ==
    /\ stage = "then" /\ stage' = "next"
    /\ StaysSo /\ UNCHANGED <<kind, error, log>>

\* Resolving the element, or its then(), throws: the iterator is closed first,
\* and iterator.return runs JavaScript.
ElementThrows(e) ==
    /\ stage \in {"resolving", "then"}
    /\ error' = <<e>>
    /\ IF kind \in Keyed
       THEN Rejects(e) /\ Happens(<<"failed", e>>)
       ELSE stage' = "closing" /\ Happens(<<"left", e>>) /\ StaysSo
    /\ UNCHANGED kind

ClosedWith(e) ==
    /\ stage = "closing"
    /\ Happens(<<"failed", e>>)
    /\ Rejects(e)
    /\ UNCHANGED <<kind, error>>

\* What iterator.return returns or throws does not matter.
Closed(e) ==
    /\ stage = "closing"
    /\ Happens(<<"failed", e>>)
    /\ Rejects(error[1])
    /\ UNCHANGED <<kind, error>>

WalkEnds ==
    /\ stage = "next" /\ stage' = "over"
    /\ IF kind = "race" THEN UNCHANGED <<remaining, outcome>> ELSE CountDown(slots)
    /\ Happens(<<"done">>)
    /\ UNCHANGED <<kind, error, slots, called, given>>

----------------------------------------------------------------------------

Events(l, what) == {k \in DOMAIN l : l[k][1] = what}

Next ==
    \/ Begin \/ NextElement \/ GivenFunctions \/ ThenReturns \/ WalkEnds
    \/ \E e \in Errors : IteratorThrows(e) \/ ElementThrows(e) \/ Closed(e)
    \/ /\ Cardinality(Events(log, "answer")) < MaxAnswers
       /\ \E i \in 1 .. MaxElements, a \in Answer : Answers(i, a)

Spec == Init /\ [][Next]_vars

----------------------------------------------------------------------------
(* What ECMAScript says of a log l.                                         *)

\* The answers of i that count.
AnswersOf(l, i) == {k \in Events(l, "answer") : l[k][2] = i /\ Fills(l[k][3][1])}
Gathered(l) ==
    [i \in 1 .. Cardinality(Events(l, "element")) |-> l[Min(AnswersOf(l, i))][3]]

\* The k-th event decides: an answer that does not fill a slot; the end of a
\* failed walk; or whatever is last of the end of the walk and the first
\* answers of all elements.
DecidesAlone(l, k) ==
    \/ l[k][1] = "answer" /\ ~Fills(l[k][3][1])
    \/ l[k][1] = "failed"
Complete(l) ==
    /\ kind # "race" /\ Events(l, "done") # {}
    /\ \A i \in 1 .. Cardinality(Events(l, "element")) : AnswersOf(l, i) # {}

Deciding == {k \in DOMAIN log : DecidesAlone(log, k) \/ Complete(SubSeq(log, 1, k))}

\* An iterator that was left because of an element passes that error on.
Thrown(k) ==
    LET left == Events(log, "left") IN IF left = {} THEN log[k][2] ELSE log[Min(left)][2]

OutcomeOfLog ==
    IF Deciding = {} THEN Pending
    ELSE LET k == Min(Deciding)
         IN CASE log[k][1] = "failed" -> One(<<"rejected", Thrown(k)>>)
              [] DecidesAlone(log, k) /\ log[k][1] = "answer" -> One(log[k][3])
              [] OTHER -> All(Gathered(SubSeq(log, 1, k)))

----------------------------------------------------------------------------
(* Properties                                                               *)

TypeOK ==
    /\ kind \in Kinds
    /\ stage \in {"begin", "next", "resolving", "then", "closing", "over"}
    /\ error \in {NoError} \cup {<<e>> : e \in Errors}
    /\ slots \in Seq(Answer \cup {Empty}) /\ called \in Seq(BOOLEAN)
    /\ Len(slots) = Len(called)
    /\ remaining \in Nat
    /\ given \in 0 .. MaxElements

\* However often, early or late the elements call their functions, and
\* wherever the walk breaks off, the result has the outcome that ECMAScript
\* gives it: the slots hold the first answers at the places of their elements,
\* it is settled by the event that completes them and not before the walk is
\* over, and the first error wins (vm.rs:13739-13814, 14217-14306).
AsGathered == outcome = OutcomeOfLog
=============================================================================
