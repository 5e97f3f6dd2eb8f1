------------------------------ MODULE Promises ------------------------------
(***************************************************************************)
(* Promises and the microtask queue of the VM.  A promise is pending until *)
(* settle_promise gives it an outcome; then() leaves a reaction in its     *)
(* __then_queue__ or, if it is settled, queues a microtask at once; a      *)
(* drain takes the whole queue as a batch and runs it, and again, for at   *)
(* most MaxRounds batches.  A callback may itself start a drain (a         *)
(* synchronous await): the rest of the outer batch then waits below it.    *)
(*                                                                         *)
(* JavaScript is any sequence of the calls below, made by a turn of the    *)
(* host (the script, a timer's callback) or by a microtask's callback.     *)
(***************************************************************************)
EXTENDS Naturals, Sequences, FiniteSets

CONSTANTS
    MaxPromises,  \* bound: promises made
    MaxEntries,   \* bound: reactions that wait, and microtasks since the
                  \* queue was last empty
    MaxDepth,     \* bound: drains inside drains
    MaxRounds,    \* 1000 in the code
    Handlers,     \* which of its two callbacks a then() is given
    Values,       \* what a promise is settled with
    NoValue

ASSUME BoundsAssumption ==
    /\ MaxPromises \in Nat /\ MaxEntries \in Nat
    /\ MaxDepth \in Nat /\ MaxRounds \in Nat
ASSUME ValuesAssumption == NoValue \notin Values
ASSUME HandlersAssumption == Handlers \subseteq BOOLEAN \X BOOLEAN

Promise == 1 .. MaxPromises
None == 0
Nothing == <<"nothing", None>>

\* What a resolve function, or the end of a callback, is given.
Resolution ==
    [is : {"plain", "throwing"}, v : Values] \cup [is : {"promise"}, v : Promise]
        \cup [is : {"thenable"}, v : {NoValue}]

\* What waits in a __then_queue__: a reaction of then(), or a link from a
\* promise that was resolved with this one, which has no callbacks.  `cap` is
\* the promise its resolve and reject functions settle; `late` (history) says
\* that its promise was settled while the getters of its then() ran.
Reaction ==
    [kind : {"then", "link"}, onFulfilled : BOOLEAN, onRejected : BOOLEAN,
     cap : Promise, late : BOOLEAN]

ThenReaction(f, r, p, late) ==
    [kind |-> "then", onFulfilled |-> f, onRejected |-> r, cap |-> p,
     late |-> late]

Link(p) ==
    [kind |-> "link", onFulfilled |-> FALSE, onRejected |-> FALSE, cap |-> p,
     late |-> FALSE]

\* What then() remembers of its promise while its getters run, and the
\* callbacks it was given.
Sample ==
    [value : Values \cup {NoValue}, rejected : BOOLEAN,
     onFulfilled : BOOLEAN, onRejected : BOOLEAN]

NoSample ==
    [value |-> NoValue, rejected |-> FALSE,
     onFulfilled |-> FALSE, onRejected |-> FALSE]

\* A reaction with the outcome of its promise, or the job that calls a
\* thenable; `age` (history) ranks the microtasks as they were queued.
Microtask ==
         [kind : {"then", "link"}, callback : BOOLEAN, cap : Promise,
          value : Values, rejected : BOOLEAN, age : Nat]
    \cup [kind : {"thenable"}, callback : {TRUE}, cap : Promise,
          value : {NoValue}, rejected : {FALSE}, age : Nat]

\* A drain_microtasks call: what is left of its batch, the task whose callback
\* runs, how many batches it has taken, and (history) the age of the task it
\* began last.
DrainCall ==
    [batch : Seq(Microtask), task : Seq(Microtask), round : Nat, last : Nat]

VARIABLES
    promises,   \* how many promises have been made
    value, rejected,        \* __promise_value__ (NoValue while pending) and
                            \* __promise_rejected__
    thenQueue,  \* __then_queue__ of each promise
    microtasks, \* microtask_queue
    drains,     \* the active drain_microtasks calls, innermost last
    inTurn,     \* a turn of the host runs JavaScript
    inside,     \* a host call that is running JavaScript: a Promise
                \* constructor's executor, the reading of `then` by a
                \* resolve, or the getters that then() reads
    sampled,    \* what that then() remembers
    derived,    \* history: the promises made by then()
    handedOut,  \* history: those whose resolve functions a thenable was given
    queued      \* history: microtasks queued since none was left

promiseVars == <<value, rejected>>
store == <<promiseVars, thenQueue, microtasks, queued>>
history == <<derived, handedOut>>
vars == <<promises, store, drains, inTurn, inside, sampled, history>>

Pending(p) == p <= promises /\ value[p] = NoValue
Settled(p) == p <= promises /\ value[p] # NoValue

Init ==
    /\ promises = 0
    /\ value = [p \in Promise |-> NoValue]
    /\ rejected = [p \in Promise |-> FALSE]
    /\ thenQueue = [p \in Promise |-> <<>>]
    /\ microtasks = <<>>
    /\ drains = <<>>
    /\ inTurn = TRUE
    /\ inside = Nothing /\ sampled = NoSample
    /\ derived = {} /\ handedOut = {}
    /\ queued = 0

----------------------------------------------------------------------------
(* The promise operations of the VM.                                        *)

TaskBeforeOutcome(react, v, r, age) ==
    [kind |-> react.kind, cap |-> react.cap, value |-> NoValue, rejected |-> r,
     callback |-> IF r THEN react.onRejected ELSE react.onFulfilled, age |-> age]

Task(react, v, r, age) ==
    [kind |-> react.kind, cap |-> react.cap, value |-> v, rejected |-> r,
     callback |-> IF r THEN react.onRejected ELSE react.onFulfilled, age |-> age]

\* settle_promise: it does not look whether the promise is settled already.
Settle(p, v, r) ==
    /\ value' = [value EXCEPT ![p] = v]
    /\ rejected' = [rejected EXCEPT ![p] = r]
    /\ thenQueue' = [thenQueue EXCEPT ![p] = <<>>]
    /\ microtasks' = microtasks \o [i \in 1 .. Len(thenQueue[p]) |->
                                       Task(thenQueue[p][i], v, r, queued + i)]
    /\ queued' = queued + Len(thenQueue[p])

\* The entries that wait, which the bound counts with those queued.
WaitingUpTo[p \in 0 .. MaxPromises] ==
    IF p = 0 THEN 0 ELSE WaitingUpTo[p - 1] + Len(thenQueue[p])
Room == queued + WaitingUpTo[MaxPromises] < MaxEntries

EnlistAlone(p, react) ==
    /\ Room
    /\ thenQueue' = [thenQueue EXCEPT ![p] = <<react>>]
    /\ UNCHANGED <<promiseVars, microtasks, queued>>

Enlist(p, react) ==
    /\ Room
    /\ thenQueue' = [thenQueue EXCEPT ![p] = Append(@, react)]
    /\ UNCHANGED <<promiseVars, microtasks, queued>>

Enqueue(task) ==
    /\ Room
    /\ microtasks' = Append(microtasks, task)
    /\ queued' = queued + 1
    /\ UNCHANGED <<promiseVars, thenQueue>>

RejectAlways(p, v) == p <= promises /\ Settle(p, v, TRUE)

\* promise.__reject: nothing once p is settled.
RejectFn(p, v) ==
    \/ Pending(p) /\ Settle(p, v, TRUE)
    \/ Settled(p) /\ UNCHANGED store

\* promise.__resolve: nothing once p is settled; but a p resolved with a
\* pending promise or a thenable is not settled yet.
ResolveFn(p, x) ==
    \/ Settled(p) /\ UNCHANGED store
    \/ Pending(p) /\ x.is = "plain" /\ Settle(p, x.v, FALSE)
    \/ Pending(p) /\ x.is = "throwing" /\ Settle(p, x.v, TRUE)
    \/ Pending(p) /\ x.is = "promise" /\ Settled(x.v)
          /\ Settle(p, value[x.v], rejected[x.v])
    \/ Pending(p) /\ x.is = "promise" /\ Pending(x.v) /\ Enlist(x.v, Link(p))
    \/ Pending(p) /\ x.is = "thenable"
          /\ Enqueue([kind |-> "thenable", cap |-> p, value |-> NoValue,
                      rejected |-> FALSE, callback |-> TRUE, age |-> queued + 1])

SampleOf(p, f, r) ==
    [value |-> value[p], rejected |-> rejected[p], onFulfilled |-> f, onRejected |-> r]

ReactionOf(p, s, c) ==
    ThenReaction(s.onFulfilled, s.onRejected, c, s.value = NoValue /\ Settled(p))

ThenAlwaysWaits(p, s, c) == Enlist(p, ReactionOf(p, s, c))

\* The end of Promise.prototype.then, with the derived promise c: the sample
\* s, not p itself, says whether the reaction waits.
ThenFn(p, s, c) ==
    \/ s.value = NoValue /\ Enlist(p, ReactionOf(p, s, c))
    \/ s.value # NoValue
          /\ Enqueue(Task(ReactionOf(p, s, c), s.value, s.rejected, queued + 1))

----------------------------------------------------------------------------
(* Drains.                                                                  *)

Top == drains[Len(drains)]
SetTop(d) == [drains EXCEPT ![Len(drains)] = d]
Callback == drains # <<>> /\ Top.task # <<>>
BetweenTasks == drains # <<>> /\ Top.task = <<>>
JsRuns == Callback \/ (drains = <<>> /\ inTurn)

\* drain_microtasks takes the queue as its batch, for the n-th time.
Batch(n, last) ==
    [batch |-> microtasks, task |-> <<>>, round |-> n, last |-> last]
QueueTaken == microtasks' = <<>> /\ UNCHANGED <<promiseVars, thenQueue>>

NextBatch ==
    /\ BetweenTasks /\ Top.batch = <<>>
    /\ microtasks # <<>> /\ Top.round < MaxRounds
    /\ drains' = SetTop(Batch(Top.round + 1, Top.last))
    /\ QueueTaken
    /\ UNCHANGED <<promises, queued, inTurn, inside, sampled, history>>

DrainEndsAfterOneBatch ==
    /\ BetweenTasks /\ Top.batch = <<>>
    /\ drains' = SubSeq(drains, 1, Len(drains) - 1)
    /\ UNCHANGED <<promises, store, inTurn, inside, sampled, history>>

DrainEnds ==
    /\ BetweenTasks /\ Top.batch = <<>>
    /\ microtasks = <<>> \/ Top.round = MaxRounds
    /\ drains' = SubSeq(drains, 1, Len(drains) - 1)
    /\ queued' = IF Len(drains) = 1 /\ microtasks = <<>> THEN 0 ELSE queued
    /\ UNCHANGED <<promises, promiseVars, thenQueue, microtasks, inTurn, inside,
                   sampled, history>>

RunCallbackFromBack ==
    LET b == Top.batch
        t == b[Len(b)] IN
    /\ BetweenTasks /\ Top.batch # <<>>
    /\ t.callback
    /\ drains' = SetTop([Top EXCEPT !.batch = SubSeq(b, 1, Len(b) - 1), !.task = <<t>>,
                                    !.last = t.age])
    /\ handedOut' = IF t.kind = "thenable" THEN handedOut \cup {t.cap} ELSE handedOut
    /\ UNCHANGED <<promises, store, inTurn, inside, sampled, derived>>

\* run_then_microtask with a callback to call ...
RunCallback ==
    LET t == Head(Top.batch) IN
    /\ BetweenTasks /\ Top.batch # <<>>
    /\ t.callback
    /\ drains' = SetTop([Top EXCEPT !.batch = Tail(@), !.task = <<t>>, !.last = t.age])
    /\ handedOut' = IF t.kind = "thenable" THEN handedOut \cup {t.cap} ELSE handedOut
    /\ UNCHANGED <<promises, store, inTurn, inside, sampled, derived>>

\* ... and without one: the outcome goes to the capability as it is.
PassThrough ==
    LET t == Head(Top.batch) IN
    /\ BetweenTasks /\ Top.batch # <<>>
    /\ ~t.callback
    /\ drains' = SetTop([Top EXCEPT !.batch = Tail(@), !.last = t.age])
    /\ IF t.rejected
       THEN RejectFn(t.cap, t.value)
       ELSE ResolveFn(t.cap, [is |-> "plain", v |-> t.value])
    /\ UNCHANGED <<promises, inTurn, inside, sampled, history>>

\* A callback ends; what it returns or throws goes to the capability.  What a
\* thenable's then() returns goes nowhere.
Returns(x) ==
    LET t == Top.task[1] IN
    /\ Callback /\ inside = Nothing
    /\ x.is = "promise" => x.v <= promises
    /\ drains' = SetTop([Top EXCEPT !.task = <<>>])
    /\ \/ t.kind = "then" /\ x.is = "promise" /\ Pending(x.v) /\ Enlist(x.v, Link(t.cap))
       \/ t.kind = "then" /\ ~(x.is = "promise" /\ Pending(x.v)) /\ ResolveFn(t.cap, x)
       \/ t.kind = "thenable" /\ x.is = "throwing" /\ RejectFn(t.cap, x.v)
       \/ t.kind = "thenable" /\ x.is = "plain" /\ UNCHANGED store
    /\ UNCHANGED <<promises, inTurn, inside, sampled, history>>

----------------------------------------------------------------------------
(* Turns of the host: run() and drain_timers call JavaScript, then drain.   *)

TurnEnds ==
    /\ inTurn /\ drains = <<>> /\ inside = Nothing
    /\ inTurn' = FALSE
    /\ drains' = <<Batch(1, 0)>>
    /\ QueueTaken
    /\ UNCHANGED <<promises, queued, inside, sampled, history>>

NextTurn ==
    /\ ~inTurn /\ drains = <<>>
    /\ inTurn' = TRUE
    /\ UNCHANGED <<promises, store, drains, inside, sampled, history>>

----------------------------------------------------------------------------
(* JavaScript.                                                              *)

SameJob == UNCHANGED <<drains, inTurn, inside, sampled, history>>

\* new Promise(executor): the executor starts.
New ==
    /\ JsRuns /\ inside = Nothing
    /\ promises < MaxPromises
    /\ promises' = promises + 1
    /\ inside' = <<"executor", promises + 1>>
    /\ UNCHANGED <<store, drains, inTurn, sampled, history>>

ExecutorReturns ==
    /\ JsRuns /\ inside[1] = "executor"
    /\ inside' = Nothing
    /\ UNCHANGED <<promises, store, drains, inTurn, sampled, history>>

\* The promise is rejected, whether it was settled before or not.
ExecutorThrows(v) ==
    /\ JsRuns /\ inside[1] = "executor"
    /\ value' = [value EXCEPT ![inside[2]] = v]
    /\ rejected' = [rejected EXCEPT ![inside[2]] = TRUE]
    /\ inside' = Nothing
    /\ UNCHANGED <<promises, thenQueue, microtasks, queued, drains, inTurn, sampled,
                   history>>

\* The promises whose resolve functions a script can hold: those of its own
\* constructors, and those its thenables were given.
Settleable(p) == p <= promises /\ (p \in derived => p \in handedOut)

\* The executor's promise is not yet a value the script can name.
Named(p) == p <= promises /\ inside # <<"executor", p>>

Resolve(p, x) ==
    /\ JsRuns /\ Settleable(p)
    /\ x.is = "promise" => Named(x.v)
    /\ ResolveFn(p, x)
    /\ UNCHANGED promises /\ SameJob

Reject(p, v) ==
    /\ JsRuns /\ Settleable(p)
    /\ RejectFn(p, v)
    /\ UNCHANGED promises /\ SameJob

\* resolve(o), where o's `then` is a getter: more JavaScript runs, and p is
\* settled with o after it without another look at p.
ReadThen(p) ==
    /\ JsRuns /\ inside = Nothing
    /\ Pending(p) /\ Settleable(p)
    /\ inside' = <<"getter", p>>
    /\ UNCHANGED <<promises, store, drains, inTurn, sampled, history>>

ThenRead(v) ==
    /\ JsRuns /\ inside[1] = "getter"
    /\ Settle(inside[2], v, FALSE)
    /\ inside' = Nothing
    /\ UNCHANGED <<promises, drains, inTurn, sampled, history>>

\* p.then(), where `constructor` and its Symbol.species are no getters.
Then(p, f, r) ==
    LET c == promises + 1 IN
    /\ JsRuns /\ Named(p)
    /\ promises < MaxPromises
    /\ promises' = c
    /\ ThenFn(p, SampleOf(p, f, r), c)
    /\ derived' = derived \cup {c}
    /\ UNCHANGED <<drains, inTurn, inside, sampled, handedOut>>

\* p.then(), where `constructor` or its Symbol.species is a getter, which gives
\* Promise: then() looks at p, more JavaScript runs ...
ThenReads(p, f, r) ==
    /\ JsRuns /\ inside = Nothing /\ Named(p)
    /\ promises < MaxPromises
    /\ inside' = <<"then", p>>
    /\ sampled' = SampleOf(p, f, r)
    /\ UNCHANGED <<promises, store, drains, inTurn, history>>

\* ... and the derived promise is made and the reaction registered ...
ThenRegisters ==
    LET c == promises + 1 IN
    /\ JsRuns /\ inside[1] = "then"
    /\ promises < MaxPromises
    /\ promises' = c
    /\ ThenFn(inside[2], sampled, c)
    /\ derived' = derived \cup {c}
    /\ inside' = Nothing /\ sampled' = NoSample
    /\ UNCHANGED <<drains, inTurn, handedOut>>

\* ... unless a getter throws.
ThenThrows ==
    /\ JsRuns /\ inside[1] = "then"
    /\ inside' = Nothing /\ sampled' = NoSample
    /\ UNCHANGED <<promises, store, drains, inTurn, history>>

\* await_promise_sync, promise.await, vm.drainMicrotasks.
NestedDrain ==
    /\ JsRuns /\ inside = Nothing /\ Len(drains) < MaxDepth
    /\ microtasks # <<>>
    /\ drains' = Append(drains, Batch(1, 0))
    /\ QueueTaken
    /\ UNCHANGED <<promises, queued, inTurn, inside, sampled, history>>

----------------------------------------------------------------------------

Javascript ==
    \/ New \/ ExecutorReturns \/ NestedDrain \/ ThenRegisters \/ ThenThrows
    \/ \E v \in Values : ExecutorThrows(v) \/ ThenRead(v)
    \/ \E p \in Promise :
          \/ ReadThen(p)
          \/ \E v \in Values : Reject(p, v)
          \/ \E x \in Resolution : Resolve(p, x)
          \/ \E h \in Handlers : Then(p, h[1], h[2]) \/ ThenReads(p, h[1], h[2])
    \/ \E x \in Resolution : Returns(x)

Engine ==
    TurnEnds \/ RunCallback \/ PassThrough \/ NextBatch \/ DrainEnds

Next == Javascript \/ Engine \/ NextTurn

Spec == Init /\ [][Next]_vars

\* A call that runs JavaScript ends, and so does a callback.
CallEnds ==
    \/ ExecutorReturns \/ ThenRegisters \/ ThenThrows
    \/ \E v \in Values : ThenRead(v)

CallbackEnds == \E x \in Resolution : x.is = "plain" /\ Returns(x)

\* Callbacks end, even one that makes such calls time and again, and a drain
\* that was begun goes on; nothing makes a script settle a promise.
FairSpec ==
    /\ Spec
    /\ WF_vars(Engine) /\ WF_vars(CallEnds) /\ SF_vars(CallbackEnds)

----------------------------------------------------------------------------
(* Properties                                                               *)

TypeOK ==
    /\ promises \in 0 .. MaxPromises
    /\ value \in [Promise -> Values \cup {NoValue}]
    /\ rejected \in [Promise -> BOOLEAN]
    /\ thenQueue \in [Promise -> Seq(Reaction)]
    /\ microtasks \in Seq(Microtask)
    /\ drains \in Seq(DrainCall) /\ \A n \in DOMAIN drains : Len(drains[n].task) <= 1
    /\ inTurn \in BOOLEAN
    /\ inside \in {"nothing", "executor", "getter", "then"} \X (0 .. MaxPromises)
    /\ sampled \in Sample
    /\ derived \subseteq Promise /\ handedOut \subseteq Promise
    /\ queued \in Nat

\* Where the resolve functions of a promise may be held: by the reactions that
\* wait, the microtasks of the queue and of every batch, and the callbacks that
\* run.
Sites == ({"waits"} \X Promise) \cup {<<"queue", 0>>} \cup ({"batch", "runs"} \X DOMAIN drains)

Contents(s) ==
    CASE s[1] = "waits" -> thenQueue[s[2]]
      [] s[1] = "queue" -> microtasks
      [] s[1] = "batch" -> drains[s[2]].batch
      [] s[1] = "runs" -> drains[s[2]].task

Holders(d) ==
    UNION {{s} \X {i \in DOMAIN Contents(s) : Contents(s)[i].cap = d} : s \in Sites}

\* The promise that then() returned has exactly one reaction, microtask or
\* callback that will settle it, until that has; none is lost or doubled when
\* a promise settles, a callback returns a promise or drains are nested
\* (vm.rs:4717, 46679, 46775).
OneHolder ==
    \A d \in derived \ handedOut :
        Cardinality(Holders(d)) = IF Pending(d) THEN 1 ELSE 0

\* What waits for a promise that is settled came too late: its then() had
\* found the promise pending, and a getter that it read settled it.  Nothing
\* else is left behind, by a reaction registered while the outcome is being
\* stored, a link, or an executor that throws (vm.rs:4715, 31811, 31843).
NobodyLeftWaiting ==
    \A p \in Promise : Settled(p) =>
        \A i \in DOMAIN thenQueue[p] : thenQueue[p][i].late

\* The batches, the outermost first, and the queue.
Level(n) == IF n \in DOMAIN drains THEN drains[n].batch ELSE microtasks

\* Tasks run in the order they were queued, except that a nested drain runs
\* the younger ones first: no drain begins a task after one that is younger,
\* over all its batches, and everything in an inner batch, or in the queue,
\* was queued after everything left in an outer one (vm.rs:46672-46676).
InOrder ==
    \A m, n \in 1 .. Len(drains) + 1 :
        \A b \in DOMAIN Level(n) :
            /\ m \in DOMAIN drains /\ m <= n => drains[m].last < Level(n)[b].age
            /\ \A a \in DOMAIN Level(m) :
                  m < n \/ (m = n /\ a < b) => Level(m)[a].age < Level(n)[b].age

\* A settled promise keeps its outcome, except from a constructor whose
\* executor throws and from a resolve that was reading a `then` getter while
\* the promise was settled (vm.rs:23917, 4784-4816).
OutcomeKept ==
    [][\A p \in Promise : Settled(p) =>
          \/ value'[p] = value[p] /\ rejected'[p] = rejected[p]
          \/ inside \in {"executor", "getter"} \X {p} /\ inside' = Nothing]_vars

\* A drain that was begun is finished, and it leaves no microtask behind as
\* long as MaxRounds batches are enough (vm.rs:46672).
QueueEmpties == microtasks # <<>> /\ ~inTurn ~> microtasks = <<>> /\ drains = <<>>
=============================================================================
