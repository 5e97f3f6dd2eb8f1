# Verification of the JavaScript engine: specifications, model checking, proofs

TLA+ specifications of the parts of this engine (a tokenizer, a parser, a
compiler to byte code and a virtual machine, in Rust) where the order of steps
decides correctness: the threads of `Atomics` and `$262.agent`; promises, their
combinators and the microtask queue; timers and nested runs; modules with
top-level await; Map and Set while they are iterated; and the code the compiler
makes of statements that leave blocks, run by a VM that suspends generators and
async functions inside them. TLC checks every model on small instances; TLAPS
proves the safety of the threads, the timers, the promises and their
combinators, the modules, Map and Set under mutation, and of the VM's handlers
and stack, for all values of their constants.

Below, `js_agent.rs` is `src/js_agent.rs` of the repository, `vm.rs` and
`compiler.rs` are in `src/core/`, `mod.rs` is `src/core/mod.rs`, `runner.rs`
and `typedarray.rs` are in `src/core/vm/`. `PROJECT.json` maps every definition
that models code to the lines it stands for.

## 1. Inventory

| Component | State | Operations | Interacts with | What is hard | What makes it correct |
|---|---|---|---|---|---|
| Waiter list (`js_agent.rs`) | `waiters` per shared buffer: byte index to queue of waiters; a condition variable, `notified` and `complete` per waiter | `atomics_wait`, `atomics_notify` | threads of all agents | deadline against notification, spurious wake-ups, entries that leave out of order | no wake-up lost or counted twice, wake-ups in FIFO order, every notified wait returns |
| Agents (`js_agent.rs`, `$262.agent`) | `AGENT_HANDLES`, `AGENT_REPORTS`, `BROADCAST_DATA`, generation and condition variable, `LAST_BROADCAST_SEEN` per thread | start, broadcast, wait for a broadcast, report, reset with its joins | evaluation (reset), waiter list | a broadcast in two critical sections, late receivers, agents that outlive a script | receivers see the broadcast they waited for or a later one; evaluations are isolated |
| Shared elements (`typedarray.rs`) | the bytes of a shared buffer | load, store, exchange, add, sub, compareExchange | all threads | read, compute and swap are separate critical sections; narrow elements wrap | every operation is atomic and returns the value it replaced |
| Promises (`vm.rs`) | `__promise_value__`, `__promise_rejected__`, `__then_queue__` per promise; the VM's `microtask_queue` | constructor, resolve, reject, then, settle, drain; all, any, race, allSettled, allKeyed, allSettledKeyed | timers and scripts (drain), async functions (nested drain) | callbacks that settle, register or drain again; thenables; getters that run in the middle of `then()` and of a resolve; elements that answer early, late or repeatedly | each reaction settles its derived promise once; nothing waits for a settled promise, but where a getter of `then()` settles it; order; a combinator's result is that of the first answers |
| Timers (`vm.rs`, `runner.rs`) | `pending_timers`, `cleared_timers`, `next_timer_id` | set, clear, `drain_timers`, `run` | promises, scripts run inside callbacks | nested runs share the two queues; throws drop a batch; intervals requeue themselves | no timer lost, doubled, overtaken or fired after it was cleared; runs end |
| Statements that leave blocks (`compiler.rs`, `runner.rs`) | compile time: `loop_stack`, `try_finally_stack`, `locals`; run time: `stack`, `frames`, `try_stack`, helper globals | try, loops, labels, switch, for-in, for-of, using; `SetupTry`, `TeardownTry`, `Throw`, `Return` | calls, generators, iterators | every pair of a block and a way to leave it | effects and completion of ECMAScript; handlers paired on every path |
| Generators, async functions (`vm.rs`, `runner.rs`) | saved stack, ip and try frames; `generator_return_pending` | next, return, throw, yield, await | promises, try statements | suspension inside expressions, loops and finally blocks | resumption restores what was saved |
| `Atomics.waitAsync` (`vm.rs`) | list of asynchronous waiters of a VM | waitAsync, notify, flush | timers (flush), promises | settled by notify or time-out | one outcome each |
| Modules, top-level await (`vm.rs`, `mod.rs`) | cache of records, `module_load_errors`, `suspended_module_states`, the flags of a suspension | load, evaluate, suspend, resume, dynamic and deferred import | promises, runs | cycles, failures, a suspension below an importer | dependencies first, nothing held forever, an import is of a module that is done |
| Map, Set and iteration (`vm.rs`, `value.rs`) | a vector of entries; positions and schedules of what goes through it | set, add, delete, clear; iterators, forEach, Set's methods | callbacks | mutation by the callback | each entry once, none passed over, in insertion order |
| Expressions, functions, classes, patterns (`compiler.rs`) | compile-time scopes | one arm per node | VM | size | meaning preserved |
| VM frames, objects, built-ins (`vm.rs`) | heap, globals, frames | ~150 opcodes, the library | all | size | ECMAScript's algorithms |
| Tokenizer, parser | none beyond a call | text to tree | compiler | grammar | accepts the language |
| Opcodes and chunks, values, descriptors, GC handles | encodings | | compiler, VM | | |
| Typed arrays, Date, RegExp, Intl, Temporal | buffers | conversions, calendars | | numeric edges | agreement with the standard's formulas |
| Evaluation API, REPL, errors, `js_std`, harness | | | | | |

What calls what: `evaluate_script` resets the agents (`js_agent`), builds a VM,
loads the graph of modules and calls `run`. `run` executes the chunk, drains
the microtasks, drains the timers in rounds and drains the microtasks again.
Built-ins called meanwhile may start a nested `run` (evalScript, modules) or a
nested drain (synchronous await). Agents are operating-system threads with a VM
each, and share with the host only what `js_agent.rs` and the shared buffers
hold.

The hazards these parts are exposed to are listed, with their lines and the
properties that cover them, in `PROJECT.json` under `hazards`.

## 2. Modules and the code

    WaiterList   <--refined by-- AtomicsWait      <--EXTENDS-- AtomicsProofs,      MCAtomicsWait
    AtomicCell   <--refined by-- SharedCell       <--EXTENDS-- AtomicsProofs,      MCSharedCell
                                 AgentThreads     <--EXTENDS-- AgentThreadsProofs, MCAgentThreads
                                 Promises         <--EXTENDS-- PromisesProofs,     MCPromises
                                 PromiseCombinators <--EXTENDS-- PromiseCombinatorsProofs, MCCombinators
                                 Timers           <--EXTENDS-- TimersProofs,       MCTimers
                                 ModuleGraph      <--EXTENDS-- ModuleGraphProofs,  MCModules
    InsertionOrder <--refined by-- KeyedCollections <--EXTENDS-- KeyedCollectionsProofs, MCKeyedCollections
    TryValues <--EXTENDS-- TryStatements, TryCompiler, StatementMeaning
    TryStatements <--EXTENDS-- TryNesting <--EXTENDS-- TryStatementsProofs
    TryStatements, TryCompiler, StatementMeaning <--EXTENDS-- TryPrograms
    TryPrograms, TryNesting <--EXTENDS-- MCTry

**AtomicsWait** (`js_agent.rs:129-198`). One action per step between two lock
operations. A thread is at `pc[a]`: `test` holds the waiter's mutex in the
loop of `atomics_wait`, `asleep` is `cv.wait`, `leave` is the removal under the
buffer's mutex; `visit` and `retain` are the two loops of `atomics_notify`,
which holds the buffer's mutex (`holder`) throughout but locks one waiter at a
time, so a deadline may fall between two of its visits. `Spurious` wakes a
sleeper for no reason; `Elapse` lets the time of a finite wait run out.
**WaiterList** is what it promises: a list of waiters in order of arrival, each
of which leaves by a notification, or by its timeout if it has one; the k-th
wake-up goes to the first that waits. The refinement maps a waiter's place in
the abstract list to its state (`Status`).

**SharedCell** (`typedarray.rs:366-433`, the Atomics built-ins at
`vm.rs:8015-8246`).
One action per call on the bytes of a shared buffer, which `js_agent` makes
under the buffer's mutex. `add`, `sub` and `exchange` read in one call and swap
in another, and retry if the bytes have changed. An element is a number modulo
`Modulus`, signed or not: what is stored and returned goes through `Encode` and
`Decode`, never the identity. **AtomicCell** is the cell with each operation in
one step.

**AgentThreads** (`js_agent.rs:34-62, 200-255`; `$262.agent` at
`vm.rs:5244-5340`). A broadcast is `Store` and
`Bump`, two critical sections; a receiver goes through `Wait`, `Sleep` and
`Receive`; `Reset`, `Join` and `Clear` are `reset_agent_state`. An agent that
throws ends with a report, as the thread's closure does. An agent may also call
`Atomics.wait` (`Block`, `Unblock`); who wakes it there, and when, is AtomicsWait.

**Promises** (`vm.rs`: constructor 23885-23935, resolving functions
14008-14025, `then` 31807-31879, `settle_promise` and resolution 4689-4816,
drain and the synchronous await 46671-46789).
`drains` is the Rust stack of `drain_microtasks` calls, each with what is left
of its batch and the task whose callback runs. JavaScript is whatever the
actions `New` .. `NestedDrain` allow, in a turn of the host or in a callback:
executors that throw after resolving, resolving with pending promises, settled
ones, thenables, and objects whose `then` getter runs more JavaScript.
`Promise.prototype.then` looks at its promise first and reads `constructor` and
`Symbol.species` afterwards (`vm.rs:31808-31843`): with getters there, `ThenReads`
takes the sample, JavaScript runs, and `ThenRegisters` acts on the sample,
whatever has become of the promise; `Then` is the call without getters. `late`
marks a reaction whose promise was settled in between.

**PromiseCombinators** (`vm.rs:13711-14007, 14189-14307`, the keyed forms at
3702-3872). The walk over the elements is at a `stage`: before or in a call of
the iterator, of the constructor's `resolve`, of an element's `then`, or of the
iterator's `return`. All of these are JavaScript, and `Answers`, an element
that calls one of the two functions it was given, may happen at any of them and
after the walk. An element is not assumed to be a well-behaved promise: it may
answer repeatedly and both ways. `OutcomeOfLog` is the reference: what the
result is according to ECMAScript, as a function of the log of what happened,
without slots and counters.

**Timers** (`run` at `runner.rs:19-38`, `drain_timers` at
`vm.rs:46793-46827`, set and clear at `vm.rs:23797-23822`). `frames` is the
stack of `run` calls with their phases; a nested run shares `pending` and
`cleared` with the outer ones and has batches of its own. The microtasks are
those of Promises: here they are a phase in which JavaScript runs.

**ModuleGraph** (`vm.rs:1592-1850, 2069-2265, 2607-2851`, `mod.rs:2961-3131`,
the await at `runner.rs:294-315`). `calls` is the Rust stack of the evaluation:
walks over a list of requests, evaluations of one module, bodies with the drain
that follows them, rounds that resume what is suspended. A program is a graph
of requests, which modules have a top-level await and which do not parse. Bodies
await, import dynamically, touch deferred namespaces, and throw.

**KeyedCollections** (`vm.rs:36936-37050, 37204-37450, 37884-37975,
40490-40500`). Entries are the vector; an iterator is an index into it,
`Map.prototype.forEach` a schedule of pairs, `Set.prototype.forEach` a schedule
of values that grows by what the callback added, and Set's methods look for
their place again by value after each call. **InsertionOrder** is what
ECMAScript says of all of them. The code departs from it in some situations;
`disturbed` records that a change was one of those (`DisturbsByPut`,
`DisturbsByRemoval`), and `FollowsInsertion` says that until then every step is
a step of InsertionOrder. So the property describes exactly where the code
follows the standard.

**TryCompiler, StatementMeaning, TryStatements, TryPrograms** (`compile_statement` and its
helpers in `compiler.rs`, the opcodes in `runner.rs`, `handle_throw` at
`vm.rs:46147-46193`, generators at `vm.rs:46276-46651`, async functions at
`runner.rs:317-359` and `vm.rs:4818-4893`). `Compile` translates a program, a
tree of statements, as the compiler does, with the loop stack, the stack of
enclosing try-finally statements and the slots of locals and helpers; jumps are
patched to instruction numbers. The statements are try, for, while, do, for-in,
for-of, labelled loops and blocks, switch, blocks and function bodies with
`using`, throw, return, break, continue, yield, await, calls and block
variables. TryStatements executes the result, one action per opcode, in a
script, a function, a generator or an async function; of the last two there may
be two activations, which the host resumes in any order and any way.
StatementMeaning is the reference: the completions of ECMAScript, written as a
recursion over the tree that knows nothing of handlers, slots or helpers.
TryStatements runs any code: what a program is compiled to is its constant
`Code`. TryPrograms puts the three together (`Code <- Compile`) and compares
what the VM does with the reference (`AsWritten`). An instruction also carries
how many handlers are active where it is compiled, which `HandlersNest` compares
with the handlers the VM has.

**TryNesting** says which code nests. Its levels are, for an instruction, what
is on the stack above each handler that is set up there: the handler's catch
address and binding, and the least number of values. `NestsAt(p, at)` is a
condition on single instructions and those that follow them (`Following`,
`Fits`), as a verifier of byte code has: `SetupTry` adds a level, `TeardownTry`
takes one off, a push and a pop change the topmost, where two ways meet the
levels agree, and the catch block of a level begins with the levels below it.
It is about the compiler's output alone and says nothing of calls, throws,
suspensions or depths; MCTry finds the levels of every program by following
its code, and TLC evaluates `NestingAssumption`, that they satisfy `NestsAt`,
for all of them. The shapes for which the compiler leaves a handler behind
(below) have no levels.

## 3. Runs

| Run | Asks | Instance | States |
|---|---|---|---|
| AtomicsWait | no wake-up lost, doubled or miscounted; refinement; every wait that is notified or timed returns | 3 agents, 2 cells, 3 waits, counts 1 and all | 212,989 |
| Promises | one holder for every derived promise; nobody left waiting but by getters of then(); outcomes kept; the queue empties | 3 promises, 2 entries, drains two deep, 3 batches | 432,112 |
| PromisesOrder | order within a drain and between nested ones | 2 promises, 5 entries, drains three deep, 3 batches | 2,711,074 |
| Combinators | the result is that of the first answers | all six, 3 elements, 3 answers, 2 errors | 475,964 |
| Timers | every timer accounted for; cleared ones quiet; no overtaking; runs end | 3 timers, 2 delays, 2 runs, 2 rounds | 1,063,622 |
| TimersClear | a cleared timer never fires (violated) | as Timers | |
| AgentThreads | evaluations isolated; nothing stale; broadcasts delivered; resets return | host, 2 agents, 3 broadcasts, 2 evaluations | 27,748 |
| SharedCell | every operation is one atomic step and returns | 2 threads, 2 calls each, 2-bit signed element | 67,160 |
| TryStatements | effects and completion as written; handlers paired; programs end | 3,482 programs | 274,345 |
| TryNested | as written, break out of two try-finally (violated) | scripts | |
| Modules | dependencies first, once; nothing held forever; imports are of modules that are done; evaluation ends | main and 3 modules, 1 await each, 1 import | 927,661 |
| Collections | nothing visited twice or missed; insertion order | 3 keys, 2 values, 4 changes | 210,742 |

Why the bounds suffice. *AtomicsWait*: three threads are a notifier and two
waiters of one queue, the least for a wrong order or an index that shifts; a
waiter that times out between two others needs the third wait; a second cell
separates the queues. *Promises*: three promises are a chain whose middle is
derived, resolved and linked; MaxRounds is the thousand of the code.
*PromisesOrder*: one task runs in each of three nested drains while others are
left in its batch and in the queue, which takes five entries; two promises are
enough to queue them. *Combinators*: two answers of one element and one of another are
the least that fills one slot twice while another is open; the third element is
the one that has not been reached. *Timers*: two equal delays and a different
one need three timers; a nested run needs two runs. *AgentThreads*: two agents
are needed for a wake-up that reaches one of them only, three broadcasts for
one that is missed, a second evaluation for the reset. *SharedCell*: an element
of two bits, signed, wraps in both directions. *Modules*: main requests a and
b; the edges of a, b and c give every shape of chain, diamond, and cycle of up
to three with main, each with every set of top-level awaits, with one deferred
edge and with a module that does not parse; one await suspends a body once, and
what is resumed may wait again for others. *Collections*: three keys are the
entry visited, one behind and one ahead; four changes delete and add again.

*TryStatements* has the families of `MCTry`, each followed by an effect that
shows what comes after, and each with an effect in every finally and catch:

- functions and scripts: one try statement, every block of which may do
  nothing, throw or (in a function) return; recursion in its try or catch
  block; a try statement in the body, the catch block or the finally of another;
- loops of the forms for, while and do, left by each kind of jump, around a
  try-finally, one in another, left or continued by a label, with block
  variables; labelled blocks; for-in, whose object may lose a key;
- switch, with `default` in each place, in loops and around try statements;
- blocks and function bodies with one or two `using` resources, which may be
  null, fail to initialize or throw when disposed of;
- for-of over iterators that are exhausted or throw, whose return method is
  missing, logs or throws; one in another, in and around try statements, and
  left by a label;
- generators that yield in the body or catch block of one or two try statements
  or in a for-of, one or two objects of a function, sent `next`, `throw` and
  `return` in every order;
- async functions that await in a body, a catch block, a finally or a for-of,
  one or two calls, with either outcome.

A variable of a body, whose value is an effect at its end, shows a slot that is
off.

### Programs and situations left out because the code departs from ECMAScript

The runs that fail show two departures. The others below are excluded from
the families, or named in the property, so that the runs that pass are about
everything else. Those marked (model) were seen as counterexamples of the same
properties before they were excluded; the others come from reading.

*Try statements and loops.*
- A jump out of two try-finally statements (TryNested; also `return` and
  `continue`): only the inner finally runs (model).
- Locals after or around a try-finally of a function: the helpers of the
  statement are pushed as locals and forgotten without a Pop
  (`compiler.rs:3085-3092`), so a later block variable reads a dead helper
  (model: `Programs <- MCLetAfterTry` violates `AsWritten`), and in a loop the
  second iteration tests the first one's action.
- `break` and `continue` out of a try-catch without a finally inside a loop
  leave its handler on `try_stack` (`compiler.rs:1993-2039`) (model).
- A labelled `continue` through a finally of an inner loop with a `let` counter
  pops no locals, so the outer loop reads stale slots (model). An unlabelled
  `break` inside a labelled block inside a loop leaves only the block.
- Recursion inside a finally overwrites the global in which the pending
  exception waits (model); so do two generators suspended in one.
- `break` of a loop that is itself inside a try-finally is treated as leaving
  the try statement (`compiler.rs:3019-3070`); function bodies nested in a
  try-finally do not start with an empty `try_finally_stack`.
- In a generator, `return` inside a try with a finally skips it
  (`compiler.rs:1856-1866`) (model).

*Switch, using.* A `let` directly in a case clause shifts the slots
(`compiler.rs:4253-4298`); a labelled switch hands its label to the first loop
inside; the switch's value is a global, which recursion in a case expression
deletes. A jump out of a block with `using` does not dispose; a return inside a
try-catch of a body with `using` takes the wrong handler off; a disposer that
throws `undefined` is lost; resources are globals, which recursion overwrites. On the
path on which a disposer throws, the code leaves the resource on the stack
(`compiler.rs:7776-7786, 7865-7906`) and the model does not: such a path ends in a
throw, which cuts the stack.

*for-of.* `continue` leaves the loop's handler behind; `return` and `break` in a
for-of inside a try-finally, or from a try statement inside it, and `return` in
a generator, do not close the iterator or take the wrong handler off
(model); labelled jumps out of nested for-of loops of a function pop the
iterator before they close it (`compiler.rs:1993-2026`); the pending exception
is one global.

*Generators.* `generator_return_pending` is one flag of the VM: a throw in a
finally that `return()` runs is swallowed (the comment at `vm.rs:46632-46633`
knows of it), catch-only handlers inside such a finally are skipped, and so are
those of the host after a yield in it (model). The families have no yield or
throw there.

*Promises.* A `then()` whose `constructor` or species getter settles the promise
leaves its reaction in the queue of a settled promise, and the derived promise
stays pending for good: with `thenQueue[p] = <<>>` in the place of `late`,
`NobodyLeftWaiting` fails (model). The comments in `then` (`vm.rs:31842`, `31868`)
are about the promise as it was before the getters. While a resolve waits for a
thenable or a pending promise, a second one of the same promise is taken; the
links of a promise to itself are in section 5.

*Modules.* `suspend_on_module_await` is set before every dependency that is
evaluated (`vm.rs:2757`), one with a top-level await or not, and is reset only
where something suspends. So it may be set when the main module runs: its first
top-level await then suspends it, its `run` returns, it is recorded as evaluated
(`mod.rs:3128-3130`), and what follows the await never runs (model:
`status[Main] = "Evaluated" => Main \in ended` fails, with a dependency that has
no await). `ImportedInFull` shows that no other module is cut like this. An
import that a callback makes in the drain of a body that has just
been suspended takes its `module_await_suspended` (model: with
`ImportsInSuspension = TRUE`, `ImportedInFull` and `DependenciesFirst` fail). An
importer is resumed although a dependency it waits for has failed; a walk that
throws leaves suspended modules behind (`orphaned`);
the health check after loading looks at direct requests only; a module of a
cycle that failed stays evaluated; an importer whose request is deferred does
not wait for the async dependencies of the deferred module.

*Map and Set.* An iterator skips an entry when one it has passed is deleted; a
Map's forEach visits an overwritten entry again, forever if the callback
overwrites each time; an entry deleted and added again may be missed or keep
its place; a method of Set loses its place when the current value and one
before it are deleted in one call (all model; the conditions are
`DisturbsByPut` and `DisturbsByRemoval`).

*Timers.* `clearTimeout` of an id that has not been handed out silences the
timer that gets it; the model clears timers that exist.

### Fairness

- AtomicsWait: a thread inside a call is scheduled, and time passes. Threads
  need not call `wait` or `notify`: `WaitsReturn` says what a notification or a
  deadline causes, not that there is one.
- Promises: the VM goes on draining (weak fairness of `Engine`), a call that runs
  JavaScript, such as an executor or the getters of a `then()`, ends (`CallEnds`),
  and a callback ends even if it makes such calls time and again: strong fairness
  of `CallbackEnds`, since each call disables the end for a while. Nothing makes a
  script settle a promise. `QueueEmpties` holds up to MaxRounds batches, beyond
  which the code leaves tasks behind. PromisesOrder has no fairness.
- Timers: the VM goes on, and the JavaScript of a phase ends.
- AgentThreads: threads inside a call are scheduled, the host's joins and clearing
  go on, and the script of an agent ends, even if it calls `Atomics.wait` or
  `wait_for_broadcast` time and again (strong fairness of `End`). Fairness wakes no
  agent in either call: `ResetReturns` excepts a reset that joins an agent which
  stays in `Atomics.wait` for ever, or for ever waits for a broadcast later than
  the last it has seen, because the code's reset hangs there too. An agent that
  waits only for a while is no exception.
- SharedCell: a thread inside an operation is scheduled. The retry loop ends
  because the other threads' operations are bounded (`MaxCalls`), not because
  of fairness: the loop is lock-free, not wait-free.
- TryStatements: the VM goes on; what is sent to a generator is bounded.
- Modules: the VM goes on and bodies do not loop (weak fairness of `Next`; the
  evaluation is one thread, and awaits and imports are bounded).

The condition variables' mutexes are those of the operating system: a lock that
is released is eventually obtained. Strong fairness is assumed of the end of a
callback and of an agent's script only, which are assumptions on the scripts.
The other runs check safety only: Combinators, because elements need not
answer; Collections, because a callback may add entries as long as it likes.

### What the failing runs show

- **TimersClear.** A timer callback clears a timer of its own batch and starts
  another run (`evalScript`). That run's `drain_timers` ends by emptying
  `cleared_timers` (`vm.rs:46825`); the outer batch no longer finds the timer
  in it, and fires it. `ClearedIsQuiet`, which passes, says that this is the only
  way a cleared timer fires.
- **TryNested.** A `break` out of two try statements with a finally runs the
  inner one and leaves the loop by a plain jump.

## 4. Proofs

**AtomicsProofs**, for any sets of agents and cells and any number of
waits:

- `TypeCorrect`, `Findable`, `OutcomeSound`, `Exhaustive`: `Spec => []P` for
  `TypeOK`, `StillFindable`, `OutcomeAgrees` and `NotifyExhausts`.
- `Counted`: `Spec => []EveryWakeCounted`.
- `Implements`: `Spec => ListSpec`, the refinement of WaiterList.

None of these is inductive alone. The invariant `IInv` adds: who is inside a
notify (`HolderInv`), that a count begins at zero (`IdleInv`), that a thread in
a wait has a waiter that was queued, which is complete once the thread is about
to leave (`MineInv`), that a queue holds waiters of its own cell, each once, in
the order of arrival (`QueueInv`), that a waiter that was notified or has its
outcome is complete (`StateInv`), and that what a notify has visited is complete
(`VisitInv`), without which its count says nothing about the rest of the queue. The lemmas `DropAtFacts`, `WithoutFacts`,
`DropAtKeeps`, `DropComplete` and `Unmoved` say what the removals from a queue keep;
`InitIInv` and `NextIInv`, with a step for every action, give `Inductive`.
`Counted` needs cardinalities: a wake-up adds one waiter to a finite set
(`WokenFinite`, `CountedNext`, on the library's facts about cardinality).
`Implements` shows that the initial states agree (`ListInit`) and that every
step is a step of the list or leaves it alone (`ListNext`, `ListStutter`).

and, of SharedCell, for any number of threads, any modulus, signed or unsigned,
any operands:

- `CellTypeCorrect`: `SharedSpec => []CellTypeOK`; the values stored are values of the
  element's width (`Conversions`, `UpdatedIsRaw`, `ResultIsInt`).
- `OneStep`: `SharedSpec => OneStepEach`. The step in which the swap
  succeeds is where the loop takes effect; the old value it was computed from
  is, then, the cell's.

**AgentThreadsProofs**, for any agents and any number of broadcasts and
evaluations: `TypeCorrect`, `NothingStale` (NotStale) and `EvaluationsIsolated`
(Isolated). A broadcast stores its data before it raises the generation, so
neither property speaks of the state between. `CountInv` does: the generation
and the threads in the middle of a broadcast add up to the stores of the data
(`GenerationBounded`). A receiver that sees a generation therefore reads that
many stores or more. `HandlesInv` says that every thread has a handle until it
is joined, and `StoringInv` that who is in a broadcast is running a script:
with no thread left, nobody can raise the generation after the reset.

**TimersProofs**, for any number of timers, runs, rounds and delays:
`TypeCorrect`, `NoneLostOrDoubled` (Accounted), `ClearedStaysQuiet`
(ClearedIsQuiet) and `FireInOrder` (NoOvertaking). `PlaceInv` says that a timer
is in `pending_timers`, in one batch of one run, or is the interval whose
callback a run is in, and in no two of these, over all nested runs. `GoneInv`
accounts for those in no place, `ClearedInv` says that what was cleared and not
forgotten would be skipped or is nowhere, and `OrderInv` that batches are sorted
and `pending_timers` is behind all of them. Sorting is a permutation by rank:
the lemmas about it show that it keeps every timer once and orders timeouts by
their delay.

**PromisesProofs**, for any number of promises, reactions, drains and batches:
`TypeCorrect`, `HeldByOne` (OneHolder), `NoReactionForgotten`
(NobodyLeftWaiting), `TasksInOrder` (InOrder) and `OutcomesKept` (OutcomeKept).
The queues of waiting reactions, the queue of microtasks, and the batch and the
running task of every nested drain are made one function, `Place`, from sites to
sequences. `Accounts` says that the functions of a promise that `then` made are
at one site, once, exactly while it is pending. A step adds to the content of
one site, moves it to another, or drops what it settles, and the lemmas about
these are stated of functions of sites, so that each action needs only to say
what it does to the sites. `StoreInv` adds that only a late reaction waits for what is
settled, that every drain has begun only tasks older than those it, the drains
inside it and the queue still have, and that the ages of tasks ascend from the
batch of the outermost drain to that of the innermost and on to the queue.
`NoReactionForgotten` therefore says that settling, links and executors leave no
reaction behind, and that `then()` does only by way of its getters.

**PromiseCombinatorsProofs**, for any number of elements and answers:
`TypeCorrect` and `Gathers` (AsGathered). `StateInv` ties the state to the log
of what happened: a slot is filled when the log has an answer that counts, and
holds the first one (`SlotInv`); what remains is the open slots, and one for the
walk until it is done (`CountInv`); at each stage of the walk the log has certain
events (`LogInv`, `WalkInv`). Hence the counter is zero exactly when the log is
complete (`CompleteWhenNoneRemains`). The rest is about logs alone, with the
definitions restated free of the state (`StateFree`): an event that decides goes
on deciding however the log grows (`StaysDecided`), one that does not decide
leaves it open (`StaysOpen`), and the first that does gives the outcome
(`Decides`). `OutcomeStep` joins the two.

**KeyedCollectionsProofs**, for any keys and values, any number of iterators
and of changes: `TypeCorrect`, `VisitsOnce` (VisitedOnce), `MissesNothing`
(NothingMissed) and `Follows` (FollowsInsertion: every step, until a change
disturbs the way, is a step of InsertionOrder). A way through the collection
does not keep its place in a form the deletions respect: an iterator has an
index, `Map.prototype.forEach` a schedule of pairs taken at its start,
`Set.prototype.forEach` a schedule of values, Set's methods a value they look
up again. `IInv` therefore has a conjunct for each, which says which entries
are behind and which are ahead. `IteratorInv`: while nothing disturbed it, the
visited entries are those before the index. `MapInv`: the schedule has no pair
twice, what was visited is behind its position, and an entry that is not
scheduled is younger than all that are. `SetInv`: behind the position is what
was visited, and what is ahead, followed by what the callback has added so far
(`ToCome`), is the rest of the collection in order. `MethodInv`: the index is
that of the current value, or of what took its place. Under these are `Base`
(types, an entry is born once, what was visited had been born) and the lemmas
about the vector of entries: what an overwriting `set`, a new one and a removal
do to the places of keys (`PutExisting`, `PutNew`, `RemoveFacts`). The
refinement follows from the same invariant, one lemma for each kind of way
(`IteratorRefines` and its kin), joined in `StepRefines`.

**ModuleGraphProofs**, for any finite set of modules, any programs and any
number of awaits and imports: `TypeCorrect`, `HeldUntilRun` (HeldUntilResumed),
and, unless a callback imports or touches something between a suspension and the
return of the run (`~ImportsInSuspension`), `Imported` (ImportedInFull) and
`RequestsFirst` (DependenciesFirst). For these two the hypothesis is needed: TLC
refutes both properties without it (below, Modules). `StackInv` describes the
stack of calls: which call can be on which (`AdjacentInv`), that what is thrown
is on its way up (`ThrowInv`), that the main module is not requested again
(`MainInv`), that no module is evaluated by two calls (`OneCallEach`) and that
the calls and the statuses agree (`StatusInv`), that a module is EvaluatingAsync
exactly while it is in one of the places where suspended ones are held, once
(`HeldInv`), and that who has a record has loaded what it requests (`LoadInv`).
Of the resumption, `RoundInv` says that what a round has put back still waits as
long as the round has run nothing, and `SettledInv` that nothing is suspended
between two outermost walks unless one threw; callbacks in the main module's own
drain are left out of it, for a walk there may take the main module's suspension
for its own. `SuspendInv` is what excludes that elsewhere: what is touched does
not await, and a suspension that is not done with is that of a drain on the
stack (`NothingSuspends`). That two modules never wait for each other is
`SomeoneRuns`: among the suspended modules, one that reaches the fewest waits
for none outside its own cycle, so a round always runs something.

`FullInv` adds, under the hypothesis, that the flag of a suspension belongs to
the drain on top, that a drain follows the end of its body, and that what a
touch reaches is `Quiet`: nothing in it is suspended or will be, since the
readiness that was tested is closed under requests. That requests come first is
an action property, and `OrderInv` is what makes every step that begins a body
satisfy it: who has not begun has no start on record (`StartInv`); while a call
waits for the walk over its requests, each of them is `Seen` (evaluated,
suspended, or failed late), under way no further up than that walk, still in the
walk's list, or the walk was broken off (`ExpectInv`); and who was suspended
before it began waits for the same (`WaitInv`), which the failure of a request
leaves true because it counts as late. Then a body begins from `ensure` when
nothing of that is suspended, from the host when nothing is (`SettledInv`), and
from a round when what is suspended is in its cycle. The lists of a walk are
recursive functions; `Recursion` shows that such a function exists by induction
over its steps, with `NumbersFrom` for what the library's theorem cannot be
instantiated for.

**TryStatementsProofs**, for any programs whose code nests, of any length and
depth of nesting, any number of generators and calls and of what they are sent:
`TypeCorrect` (TypeOK) and `HandlersMatch` (HandlersNest). Both have the
hypothesis `\A p \in Programs : Nests(p)`. It is what the VM takes for granted
of the compiler; TLC evaluates it for the 3,482 programs of the run. The
theorems are about everything the hypothesis does not speak of: that
`handle_throw` cuts the stack to a height at which the catch block, in this
frame or in a caller's, finds what it was compiled for; that `Return` takes the
handlers of its function along and no other; that a yield or an await saves the
handlers of one activation, relative to its base, and a resumption puts them
back at another depth of the stack with the right frame, also when `throw` or
`return` unwinds at once; and that two activations do not disturb each other.
Neither property is inductive: `HandlersNest` counts the handlers of the running
frame, but after a return or a throw another frame runs, whose handlers and
values must have been kept. The invariant `TryInv(at)` says of every frame that
the levels of the instruction it is at, or will return to, describe its part of
`try_stack` and of the stack (`Stands`, `Segments`, `Holds`), and of every
suspended generator and async function that the levels of the instruction it
goes on at describe what it has saved (`Waits`, `OthersKept`). `Holds` bounds
the values between any two handlers, not only between neighbours, so that a
handler may be taken off between two others. TLC found `TryInv` to hold on all
states of the run TryStatements before it was proved. The lemmas `NewTop`,
`PushFrame`, `DropFrames`, `Unwinds` and `OneSegment` say what becomes of the
frames' levels when the innermost frame goes on, is pushed, returns, unwinds or
is alone; each action then has one lemma (`PushKeeps` to `SendAbruptKeeps`),
joined in `StepKeeps` and `HostKeeps`.

The assumptions are those the modules state of their constants, and the
hypotheses named above. Model-checked only: all liveness, since the prover does
not reason about fairness; that the compiler's code nests, and `AsWritten`,
which compare TryCompiler and StatementMeaning: both recurse over statements by
RECURSIVE operators, and a proof would be an induction over programs.

## 5. What is not modelled

- Promises: `finally`, `Promise.try`, constructors of subclasses and the
  reporting of unhandled rejections. In PromiseCombinators the values elements
  answer with are plain: that a combinator's result resolved with a thenable
  goes on to that thenable is part of Promises. A handler of `then` that
  returns the promise that this `then` made links it to itself
  (`vm.rs:46765`): that promise never settles; ECMAScript has a TypeError here.
- Timers: `flush_async_atomics_waits`, called in the same rounds, belongs to
  `Atomics.waitAsync`, which is not modelled: its waiters are in a list of the
  VM that no other thread's notify reaches, and the flush settles every finite
  one as timed out whatever its time. Delays order a batch; nothing sleeps, as
  in the code.
- AtomicsWait begins where the waiter is queued: the comparison of the cell's
  value before it is made by the caller (`vm.rs:7410`), with no lock over both.
- AgentThreads has one host: its state is global to the process, and two VMs on
  two host threads would share it.
- TryStatements: `await using`, `using` in the head of a for, for-await,
  destructuring in heads, completion values.
- Generators: async generators, `yield*`, a generator that resumes itself or
  another, and the synchronous await of a script, which Promises has as a nested
  drain.
- Modules: linking (the resolution of exports), `import.source`, synthetic
  modules of JSON and text.
- Iteration: iterator helpers, destructuring, `getOrInsertComputed`.
- The tokenizer, the parser and the translation of expressions are functions of
  their input: a model would repeat the grammar. The library's conversions,
  calendars, formatting and regular expressions have no interaction; they are
  most of the lines of `src/core/vm.rs` and of the files beside it, and the
  reason why the modelled share of the whole is small. REPL, file input and
  output, and the harness are input and output.

## 6. Plan

Done, in this order: the waiter list, its refinement and proofs; promises;
timers; agents; shared elements and their proofs; try statements, loops,
switch, using and for-of; generators and async functions; modules with top-level
await; Map and Set under mutation; the combinators; the proofs of agents,
timers, promises, combinators, keyed collections and modules; the proof that
handlers nest.

Next, in order of weight:

1. **AsyncWaits**: `Atomics.waitAsync`, notify and flush, composed with Timers.
   Abstract specification: WaiterList again.
2. **Promise.finally**, and reactions whose constructor is a subclass, in
   Promises.
3. **Async generators** and `yield*`: the queue of requests of an async
   generator. Abstract specification: a coroutine.
4. **Descriptors** (validation of defineProperty) and **DisposableStack**.
5. **Operators** checked against references over bounded inputs: ToInt32 and
   its kin, date from days, half-precision conversion, base64, the REPL's
   completeness test.
6. **Proof** that the compiler's code nests, for programs without the shapes
   named in section 3: a recursion over statements, with the levels before and
   after a statement.

## 7. Running

    tlc -workers 2 -config MCAtomicsWait.cfg MCAtomicsWait
    tlapm AtomicsProofs.tla

Each run is a module and a `.cfg` of this directory (MCTryNested.cfg belongs to
MCTry, MCTimersClear.cfg to MCTimers, MCPromisesOrder.cfg to MCPromises). The runs
take between a few seconds and about two minutes; the proofs of promises,
timers, combinators, modules and try statements take some minutes each from
nothing.
