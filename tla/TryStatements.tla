---------------------------- MODULE TryStatements ---------------------------
(***************************************************************************)
(* The VM runs the code of a program, which TryPrograms takes from         *)
(* TryCompiler: run_inner's opcodes for locals, jumps, calls and try       *)
(* frames, and handle_throw.                                               *)
(* A function is called by a host that has no handlers.  Of a generator    *)
(* function the host has `instances` objects, and it sends them next,      *)
(* throw and return (resume_generator) in any order, as far as the         *)
(* program's `sends` allow.  Of an async function there are as many calls: *)
(* the first next is the call, the others are the outcomes of what it      *)
(* awaits (resume_async_function).                                         *)
(***************************************************************************)
EXTENDS TryValues, FiniteSets, SequencesExt

CONSTANTS
    Programs,   \* what is run
    Code(_),    \* of a program: its instructions
    MaxLog,     \* bound: effects of a program; none has as many
    MaxSent     \* bound: what is sent to a generator

ASSUME LogAssumption == MaxLog \in Nat /\ MaxSent \in Nat

\* The host has generators of a generator function, calls of an async one, and
\* runs any other program itself.
ASSUME ProgramsAssumption ==
    \A p \in Programs :
        /\ p.kind \in {"script", "function", "generator", "async"}
        /\ p.instances \in Nat
        /\ p.instances > 0 <=> p.kind \in {"generator", "async"}
        /\ p.sends \subseteq {"next", "throw", "return"}

VARIABLES
    program,   \* which program runs
    chunk,     \* ... and its code
    ip,
    stack,     \* a function and, above it, its locals; other values do not
               \* outlive the statement that pushed them
    frames,    \* bp and return_ip of each call
    tries,     \* try_stack: catch_ip, stack_depth, frame_depth, catch_binding
    globals,   \* the globals the compiler made up
    log,       \* the effects
    completion, \* how the program ended, or Running; Suspended by a yield
    returning, \* generator_return_pending, None if it is not set
    sent,      \* what the generator was sent
    others     \* the other generators: their state and, of each, the log, what
               \* was sent and the completion

memory == <<stack, frames, tries, globals>>
generators == <<returning, sent, others>>
vars == <<program, chunk, ip, memory, log, completion, generators>>

Running == <<"running">>
Function == <<0, "function">>
None == <<"none">>

\* create_generator_object
Created == [ip |-> 1, bp |-> 1, locals |-> <<Number(1)>>, tries |-> <<>>,
            log |-> <<>>, sent |-> <<>>, completion |-> Suspended]

Init ==
    /\ program \in Programs
    /\ chunk = Code(program)
    /\ ip = 1
    /\ stack = IF program.kind # "script" THEN <<Function, Number(1)>> ELSE <<>>
    /\ frames = IF program.kind # "script" THEN <<[bp |-> 1, back |-> 0]>> ELSE <<>>
    /\ tries = <<>>
    /\ globals = [name \in {} |-> Undefined]
    /\ log = <<>>
    /\ completion = IF program.instances > 0 THEN Suspended ELSE Running
    /\ returning = None /\ sent = <<>>
    /\ others = [i \in 1 .. program.instances - 1 |-> Created]

----------------------------------------------------------------------------
(* Opcodes.                                                                 *)

Instruction == chunk[ip]
At(op) == completion = Running /\ Len(log) < MaxLog /\ Instruction.op = op

Bp == IF frames = <<>> THEN 0 ELSE Last(frames).bp
Value(slot) == IF slot.local = 0 THEN globals[slot.name] ELSE stack[Bp + slot.local]

Goto(target) == ip' = target
Onward == Goto(ip + 1)

PushOp ==
    /\ At("push") /\ Onward
    /\ stack' = Append(stack, Instruction.value)
    /\ UNCHANGED <<program, chunk, frames, tries, globals, log, completion, generators>>

PushSlot ==
    /\ At("pushSlot") /\ Onward
    /\ stack' = Append(stack, Value(Instruction.slot))
    /\ UNCHANGED <<program, chunk, frames, tries, globals, log, completion, generators>>

Pop ==
    /\ At("pop") /\ Onward
    /\ stack' = Front(stack)
    /\ UNCHANGED <<program, chunk, frames, tries, globals, log, completion, generators>>

Define ==
    /\ At("define") /\ Onward
    /\ globals' = (Instruction.name :> Instruction.value) @@ globals
    /\ UNCHANGED <<program, chunk, stack, frames, tries, log, completion, generators>>

\* The value of a helper, of the loop's counter or its item.
Store(slot, v, st) ==
    IF slot.local = 0
    THEN globals' = (slot.name :> v) @@ globals /\ stack' = st
    ELSE stack' = [st EXCEPT ![Bp + slot.local] = v] /\ globals' = globals

\* The new error, and the one it suppresses.
Suppressed == <<0, "suppressed", Value(Instruction.from), Value(Instruction.slot)>>

Assigned ==
    CASE Instruction.op = "assign" -> Instruction.value
      [] Instruction.op = "assignTop" -> Last(stack)
      [] Instruction.op = "copy" -> Value(Instruction.from)
      [] Instruction.op = "suppress" -> Suppressed
      [] Instruction.op = "key" -> Key(Value(Instruction.from)[1] + 1, Instruction.n)

AssignOp ==
    /\ \E op \in {"assign", "assignTop", "copy", "suppress", "key"} : At(op)
    /\ Onward
    /\ Store(Instruction.slot, Assigned, stack)
    /\ UNCHANGED <<program, chunk, frames, tries, log, completion, generators>>

\* The second key of the object is removed.
RemoveKey ==
    /\ At("remove") /\ Onward
    /\ Store(Instruction.slot, [Value(Instruction.slot) EXCEPT ![1] = 1], stack)
    /\ log' = Append(log, <<Value(Instruction.slot)[3], "removed">>)
    /\ UNCHANGED <<program, chunk, frames, tries, completion, generators>>

\* The global goes.
DeleteOp ==
    /\ At("delete") /\ Onward
    /\ globals' = [name \in DOMAIN globals \ {Instruction.name} |-> globals[name]]
    /\ UNCHANGED <<program, chunk, stack, frames, tries, log, completion, generators>>

Increment ==
    /\ At("increment") /\ Onward
    /\ Store(Instruction.slot, Number(Value(Instruction.slot)[1] + 1), stack)
    /\ UNCHANGED <<program, chunk, frames, tries, log, completion, generators>>

\* SetLocal and Pop, or DefineGlobal.
Bind ==
    /\ At("bind") /\ Onward
    /\ Store(Instruction.slot, Last(stack), Front(stack))
    /\ UNCHANGED <<program, chunk, frames, tries, log, completion, generators>>

JumpOp ==
    /\ At("jump") /\ Goto(Instruction.to)
    /\ UNCHANGED <<program, chunk, memory, log, completion, generators>>

\* null is loosely equal to undefined.
Equal(v, w) == v = w \/ {v, w} = {Null, Undefined}

JumpUnlessOp ==
    /\ At("jumpUnless") \/ At("jumpIf")
    /\ IF Equal(Value(Instruction.slot), Instruction.value) = (Instruction.op = "jumpUnless")
       THEN Onward ELSE Goto(Instruction.to)
    /\ UNCHANGED <<program, chunk, memory, log, completion, generators>>

\* i < limit
Test ==
    /\ At("test") \/ At("testAgain")
    /\ IF (Value(Instruction.slot)[1] < Instruction.limit) = (Instruction.op = "test")
       THEN Onward ELSE Goto(Instruction.to)
    /\ UNCHANGED <<program, chunk, memory, log, completion, generators>>

\* key in object
JumpUnlessIn ==
    /\ At("jumpUnlessIn")
    /\ IF Value(Instruction.slot)[1] <= Value(Instruction.object)[1] THEN Onward
       ELSE Goto(Instruction.to)
    /\ UNCHANGED <<program, chunk, memory, log, completion, generators>>

LogOp ==
    /\ At("log") \/ At("logSlot")
    /\ log' = Append(log, IF Instruction.op = "log" THEN Instruction.value
                          ELSE Value(Instruction.slot))
    /\ Onward
    /\ UNCHANGED <<program, chunk, memory, completion, generators>>

Call ==
    /\ At("call") /\ Goto(1)
    /\ stack' = stack \o <<Function, Number(stack[Bp + 1][1] - 1)>>
    /\ frames' = Append(frames, [bp |-> Len(stack) + 1, back |-> ip + 1])
    /\ UNCHANGED <<program, chunk, tries, globals, log, completion, generators>>

KeepAll(depth) == tries

\* The try frames that the returning function set up go with it.
KeptByReturn(depth) ==
    SubSeq(tries, 1, Max({0} \cup {n \in DOMAIN tries : tries[n].frameDepth <= depth}))

Returned == IF Instruction.op = "return" THEN Instruction.value ELSE Value(Instruction.slot)
Completion(v) == IF v = Undefined THEN <<"normal">> ELSE <<"return", v>>

Return ==
    /\ At("return") \/ At("returnSlot")
    /\ frames # <<>>
    /\ tries' = KeptByReturn(Len(frames) - 1)
    /\ stack' = SubSeq(stack, 1, Bp - 1)
    /\ frames' = Front(frames)
    /\ IF Last(frames).back = 0
       THEN completion' = Completion(Returned) /\ Goto(ip)
       ELSE Goto(Last(frames).back) /\ UNCHANGED completion
    /\ returning' = None
    /\ UNCHANGED <<program, chunk, globals, log, sent, others>>

ScriptEnds ==
    /\ At("return")
    /\ frames = <<>>
    /\ completion' = Completion(Returned)
    /\ UNCHANGED <<program, chunk, ip, memory, log, generators>>

SetupTryOp ==
    /\ At("setupTry") /\ Onward
    /\ tries' = Append(tries, [catch |-> Instruction.to, binding |-> Instruction.binding,
                               forFinally |-> Instruction.forFinally,
                               depth |-> Len(stack), frameDepth |-> Len(frames)])
    /\ UNCHANGED <<program, chunk, stack, frames, globals, log, completion, generators>>

TeardownTryOp ==
    /\ At("teardownTry") /\ Onward
    /\ tries' = Front(tries)
    /\ UNCHANGED <<program, chunk, stack, frames, globals, log, completion, generators>>

LogTop ==
    /\ At("logTop") /\ Onward
    /\ log' = Append(log, Last(stack))
    /\ stack' = Front(stack)
    /\ UNCHANGED <<program, chunk, frames, tries, globals, completion, generators>>

JumpUnlessReturn ==
    /\ At("jumpUnlessReturn")
    /\ IF returning # None THEN Onward ELSE Goto(Instruction.to)
    /\ UNCHANGED <<program, chunk, memory, log, completion, generators>>

----------------------------------------------------------------------------
(* Iterators.  One is referred to by its loop only: its state is in the     *)
(* slot of the loop's iterator.                                             *)

Spent(iterator) == iterator[1] = 0

Iterate ==
    LET iterator == Value(Instruction.slot) IN
    /\ At("iterate") /\ Onward
    /\ ~Spent(iterator)
    /\ Store(Instruction.slot, [iterator EXCEPT ![1] = @ - 1],
             Append(stack, Item(iterator[1], iterator[3])))
    /\ UNCHANGED <<program, chunk, frames, tries, log, completion, generators>>

IterateDone ==
    /\ At("iterate") /\ Goto(Instruction.to)
    /\ Spent(Value(Instruction.slot)) /\ Value(Instruction.slot)[4] = "done"
    /\ UNCHANGED <<program, chunk, memory, log, completion, generators>>

\* The effect of the return method.
LogsClosing(iterator) ==
    IF iterator[5] = "none" THEN log ELSE Append(log, <<iterator[3], "closed">>)

\* IteratorClose, and the best-effort IteratorCloseAbrupt, which swallows what
\* the return method throws.
Close ==
    /\ \/ At("close") /\ Value(Instruction.slot)[5] # "throws"
       \/ At("closeAbrupt")
    /\ Onward
    /\ log' = LogsClosing(Value(Instruction.slot))
    /\ UNCHANGED <<program, chunk, memory, completion, generators>>

----------------------------------------------------------------------------
(* Resources.                                                               *)

\* The initializer has a value.
AcquireOp ==
    /\ At("acquire") /\ Onward
    /\ Last(Instruction.value) # "fails"
    /\ stack' = Append(stack, Instruction.value)
    /\ UNCHANGED <<program, chunk, frames, tries, globals, log, completion, generators>>

LogsDisposing(resource) == Append(log, <<resource[1], "disposed">>)

DisposeOp ==
    /\ At("dispose") /\ Onward
    /\ Value(Instruction.slot)[3] # "throws"
    /\ log' = LogsDisposing(Value(Instruction.slot))
    /\ UNCHANGED <<program, chunk, memory, completion, generators>>

----------------------------------------------------------------------------
(* handle_throw                                                             *)

NextThrows ==
    At("iterate") /\ Spent(Value(Instruction.slot)) /\ Value(Instruction.slot)[4] = "throws"
ReturnThrows == At("close") /\ Value(Instruction.slot)[5] = "throws"

InitializerThrows == At("acquire") /\ Last(Instruction.value) = "fails"
DisposeThrows == At("dispose") /\ Value(Instruction.slot)[3] = "throws"

Throwing ==
    \/ At("throw") \/ At("throwSlot") \/ NextThrows \/ ReturnThrows
    \/ InitializerThrows \/ DisposeThrows

Thrown ==
    CASE Instruction.op = "throw" -> Instruction.value
      [] Instruction.op = "throwSlot" -> Value(Instruction.slot)
      [] Instruction.op = "iterate" -> <<Value(Instruction.slot)[3], "next throws">>
      [] Instruction.op = "close" -> <<Value(Instruction.slot)[3], "return throws">>
      [] Instruction.op = "acquire" -> <<Instruction.value[1], "fails">>
      [] Instruction.op = "dispose" -> <<Value(Instruction.slot)[1], "dispose throws">>

LoggedByThrow ==
    CASE Instruction.op = "close" -> LogsClosing(Value(Instruction.slot))
      [] Instruction.op = "dispose" -> LogsDisposing(Value(Instruction.slot))
      [] OTHER -> log

\* While a generator is being returned from, only the try frames with a
\* finally count.
Handlers(ts, returned) ==
    IF returned = None THEN ts
    ELSE SubSeq(ts, 1, Max({0} \cup {n \in DOMAIN ts : ts[n].forFinally}))

UnwindKeeping(v, st, fs, handlers) ==
    LET t == Last(handlers) IN
    /\ tries' = handlers
    /\ stack' = SubSeq(st, 1, Min({t.depth, Len(st)}))
    /\ frames' = SubSeq(fs, 1, t.frameDepth)
    /\ globals' = (t.binding :> v) @@ globals
    /\ Goto(t.catch)

\* The innermost try frame, of whatever function, is taken off.
Unwind(v, st, fs, handlers) ==
    LET t == Last(handlers) IN
    /\ tries' = Front(handlers)
    /\ stack' = SubSeq(st, 1, Min({t.depth, Len(st)}))
    /\ frames' = SubSeq(fs, 1, t.frameDepth)
    /\ globals' = (t.binding :> v) @@ globals
    /\ Goto(t.catch)

\* What resume_generator makes of an error, and takes generator_return_pending.
EndsUncaught(v, returned) ==
    /\ completion' = IF returned = None THEN <<"throw", v>> ELSE <<"return", returned>>
    /\ returning' = None

Throw ==
    /\ Throwing
    /\ Handlers(tries, returning) # <<>>
    /\ Unwind(Thrown, stack, frames, Handlers(tries, returning))
    /\ log' = LoggedByThrow
    /\ UNCHANGED <<program, chunk, completion, generators>>

Uncaught ==
    /\ Throwing
    /\ Handlers(tries, returning) = <<>>
    /\ EndsUncaught(Thrown, returning)
    /\ log' = LoggedByThrow
    /\ UNCHANGED <<program, chunk, ip, memory, sent, others>>

----------------------------------------------------------------------------
(* Generators and async functions.                                          *)

\* The value goes to the host.  What is on the stack above the generator's
\* function is kept for it.
Yield ==
    /\ At("yield") /\ Onward
    /\ log' = Append(log, Instruction.value)
    /\ completion' = Suspended
    /\ UNCHANGED <<program, chunk, memory, generators>>

\* ... and to wait for a promise.  An async function takes the handlers that
\* are its own with it, at depths that count from its frame.  They are the last
\* ones, for depths do not decrease (TypeOK).
Await ==
    LET own(t) == t.frameDepth >= Len(frames) /\ t.depth >= Bp
        relative(t) == [t EXCEPT !.depth = @ - Bp, !.frameDepth = @ - Len(frames)]
        first == Min({Len(tries) + 1} \cup {n \in DOMAIN tries : own(tries[n])})
        kept == SubSeq(tries, first, Len(tries))
    IN /\ At("await") /\ Onward
       /\ log' = Append(log, Instruction.value)
       /\ completion' = Suspended
       /\ tries' = [n \in DOMAIN kept |-> relative(kept[n])]
       /\ UNCHANGED <<program, chunk, stack, frames, globals, generators>>

Current ==
    [ip |-> ip, bp |-> Bp, locals |-> SubSeq(stack, Bp + 1, Len(stack)), tries |-> tries,
     log |-> log, sent |-> sent, completion |-> completion]

\* What the host has sent to all of them together.
Sent(state) == Len(state.sent)
Total == FoldLeft(LAMBDA n, o : n + Sent(o), Len(sent), others)

\* The generator that the host resumes, the current one or another.
Resumable(g) == IF g = 0 THEN Current ELSE others[g]

Switch(g, command) ==
    /\ program.instances > 0 /\ completion # Running
    /\ Len(Resumable(g).sent) < MaxSent
    /\ sent' = Append(Resumable(g).sent, command)
    /\ log' = Resumable(g).log
    /\ others' = IF g = 0 THEN others ELSE [others EXCEPT ![g] = Current]
    /\ UNCHANGED <<program, chunk>>

\* The generator has ended, or ends at once.
AnswersAtOnce(state, mode) ==
    /\ program.kind = "generator"
    /\ \/ state.completion # Suspended
       \/ mode = "throw" /\ state.sent = <<>>
       \/ mode = "return" /\ state.tries = <<>>

\* It runs on.
Resumes(state, mode) ==
    IF program.kind = "generator" THEN ~AnswersAtOnce(state, mode)
    ELSE state.completion = Suspended /\ (state.sent = <<>> => mode = "next")

SendAnswered(g, mode) ==
    LET command == <<Total, mode>> IN
    /\ AnswersAtOnce(Resumable(g), mode)
    /\ Switch(g, command)
    /\ completion' = Answer(command)
    /\ ip' = Resumable(g).ip /\ tries' = <<>> /\ stack' = <<>> /\ frames' = <<>>
    /\ UNCHANGED <<globals, returning>>

\* The handlers' depths, now that the function is at `bp`.
Rebased(state, bp) ==
    [n \in DOMAIN state.tries |->
        IF program.kind = "generator"
        THEN [state.tries[n] EXCEPT !.depth = (@ + bp) - state.bp]
        ELSE [state.tries[n] EXCEPT !.depth = @ + bp, !.frameDepth = @ + 1]]

\* The stack under the generator is the host's, which may be at another depth.
Restored(state, bp) == [i \in 1 .. bp - 1 |-> Undefined] \o <<Function>> \o state.locals
GeneratorFrame(bp) == <<[bp |-> bp, back |-> 0]>>

\* A call finds the frames of its callers, a resumption none.
Frames(state, bp) ==
    IF program.kind = "async" /\ state.sent = <<>>
    THEN [n \in 1 .. bp - 1 |-> [bp |-> n, back |-> 0]] \o GeneratorFrame(bp)
    ELSE GeneratorFrame(bp)

SendNext(g, bp) ==
    LET state == Resumable(g)
        command == <<Total, "next">>
        restored == Restored(state, bp)
    IN /\ Resumes(state, "next")
       /\ Switch(g, command)
       /\ ip' = state.ip
       /\ stack' = IF state.sent = <<>> THEN restored ELSE Append(restored, command)
       /\ frames' = Frames(state, bp)
       /\ tries' = Rebased(state, bp)
       /\ completion' = Running
       /\ UNCHANGED <<globals, returning>>

\* throw and return go to the handlers that are around the yield.
SendAbrupt(g, mode, bp) ==
    LET state == Resumable(g)
        command == <<Total, mode>>
        returned == IF mode = "return" THEN command ELSE returning
        handlers == Handlers(Rebased(state, bp), returned)
    IN /\ Resumes(state, mode)
       /\ Switch(g, command)
       /\ IF handlers = <<>>
          THEN /\ EndsUncaught(command, returned)
               /\ ip' = state.ip /\ tries' = <<>> /\ stack' = <<>> /\ frames' = <<>>
               /\ UNCHANGED globals
          ELSE /\ Unwind(command, Restored(state, bp), GeneratorFrame(bp), handlers)
               /\ returning' = returned
               /\ completion' = Running

\* The depth of the host's stack: bound.
Bases == 1 .. 2

Host ==
    \E g \in 0 .. Len(others) :
        \/ \E mode \in program.sends : SendAnswered(g, mode)
        \/ \E bp \in Bases : SendNext(g, bp)
        \/ \E bp \in Bases, mode \in program.sends \ {"next"} : SendAbrupt(g, mode, bp)

----------------------------------------------------------------------------

Step ==
    \/ PushOp \/ PushSlot \/ Pop \/ Bind \/ Define \/ AssignOp \/ Increment
    \/ RemoveKey \/ DeleteOp
    \/ JumpOp \/ JumpUnlessOp \/ JumpUnlessReturn \/ JumpUnlessIn \/ Test \/ LogOp \/ LogTop
    \/ Call \/ Return \/ ScriptEnds \/ SetupTryOp \/ TeardownTryOp
    \/ Iterate \/ IterateDone \/ Close \/ AcquireOp \/ DisposeOp
    \/ Throw \/ Uncaught \/ Yield \/ Await

Next == Step \/ Host

Spec == Init /\ [][Next]_vars

\* The VM goes on.
FairSpec == Spec /\ WF_vars(Step)

----------------------------------------------------------------------------
(* Properties                                                               *)

\* The handler of a for-of loop counts the item, which is taken off to be bound.
Depth(t) == IF t.binding = ForOfException THEN t.depth - 1 ELSE t.depth

\* The VM is somewhere in the program, and its handlers were set up at the
\* depths they remember, one inside the other: a throw can always unwind to
\* the innermost (TryFrame's stack_depth and frame_depth).
TypeOK ==
    /\ ip \in DOMAIN chunk
    /\ \A n \in DOMAIN tries :
          /\ tries[n].catch \in DOMAIN chunk
          /\ completion = Running =>
                Depth(tries[n]) <= Len(stack) /\ tries[n].frameDepth <= Len(frames)
          /\ n > 1 => Depth(tries[n - 1]) <= Depth(tries[n])

\* The running function has exactly the handlers that its code at this place
\* is compiled for: none is left behind by a jump, a throw or a return, and
\* none that a statement relies on is missing (SetupTry and TeardownTry are
\* paired on every path).
HandlersNest ==
    completion = Running =>
        Cardinality({n \in DOMAIN tries : tries[n].frameDepth = Len(frames)})
            = Instruction.handlers

\* Every run ends, or yields: the jumps that the compiler patches make no loop
\* of their own.
Halts == []<>(completion # Running)
=============================================================================
