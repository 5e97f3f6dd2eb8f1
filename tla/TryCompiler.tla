----------------------------- MODULE TryCompiler ----------------------------
(***************************************************************************)
(* How the compiler translates try statements and what leaves them: the    *)
(* arms TryCatch, For, While, DoWhile, ForIn, ForOf, Switch, Label, Block, *)
(* Using, Return, Break, Continue and Throw of compile_statement.  A       *)
(* `finally` is emitted once.  A return, break or continue inside its try  *)
(* statement leaves an action id in a helper slot and jumps to it; a       *)
(* dispatch behind it carries the action out.  The body of a for-of loop   *)
(* has a handler that closes the iterator, a block with `using` one that   *)
(* disposes of its resources; what leaves the loop otherwise closes it on  *)
(* its way.                                                                *)
(*                                                                         *)
(* A program is a top-level "script", or the body of a "function", a       *)
(* "generator" or an "async" function.  The statements are                 *)
(*   log      an effect that can be observed                               *)
(*   yield    log (yield v), in a generator                                *)
(*   await    log (await v), in an async function                          *)
(*   throw, return, break, continue; the last two may have a label         *)
(*   first    if (i == 0) { body }, with i of the innermost loop, which    *)
(*            may also be a for-of: in its first iteration                 *)
(*   recur    if (d > 0) { the function calls itself with d - 1 }          *)
(*   let      { let x = v; body; log x }                                   *)
(*   loop     for (let i = 0; i < 2; i++) { body }, or, after let i = 0 in *)
(*            a block, while (++i < 3) { body } or do { body }             *)
(*            while (++i < 2); it may have a label, as may the next two    *)
(*   in       for (const key in object) { log key; body }, in a script with*)
(*            a var; the object has two keys, `remove` deletes the second  *)
(*   of       for (const item of iterator) { log item; body }, in a script *)
(*            with a var: the iterator has `items` items, then it is done  *)
(*            or its next throws; its return method may be missing, log,   *)
(*            or log and throw                                             *)
(*   block    label: { body }                                              *)
(*   switch   on a number, with a block for each of 1, 2 ... and one of    *)
(*            them, or none, in the place of `default`                     *)
(*   using    { using r1 = .., r2 = ..; body }: a resource may be null, its*)
(*            initializer may throw, and so may its dispose method, which  *)
(*            logs; usingBody is the same as the whole body of a function  *)
(*   try      catch and finally are <<>> or <<block>>; the catch block     *)
(*            begins by logging the value it caught                        *)
(***************************************************************************)
EXTENDS TryValues, FiniteSets, SequencesExt

NoLabel == ""

\* The state of the compiler.  `handlers` (history) is the number of try
\* frames that the code at this place is to find on the try_stack.
NewCompiler(kind) ==
    [code |-> <<>>, inFunction |-> kind # "script", generator |-> kind = "generator",
     counter |-> 0, handlers |-> 0,
     locals |-> IF kind # "script" THEN << <<"d", 0>> >> ELSE <<>>,
     finallies |-> <<>>,   \* try_finally_stack
     loops |-> <<>>,       \* loop_stack
     resources |-> <<>>,   \* dispose_stack
     usingBody |-> FALSE]  \* fn_body_has_disposables

\* LoopContext: `saved` is <<>> if no locals are to be popped, `first` is how
\* the body tells its first iteration.
Context(label, saved) ==
    [label |-> label, saved |-> saved, switch |-> FALSE, iteration |-> FALSE,
     start |-> 0, first |-> <<>>, iterator |-> <<>>, breaks |-> {}, continues |-> {}]
LoopContext(label, saved, start, first) ==
    [Context(label, saved) EXCEPT !.iteration = TRUE, !.start = start, !.first = first]

----------------------------------------------------------------------------
(* Emitting code.                                                           *)

Here(c) == Len(c.code) + 1

Emit(c, instruction) ==
    [c EXCEPT !.code = Append(@, instruction @@ [handlers |-> c.handlers])]

\* patch_jump, patch_jump_to: the jumps emitted at `ips` go to `target`.
Patch(c, ips, target) ==
    [c EXCEPT !.code = [ip \in DOMAIN @ |->
         IF ip \in ips THEN [@[ip] EXCEPT !.to = target] ELSE @[ip]]]

PatchHere(c, ips) == Patch(c, ips, Here(c))

\* The place of a local, the innermost of that name, or the global.
Slot(c, name) ==
    LET places == {i \in DOMAIN c.locals : c.locals[i] = name} IN
    IF places = {} THEN [local |-> 0, name |-> name]
    ELSE [local |-> CHOOSE i \in places : \A j \in places : j <= i, name |-> name]

Push(c, v) == Emit(c, [op |-> "push", value |-> v])
Assign(c, name, v) == Emit(c, [op |-> "assign", slot |-> Slot(c, name), value |-> v])
Jump(c) == Emit(c, [op |-> "jump", to |-> 0])
\* The test of a helper slot, which jumps when it is not v, or when it is.
JumpUnless(c, name, v) ==
    Emit(c, [op |-> "jumpUnless", slot |-> Slot(c, name), value |-> v, to |-> 0])
JumpIf(c, name, v) ==
    Emit(c, [op |-> "jumpIf", slot |-> Slot(c, name), value |-> v, to |-> 0])
\* The test of a loop's counter against its limit, which jumps if it fails.
TestLess(c, name, limit) ==
    Emit(c, [op |-> "test", slot |-> Slot(c, name), limit |-> limit, to |-> 0])
Incremented(c, name) == Emit(c, [op |-> "increment", slot |-> Slot(c, name)])
Loop(c, start) == Emit(c, [op |-> "jump", to |-> start])
Copy(c, name, from) ==
    Emit(c, [op |-> "copy", slot |-> Slot(c, name), from |-> Slot(c, from)])
ThrowSlot(c, name) == Emit(c, [op |-> "throwSlot", slot |-> Slot(c, name)])

DeclareLocal(c, name) == [c EXCEPT !.locals = Append(@, name)]
DefineGlobal(c, name, v) == Emit(c, [op |-> "define", name |-> name, value |-> v])

\* A helper of a try statement: a local, or a global of a script.
DefineHelper(c, name, v) ==
    IF c.inFunction THEN DeclareLocal(Push(c, v), name) ELSE DefineGlobal(c, name, v)

RECURSIVE Pops(_, _)
Pops(c, n) == IF n = 0 THEN c ELSE Pops(Emit(c, [op |-> "pop"]), n - 1)

EndBlockScope(c, saved) ==
    [Pops(c, Len(c.locals) - saved) EXCEPT !.locals = SubSeq(@, 1, saved)]

SetupTry(c, binding, forFinally) ==
    LET s == Emit(c, [op |-> "setupTry", to |-> 0, binding |-> binding,
                      forFinally |-> forFinally])
    IN [s EXCEPT !.handlers = @ + 1]

TeardownTry(c) ==
    LET t == Emit(c, [op |-> "teardownTry"]) IN [t EXCEPT !.handlers = @ - 1]

----------------------------------------------------------------------------
(* Resources.  A local is declared for each, and a global that is found also *)
(* when the stack has been unwound.                                          *)

Resource(r) == <<r.n, "resource", r.is>>
ResourceOf(r) == <<"resource", r.n>>
HelperOf(r) == <<"disposeRes", r.n>>
Names(resources) == [n \in DOMAIN resources |-> ResourceOf(resources[n])]
Helpers(resources) == [n \in DOMAIN resources |-> HelperOf(resources[n])]

Acquire(c, r) ==
    LET got == Emit(c, [op |-> "acquire", value |-> IF r.is = "null" THEN Null ELSE Resource(r)])
        named == IF c.inFunction THEN DeclareLocal(got, ResourceOf(r))
                 ELSE Emit(got, [op |-> "bind", slot |-> Slot(got, ResourceOf(r))])
    IN Copy(named, HelperOf(r), ResourceOf(r))

\* What disposing has thrown.
ErrorOf(id) == <<"disposeErr", id>>

\* One resource: what its method throws is kept, and suppresses what was.  On
\* the catch path the code leaves the resource itself on the stack, which is not
\* modelled: such a path ends in ThrowDisposed, whose handler cuts the stack.
DisposeOne(c, id, name) ==
    LET hasError == <<"disposeHasErr", id>>
        exception == <<"disposeCatch", c.counter>>
        begun == [c EXCEPT !.counter = @ + 1]
        setup == SetupTry(JumpIf(begun, name, Null), exception, FALSE)
        call == TeardownTry(Emit(setup, [op |-> "dispose", slot |-> Slot(setup, name)]))
        caught == Patch(Jump(call), {Here(c) + 1}, Here(call) + 1)
        test == JumpUnless(caught, hasError, Number(1))
        suppress == Jump(Emit(test, [op |-> "suppress", slot |-> Slot(test, ErrorOf(id)),
                                     from |-> Slot(test, exception)]))
        first == PatchHere(suppress, {Here(caught)})
        keep == Assign(Copy(first, ErrorOf(id), exception), hasError, Number(1))
    IN PatchHere(keep, {Here(c), Here(call), Here(suppress) - 1})

\* All of them, after the exception that is pending, if there is one.
Dispose(c, names, pending) ==
    LET id == c.counter
        hasError == <<"disposeHasErr", id>>
        error == DefineGlobal([c EXCEPT !.counter = @ + 1], ErrorOf(id), Undefined)
        given == IF pending = <<>> THEN error ELSE Copy(error, ErrorOf(id), pending[1])
        flag == DefineGlobal(given, hasError, Undefined)
        ready == IF pending = <<>> THEN flag ELSE Assign(flag, hasError, Number(1))
    IN FoldRight(LAMBDA name, d : DisposeOne(d, id, name), names, ready)

ThrowDisposed(c, id) ==
    LET test == JumpIf(c, ErrorOf(id), Undefined)
    IN PatchHere(ThrowSlot(test, ErrorOf(id)), {Here(c)})

----------------------------------------------------------------------------
(* Leaving a try statement.                                                 *)

\* The context of a try statement with a finally: `patches` are the jumps to
\* it, `actions` what its dispatch may have to carry out.
FinallyContext(id) == [id |-> id, patches |-> {}, actions |-> <<>>]

Innermost(s) == s[Len(s)]
SetInnermost(s, x) == [s EXCEPT ![Len(s)] = x]

\* A jump out of the innermost try-finally, by way of its finally.
LeaveByFinally(c, jump) ==
    LET f == Innermost(c.finallies)
        set == TeardownTry(Assign(c, <<"act", f.id>>, Number(c.counter)))
        left == [f EXCEPT !.patches = @ \cup {Here(set)},
                          !.actions = Append(@, [id |-> c.counter, jump |-> jump])]
    IN [Jump(set) EXCEPT !.counter = @ + 1, !.handlers = c.handlers,
                         !.finallies = SetInnermost(@, left)]

\* Out of a for-of loop: its handler goes, its iterator is closed.
CloseIterator(c, name) == Emit(TeardownTry(c), [op |-> "close", slot |-> Slot(c, name)])

\* Out of the loops from the n-th to the innermost.
CloseFrom(c, n) ==
    FoldRight(LAMBDA loop, d : IF loop.iterator = <<>> THEN d
                               ELSE CloseIterator(d, loop.iterator[1]),
              SubSeq(c.loops, n, Len(c.loops)), c)

\* A generator returns at once, whatever is around the statement.  A function
\* whose body has resources disposes of those of the innermost block.
CompileReturn(c, v) ==
    LET return(d) == [Emit(d, [op |-> "return", value |-> v]) EXCEPT !.handlers = c.handlers]
        closed == CloseFrom(c, 1)
        kept == <<"retDispose", closed.counter>>
        remembered == Assign(DefineGlobal([TeardownTry(closed) EXCEPT !.counter = @ + 1],
                                          kept, Undefined), kept, v)
        disposed == ThrowDisposed(Dispose(remembered, Names(Innermost(c.resources)), <<>>),
                                  remembered.counter)
        returned == Emit(disposed, [op |-> "returnSlot", slot |-> Slot(disposed, kept)])
    IN CASE c.generator -> return(c)
         [] ~c.generator /\ c.finallies # <<>> ->
                LeaveByFinally(Assign(c, <<"ret", Innermost(c.finallies).id>>, v),
                               [k |-> "return", label |-> NoLabel])
         [] OTHER -> IF c.usingBody THEN [returned EXCEPT !.handlers = c.handlers]
                     ELSE return(closed)

\* The places on loop_stack of what a break or continue may mean; it means the
\* innermost.
Targets(c, jump) ==
    {n \in DOMAIN c.loops :
        IF jump.label # NoLabel THEN c.loops[n].label = jump.label
        ELSE jump.k = "break" \/ ~c.loops[n].switch}
Target(c, jump) == Max({0} \cup Targets(c, jump))

\* The jump is one of the loop's breaks or continues.
JumpOfLoop(c, jump, n) ==
    [Jump(c) EXCEPT !.loops =
        IF jump.k = "break" THEN [@ EXCEPT ![n].breaks = @ \cup {Here(c)}]
                            ELSE [@ EXCEPT ![n].continues = @ \cup {Here(c)}]]

\* break and continue: without a finally around them the locals of the loop's
\* body are popped, and the rest of the block is compiled as if they were not.
\* The iterators of the for-of loops that they leave are closed.
CompileJump(c, jump) ==
    LET n == Target(c, jump)
        saved == c.loops[n].saved
        popped == IF saved = <<>> THEN c ELSE Pops(c, Len(c.locals) - saved[1])
        closed == CASE jump.k = "break" -> CloseFrom(popped, n)
                    [] jump.k = "continue" /\ jump.label # NoLabel -> CloseFrom(popped, n + 1)
                    [] OTHER -> popped
        loop == IF jump.k = "break" THEN n
                ELSE Max({m \in Targets(c, jump) : c.loops[m].iteration})
    IN IF c.finallies = <<>> THEN [JumpOfLoop(closed, jump, loop) EXCEPT !.handlers = c.handlers]
       ELSE LeaveByFinally(c, jump)

\* After a finally: the action that is in the slot is carried out.  One whose
\* loop is not around the try statement goes to the end of the dispatch.
Dispatch(c, f) ==
    LET carryOut(s, action) ==
            LET test == JumpUnless(s.c, <<"act", f.id>>, Number(action.id))
                n == Target(test, action.jump)
                orphan == action.jump.k # "return" /\ n = 0
                done == CASE action.jump.k = "return" ->
                                Emit(test, [op |-> "returnSlot",
                                            slot |-> Slot(test, <<"ret", f.id>>)])
                          [] orphan -> Jump(test)
                          [] OTHER -> JumpOfLoop(test, action.jump, n)
            IN [c |-> PatchHere(done, {Here(s.c)}),
                orphans |-> IF orphan THEN s.orphans \cup {Here(test)} ELSE s.orphans]
        all == FoldLeft(carryOut, [c |-> c, orphans |-> {}], f.actions)
    IN PatchHere(all.c, all.orphans)

\* ... and an exception that waited for the finally is thrown again.
Rethrow(c, f) ==
    LET test == JumpUnless(c, <<"hexc", f.id>>, Number(1))
    IN PatchHere(ThrowSlot(test, <<"exc", f.id>>), {Here(c)})

\* The names of the helpers are forgotten, their values stay on the stack.
ForgetHelpers(c, f) ==
    [c EXCEPT !.locals =
        SelectSeq(@, LAMBDA name : name \notin {<<h, f.id>> : h \in {"act", "ret", "hexc"}})]

----------------------------------------------------------------------------
(* compile_statement                                                        *)

RECURSIVE CompileBlock(_, _)

\* The test that guards a body: the counter or the item of the innermost loop.
CompileFirst(c, body) ==
    LET first == c.loops[Max({n \in DOMAIN c.loops : c.loops[n].iteration})].first
        test == JumpUnless(c, first[1], first[2])
    IN PatchHere(CompileBlock(test, body), {Here(c)})

CompileLet(c, v, body) ==
    LET x == DeclareLocal(Push(c, v), <<"x", 0>>)
        around == CompileBlock(x, body)
        logged == Emit(around, [op |-> "logSlot", slot |-> Slot(around, <<"x", 0>>)])
    IN EndBlockScope(logged, Len(c.locals))

\* `continue` goes to the update of the loop.
ContinueAtTest(c, loop) == Patch(c, loop.continues, loop.start)
ContinueAtUpdate(c, loop) == PatchHere(c, loop.continues)

Counter == <<"i", 0>>
Counted(c) == DeclareLocal(Push(c, Number(0)), Counter)

\* Inside a loop whose body begins here; the body is a block of its own.
Inside(c, s, start, first) ==
    [c EXCEPT !.loops = Append(@, LoopContext(s.label, <<Len(c.locals)>>, start,
                                              <<Counter, Number(first)>>))]
CompileBody(c, s) == EndBlockScope(CompileBlock(c, s.body), Len(c.locals))

\* The end of a loop: `exits` and the breaks go to here.
LeaveLoop(c, exits) ==
    [PatchHere(c, exits \cup Innermost(c.loops).breaks) EXCEPT !.loops = Front(@)]

CompileFor(c, s) ==
    LET init == Counted(c)
        start == Here(init)
        body == CompileBody(Inside(TestLess(init, Counter, 2), s, start, 0), s)
        update == ContinueAtUpdate(body, Innermost(body.loops))
        again == Loop(Incremented(update, Counter), start)
    IN EndBlockScope(LeaveLoop(again, {start}), Len(c.locals))

CompileWhile(c, s) ==
    LET init == Counted(c)
        start == Here(init)
        test == TestLess(Incremented(init, Counter), Counter, 3)
        body == CompileBody(Inside(test, s, start, 1), s)
        again == Loop(Patch(body, Innermost(body.loops).continues, start), start)
    IN EndBlockScope(LeaveLoop(again, {start + 1}), Len(c.locals))

CompileDoWhile(c, s) ==
    LET init == Counted(c)
        start == Here(init)
        body == CompileBody(Inside(init, s, start, 0), s)
        condition == Incremented(PatchHere(body, Innermost(body.loops).continues), Counter)
        again == Emit(condition, [op |-> "testAgain", slot |-> Slot(condition, Counter),
                                  limit |-> 2, to |-> start])
    IN EndBlockScope(LeaveLoop(again, {}), Len(c.locals))

CompileLoop(c, s) ==
    CASE s.form = "for" -> CompileFor(c, s)
      [] s.form = "while" -> CompileWhile(c, s)
      [] s.form = "do" -> CompileDoWhile(c, s)

CompileLabelled(c, s) ==
    LET inside == [c EXCEPT !.loops = Append(@, Context(s.label, <<Len(c.locals)>>))]
    IN LeaveLoop(CompileBody(inside, s), {})

\* A helper that only a function has.
OfFunction(c, name) == IF c.inFunction THEN DeclareLocal(Push(c, Undefined), name) ELSE c

\* The binding of an iteration, a copy of what the loop has at `from`.
BindItem(c, name, from) ==
    LET pushed == DeclareLocal(Emit(c, [op |-> "pushSlot", slot |-> Slot(c, from)]), name)
    IN IF c.inFunction THEN Emit(pushed, [op |-> "assignTop", slot |-> Slot(pushed, name)])
       ELSE c

\* An object has its second key until that is removed.  The keys are listed
\* before the loop, each is looked up again when its turn comes.
Object(n) == <<2, "object", n>>

CompileIn(c, s) ==
    LET id == c.counter
        object == <<"object", s.n>>
        index == <<"index", id>>
        key == <<"key", id>>
        current == IF c.inFunction THEN <<"current", id>> ELSE key
        listed == DefineHelper(OfFunction([c EXCEPT !.counter = @ + 1], key), object, Object(s.n))
        ready == OfFunction(DefineHelper(OfFunction(listed, <<"keys", id>>), index, Number(0)),
                            current)
        start == Here(ready)
        test == TestLess(ready, index, 2)
        next == Emit(test, [op |-> "key", slot |-> Slot(test, current),
                            from |-> Slot(test, index), n |-> s.n])
        has == Emit(next, [op |-> "jumpUnlessIn", slot |-> Slot(next, current),
                           object |-> Slot(next, object), to |-> 0])
        inside == [has EXCEPT !.loops = Append(@, LoopContext(s.label, <<Len(has.locals)>>, start,
                                                              <<key, Key(1, s.n)>>))]
        begun == BindItem(inside, key, current)
        logged == Emit(begun, [op |-> "logSlot", slot |-> Slot(begun, key)])
        body == EndBlockScope(CompileBlock(logged, s.body), Len(has.locals))
        update == PatchHere(body, {Here(next)} \cup Innermost(body.loops).continues)
        again == Loop(Incremented(update, index), start)
    IN EndBlockScope(LeaveLoop(again, {start}), Len(c.locals))

\* The statement that removes the second key of object n.
CompileRemove(c, n) ==
    Emit(c, [op |-> "remove", slot |-> Slot(c, <<"object", n>>)])

\* The tests come first, in the order of their cases, then the blocks.  The
\* value is in a global, which is deleted at the end.
CompileSwitch(c, s) ==
    LET id == <<"switch", c.counter>>
        cases == DOMAIN s.cases
        saved == IF c.inFunction THEN <<Len(c.locals)>> ELSE <<>>
        defined == DefineGlobal([c EXCEPT !.counter = @ + 1], id, Number(s.on))
        inside == [defined EXCEPT !.loops =
                      Append(@, [Context(NoLabel, saved) EXCEPT !.switch = TRUE])]
        test(t, n) ==
            IF n = s.default THEN t
            ELSE [c |-> JumpIf(t.c, id, Number(n)), tests |-> t.tests @@ (n :> Here(t.c))]
        tested == FoldLeft(test, [c |-> inside, tests |-> <<>>], [n \in cases |-> n])
        jumpTo(n) == IF n = s.default THEN Here(tested.c) ELSE tested.tests[n]
        block(t, n) == CompileBlock(PatchHere(t, {jumpTo(n)}), s.cases[n])
        blocks == FoldLeft(block, Jump(tested.c), [n \in cases |-> n])
        none == IF s.default = 0 THEN PatchHere(blocks, {Here(tested.c)}) ELSE blocks
        out == LeaveLoop(IF c.inFunction THEN EndBlockScope(none, Len(c.locals)) ELSE none, {})
    IN Emit(out, [op |-> "delete", name |-> id])

\* The iterator of a loop, whose items are counted down: what is left of it, the
\* loop, how it ends and what its return method does.
Iterator(s) == <<s.items, "iterator", s.n, s.ends, s.return>>

CompileOf(c, s) ==
    LET id == c.counter
        iterator == <<"iterator", id>>
        value == <<"value", id>>
        item == <<"item", id>>
        declared == DefineHelper(OfFunction([c EXCEPT !.counter = @ + 1], item),
                                 iterator, Iterator(s))
        ready == OfFunction(DefineHelper(declared, <<"next", id>>, Undefined), value)
        start == Here(ready)
        next == Emit(ready, [op |-> "iterate", slot |-> Slot(ready, iterator), to |-> 0])
        setup == SetupTry(next, ForOfException, FALSE)
        bound == Emit(setup, [op |-> "bind",
                              slot |-> Slot(setup, IF c.inFunction THEN value ELSE item)])
        inside == [bound EXCEPT !.loops =
                      Append(@, [LoopContext(s.label, <<Len(bound.locals)>>, start,
                                             <<item, Item(s.items, s.n)>>)
                                    EXCEPT !.iterator = <<iterator>>])]
        begun == BindItem(inside, item, value)
        logged == Emit(begun, [op |-> "logSlot", slot |-> Slot(begun, item)])
        body == EndBlockScope(CompileBlock(logged, s.body), Len(bound.locals))
        over == Jump(TeardownTry(body))
        close == Emit(over, [op |-> "closeAbrupt", slot |-> Slot(over, iterator)])
        throw == Patch(ThrowSlot(close, ForOfException), {start + 1}, Here(over))
        update == PatchHere(throw, {Here(over) - 1} \cup Innermost(throw.loops).continues)
    IN EndBlockScope(LeaveLoop(Loop(update, start), {start}), Len(c.locals))

\* The block of a `using` declaration has a handler.  On either way out every
\* resource is disposed of, the last first.
CompileUsing(c, s) ==
    LET exception == <<"disposeExc", c.counter>>
        declare(d, r) == DeclareLocal(Push(d, Undefined), ResourceOf(r))
        names == IF c.inFunction THEN c ELSE FoldLeft(declare, c, s.resources)
        setup == SetupTry([names EXCEPT !.counter = @ + 1, !.resources = Append(@, s.resources),
                                        !.usingBody = @ \/ s.k = "usingBody"],
                          exception, FALSE)
        helpers == FoldLeft(LAMBDA d, r : DefineGlobal(d, HelperOf(r), Undefined),
                            setup, s.resources)
        body == CompileBlock(FoldLeft(Acquire, helpers, s.resources), s.body)
        left == TeardownTry([body EXCEPT !.resources = Front(@), !.usingBody = c.usingBody])
        over == Jump(ThrowDisposed(Dispose(left, Names(s.resources), <<>>), left.counter))
        caught == Patch(over, {Here(names)}, Here(over))
        disposed == Dispose(caught, Helpers(s.resources), <<exception>>)
        rethrown == PatchHere(ThrowSlot(disposed, ErrorOf(caught.counter)), {Here(over) - 1})
    IN IF s.k = "usingBody" THEN rethrown ELSE EndBlockScope(rethrown, Len(c.locals))

RethrowNothing(c, id) == c

\* The exception waits for the finally.
RememberException(c, id) == Assign(c, <<"hexc", id>>, Number(1))

\* A generator that is returned from does not run the catch block, but the
\* finally, and goes on returning after it: `jump` is the jump to it.
CheckReturn(c, id) ==
    LET check == Emit(c, [op |-> "jumpUnlessReturn", to |-> 0])
        noted == RememberException(check, id)
    IN [c |-> PatchHere(Jump(noted), {Here(c)}), jump |-> {Here(noted)}]

\* The catch block; in a try statement with a finally its own exceptions are
\* to wait for it too.
CompileCatch(c, s, id) ==
    LET guarded == s.finally # <<>>
        begin == IF guarded THEN SetupTry(c, <<"exc", id>>, TRUE) ELSE c
        saved == Len(begin.locals)
        parameter == <<"caught", id>>
        bound == IF c.inFunction
                 THEN DeclareLocal(Emit(begin, [op |-> "pushSlot",
                                                slot |-> [local |-> 0, name |-> parameter]]),
                                   parameter)
                 ELSE begin
        logged == Emit(bound, [op |-> "logSlot", slot |-> Slot(bound, parameter)])
        body == EndBlockScope(CompileBlock(logged, s.catch[1]), saved)
        over == Jump(TeardownTry(body))
        handler == RememberException(PatchHere(over, {Here(c)}), id)
    IN IF guarded THEN PatchHere(handler, {Here(over) - 1}) ELSE body

CompileTry(c, s) ==
    LET id == c.counter
        has == s.finally # <<>>
        helpers == DefineHelper(DefineHelper(DefineHelper(c, <<"act", id>>, Number(0)),
                       <<"ret", id>>, Undefined), <<"hexc", id>>, Number(0))
        begin == IF has
                 THEN [DefineGlobal(helpers, <<"exc", id>>, Undefined) EXCEPT
                          !.finallies = Append(@, FinallyContext(id))]
                 ELSE c
        setup == SetupTry([begin EXCEPT !.counter = @ + 1],
                          IF s.catch = <<>> THEN <<"exc", id>> ELSE <<"caught", id>>, has)
        body == CompileBlock(setup, s.body)
        over == Jump(TeardownTry(EndBlockScope(body, Len(setup.locals))))
        caught == Patch(over, {Here(begin)}, Here(over))
        checked == IF has THEN CheckReturn(caught, id) ELSE [c |-> caught, jump |-> {}]
        handled == IF s.catch = <<>> THEN RememberException(checked.c, id)
                                     ELSE CompileCatch(checked.c, s, id)
        joined == PatchHere(handled, {Here(over) - 1} \cup checked.jump)
        f == Innermost(joined.finallies)
        finally == [PatchHere(joined, f.patches) EXCEPT !.finallies = c.finallies]
        run == EndBlockScope(CompileBlock(finally, s.finally[1]), Len(finally.locals))
    IN IF has THEN ForgetHelpers(Rethrow(Dispatch(run, f), f), f) ELSE joined

CompileStatement(c, s) ==
    CASE s.k = "log" -> Emit(c, [op |-> "log", value |-> s.v])
      [] s.k \in {"yield", "await"} ->
             Emit(Emit(c, [op |-> s.k, value |-> s.v]), [op |-> "logTop"])
      [] s.k = "throw" -> Emit(c, [op |-> "throw", value |-> s.v])
      [] s.k = "return" -> CompileReturn(c, s.v)
      [] s.k \in {"break", "continue"} -> CompileJump(c, s)
      [] s.k = "first" -> CompileFirst(c, s.body)
      [] s.k = "recur" -> PatchHere(Emit(JumpUnless(c, <<"d", 0>>, Number(1)), [op |-> "call"]),
                                    {Here(c)})
      [] s.k = "let" -> CompileLet(c, s.v, s.body)
      [] s.k = "loop" -> CompileLoop(c, s)
      [] s.k = "in" -> CompileIn(c, s)
      [] s.k = "remove" -> CompileRemove(c, s.n)
      [] s.k = "of" -> CompileOf(c, s)
      [] s.k = "block" -> CompileLabelled(c, s)
      [] s.k = "switch" -> CompileSwitch(c, s)
      [] s.k \in {"using", "usingBody"} -> CompileUsing(c, s)
      [] s.k = "try" -> CompileTry(c, s)

CompileBlock(c, block) == FoldLeft(CompileStatement, c, block)

\* The body, and the return at its end.
Compile(p) ==
    LET c == CompileBlock(NewCompiler(p.kind), p.body)
    IN Emit(c, [op |-> "return", value |-> Undefined]).code
=============================================================================
