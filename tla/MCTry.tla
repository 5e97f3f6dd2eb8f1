-------------------------------- MODULE MCTry --------------------------------
(***************************************************************************)
(* The programs of the three runs of TryStatements.  A program is a family *)
(* of statements S in a function or in a script, with an effect after it.  *)
(***************************************************************************)
EXTENDS TryPrograms, TryNesting

Log(n, where) == [k |-> "log", v |-> <<n, where>>]
JumpsTo(label, n, where, kinds) ==
    {<<[k |-> kind, v |-> <<n, where, kind>>, label |-> label]>> : kind \in kinds}
Jumps(n, where, kinds) == JumpsTo(NoLabel, n, where, kinds)
First(block) == <<[k |-> "first", body |-> block]>>

\* A block that does nothing, or leaves at once.
Maybe(n, where, kinds) == {<<>>} \cup Jumps(n, where, kinds)
\* A block that leaves in the first iteration of its loop.
MaybeFirst(n, where, kinds) == {<<>>} \cup {First(b) : b \in Jumps(n, where, kinds)}

Try(n, body, catches, finallies) ==
    [k |-> "try", body |-> body,
     catch |-> catches,
     finally |-> IF finallies = <<>> THEN <<>>
                 ELSE << <<Log(n, "finally")>> \o finallies[1] >>]

Some(blocks) == {<<b>> : b \in blocks}
Optional(blocks) == {<<>>} \cup Some(blocks)

TryCatches(n, B, C) == {Try(n, b, c, <<>>) : b \in B, c \in Some(C)}
TryFinallies(n, B, C, F) == {Try(n, b, c, f) : b \in B, c \in Optional(C), f \in Some(F)}
Tries(n, B, C, F) == TryCatches(n, B, C) \cup TryFinallies(n, B, C, F)

Let(n, where, block) == <<[k |-> "let", v |-> <<n, where>>, body |-> block]>>
Bodies(n, B) == {Let(n, "tried", b) : b \in B}

Blocks(S) == {<<s, Log(0, "after")>> : s \in S}
Looping(form, label, block) == [k |-> "loop", form |-> form, label |-> label, body |-> block]
Loops(forms, S) == {Looping(form, NoLabel, <<s, Log(0, "next")>>) : form \in forms, s \in S}

ProgramsOf(kind, n, sends, S) ==
    {[kind |-> kind, instances |-> n, sends |-> sends, body |-> <<s, Log(0, "end")>>] : s \in S}
Functions(S) == ProgramsOf("function", 0, {}, S)
Scripts(S) == ProgramsOf("script", 0, {}, S)
Generators(n, S) == ProgramsOf("generator", n, {"next", "throw", "return"}, S)
Asyncs(n, S) == ProgramsOf("async", n, {"next", "throw"}, S)

----------------------------------------------------------------------------

Throws == {"throw"}
Leaves == {"throw", "return"}

Simple(n, kinds) ==
    Tries(n, Bodies(n, Maybe(n, "t", kinds)), Maybe(n, "c", kinds), Maybe(n, "f", kinds))

\* One try statement inside another, in one of its blocks.
InBody(S, kinds) == Tries(1, Bodies(1, Blocks(S)), Maybe(1, "c", kinds), Maybe(1, "f", kinds))
InCatch(S, kinds) == Tries(1, Maybe(1, "t", kinds), Blocks(S), Maybe(1, "f", kinds))
InFinally(S, kinds) ==
    TryFinallies(1, Maybe(1, "t", kinds), Maybe(1, "c", kinds), Blocks(S))
InTryCatch(S, kinds) ==
    TryCatches(1, Bodies(1, Blocks(S)), Maybe(1, "c", kinds))
      \cup TryCatches(1, Maybe(1, "t", kinds), Blocks(S))

LoopTries(kinds) ==
    TryFinallies(1, {Append(b, Log(1, "tried")) : b \in MaybeFirst(1, "t", kinds)},
                 Maybe(1, "c", Throws), MaybeFirst(1, "f", kinds))

Recursive == <<[k |-> "recur"]>>
Recurring ==
    Tries(1, {Recursive \o b : b \in Maybe(1, "t", Leaves)}, {<<>>, Recursive}, {<<>>})

\* Generators that yield in the body or in the catch block of a try statement,
\* and of one inside its body.  A return there would not run the finally.
SuspendAt(k, n, where) == <<[k |-> k, v |-> <<n, where, k>>]>>
MaybeSuspend(k, n, where, kinds) ==
    Maybe(n, where, kinds) \cup {SuspendAt(k, n, where) \o b : b \in Maybe(n, where, kinds)}

Yielding(n, kinds, leaves) ==
    LET tried(ks) == Bodies(n, MaybeSuspend("yield", n, "t", ks))
        caught(ks) == MaybeSuspend("yield", n, "c", ks)
    IN TryCatches(n, tried(kinds \cup leaves), caught(kinds \cup leaves))
         \cup TryFinallies(n, tried(kinds), caught(kinds), Maybe(n, "f", leaves))
YieldingInBody ==
    Tries(1, {<<s, Log(1, "next")>> : s \in Yielding(2, Throws, {})}, {<<>>, SuspendAt("yield", 1, "c")},
          {<<>>})

\* Async functions may also wait in the finally, and return.
Awaiting(n, kinds) ==
    Tries(n, Bodies(n, MaybeSuspend("await", n, "t", kinds)), MaybeSuspend("await", n, "c", {}),
          MaybeSuspend("await", n, "f", {}))

\* for-of loops over iterators that end in every way.
Of(n, ends, return, body) ==
    [k |-> "of", label |-> NoLabel, n |-> n, items |-> 2, ends |-> ends, return |-> return,
     body |-> body]
Ofs(n, returns, B) == {Of(n, ends, r, b) : ends \in {"done", "throws"}, r \in returns, b \in B}
Returns == {"none", "plain", "throws"}

\* Left by its body, which may hold a variable, in the first or in any iteration.
Left(n, kinds) ==
    LET b == MaybeFirst(n, "t", kinds) \cup Jumps(n, "t", kinds) IN b \cup Bodies(n, b)
Direct(n, kinds) == Ofs(n, Returns, Left(n, kinds))

\* One loop in another, and try statements in and around them: nothing but a
\* throw leaves a loop through a try statement.
Nested(kinds) ==
    {Of(1, "done", r, <<s, Log(1, "next")>>) :
        r \in {"plain", "throws"}, s \in Ofs(2, {"plain", "throws"}, MaybeFirst(2, "t", kinds))}
OfsIn(kinds) ==
    LET loops == {<<s>> : s \in Ofs(2, {"plain", "throws"}, MaybeFirst(2, "t", kinds))}
        throwing == {<<s>> : s \in Ofs(2, {"plain", "throws"}, MaybeFirst(2, "t", Throws))}
    IN TryCatches(1, loops, {<<>>}) \cup TryCatches(1, Jumps(1, "t", Throws), loops)
         \cup TryFinallies(1, throwing, {<<>>}, {<<>>})
         \cup TryFinallies(1, Jumps(1, "t", Throws), throwing, {<<>>})
         \cup TryFinallies(1, Maybe(1, "t", Throws), {<<>>}, loops \ {<<>>})
TriesIn(S) == {Of(1, "done", r, <<s, Log(1, "next")>>) : r \in {"plain", "throws"}, s \in S}

\* Loops that suspend in their body.
Suspending(k, kinds) ==
    {Of(1, "done", r, SuspendAt(k, 1, "t") \o b) :
        r \in {"none", "plain", "throws"}, b \in MaybeFirst(1, "t", kinds)}

\* Loops that are left by their body, which may hold a variable.
Forms == {"for", "while", "do"}
PlainLoops(kinds) == {Looping(form, NoLabel, Append(b, Log(0, "next"))) :
                         form \in Forms, b \in Left(1, kinds)}

\* One loop in another, left or continued from inside both.
Outwards(kinds) ==
    LET b == {First(j) : j \in JumpsTo("outer", 2, "t", kinds)} IN b \cup Bodies(2, b)
LabelledLoops(kinds) ==
    {Looping(outer, "outer",
             <<Looping(inner, NoLabel, Append(b, Log(2, "next"))), Log(1, "next")>>) :
        outer \in Forms, inner \in Forms, b \in Outwards(kinds)}
\* ... through a finally, which may end abruptly itself.
LabelledTries(kinds, ends) ==
    {Looping(outer, "outer", <<Looping(inner, NoLabel, <<s, Log(2, "next")>>), Log(1, "next")>>) :
        outer \in Forms, inner \in Forms,
        s \in TryFinallies(2, {First(j) : j \in JumpsTo("outer", 2, "t", kinds)}, {<<>>},
                          MaybeFirst(2, "f", ends))}

\* ... of a for-of loop, which closes it.
LabelledOfs(kinds) ==
    {Looping(outer, "outer", <<s, Log(1, "next")>>) :
        outer \in Forms, s \in Ofs(2, Returns, {First(j) : j \in JumpsTo("outer", 2, "t", kinds)})}

\* A labelled block around a try statement, or inside a loop.
Labelled(block) == [k |-> "block", label |-> "out", body |-> block]
LabelledBlocks(kinds) ==
    {Labelled(<<s, Log(1, "next")>>) :
        s \in UNION {TryFinallies(1, Bodies(1, {<<>>} \cup JumpsTo("out", 1, "t", {"break"})),
                                  Maybe(1, "c", Throws), {<<>>}),
                     {Looping(form, NoLabel, b \o <<Log(2, "next")>>) :
                         form \in Forms,
                         b \in {First(j) : j \in JumpsTo("out", 1, "t", {"break"})}}}}

\* Objects whose second key may be removed.
In(n, body) == [k |-> "in", label |-> NoLabel, n |-> n, body |-> body]
RemoveKeyOf(n) == <<[k |-> "remove", n |-> n]>>
Ins(kinds) ==
    {In(1, b \o rest) : b \in Left(1, kinds) \cup {RemoveKeyOf(1), First(RemoveKeyOf(1))},
                        rest \in {<<>>, <<Log(1, "next")>>}}
InsIn(kinds) ==
    {In(1, <<In(2, b), Log(1, "next")>>) : b \in MaybeFirst(2, "t", kinds)}
      \cup {In(1, <<s, Log(1, "next")>>) : s \in LoopTries(kinds \cap Throws)}

\* A switch on 1 .. 3, with blocks for 1 and 2 or a default.
SwitchOn(on, default, blocks) ==
    [k |-> "switch", on |-> on, cases |-> blocks, default |-> default]
Switches(kinds) ==
    LET cased(n) == {<<Log(n, "case")>> \o b : b \in Maybe(n, "t", kinds)}
    IN {SwitchOn(on, default, <<b1, b2>>) :
            on \in 1 .. 3, default \in 0 .. 2, b1 \in cased(1), b2 \in cased(2)}
SwitchesIn(kinds) ==
    {Looping(form, "outer", <<s, Log(0, "next")>>) :
        form \in Forms,
        s \in {SwitchOn(1, default, <<b, <<Log(2, "case")>> >>) :
                 default \in 0 .. 2,
                 b \in MaybeFirst(1, "t", kinds)
                         \cup {First(j) : j \in JumpsTo("outer", 1, "t", {"break", "continue"})}}}
SwitchTries ==
    {SwitchOn(on, 2, <<b, <<Log(2, "case")>> >>) :
        on \in 1 .. 2,
        b \in {<<s>> : s \in TryFinallies(1, Maybe(1, "t", {"throw", "break"}),
                                         Maybe(1, "c", Throws), {<<>>})}}

\* Resources that are disposed of after their block, or after the function.
Using(k, resources, body) == [k |-> k, resources |-> resources, body |-> body]
Kinds == {"plain", "null", "throws", "fails"}
Held == {<<[n |-> 1, is |-> a]>> : a \in Kinds}
          \cup {<<[n |-> 1, is |-> a], [n |-> 2, is |-> b]>> : a \in Kinds \ {"fails"}, b \in Kinds}
Usings(k, kinds) == {Using(k, held, b) : held \in Held, b \in Maybe(1, "t", kinds)}
UsingsIn ==
    LET s == {<<Using("using", held, b)>> : held \in Held, b \in Maybe(1, "t", Throws)}
    IN TryCatches(1, s, {<<>>}) \cup TryFinallies(1, s, {}, {<<>>})
         \cup {Using("using", <<[n |-> 3, is |-> a]>>, b) : a \in {"plain", "throws"}, b \in s}

MCPrograms ==
    LET throwing == Simple(2, Throws)
        leaving == Simple(2, Leaves)
    IN Functions(Simple(1, Leaves) \cup Recurring
                 \cup InBody(throwing, Leaves) \cup InCatch(throwing, Leaves)
                 \cup InFinally(leaving, Throws) \cup InTryCatch(leaving, Leaves))
         \cup Functions(Loops(Forms, LoopTries({"throw", "break", "return"}))
                        \cup PlainLoops({"throw", "break", "continue", "return"})
                        \cup LabelledLoops({"break", "continue"}) \cup LabelledBlocks({})
                        \cup Ins({"throw", "break", "continue", "return"})
                        \cup InsIn({"throw", "break", "continue", "return"})
                        \cup Switches({"throw", "break", "return"})
                        \cup SwitchesIn({"break", "continue"}) \cup SwitchTries
                        \cup Usings("using", Throws) \cup Usings("usingBody", Leaves)
                        \cup UsingsIn)
         \cup Scripts(Simple(1, Throws)
                      \cup InBody(throwing, Throws) \cup InCatch(throwing, Throws)
                      \cup InFinally(throwing, Throws))
         \cup Scripts(Loops(Forms, LoopTries({"throw", "break", "continue"}))
                      \cup PlainLoops({"throw", "break", "continue"})
                      \cup LabelledLoops({"break", "continue"}) \cup LabelledBlocks({})
                      \cup Ins({"throw", "break", "continue"})
                      \cup InsIn({"throw", "break", "continue"})
                      \cup LabelledOfs({"break", "continue"})
                      \cup LabelledTries({"break"}, {"throw", "break", "continue"})
                      \cup Switches({"throw", "break"})
                      \cup SwitchesIn({"break", "continue"}) \cup SwitchTries
                      \cup Usings("using", Throws) \cup UsingsIn)
         \cup Generators(1, Yielding(1, Throws, {"return"}) \cup YieldingInBody)
         \cup Generators(2, Yielding(1, {}, {}))
         \cup Functions(Direct(1, {"throw", "break", "return"})
                        \cup Nested({"throw", "break", "return"}) \cup OfsIn({"throw", "break"})
                        \cup TriesIn(LoopTries(Throws)))
         \cup Scripts(Direct(1, {"throw", "break"}) \cup Nested({"throw", "break"})
                      \cup OfsIn({"throw", "break"}) \cup TriesIn(Simple(2, Throws)))
         \cup ProgramsOf("generator", 1, {"next", "throw"}, Suspending("yield", {"throw", "break"}))
         \cup Asyncs(1, Awaiting(1, Leaves)
                         \cup Suspending("await", {"throw", "break", "return"}))
         \cup Asyncs(2, Suspending("await", {"throw"})
                         \cup TryCatches(1, Bodies(1, {SuspendAt("await", 1, "t")}),
                                         {<<>>, SuspendAt("await", 1, "c")}))

----------------------------------------------------------------------------

\* A loop that is left from inside two try statements, both with a finally.
MCNestedJumps ==
    LET outer(s) == Try(1, <<s, Log(1, "tried")>>, <<>>, << <<>> >>)
        inner == TryFinallies(2, {First(b) : b \in Jumps(2, "t", {"break"})}, {<<>>}, {<<>>})
    IN Scripts(Loops({"for"}, {outer(s) : s \in inner}))

\* A block with a variable of its own, after a try statement of a function.
MCLetAfterTry ==
    {[kind |-> "function", instances |-> 0, sends |-> {},
      body |-> <<s>> \o Let(0, "let", <<>>)] : s \in Simple(1, {})}

----------------------------------------------------------------------------

\* The levels of the instructions of p, found by following them from the first;
\* where two ways meet, the least of both.
Meet(s, t) == [j \in DOMAIN t |-> [t[j] EXCEPT !.least = Min({@, s[j].least})]]
Met(at, next) ==
    IF next[1] \in DOMAIN at THEN Meet(next[2], at[next[1]]) ELSE next[2]

\* Also where a throw would go.
Beyond(code, n, s) ==
    Following(code[n], n, s)
      \cup {<<s[j].catch, SubSeq(s, 1, j - 1)>> : j \in 2 .. Len(s)}

RECURSIVE Inferred(_, _, _)
Inferred(code, at, todo) ==
    IF todo = {} THEN at
    ELSE LET n == CHOOSE m \in todo : TRUE
             news == {next \in Beyond(code, n, at[n]) :
                        next[1] \notin DOMAIN at \/ Met(at, next) # at[next[1]]}
             add(a, next) == (next[1] :> Met(a, next)) @@ a
         IN Inferred(code, FoldSet(LAMBDA next, a : add(a, next), at, news),
                     (todo \ {n}) \cup {next[1] : next \in news})
LevelsOf(p) == LET code == Code(p) IN Inferred(code, (1 :> Entry(p)), {1})

\* The handlers of the programs' code nest.
ASSUME NestingAssumption ==
    \A p \in MCPrograms : LET at == LevelsOf(p) IN NestsAt(p, at)
=============================================================================
