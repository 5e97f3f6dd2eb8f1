--------------------------- MODULE StatementMeaning --------------------------
(***************************************************************************)
(* What the statements of TryCompiler mean: the completions of ECMAScript. *)
(* A meaning is the effects, a completion and, in a generator, what is     *)
(* still to be sent to it; it is threaded through the statements.  `i` and *)
(* `d` are the loop's counter and the function's parameter.  An await is a *)
(* yield that the outcome of a promise answers.                            *)
(***************************************************************************)
EXTENDS TryValues, SequencesExt

Meant(effects, c, sent) == [log |-> effects, c |-> c, sent |-> sent]
Logs(m, v) == [m EXCEPT !.log = Append(@, v)]
Completes(m, c) == [m EXCEPT !.c = c]

RECURSIVE MeaningOf(_, _, _, _, _)

MeaningOfBlock(p, block, i, d, m) ==
    FoldLeft(LAMBDA n, s : IF n.c = Normal THEN MeaningOf(p, s, i, d, n) ELSE n, m, block)

\* A yield waits for the next command, which is a value or a completion.
MeaningOfYield(s, m) ==
    LET yielded == Logs(m, s.v) IN
    IF m.sent = <<>> THEN Completes(yielded, Suspended)
    ELSE LET got == [yielded EXCEPT !.sent = Tail(@)]
         IN IF Head(m.sent)[2] = "next" THEN Logs(got, Head(m.sent))
            ELSE Completes(got, Answer(Head(m.sent)))

MeaningOfCall(p, d, m) ==
    LET n == MeaningOfBlock(p, p.body, 0, d, m)
    IN IF n.c[1] = "return" THEN Completes(n, Normal) ELSE n

\* The finally replaces the completion only if it is abrupt.
MeaningOfTry(p, s, i, d, m) ==
    LET body == MeaningOfBlock(p, s.body, i, d, m)
        caught == IF s.catch # <<>> /\ body.c[1] = "throw"
                  THEN MeaningOfBlock(p, s.catch[1], i, d,
                                      Completes(Logs(body, body.c[2]), Normal))
                  ELSE body
        finally == MeaningOfBlock(p, s.finally[1], i, d, Completes(caught, Normal))
    IN IF s.finally = <<>> \/ caught.c = Suspended THEN caught
       ELSE IF finally.c = Normal THEN Completes(finally, caught.c) ELSE finally

\* A loop, or what else has the label, is meant by a jump without one or with
\* its own.
GoesOn(s, m) == m.c = Normal \/ m.c \in {<<"continue", label>> : label \in {"", s.label}}
Broken(s, m) == m.c \in {<<"break", label>> : label \in {"", s.label}}

\* Whatever its form, the body twice.
MeaningOfLoop(p, s, d, m) ==
    LET ended(n) == IF GoesOn(s, n) \/ Broken(s, n) THEN Completes(n, Normal) ELSE n
        first == MeaningOfBlock(p, s.body, 0, d, m)
    IN IF GoesOn(s, first)
       THEN ended(MeaningOfBlock(p, s.body, 1, d, Completes(first, Normal)))
       ELSE ended(first)

\* A key that was removed before its turn is passed over.
MeaningOfIn(p, s, d, m) ==
    LET removed(n) == SelectSeq(n.log, LAMBDA v : v = <<s.n, "removed">>) # <<>>
        round(n, k) == MeaningOfBlock(p, s.body, k - 1, d,
                                      Completes(Logs(n, <<k, "key", s.n>>), Normal))
        first == round(m, 1)
        all == IF GoesOn(s, first) /\ ~removed(first) THEN round(first, 2) ELSE first
    IN IF GoesOn(s, all) \/ Broken(s, all) THEN Completes(all, Normal) ELSE all

MeaningOfLabelled(p, s, i, d, m) ==
    LET n == MeaningOfBlock(p, s.body, i, d, m)
    IN IF n.c = <<"break", s.label>> THEN Completes(n, Normal) ELSE n

\* The block of the case, or of the default, and those that follow it.
MeaningOfSwitch(p, s, i, d, m) ==
    LET from == IF s.on \in DOMAIN s.cases \ {s.default} THEN s.on ELSE s.default
        blocks == IF from = 0 THEN <<>> ELSE FlattenSeq(SubSeq(s.cases, from, Len(s.cases)))
        n == MeaningOfBlock(p, blocks, i, d, m)
    IN IF n.c = <<"break", "">> THEN Completes(n, Normal) ELSE n

\* Every resource that was acquired is disposed of, the last first.  What that
\* throws suppresses what was thrown before.
Disposed(r, m) ==
    LET called == IF r.is = "null" THEN m ELSE Logs(m, <<r.n, "disposed">>)
        new == <<r.n, "dispose throws">>
    IN IF r.is # "throws" THEN called
       ELSE Completes(called, <<"throw", IF m.c[1] = "throw" THEN <<0, "suppressed", new, m.c[2]>>
                                         ELSE new>>)

MeaningOfUsing(p, s, i, d, m) ==
    LET failing == {n \in DOMAIN s.resources : s.resources[n].is = "fails"}
        acquired == IF failing = {} THEN s.resources ELSE SubSeq(s.resources, 1, Min(failing) - 1)
        body == IF failing = {} THEN MeaningOfBlock(p, s.body, i, d, m)
                ELSE Completes(m, <<"throw", <<s.resources[Min(failing)].n, "fails">> >>)
    IN IF body.c = Suspended THEN body ELSE FoldRight(Disposed, acquired, body)

\* The iterator is closed: its return method is called if it has one.  What it
\* throws replaces any completion but a throw.
Closed(s, m) ==
    LET called == IF s.return = "none" THEN m ELSE Logs(m, <<s.n, "closed">>) IN
    CASE s.return = "throws" /\ m.c[1] # "throw" ->
             Completes(called, <<"throw", <<s.n, "return throws">> >>)
      [] Broken(s, m) -> Completes(called, Normal)
      [] OTHER -> called

\* Each item in turn, until an abrupt completion, which closes the iterator.
\* One that is done, or whose next throws, is not closed.
MeaningOfOf(p, s, d, m) ==
    LET item(n, k) ==
            IF ~GoesOn(s, n) THEN n
            ELSE MeaningOfBlock(p, s.body, k - 1, d,
                     Completes(Logs(n, <<s.items + 1 - k, "item", s.n>>), Normal))
        all == FoldLeft(item, m, [k \in 1 .. s.items |-> k])
    IN CASE all.c = Suspended -> all
         [] ~GoesOn(s, all) -> Closed(s, all)
         [] s.ends = "throws" -> Completes(all, <<"throw", <<s.n, "next throws">> >>)
         [] OTHER -> Completes(all, Normal)

MeaningOf(p, s, i, d, m) ==
    CASE s.k = "log" -> Logs(m, s.v)
      [] s.k \in {"yield", "await"} -> MeaningOfYield(s, m)
      [] s.k \in {"throw", "return"} -> Completes(m, <<s.k, s.v>>)
      [] s.k \in {"break", "continue"} -> Completes(m, <<s.k, s.label>>)
      [] s.k = "first" -> IF i = 0 THEN MeaningOfBlock(p, s.body, i, d, m) ELSE m
      [] s.k = "recur" -> IF d > 0 THEN MeaningOfCall(p, d - 1, m) ELSE m
      [] s.k = "let" -> LET n == MeaningOfBlock(p, s.body, i, d, m) IN
                        IF n.c = Normal THEN Logs(n, s.v) ELSE n
      [] s.k = "loop" -> MeaningOfLoop(p, s, d, m)
      [] s.k = "in" -> MeaningOfIn(p, s, d, m)
      [] s.k = "remove" -> Logs(m, <<s.n, "removed">>)
      [] s.k = "of" -> MeaningOfOf(p, s, d, m)
      [] s.k = "block" -> MeaningOfLabelled(p, s, i, d, m)
      [] s.k = "switch" -> MeaningOfSwitch(p, s, i, d, m)
      [] s.k \in {"using", "usingBody"} -> MeaningOfUsing(p, s, i, d, m)
      [] s.k = "try" -> MeaningOfTry(p, s, i, d, m)

\* The first command begins the body of a generator, or ends it; the last one
\* after its end has the answer of a generator that has ended.
Meaning(p, sent) ==
    LET body(rest) == MeaningOfBlock(p, p.body, 0, 1, Meant(<<>>, Normal, rest))
        whole == CASE p.instances = 0 -> body(<<>>)
                   [] sent = <<>> -> Meant(<<>>, Suspended, <<>>)
                   [] OTHER -> IF Head(sent)[2] = "next" THEN body(Tail(sent))
                               ELSE Meant(<<>>, Answer(Head(sent)), Tail(sent))
    IN [log |-> whole.log,
        c |-> IF whole.sent = <<>> THEN whole.c ELSE Answer(Last(whole.sent))]
=============================================================================
