------------------------------ MODULE TryNesting -----------------------------
(***************************************************************************)
(* Code whose handlers nest: of every instruction that can be reached it   *)
(* is known, whatever way leads to it, which handlers of its function are  *)
(* set up there and how many values are on the stack above each, at least. *)
(* That is a condition on single instructions and those that follow them,  *)
(* like the one a verifier of bytecode checks, not on runs.  The compiler  *)
(* keeps to it but for the jumps that leave a try statement without its    *)
(* handler being taken off.                                                *)
(***************************************************************************)
EXTENDS TryStatements

\* A level of the stack: what is above a handler, the first what is above the
\* frame's function; `least` is how many values that are.
Level(catch, binding, least) == [catch |-> catch, binding |-> binding, least |-> least]

\* The levels that may occur in the code.
LevelType(code) ==
    LET guards == {n \in DOMAIN code : code[n].op = "setupTry"}
    IN [catch : {0} \cup {code[n].to : n \in guards},
        binding : {None} \cup {code[n].binding : n \in guards}, least : Nat]

\* The levels when a program begins: a function has one argument.
Entry(p) == <<Level(0, None, IF p.kind = "script" THEN 0 ELSE 1)>>

\* One more value on the top level, or one less.
Raised(s) == [s EXCEPT ![Len(s)].least = @ + 1]
Lowered(s) == [s EXCEPT ![Len(s)].least = @ - 1]

\* SetupTry; the handler of a for-of loop is below the item.
Guarded(s, i) ==
    IF i.binding = ForOfException THEN Append(Lowered(s), Level(i.to, i.binding, 1))
    ELSE Append(s, Level(i.to, i.binding, 0))

\* TeardownTry: the two topmost levels become one.
Unguarded(s) ==
    [SubSeq(s, 1, Len(s) - 1) EXCEPT ![Len(s) - 1].least = @ + s[Len(s)].least]

Keeping == {"define", "assign", "assignTop", "copy", "suppress", "key", "remove", "delete",
            "increment", "log", "logSlot", "close", "closeAbrupt", "dispose", "call"}
Pushing == {"push", "pushSlot", "acquire", "yield", "await"}
Popping == {"pop", "bind", "logTop"}
Testing == {"jumpUnless", "jumpIf", "test", "testAgain", "jumpUnlessIn", "jumpUnlessReturn"}

\* What follows the n-th instruction, i, when it does not throw, and the levels
\* there.
Following(i, n, s) ==
    CASE i.op \in Keeping -> {<<n + 1, s>>}
      [] i.op \in Pushing -> {<<n + 1, Raised(s)>>}
      [] i.op \in Popping -> {<<n + 1, Lowered(s)>>}
      [] i.op \in Testing -> {<<n + 1, s>>, <<i.to, s>>}
      [] i.op = "jump" -> {<<i.to, s>>}
      [] i.op = "iterate" -> {<<n + 1, Raised(s)>>, <<i.to, s>>}
      [] i.op = "setupTry" -> {<<n + 1, Guarded(s, i)>>}
      [] i.op = "teardownTry" -> {<<n + 1, Unguarded(s)>>}
      [] OTHER -> {}

\* It takes nothing that is not there.
Enough(i, s) ==
    /\ i.op \in Popping => s[Len(s)].least > 0
    /\ i.op = "setupTry" /\ i.binding = ForOfException => s[Len(s)].least > 0
    /\ i.op = "teardownTry" => Len(s) > 1

\* Only functions call themselves, only generators yield and async functions
\* await.
InPlace(i, p) ==
    /\ i.op = "call" => p.kind = "function"
    /\ i.op = "yield" => p.kind = "generator"
    /\ i.op = "await" => p.kind = "async"

\* With the levels s an instruction finds what it is to find, t: the same
\* handlers, and no fewer values.
Fits(s, t) ==
    /\ Len(s) = Len(t)
    /\ \A j \in 1 .. Len(t) :
          s[j].catch = t[j].catch /\ s[j].binding = t[j].binding /\ s[j].least >= t[j].least

\* `at` are the levels of the instructions that can be reached.  Where a throw
\* goes from the j-th handler the levels below it are found.
NestsAt(p, at) ==
    LET code == Code(p) IN
    /\ DOMAIN at \subseteq DOMAIN code
    /\ 1 \in DOMAIN at /\ Fits(Entry(p), at[1])
    /\ \A n \in DOMAIN at :
          /\ at[n] \in Seq(LevelType(code)) /\ at[n] # <<>>
          /\ code[n].handlers = Len(at[n]) - 1
          /\ Enough(code[n], at[n]) /\ InPlace(code[n], p)
          /\ \A next \in Following(code[n], n, at[n]) :
                next[1] \in DOMAIN at /\ Fits(next[2], at[next[1]])
          /\ \A j \in 2 .. Len(at[n]) :
                LET catch == at[n][j].catch
                IN catch \in DOMAIN at /\ Fits(SubSeq(at[n], 1, j - 1), at[catch])

Nests(p) == \E at : NestsAt(p, at)
=============================================================================
