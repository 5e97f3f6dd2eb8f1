------------------------------ MODULE TryValues ------------------------------
(***************************************************************************)
(* What the compiler of TryCompiler, the VM of TryStatements and the       *)
(* meaning of StatementMeaning have in common: values and completions.     *)
(***************************************************************************)
EXTENDS Naturals, Sequences

\* Values are tuples: numbers are <<n>>, what a program logs, throws or returns
\* is longer.
Undefined == <<>>
Null == <<0, "null">>
Number(n) == <<n>>

\* A key of the object n of a for-in loop, and an item of the for-of loop n.
Key(k, n) == <<k, "key", n>>
Item(left, n) == <<left, "item", n>>

\* The one global for the exceptions of all for-of loops.
ForOfException == <<"forofexc", 0>>

\* Completions; a yield or await suspends.
Normal == <<"normal">>
Suspended == <<"suspended">>

\* What is sent to a generator is <<n, mode>>, which is also the value sent.
Answer(command) == IF command[2] = "next" THEN Normal ELSE <<command[2], command>>
=============================================================================
