----------------------------- MODULE TryPrograms -----------------------------
(***************************************************************************)
(* The VM of TryStatements runs what TryCompiler makes of a program        *)
(* (Code <- Compile).  What the program is to do is given by Meaning, the  *)
(* completions of ECMAScript.                                              *)
(***************************************************************************)
EXTENDS TryStatements, TryCompiler, StatementMeaning

\* A program has the effects it is written to have, in their order, and ends
\* the way it is written to end: every finally runs once, whatever leaves its
\* try statement, and what left it goes on afterwards unless the finally
\* itself ends abruptly.
AsWritten ==
    completion # Running =>
        [log |-> log, c |-> completion] = Meaning(program, sent)
=============================================================================
