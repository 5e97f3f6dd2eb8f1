------------------------------ MODULE MCModules ------------------------------
(***************************************************************************)
(* Programs of a main module and three others.  A module requests those of *)
(* a set in ascending order; one request at most is deferred.              *)
(***************************************************************************)
EXTENDS ModuleGraph, SequencesExt

MCModules == 1 .. 4
MCMain == 4

\* Every graph of the modules a, b, c with edges of its own choice, and what
\* main requests.
Ascending(S) == SetToSortSeq(S, <)
AsRequests(S, deferred) ==
    [i \in 1 .. Cardinality(S) |->
        [to |-> Ascending(S)[i],
         phase |-> IF Ascending(S)[i] \in deferred THEN "defer" ELSE "evaluation"]]

Graphs(mains, ones, twos, threes) ==
    {[m \in MCModules |-> CASE m = 1 -> a [] m = 2 -> b [] m = 3 -> c [] m = 4 -> d] :
        a \in ones, b \in twos, c \in threes, d \in mains}

Eager(S) == AsRequests(S, {})
Subsets(S) == {Eager(T) : T \in SUBSET S}

\* Module 3 may be one that does not parse; what nobody requests may be imported
\* dynamically.
MCPrograms ==
    {[requests |-> g, hasTla |-> (t \ b) \cup {4}, broken |-> b] :
        g \in Graphs({Eager({1, 2}), AsRequests({1, 2}, {2})},
                     {Eager({2}), Eager({2, 3}), AsRequests({2}, {2})},
                     {Eager({}), Eager({3}), Eager({1})}, Subsets({1, 4})),
        t \in SUBSET {1, 2, 3},
        b \in {{}, {3}}}
=============================================================================
