----------------------------- MODULE ModuleGraph -----------------------------
(***************************************************************************)
(* Loading and evaluation of modules.  A module's requests are evaluated   *)
(* before its body runs; a body that awaits at its top level is suspended  *)
(* so that its siblings can run, an importer of a suspended module is      *)
(* suspended before it starts, and when the outermost walk over requests   *)
(* is done the suspended ones are resumed, in rounds.  JavaScript in a     *)
(* body imports modules dynamically and touches deferred namespaces, which *)
(* begins walks of its own inside the body.                                *)
(*                                                                         *)
(* `calls` is the Rust stack: the calls of evaluate_module_requests        *)
(* ("walk"), ensure_module_evaluated ("ensure"), run ("body"), its drain   *)
(* of microtasks and timers ("drain"), resume_suspended_module_states      *)
(* ("resume"), and what JavaScript called ("import", "touch").             *)
(***************************************************************************)
EXTENDS Naturals, Sequences, FiniteSets

CONSTANTS
    Modules,
    Main,         \* the module the host evaluates
    Programs,     \* requests, top-level awaits and broken sources
    MaxAwaits,    \* bound: awaits of a body
    MaxImports,   \* bound: dynamic imports and touches
    ImportsInSuspension \* whether callbacks do either after a body has been
                        \* suspended and before its run returns

ASSUME MainAssumption == Main \in Modules
ASSUME ModulesAssumption == IsFiniteSet(Modules)
ASSUME BoundsAssumption == MaxAwaits \in Nat /\ MaxImports \in Nat
ASSUME SuspensionAssumption == ImportsInSuspension \in BOOLEAN

Phase == {"evaluation", "defer"}
Request == [to : Modules, phase : Phase]
ASSUME ProgramsAssumption ==
    \A p \in Programs :
        /\ DOMAIN p.requests = Modules
        /\ \A m \in Modules : p.requests[m] \in Seq(Request)
        /\ p.hasTla \subseteq Modules /\ p.broken \subseteq Modules \ {Main}

VARIABLES
    program,    \* the sources
    status,     \* of a module's record, "none" if it has none
    errors,     \* module_load_errors
    throwing,   \* pending_throw
    suspended,  \* suspended_module_states: the modules, in their order
    suspendOnAwait, awaitSuspended,  \* suspend_on_module_await and
                                     \* module_await_suspended
    calls,
    imports,    \* dynamic imports and touches so far
    awaits,     \* [Modules -> how often the body has awaited]
    starts,     \* history: [Modules -> how often the body was begun]
    ended,      \* history: the modules whose body ran to its end
    lateErrors, \* history: those that failed after they or an importer had
                \* been suspended
    orphaned    \* history: a walk that threw left suspended modules behind

flags == <<suspendOnAwait, awaitSuspended>>
history == <<starts, ended, lateErrors, orphaned>>
vars == <<program, status, errors, throwing, suspended, flags, calls, imports,
          awaits, history>>

Requests(m) == program.requests[m]
Wanted(m) == {Requests(m)[i].to : i \in DOMAIN Requests(m)}
HasTla(m) == m \in program.hasTla
Elements(s) == {s[i] : i \in DOMAIN s}
HasRecord(m) == status[m] # "none"

Init ==
    /\ program \in Programs
    /\ status = [m \in Modules |-> "none"]
    /\ errors = {} /\ throwing = FALSE /\ suspended = <<>>
    /\ suspendOnAwait = FALSE /\ awaitSuspended = FALSE
    /\ calls = << [k |-> "host", of |-> Main, list |-> <<>>, resumed |-> FALSE] >>
    /\ imports = 0 /\ awaits = [m \in Modules |-> 0]
    /\ starts = [m \in Modules |-> 0]
    /\ ended = {} /\ lateErrors = {} /\ orphaned = FALSE

----------------------------------------------------------------------------
(* The stack of calls.                                                      *)

Call(k, m, list) == [k |-> k, of |-> m, list |-> list, resumed |-> FALSE]
Resumption(m) == [k |-> "body", of |-> m, list |-> <<>>, resumed |-> TRUE]

Top == calls[Len(calls)]
At(k) == calls # <<>> /\ Top.k = k
Below == SubSeq(calls, 1, Len(calls) - 1)
Becomes(call) == Append(Below, call)

\* module_request_depth
Depth(stack) == Cardinality({i \in DOMAIN stack : stack[i].k = "walk"})

----------------------------------------------------------------------------
(* load_module_graph                                                        *)

\* The modules reached from S over records that do not exist yet; a broken
\* one has no requests.
Loaded(S, st) ==
    LET new == {m \in Modules : st[m] = "none" /\ m \notin errors}
        closed(T) == /\ S \cap new \subseteq T
                     /\ \A l \in T \ program.broken : Wanted(l) \cap new \subseteq T
    IN {m \in new : \A T \in SUBSET new : closed(T) => m \in T}

Load(S, st) ==
    LET fresh == Loaded(S, st) IN
    /\ status' = [m \in Modules |-> IF m \in fresh \ program.broken THEN "Linked" ELSE st[m]]
    /\ errors' = errors \cup (fresh \cap program.broken)

----------------------------------------------------------------------------
(* evaluate_module_requests                                                 *)

\* collect_async_transitive_dependencies: depth-first, and not past a module
\* that awaits.  A call of it takes the first module of `work`, which are the
\* arguments of the calls that are left.
Collect(st, c) ==
    LET n == Head(c.work)
        rest == [work |-> Tail(c.work), seen |-> c.seen \cup {n}, found |-> c.found]
    IN IF n \in c.seen \/ st[n] # "Linked" THEN rest
       ELSE IF HasTla(n) THEN [rest EXCEPT !.found = Append(@, n)]
       ELSE [rest EXCEPT !.work = [i \in DOMAIN Requests(n) |-> Requests(n)[i].to] \o @]

\* A call for the root and one for each request, at most.
Calls == 1 + Cardinality(UNION {{m} \X DOMAIN Requests(m) : m \in Modules})

AsyncDependencies(st, m) ==
    LET after[n \in 0 .. Calls] ==
            IF n = 0 THEN [work |-> <<m>>, seen |-> {}, found |-> <<>>]
            ELSE IF after[n - 1].work = <<>> THEN after[n - 1]
            ELSE Collect(st, after[n - 1])
    IN after[Calls].found

\* The evaluation list grows by those of ms that it does not have.
Scheduled(list, ms) ==
    LET with[n \in 0 .. Len(ms)] ==
            IF n = 0 THEN list
            ELSE IF ms[n] \in Elements(with[n - 1]) THEN with[n - 1]
            ELSE Append(with[n - 1], ms[n])
    IN with[Len(ms)]

AskedBy(st, r) == IF r.phase = "defer" THEN AsyncDependencies(st, r.to) ELSE <<r.to>>

EvaluationList(st, requests) ==
    LET list[n \in 0 .. Len(requests)] ==
            IF n = 0 THEN <<>>
            ELSE Scheduled(list[n - 1], AskedBy(st, requests[n]))
    IN list[Len(requests)]

Walk(st, m, requests) == Call("walk", m, EvaluationList(st, requests))

\* The head of the list is evaluated already, or is being evaluated.
Passed(m) == status[m] # "Linked" /\ m \notin errors

WalkPasses ==
    /\ At("walk") /\ ~throwing /\ Top.list # <<>> /\ Passed(Head(Top.list))
    /\ calls' = Becomes([Top EXCEPT !.list = Tail(@)])
    /\ UNCHANGED <<program, status, errors, throwing, suspended, flags, imports,
                   awaits, history>>

\* It has an error, which is thrown: the walk breaks off.
WalkBreaks ==
    /\ At("walk") /\ ~throwing /\ Top.list # <<>> /\ Head(Top.list) \in errors
    /\ throwing' = TRUE
    /\ UNCHANGED <<calls, program, status, errors, suspended, flags, imports, awaits, history>>

\* Its own requests come first.
WalkEnters ==
    /\ At("walk") /\ ~throwing /\ Top.list # <<>>
    /\ LET m == Head(Top.list) IN
       /\ status[m] = "Linked" /\ m \notin errors
       /\ status' = [status EXCEPT ![m] = "Evaluating"]
       /\ calls' = Becomes([Top EXCEPT !.list = Tail(@)])
                     \o <<Call("ensure", m, <<>>), Walk(status', m, Requests(m))>>
    /\ UNCHANGED <<program, errors, throwing, suspended, flags, imports, awaits, history>>

\* The walk is over, or was broken off; the outermost one resumes what was
\* suspended, unless something was thrown.
WalkEnds ==
    /\ At("walk") /\ (Top.list = <<>> \/ throwing)
    /\ IF Depth(Below) = 0 /\ ~throwing /\ suspended # <<>>
       THEN calls' = Becomes(Call("resume", Main, suspended)) /\ suspended' = <<>>
       ELSE calls' = Below /\ UNCHANGED suspended
    /\ orphaned' = (orphaned \/ (Depth(Below) = 0 /\ throwing /\ suspended # <<>>))
    /\ UNCHANGED <<program, status, errors, throwing, flags, imports, awaits,
                   starts, ended, lateErrors>>

----------------------------------------------------------------------------
(* ensure_module_evaluated, once the requests are evaluated                 *)

HasAsyncFirst(m) ==
    Requests(m) # <<>> /\ status[Head(Requests(m)).to] = "EvaluatingAsync"

HasAsyncDependency(m) == \E d \in Wanted(m) : status[d] = "EvaluatingAsync"

\* lateErrors, when the call on top fails.
FailsNow ==
    IF Top.resumed \/ \E l \in Modules : status[l] = "EvaluatingAsync" /\ Top.of \in Wanted(l)
    THEN lateErrors \cup {Top.of} ELSE lateErrors

EnsureFails ==
    /\ At("ensure") /\ throwing
    /\ status' = [status EXCEPT ![Top.of] = "Linked"]
    /\ calls' = Below
    /\ lateErrors' = FailsNow
    /\ UNCHANGED <<program, errors, throwing, suspended, flags, imports, awaits,
                   starts, ended, orphaned>>

Suspend(m) ==
    /\ suspended' = Append(suspended, m)
    /\ status' = [status EXCEPT ![m] = "EvaluatingAsync"]

\* The importer of a suspended module is suspended before it starts.
EnsureWaits ==
    /\ At("ensure") /\ ~throwing /\ HasAsyncDependency(Top.of)
    /\ Suspend(Top.of)
    /\ calls' = Below
    /\ UNCHANGED <<program, errors, throwing, flags, imports, awaits, history>>

EnsureRuns ==
    /\ At("ensure") /\ ~throwing /\ ~HasAsyncDependency(Top.of)
    /\ suspendOnAwait' = TRUE
    /\ calls' = Becomes(Call("body", Top.of, <<>>))
    /\ starts' = [starts EXCEPT ![Top.of] = @ + 1]
    /\ UNCHANGED <<program, status, errors, throwing, suspended, awaitSuspended,
                   imports, awaits, ended, lateErrors, orphaned>>

----------------------------------------------------------------------------
(* A body, and the drains at its end.                                       *)

\* The await is done with synchronously; where it suspends, it does so after
\* that, and the run goes on to its drains.
Await ==
    /\ At("body") /\ HasTla(Top.of) /\ awaits[Top.of] < MaxAwaits
    /\ awaits' = [awaits EXCEPT ![Top.of] = @ + 1]
    /\ IF suspendOnAwait
       THEN /\ suspendOnAwait' = FALSE /\ awaitSuspended' = TRUE
            /\ calls' = Becomes([Top EXCEPT !.k = "drain"])
       ELSE UNCHANGED <<flags, calls>>
    /\ UNCHANGED <<program, status, errors, throwing, suspended, imports, history>>

BodyEnds ==
    /\ At("body")
    /\ ended' = ended \cup {Top.of}
    /\ calls' = Becomes([Top EXCEPT !.k = "drain"])
    /\ UNCHANGED <<program, status, errors, throwing, suspended, flags, imports,
                   awaits, starts, lateErrors, orphaned>>

PropagatesAlways(call) == TRUE
Propagates(call) == ~call.resumed

\* record_module_load_error; what ensure returns makes the importer throw, but
\* nobody looks at what a resumed module leaves.  An error of a drain after an
\* await that suspended is dropped (RunSuspends).
BodyThrows ==
    /\ At("body") \/ (At("drain") /\ ~awaitSuspended)
    /\ LET m == Top.of IN
       /\ m # Main
       /\ status' = [status EXCEPT ![m] = "Linked"]
       /\ errors' = errors \cup {m}
       /\ throwing' = Propagates(Top)
       /\ lateErrors' = FailsNow
       /\ awaitSuspended' = FALSE
    /\ calls' = Below
    /\ UNCHANGED <<program, suspended, suspendOnAwait, imports, awaits, starts, ended,
                   orphaned>>

\* The run has returned: the module was suspended ...
RunSuspends ==
    /\ At("drain") /\ Top.of # Main /\ awaitSuspended
    /\ awaitSuspended' = FALSE
    /\ Suspend(Top.of)
    /\ calls' = Below
    /\ UNCHANGED <<program, errors, throwing, suspendOnAwait, imports, awaits, history>>

\* finalize_dependency_module_record, finalize_active_module_record
Finalize(m) ==
    /\ status' = [status EXCEPT ![m] = "Evaluated"]
    /\ errors' = errors \ {m}

\* ... or it is evaluated.  The host does not ask whether the main module was
\* suspended.
RunFinishes ==
    /\ At("drain") /\ (Top.of = Main \/ ~awaitSuspended)
    /\ Finalize(Top.of)
    /\ calls' = Below
    /\ UNCHANGED <<program, throwing, suspended, flags, imports, awaits, history>>

----------------------------------------------------------------------------
(* What JavaScript in a body, or in a callback of its drain, calls.         *)

JsRuns ==
    /\ At("body") \/ (At("drain") /\ (awaitSuspended => ImportsInSuspension))
    /\ imports < MaxImports

\* import(m): loads, and walks over the one request.
Import(m) ==
    /\ JsRuns /\ status[m] # "Evaluated"
    /\ imports' = imports + 1
    /\ Load({m}, status)
    /\ IF m \in errors'
       THEN UNCHANGED calls
       ELSE calls' = calls \o <<Call("import", m, <<>>),
                                Walk(status', m, <<[to |-> m, phase |-> "evaluation"]>>)>>
    /\ UNCHANGED <<program, throwing, suspended, flags, awaits, history>>

ReadyByItself(m) ==
    status[m] \notin {"Evaluating", "EvaluatingAsync"} /\ ~HasTla(m)

\* ready_for_sync_execution: m is in a set of modules that the search does not
\* leave and in which it finds nothing to wait for.
Ready(m) ==
    \E S \in SUBSET Modules :
        /\ m \in S
        /\ \A l \in S :
              /\ status[l] \notin {"Evaluating", "EvaluatingAsync"}
              /\ status[l] = "Linked" => ~HasTla(l) /\ Wanted(l) \subseteq S

\* ensure_deferred_namespace_evaluation: no walk, so that of the module's own
\* requests may be the outermost.
Touch(m) ==
    /\ JsRuns
    /\ \E i \in DOMAIN Requests(Top.of) : Requests(Top.of)[i] = [to |-> m, phase |-> "defer"]
    /\ m \notin errors /\ status[m] = "Linked" /\ Ready(m)
    /\ imports' = imports + 1
    /\ status' = [status EXCEPT ![m] = "Evaluating"]
    /\ calls' = calls \o <<Call("touch", m, <<>>), Call("ensure", m, <<>>),
                           Walk(status', m, Requests(m))>>
    /\ UNCHANGED <<program, errors, throwing, suspended, flags, awaits, history>>

\* JavaScript goes on; it catches what was thrown, or its body throws next.
CallReturns ==
    /\ At("import") \/ At("touch")
    /\ throwing' = FALSE
    /\ calls' = Below
    /\ UNCHANGED <<program, status, errors, suspended, flags, imports, awaits, history>>

----------------------------------------------------------------------------
(* resume_suspended_module_states                                           *)

\* module_reaches_module: n is in every set that has m and does not lose a
\* request; a module without a record has none.
Reaches(m, n) ==
    \A S \in SUBSET Modules :
        m \in S /\ (\A l \in S : HasRecord(l) => Wanted(l) \subseteq S) => n \in S

InCycle(m, n) == Reaches(m, n) /\ Reaches(n, m)

StillWaitsOnAny(m) == HasAsyncDependency(m)

\* module_has_external_async_dependency
StillWaits(m) ==
    \E d \in Wanted(m) :
        /\ ~InCycle(m, d)
        /\ \E n \in Modules : status[n] = "EvaluatingAsync" /\ InCycle(d, n)

ResumeKeeps ==
    /\ At("resume") /\ Top.list # <<>> /\ StillWaits(Head(Top.list))
    /\ suspended' = Append(suspended, Head(Top.list))
    /\ calls' = Becomes([Top EXCEPT !.list = Tail(@)])
    /\ UNCHANGED <<program, status, errors, throwing, flags, imports, awaits, history>>

ResumeRuns ==
    /\ At("resume") /\ Top.list # <<>>
    /\ LET m == Head(Top.list) IN
       /\ ~StillWaits(m)
       /\ suspendOnAwait' = TRUE
       /\ calls' = Becomes([Top EXCEPT !.list = Tail(@), !.resumed = TRUE])
                     \o <<Resumption(m)>>
       /\ starts' = [starts EXCEPT ![m] = IF awaits[m] = 0 THEN @ + 1 ELSE @]
    /\ UNCHANGED <<program, status, errors, throwing, suspended, awaitSuspended,
                   imports, awaits, ended, lateErrors, orphaned>>

AnotherRoundAlways == suspended # <<>>
AnotherRound == Top.resumed /\ suspended # <<>>

\* Another round, if the last one got anywhere.
ResumeEnds ==
    /\ At("resume") /\ Top.list = <<>>
    /\ IF AnotherRound
       THEN calls' = Becomes(Call("resume", Main, suspended)) /\ suspended' = <<>>
       ELSE calls' = Below /\ UNCHANGED suspended
    /\ UNCHANGED <<program, status, errors, throwing, flags, imports, awaits, history>>

----------------------------------------------------------------------------
(* The host: evaluate_script of a module.                                   *)

HostLoads ==
    /\ At("host") /\ status[Main] = "none"
    /\ Load(Wanted(Main), [status EXCEPT ![Main] = "Evaluating"])
    /\ IF Wanted(Main) \cap errors' # {}
       THEN calls' = <<>>
       ELSE calls' = Append(calls, Walk(status', Main, Requests(Main)))
    /\ UNCHANGED <<program, throwing, suspended, flags, imports, awaits, history>>

HostRuns ==
    /\ At("host") /\ status[Main] = "Evaluating" /\ ~throwing
    /\ calls' = <<Call("body", Main, <<>>)>>
    /\ starts' = [starts EXCEPT ![Main] = @ + 1]
    /\ UNCHANGED <<program, status, errors, throwing, suspended, flags, imports, awaits,
                   ended, lateErrors, orphaned>>

\* The run begins with what was thrown, or the main module throws itself.
HostFails ==
    /\ \/ At("host") /\ throwing
       \/ (At("body") \/ At("drain")) /\ Top.of = Main
    /\ calls' = <<>> /\ throwing' = FALSE
    /\ UNCHANGED <<program, status, errors, suspended, flags, imports, awaits, history>>

----------------------------------------------------------------------------

Evaluate ==
    \/ WalkPasses \/ WalkBreaks \/ WalkEnters \/ WalkEnds
    \/ EnsureFails \/ EnsureWaits \/ EnsureRuns
    \/ ResumeKeeps \/ ResumeRuns \/ ResumeEnds
    \/ RunSuspends \/ RunFinishes \/ CallReturns
    \/ HostLoads \/ HostRuns

Javascript ==
    \/ Await \/ BodyEnds \/ BodyThrows \/ HostFails
    \/ \E m \in Modules : Import(m) \/ Touch(m)

Next == Evaluate \/ Javascript

Spec == Init /\ [][Next]_vars

\* The VM goes on, and bodies do not loop.
FairSpec == Spec /\ WF_vars(Next)

----------------------------------------------------------------------------
(* Properties                                                               *)

Statuses == {"none", "Linked", "Evaluating", "EvaluatingAsync", "Evaluated"}
Kinds == {"host", "walk", "ensure", "body", "drain", "resume", "import", "touch"}

\* What is thrown is on its way up to somebody who looks for it: a body is not
\* run while it is pending (vm.rs:2709-2713, 2806-2809).
TypeOK ==
    /\ throwing => At("walk") \/ At("ensure") \/ At("import") \/ At("touch") \/ At("host")
    /\ status \in [Modules -> Statuses]
    /\ errors \subseteq Modules /\ throwing \in BOOLEAN
    /\ suspended \in Seq(Modules)
    /\ suspendOnAwait \in BOOLEAN /\ awaitSuspended \in BOOLEAN
    /\ \A i \in DOMAIN calls :
          /\ calls[i].k \in Kinds /\ calls[i].of \in Modules
          /\ calls[i].list \in Seq(Modules)
    /\ awaits \in [Modules -> 0 .. MaxAwaits] /\ imports \in 0 .. MaxImports
    /\ ended \subseteq Modules /\ orphaned \in BOOLEAN

\* Where a suspended module is: in suspended_module_states, in the batch of a
\* round, or running again.
IsResumed(call) == call.k \in {"body", "drain"} /\ call.resumed
Places(m) ==
    {<<0, j>> : j \in {n \in DOMAIN suspended : suspended[n] = m}}
    \cup (UNION {{<<i, j>> : j \in {n \in DOMAIN calls[i].list : calls[i].list[n] = m}} :
                   i \in {n \in DOMAIN calls : calls[n].k = "resume"}})
    \cup {<<i, 0>> : i \in {n \in DOMAIN calls : IsResumed(calls[n]) /\ calls[n].of = m}}

UnderWay(m) ==
    \E i \in DOMAIN calls :
        calls[i].of = m /\ calls[i].k \in {"host", "ensure", "body", "drain"}

\* A body begins once, whatever imports, cycles and failures ask for it again,
\* and when it does, what it imports has been evaluated, unless it is in a
\* cycle with it, only deferred, failed while it was suspended, or is being
\* evaluated further down the stack, which a dynamic import does
\* (vm.rs:2701-2706, 2738, 2612-2619).
DependenciesFirst ==
    [][\A m \in Modules : starts'[m] > starts[m] =>
       /\ starts[m] = 0
       /\ \A r \in Elements(Requests(m)) :
              \/ r.phase = "defer" \/ status[r.to] = "Evaluated"
              \/ InCycle(m, r.to) \/ r.to \in lateErrors \/ UnderWay(r.to)]_vars

\* A module that is EvaluatingAsync is suspended in one place, and no other is:
\* rounds inside rounds neither lose nor double it; and a walk that is not
\* broken off leaves nothing suspended when the host goes on: no two modules
\* wait for each other (vm.rs:2609-2620, 2687-2689).
HeldUntilResumed ==
    /\ \A m \in Modules : Cardinality(Places(m)) = IF status[m] = "EvaluatingAsync" THEN 1 ELSE 0
    /\ Len(calls) = 1 /\ At("body") /\ ~orphaned => suspended = <<>>

\* A module that is imported is finalized only when its body has run to its
\* end, and a deferred one that JavaScript has touched is such a one, not
\* suspended (vm.rs:1803-1826, 2787-2804).  The main module, which may be
\* cut at its first await and recorded as evaluated, is not meant.
ImportedInFull ==
    /\ \A m \in Modules \ {Main} : status[m] = "Evaluated" => m \in ended
    /\ At("touch") /\ ~throwing => status[Top.of] = "Evaluated"

\* Every evaluation ends (vm.rs:2608-2690).
EvaluationEnds == <>(calls = <<>>)
=============================================================================
