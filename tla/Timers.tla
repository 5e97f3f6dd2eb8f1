------------------------------- MODULE Timers -------------------------------
(***************************************************************************)
(* VM::run and drain_timers.  A run executes a script, drains the          *)
(* microtasks, fires the timers in batches sorted by delay, at most        *)
(* MaxRounds of them, and drains the microtasks again.  JavaScript runs in *)
(* each of these phases; it sets and clears timers, and evalScript or the  *)
(* evaluation of a module starts a run of the same VM inside the phase     *)
(* that called it, which has batches of its own and the same               *)
(* pending_timers and cleared_timers.                                      *)
(***************************************************************************)
EXTENDS Naturals, Sequences, FiniteSets

CONSTANTS
    MaxTimers,  \* bound: timers set
    MaxRuns,    \* bound: runs, those inside others included
    MaxRounds,  \* 1000 in the code
    Delays

ASSUME BoundsAssumption == MaxTimers \in Nat /\ MaxRuns \in Nat /\ MaxRounds \in Nat
ASSUME DelaysAssumption == Delays \subseteq Nat

Timer == 1 .. MaxTimers
NoTimer == 0

VARIABLES
    timers,     \* next_timer_id: how many timers have been set
    delay, interval,  \* delay_ms and is_interval of a timer
    pending,    \* pending_timers
    cleared,    \* cleared_timers
    runs,       \* how often run() was called
    frames,     \* the active run() calls, innermost last
    fired,      \* history: the timers whose callback has been called
    cancelled,  \* history: the timers a script has cleared
    forgotten,  \* history: those among them that cleared_timers lost while
                \* an outer batch held them
    lost        \* history: those dropped with a batch that was given up

registered == <<timers, delay, interval>>
history == <<fired, cancelled, forgotten, lost>>
vars == <<registered, pending, cleared, runs, frames, history>>

\* One run(): its phase, what is left of the batch, the timer whose callback
\* was called last, and the batches taken.
Phases == {"script", "jobs", "rounds", "callback", "after", "last"}
Frame == [at : Phases, batch : Seq(Timer), timer : Timer \cup {NoTimer},
          round : 0 .. MaxRounds]

Fresh == [at |-> "script", batch |-> <<>>, timer |-> NoTimer, round |-> 0]

Init ==
    /\ timers = 0
    /\ delay = [t \in Timer |-> 0] /\ interval = [t \in Timer |-> FALSE]
    /\ pending = <<>> /\ cleared = {}
    /\ runs = 0 /\ frames = <<>>
    /\ fired = {} /\ cancelled = {} /\ forgotten = {} /\ lost = {}

Elements(s) == {s[i] : i \in DOMAIN s}

Top == frames[Len(frames)]
SetTop(f) == [frames EXCEPT ![Len(frames)] = f]
Pop == SubSeq(frames, 1, Len(frames) - 1)
At(phase) == frames # <<>> /\ Top.at = phase
JsRuns == frames # <<>> /\ Top.at # "rounds"

----------------------------------------------------------------------------
(* JavaScript.                                                              *)

\* setTimeout, setInterval.
Set(d, i) ==
    LET t == timers + 1 IN
    /\ JsRuns /\ timers < MaxTimers
    /\ timers' = t
    /\ delay' = [delay EXCEPT ![t] = d]
    /\ interval' = [interval EXCEPT ![t] = i]
    /\ pending' = Append(pending, t)
    /\ UNCHANGED <<cleared, runs, frames, history>>

\* retain(id # t): a timer is in pending_timers at most once (Accounted).
Without(s, t) ==
    IF t \in Elements(s)
    THEN LET p == CHOOSE p \in DOMAIN s : s[p] = t
         IN [i \in 1 .. Len(s) - 1 |-> IF i < p THEN s[i] ELSE s[i + 1]]
    ELSE s

\* clearTimeout, clearInterval.
Clear(t) ==
    /\ JsRuns /\ t <= timers
    /\ cleared' = cleared \cup {t}
    /\ pending' = Without(pending, t)
    /\ cancelled' = cancelled \cup {t} /\ forgotten' = forgotten \ {t}
    /\ UNCHANGED <<registered, runs, frames, fired, lost>>

\* The host runs a script, or JavaScript evaluates one or a module.
Run ==
    /\ frames = <<>> \/ JsRuns
    /\ runs < MaxRuns
    /\ runs' = runs + 1
    /\ frames' = Append(frames, Fresh)
    /\ UNCHANGED <<registered, pending, cleared, history>>

----------------------------------------------------------------------------
(* run: the script, then the microtasks; an error of either ends it.        *)

ScriptEnds ==
    /\ At("script")
    /\ frames' = SetTop([Top EXCEPT !.at = "jobs"])
    /\ UNCHANGED <<registered, pending, cleared, runs, history>>

JobsEnd ==
    /\ At("jobs")
    /\ frames' = SetTop([Top EXCEPT !.at = "rounds"])
    /\ UNCHANGED <<registered, pending, cleared, runs, history>>

\* The rest of the batch goes with the frame, and so does the timer that
\* threw if it is an interval; cleared_timers is left as it is.
Throws ==
    LET dropped == Elements(Top.batch) \cup
                   {t \in {Top.timer} \ {NoTimer} : interval[t]} IN
    /\ JsRuns /\ ~At("after")
    /\ frames' = Pop
    /\ lost' = lost \cup (dropped \ cancelled)
    /\ UNCHANGED <<registered, pending, cleared, runs, fired, cancelled, forgotten>>

RunEnds ==
    /\ At("last")
    /\ frames' = Pop
    /\ UNCHANGED <<registered, pending, cleared, runs, history>>

----------------------------------------------------------------------------
(* drain_timers                                                             *)

Unsorted(s) == s

\* batch.sort_by_key(delay_ms), which is stable.
Before(s, i, j) == \/ delay[s[i]] < delay[s[j]]
                   \/ delay[s[i]] = delay[s[j]] /\ i < j
Rank(s, j) == 1 + Cardinality({i \in DOMAIN s : Before(s, i, j)})
Sorted(s) == [k \in DOMAIN s |-> s[CHOOSE j \in DOMAIN s : Rank(s, j) = k]]

RoundsLeftAtLimit == Top.round <= MaxRounds
RoundsLeft == Top.round < MaxRounds

TakeBatchUncounted ==
    /\ At("rounds") /\ Top.batch = <<>>
    /\ pending # <<>>
    /\ frames' = SetTop([Top EXCEPT !.batch = Sorted(pending)])
    /\ pending' = <<>>
    /\ UNCHANGED <<registered, cleared, runs, history>>

TakeBatch ==
    /\ At("rounds") /\ Top.batch = <<>>
    /\ pending # <<>> /\ RoundsLeft
    /\ frames' = SetTop([Top EXCEPT !.batch = Sorted(pending), !.round = @ + 1])
    /\ pending' = <<>>
    /\ UNCHANGED <<registered, cleared, runs, history>>

SkipCleared ==
    /\ At("rounds") /\ Top.batch # <<>>
    /\ Head(Top.batch) \in cleared
    /\ frames' = SetTop([Top EXCEPT !.batch = Tail(@)])
    /\ UNCHANGED <<registered, pending, cleared, runs, history>>

Fire ==
    LET t == Head(Top.batch) IN
    /\ At("rounds") /\ Top.batch # <<>>
    /\ t \notin cleared
    /\ frames' = SetTop([Top EXCEPT !.at = "callback", !.batch = Tail(@), !.timer = t])
    /\ fired' = fired \cup {t}
    /\ UNCHANGED <<registered, pending, cleared, runs, cancelled, forgotten, lost>>

\* The microtasks that a callback queued run before the next timer.
CallbackEnds ==
    /\ At("callback")
    /\ frames' = SetTop([Top EXCEPT !.at = "after"])
    /\ UNCHANGED <<registered, pending, cleared, runs, history>>

RequeuedOneShot(t) == t \notin cleared
RequeuedCleared(t) == interval[t]

Requeued(t) == interval[t] /\ t \notin cleared

Requeue ==
    /\ At("after")
    /\ pending' = IF Requeued(Top.timer) THEN Append(pending, Top.timer) ELSE pending
    /\ frames' = SetTop([Top EXCEPT !.at = "rounds", !.timer = NoTimer])
    /\ UNCHANGED <<registered, cleared, runs, history>>

\* What the outer runs still hold: their batches, and the intervals whose
\* callbacks run.
HeldOutside ==
    UNION {Elements(frames[n].batch) \cup {frames[n].timer} : n \in 1 .. Len(frames) - 1}

\* cleared_timers is emptied, for the outer runs as well.
DrainEnds ==
    /\ At("rounds") /\ Top.batch = <<>>
    /\ pending = <<>> \/ ~RoundsLeft
    /\ frames' = SetTop([Top EXCEPT !.at = "last"])
    /\ cleared' = {}
    /\ forgotten' = forgotten \cup (cleared \cap HeldOutside)
    /\ UNCHANGED <<registered, pending, runs, fired, cancelled, lost>>

----------------------------------------------------------------------------

Drain == TakeBatch \/ SkipCleared \/ Fire \/ Requeue \/ DrainEnds
PhaseEnds == ScriptEnds \/ JobsEnd \/ CallbackEnds \/ RunEnds

Javascript ==
    \/ \E d \in Delays, i \in BOOLEAN : Set(d, i)
    \/ \E t \in Timer : Clear(t)
    \/ Run \/ Throws

Next == Javascript \/ PhaseEnds \/ Drain

Spec == Init /\ [][Next]_vars

\* The VM goes on, and the JavaScript of a phase comes to an end.
FairSpec == Spec /\ WF_vars(Drain \/ PhaseEnds)

----------------------------------------------------------------------------
(* Properties                                                               *)

TypeOK ==
    /\ timers \in 0 .. MaxTimers
    /\ delay \in [Timer -> Delays \cup {0}] /\ interval \in [Timer -> BOOLEAN]
    /\ pending \in Seq(Timer)
    /\ cleared \subseteq Timer
    /\ runs \in 0 .. MaxRuns
    /\ frames \in Seq(Frame)
    /\ fired \subseteq Timer /\ cancelled \subseteq Timer
    /\ forgotten \subseteq Timer /\ lost \subseteq Timer

\* Where t is: in pending_timers, in a batch, or an interval that runs.
Places(t) ==
         {<<0, i>> : i \in {i \in DOMAIN pending : pending[i] = t}}
    \cup {<<n, 0>> : n \in {n \in DOMAIN frames : frames[n].timer = t /\ interval[t]}}
    \cup (UNION {{<<n, i>> : i \in {i \in DOMAIN frames[n].batch : frames[n].batch[i] = t}} :
                 n \in DOMAIN frames})

\* A timer is in one place only, so it fires once when it is due; it leaves
\* the VM by firing, by being cleared, or with a batch that was given up
\* (vm.rs:46800-46821, nested runs included).
Accounted ==
    \A t \in 1 .. timers :
        /\ Cardinality(Places(t)) <= 1
        /\ ~interval[t] /\ t \in fired => Places(t) = {}
        /\ Places(t) = {} =>
               t \in cancelled \cup lost \cup {u \in fired : ~interval[u]}

\* The step calls the callback of t.
Fires(t) ==
    /\ Len(frames') = Len(frames)
    /\ At("rounds") /\ At("callback")' /\ Top'.timer = t

\* A timer that was cleared does not fire, from whichever queue or batch it
\* was cleared, unless a run inside the batch emptied cleared_timers
\* (vm.rs:46804, 46814, 46825).
ClearedIsQuiet ==
    [][\A t \in cancelled \ forgotten : ~Fires(t)]_vars

\* clearTimeout keeps a timer from firing (tests/timeout_tests.rs:58-59).
ClearedNeverFires == [][\A t \in cancelled : ~Fires(t)]_vars

\* Timeouts fire by delay, and those with the same delay as they were set.  A
\* timeout that waits in the queue while another fires was set later or has
\* the longer delay; only the batches of outer runs may hold one that was to
\* come first (vm.rs:46800-46801).
Precedes(u, t) == delay[u] < delay[t] \/ (delay[u] = delay[t] /\ u < t)
Timeouts(s) == {t \in Elements(s) : ~interval[t]}

NoOvertaking ==
    [][\A t \in Timer : Fires(t) /\ ~interval[t] =>
          /\ \A u \in Timeouts(Top.batch) : ~Precedes(u, t)
          /\ \A u \in Timeouts(pending) : u < t => ~Precedes(u, t)]_vars

\* A run ends even if an interval is never cleared (vm.rs:46795).
RunsEnd == frames # <<>> ~> frames = <<>>
=============================================================================
