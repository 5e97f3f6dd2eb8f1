----------------------------- MODULE AtomicCell -----------------------------
(***************************************************************************)
(* What the Atomics operations on an element of shared memory promise:     *)
(* each takes effect at one instant, between its call and its return.  One *)
(* that reads returns what it found.  SharedCell implements it; `and`,     *)
(* `or` and `xor` differ from `add` in the arithmetic alone.               *)
(***************************************************************************)
EXTENDS Integers

CONSTANTS
    Threads,
    Modulus,   \* how many values an element has
    Signed,    \* whether the array's type is
    Operands,  \* the numbers the calls are given
    Idle

ASSUME ModulusAssumption == Modulus \in Nat \ {0}
ASSUME OperandsAssumption == Operands \subseteq Int
ASSUME SignedAssumption == Signed \in BOOLEAN

Raw == 0 .. Modulus - 1
Job == [op : {"add", "sub", "exchange", "store", "load", "compareExchange"},
        by : Operands, expected : Operands]

ASSUME IdleAssumption == Idle \notin Int /\ Idle \notin Job

EncodeUnwrapped(n) == n

\* The number that an element's bytes stand for, and back.
Decode(raw) == IF Signed /\ 2 * raw >= Modulus THEN raw - Modulus ELSE raw
Encode(n) == n % Modulus

\* What job j makes of an element.
Updated(j, raw) ==
    CASE j.op = "add" -> Encode(Decode(raw) + j.by)
      [] j.op = "sub" -> Encode(Decode(raw) - j.by)
      [] j.op \in {"exchange", "store"} -> Encode(j.by)
      [] j.op = "load" -> raw
      [] j.op = "compareExchange" -> IF raw = Encode(j.expected) THEN Encode(j.by) ELSE raw

\* What it returns: store the number it was given, the others what they found.
Result(j, raw) == IF j.op = "store" THEN j.by ELSE Decode(raw)

VARIABLES
    cell,    \* the element
    job,     \* [Threads -> the operation a thread is in, or Idle]
    answer   \* [Threads -> what its last operation returned, or Idle]

cellVars == <<cell, job, answer>>

CellInit ==
    /\ cell \in Raw
    /\ job = [t \in Threads |-> Idle]
    /\ answer = [t \in Threads |-> Idle]

Call(t, j) ==
    /\ job[t] = Idle
    /\ job' = [job EXCEPT ![t] = j]
    /\ answer' = [answer EXCEPT ![t] = Idle]
    /\ UNCHANGED cell

TakeEffect(t) ==
    /\ job[t] # Idle
    /\ cell' = Updated(job[t], cell)
    /\ answer' = [answer EXCEPT ![t] = Result(job[t], cell)]
    /\ job' = [job EXCEPT ![t] = Idle]

CellNext ==
    \E t \in Threads :
        \/ \E j \in Job : Call(t, j)
        \/ TakeEffect(t)

CellSpec == CellInit /\ [][CellNext]_cellVars
=============================================================================
