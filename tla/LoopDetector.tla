---------------------------- MODULE LoopDetector ----------------------------
(***************************************************************************)
(* GuardPlane._check_loop over the shared store, in time: any worker may   *)
(* ask at any moment whether one more request with a fingerprint is a      *)
(* loop, and the counter of the fingerprint is all the code remembers.     *)
(* `passed' is what it does not: when the requests were let through.       *)
(***************************************************************************)
EXTENDS Integers, Functions

CONSTANTS
    Fingerprints,
    LoopWindow,     \* GuardConfig.loop_window_s, in ticks
    LoopThreshold   \* GuardConfig.loop_threshold; 0 would turn the check off

ASSUME LoopAssumption ==
    LoopWindow \in Nat \ {0} /\ LoopThreshold \in Nat \ {0}

VARIABLES
    values,     \* the store, of which
    counters,   \* the loop detector uses only the counters
    passed,     \* per fingerprint and age: the requests let through then
    verdict     \* what the last check said

vars == <<values, counters, passed, verdict>>

Store == INSTANCE KeyValueStore WITH
            ValueKeys <- {}, CounterKeys <- Fingerprints, Values <- {},
            Absent <- "absent", MaxLife <- LoopWindow,
            MaxCount <- LoopThreshold + 1

Ages == 0 .. LoopWindow - 1

Init ==
    /\ Store!Init
    /\ passed = [f \in Fingerprints |-> [a \in Ages |-> 0]]
    /\ verdict = "none"

\* A fault: the threshold is one too generous.
IsLoopOffByOne(f) == Store!CountAfter(f) > LoopThreshold + 1

IsLoop(f) == Store!CountAfter(f) > LoopThreshold

(* _check_loop returns None.                                               *)
LetThrough(f) ==
    /\ ~ IsLoop(f)
    /\ Store!IncrInWindow(f, LoopWindow)
    /\ passed' = [passed EXCEPT ![f][0] = @ + 1]
    /\ verdict' = "none"

(* _check_loop returns a denial; the increment counts all the same.        *)
Deny(f) ==
    /\ IsLoop(f)
    /\ Store!IncrInWindow(f, LoopWindow)
    /\ verdict' = "loop_detector"
    /\ UNCHANGED passed

Tick ==
    /\ Store!Tick
    /\ passed' = [f \in Fingerprints |->
                    [a \in Ages |-> IF a = 0 THEN 0 ELSE passed[f][a - 1]]]
    /\ verdict' = "none"

Next ==
    \/ \E f \in Fingerprints : LetThrough(f) \/ Deny(f)
    \/ Tick

(* Time passes whatever the workers do.                                    *)
Spec == Init /\ [][Next]_vars /\ WF_vars(Tick)

-----------------------------------------------------------------------------
(* Requests let through in the last LoopWindow ticks.                      *)
Recent(f) == SumFunction(passed[f])

(* However requests and expiries interleave, any span of loop_window_s     *)
(* sees fewer than twice the threshold let through: it overlaps at most    *)
(* two windows, and not the request that opened the first of them.  The    *)
(* window is fixed, not sliding: one less than twice the threshold is      *)
(* reached (plane.py:202-218, memory.py:45-53).                            *)
TwoWindowBound ==
    \A f \in Fingerprints : Recent(f) < 2 * LoopThreshold

(* Nobody is denied for requests that were not made: a denial means that   *)
(* the threshold was reached within the last loop_window_s, not before     *)
(* (plane.py:208-217).                                                     *)
NoDenialWithoutLoop ==
    [][\A f \in Fingerprints : Deny(f) => Recent(f) >= LoopThreshold]_vars

(* A steady stream of requests cannot keep a window open (ports.py:32-35,  *)
(* redis_store.py:21-30).                                                  *)
WindowCloses ==
    \A f \in Fingerprints :
        counters[f].count > 0 ~> counters[f].count = 0

-----------------------------------------------------------------------------
(* Inductive invariant, proved in LoopDetectorProofs *)

TypeOK ==
    /\ Store!TypeOK
    /\ passed \in [Fingerprints -> [Ages -> Nat]]

Elapsed(f) == LoopWindow - counters[f].life

SinceOpened(f) == SumFunctionOnSet(passed[f], 0 .. Elapsed(f))

Capped(n) == IF n < LoopThreshold THEN n ELSE LoopThreshold

(* What the counter tells of the requests let through.  While a window is  *)
(* open: how many since it opened, one of them by opening it; all that are *)
(* recent and older came by one window before, without the request that    *)
(* opened that.  While none is: the last one has lost its first request.   *)
WindowInv ==
    \A f \in Fingerprints :
        \/ /\ counters[f] = Store!NoCounter
           /\ passed[f][0] = 0
           /\ Recent(f) < LoopThreshold
        \/ /\ counters[f].count > 0
           /\ counters[f].life > 0
           /\ passed[f][Elapsed(f)] > 0
           /\ SinceOpened(f) = Capped(counters[f].count)
           /\ Recent(f) - SinceOpened(f) < LoopThreshold
=============================================================================
