-------------------------- MODULE LoopDetectorProofs --------------------------
(***************************************************************************)
(* Proofs about LoopDetector, for any fingerprints, window and threshold.  *)
(* The counter is all the code has; WindowInv says what it tells of the    *)
(* requests that were let through, by sums over their ages.                *)
(***************************************************************************)
EXTENDS LoopDetector, SumProofs

USE LoopAssumption DEF Ages

Inv == TypeOK /\ WindowInv

(* The alternatives of WindowInv.                                          *)
Closed(f) ==
    /\ counters[f] = Store!NoCounter
    /\ passed[f][0] = 0
    /\ Recent(f) < LoopThreshold

Open(f) ==
    /\ counters[f].count > 0
    /\ counters[f].life > 0
    /\ passed[f][Elapsed(f)] > 0
    /\ SinceOpened(f) = Capped(counters[f].count)
    /\ Recent(f) - SinceOpened(f) < LoopThreshold

LEMMA ByWindow == WindowInv <=> \A f \in Fingerprints : Closed(f) \/ Open(f)
BY DEF WindowInv, Closed, Open

LEMMA Counts ==
    ASSUME TypeOK, NEW f \in Fingerprints
    PROVE  /\ counters[f].count \in 0 .. LoopThreshold + 1
           /\ counters[f].life \in 0 .. LoopWindow
           /\ passed[f] \in [0 .. LoopWindow - 1 -> Nat]
           /\ \A a \in 0 .. LoopWindow - 1 : passed[f][a] \in Nat
BY DEF TypeOK, Store!TypeOK

(* Sums that the properties and the invariant speak of.                    *)
LEMMA Sums ==
    ASSUME TypeOK, NEW f \in Fingerprints
    PROVE  /\ Recent(f) = SumFunctionOnSet(passed[f], 0 .. LoopWindow - 1)
           /\ Recent(f) \in Nat
           /\ counters[f].life > 0 =>
                /\ Elapsed(f) \in Ages
                /\ SinceOpened(f) \in Nat
                /\ SinceOpened(f) <= Recent(f)
<1>1. Recent(f) = SumFunctionOnSet(passed[f], 0 .. LoopWindow - 1)
  BY Counts DEF Recent, SumFunction
<1>2. Recent(f) \in Nat
  BY <1>1, Counts, PrefixIsNat
<1>3. ASSUME counters[f].life > 0
      PROVE  /\ Elapsed(f) \in Ages
             /\ SinceOpened(f) \in Nat
             /\ SinceOpened(f) <= Recent(f)
  <2>1. Elapsed(f) \in Ages
    BY <1>3, Counts DEF Elapsed
  <2>2. \A a \in 0 .. LoopWindow - 1 : passed[f][a] \in Nat
    BY Counts
  <2>3. SinceOpened(f) \in Nat
    BY <2>1, <2>2, PrefixIsNat DEF SinceOpened
  <2>4. SinceOpened(f) <= Recent(f)
    BY <1>1, <2>1, <2>2, PrefixMonotone DEF SinceOpened
  <2> QED BY <2>1, <2>3, <2>4
<1> QED BY <1>1, <1>2, <1>3

-----------------------------------------------------------------------------
(* Types *)

LEMMA TypesAtFirst == Init => TypeOK
BY DEF Init, TypeOK, Store!Init, Store!TypeOK, Store!NoCounter, Store!NoValue

LEMMA StoreTypes ==
    ASSUME TypeOK, NEW f \in Fingerprints, Store!IncrInWindow(f, LoopWindow)
    PROVE  Store!TypeOK'
<1>1. Store!CountAfter(f) \in 0 .. LoopThreshold + 1
  BY Counts DEF Store!CountAfter
<1>2. [count |-> Store!CountAfter(f),
       life |-> IF counters[f].count = 0 THEN LoopWindow ELSE counters[f].life]
        \in [count : 0 .. LoopThreshold + 1, life : 0 .. LoopWindow]
  BY <1>1, Counts
<1> QED BY <1>2 DEF TypeOK, Store!TypeOK, Store!IncrInWindow

LEMMA TypesKept == TypeOK /\ [Next]_vars => TypeOK'
<1> SUFFICES ASSUME TypeOK, [Next]_vars PROVE TypeOK'
  OBVIOUS
<1> USE DEF TypeOK, Store!TypeOK
<1>1. ASSUME NEW f \in Fingerprints, LetThrough(f) PROVE TypeOK'
  <2>1. Store!IncrInWindow(f, LoopWindow)
    BY <1>1 DEF LetThrough
  <2>2. Store!TypeOK'
    BY <2>1, StoreTypes
  <2>3. passed' \in [Fingerprints -> [Ages -> Nat]]
    BY <1>1 DEF LetThrough
  <2> QED BY <2>2, <2>3
<1>2. ASSUME NEW f \in Fingerprints, Deny(f) PROVE TypeOK'
  <2>1. Store!TypeOK'
    BY <1>2, StoreTypes DEF Deny
  <2> QED BY <1>2, <2>1 DEF Deny
<1>3. ASSUME Tick PROVE TypeOK'
  <2>1. counters' \in [Fingerprints -> [count : 0 .. LoopThreshold + 1,
                                        life : 0 .. LoopWindow]]
    BY <1>3, Counts DEF Tick, Store!Tick, Store!Aged, Store!NoCounter
  <2>2. passed' \in [Fingerprints -> [Ages -> Nat]]
    BY <1>3 DEF Tick
  <2>3. values' = [k \in {} |-> Store!Aged(values[k], Store!NoValue)]
    BY <1>3 DEF Tick, Store!Tick
  <2> QED BY <2>1, <2>2, <2>3
<1>4. ASSUME UNCHANGED vars PROVE TypeOK'
  BY <1>4 DEF vars
<1> QED BY <1>1, <1>2, <1>3, <1>4 DEF Next

-----------------------------------------------------------------------------
(* The window of a fingerprint, step by step *)

LEMMA AloneChanged ==
    ASSUME TypeOK, NEW f \in Fingerprints, LetThrough(f) \/ Deny(f),
           NEW g \in Fingerprints \ {f}
    PROVE  (Closed(g) => Closed(g)') /\ (Open(g) => Open(g)')
<1>1. counters'[g] = counters[g] /\ passed'[g] = passed[g]
  BY DEF TypeOK, LetThrough, Deny, Store!TypeOK, Store!IncrInWindow
<1> QED
  BY <1>1 DEF Closed, Open, Recent, Elapsed, SinceOpened, Capped

LEMMA OneMore ==
    ASSUME TypeOK, NEW f \in Fingerprints, LetThrough(f), NEW n \in Ages
    PROVE  /\ SumFunctionOnSet(passed'[f], 0 .. n) =
                SumFunctionOnSet(passed[f], 0 .. n) + 1
           /\ passed'[f] = [passed[f] EXCEPT ![0] = @ + 1]
           /\ SumFunctionOnSet(passed[f], 0 .. n) \in Nat
<1>1. passed'[f] = [passed[f] EXCEPT ![0] = @ + 1]
  BY DEF LetThrough, TypeOK
<1>2. passed[f] \in [0 .. LoopWindow - 1 -> Nat]
  BY Counts
<1>3. IsFiniteSet(0 .. n) /\ 0 \in 0 .. n /\ \A x \in 0 .. n : passed[f][x] \in Nat
  <2>1. n \in 0 .. LoopWindow - 1
    OBVIOUS
  <2>2. IsFiniteSet(0 .. n)
    BY <2>1, FS_Interval
  <2>3. \A x \in 0 .. n : passed[f][x] \in Nat
    BY <1>2, <2>1
  <2> QED BY <2>1, <2>2, <2>3
<1>4. /\ passed'[f][0] = passed[f][0] + 1
      /\ \A x \in 0 .. n : passed[f][x] \in Int
      /\ \A x \in (0 .. n) \ {0} : passed'[f][x] = passed[f][x]
  BY <1>1, <1>2
<1>5. SumFunctionOnSet(passed'[f], 0 .. n) =
        SumFunctionOnSet(passed[f], 0 .. n) + 1
  BY <1>3, <1>4, SumBumped
<1> QED BY <1>1, <1>3, <1>5, PrefixIsNat

LEMMA LetThroughWindow ==
    ASSUME TypeOK, TypeOK', NEW f \in Fingerprints, LetThrough(f),
           Closed(f) \/ Open(f)
    PROVE  Open(f)'
<1>1. /\ counters[f].count + 1 <= LoopThreshold
      /\ counters'[f].count = counters[f].count + 1
      /\ counters'[f].life =
           IF counters[f].count = 0 THEN LoopWindow ELSE counters[f].life
  BY Counts DEF LetThrough, IsLoop, Store!IncrInWindow, Store!CountAfter, TypeOK,
       Store!TypeOK
<1>2. /\ Recent(f) = SumFunctionOnSet(passed[f], 0 .. LoopWindow - 1)
      /\ Recent(f)' = SumFunctionOnSet(passed'[f], 0 .. LoopWindow - 1)
  BY Sums DEF TypeOK, Recent, SumFunction
<1>3. Recent(f)' = Recent(f) + 1 /\ Recent(f) \in Nat
  <2>1. LoopWindow - 1 \in Ages
    OBVIOUS
  <2> QED BY <1>2, <2>1, OneMore
<1>0. counters'[f].count \in Nat /\ counters[f].count \in Nat
  BY DEF TypeOK, Store!TypeOK
<1>4. CASE Closed(f)
  <2>1. counters'[f].count = 1 /\ Elapsed(f)' = 0
    BY <1>1, <1>4 DEF Closed, Store!NoCounter, Elapsed
  <2>2. passed'[f][0] = 1
    <3>1. 0 \in Ages
      OBVIOUS
    <3>2. passed'[f] = [passed[f] EXCEPT ![0] = @ + 1]
      BY <3>1, OneMore
    <3> QED BY <1>4, <3>2, Counts DEF Closed
  <2>3. SinceOpened(f)' = 1
    <3>1. SumFunctionOnSet(passed'[f], 0 .. 0) =
            SumFunctionOnSet(passed'[f], 0 .. 0 - 1) + passed'[f][0]
      <4>1. \A x \in 0 .. 0 : passed'[f][x] \in Nat
        BY <2>2
      <4> QED BY <4>1, PrefixGrows
    <3> QED BY <2>1, <2>2, <3>1, PrefixOfNone DEF SinceOpened
  <2>4. Capped(counters'[f].count) = 1 /\ counters'[f].life > 0
    BY <1>1, <1>4, <2>1 DEF Capped, Closed, Store!NoCounter
  <2>5. Recent(f)' - SinceOpened(f)' < LoopThreshold
    BY <1>3, <1>4, <2>3 DEF Closed
  <2>6. passed'[f][Elapsed(f)'] > 0
    BY <2>1, <2>2
  <2> QED BY <2>1, <2>3, <2>4, <2>5, <2>6 DEF Open, Capped
<1>5. CASE Open(f)
  <2>1. Elapsed(f)' = Elapsed(f) /\ Elapsed(f) \in Ages
    <3>1. counters[f].count > 0 /\ counters[f].life \in 1 .. LoopWindow
      BY <1>5, Counts DEF Open
    <3>2. counters'[f].life = counters[f].life
      BY <1>1, <1>0, <3>1
    <3> QED BY <3>1, <3>2 DEF Elapsed
  <2>2. SinceOpened(f)' = SinceOpened(f) + 1 /\ SinceOpened(f) \in Nat
    BY <2>1, OneMore DEF SinceOpened
  <2>3. passed'[f][Elapsed(f)] > 0
    <3>1. passed'[f][Elapsed(f)] \in {passed[f][Elapsed(f)],
                                      passed[f][Elapsed(f)] + 1}
      <4>1. passed'[f] = [passed[f] EXCEPT ![0] = @ + 1]
        BY <2>1, OneMore
      <4>2. passed[f] \in [Ages -> Nat]
        BY Counts
      <4> QED BY <2>1, <4>1, <4>2
    <3> QED BY <1>5, <2>1, <3>1, Counts DEF Open
  <2>4. counters'[f].count > 0 /\ counters'[f].life > 0
    BY <1>0, <1>1, <1>5 DEF Open
  <2>5. Capped(counters'[f].count) = Capped(counters[f].count) + 1
    BY <1>0, <1>1 DEF Capped
  <2>6. Recent(f)' - SinceOpened(f)' < LoopThreshold
    BY <1>3, <1>5, <2>2 DEF Open
  <2> QED BY <1>5, <2>1, <2>2, <2>3, <2>4, <2>5, <2>6 DEF Open, Capped
<1> QED BY <1>4, <1>5

(* A denial finds a window open and the threshold reached in it.           *)
LEMMA DenyFinds ==
    ASSUME TypeOK, NEW f \in Fingerprints, Deny(f), Closed(f) \/ Open(f)
    PROVE  Open(f) /\ counters[f].count >= LoopThreshold
<1>1. counters[f].count >= LoopThreshold
  BY Counts DEF Deny, IsLoop, Store!CountAfter
<1> QED BY <1>1 DEF Closed, Store!NoCounter

LEMMA DenyWindow ==
    ASSUME TypeOK, TypeOK', NEW f \in Fingerprints, Deny(f), Closed(f) \/ Open(f)
    PROVE  Open(f)'
<1>1. /\ counters[f].count >= LoopThreshold
      /\ counters'[f].count >= LoopThreshold
      /\ counters'[f].life = counters[f].life
      /\ passed' = passed
  BY Counts DEF Deny, IsLoop, Store!IncrInWindow, Store!CountAfter, TypeOK,
       Store!TypeOK
<1>2. Open(f)
  BY DenyFinds
<1>3. Capped(counters'[f].count) = Capped(counters[f].count)
  <2>1. counters'[f].count \in Nat /\ counters[f].count \in Nat
    BY DEF TypeOK, Store!TypeOK
  <2> QED BY <1>1, <2>1 DEF Capped
<1>4. /\ Recent(f)' = Recent(f) /\ Elapsed(f)' = Elapsed(f)
      /\ SinceOpened(f)' = SinceOpened(f)
  BY <1>1 DEF Recent, Elapsed, SinceOpened
<1>5. Open(f)'
  <2>1. counters'[f].count > 0 /\ counters'[f].life > 0
    <3>1. counters'[f].count \in Nat
      BY DEF TypeOK, Store!TypeOK
    <3> QED BY <1>1, <1>2, <3>1 DEF Open
  <2>2. passed'[f][Elapsed(f)'] > 0
    BY <1>1, <1>2, <1>4 DEF Open
  <2> QED BY <1>2, <1>3, <1>4, <2>1, <2>2 DEF Open, Capped
<1> QED BY <1>5

LEMMA TickWindow ==
    ASSUME TypeOK, TypeOK', NEW f \in Fingerprints, Tick, Closed(f) \/ Open(f)
    PROVE  Closed(f)' \/ Open(f)'
<1> DEFINE P(n) == SumFunctionOnSet(passed[f], 0 .. n)
           Q(n) == SumFunctionOnSet(passed'[f], 0 .. n)
<1>1. /\ passed[f] \in [0 .. LoopWindow - 1 -> Nat]
      /\ passed'[f] = [a \in Ages |-> IF a = 0 THEN 0 ELSE passed[f][a - 1]]
  BY Counts DEF Tick
<1>2. \A n \in Ages : Q(n) = P(n - 1)
  <2> TAKE n \in Ages
  <2>1. /\ \A x \in 0 .. n : passed[f][x] \in Nat
        /\ passed'[f][0] = 0
        /\ \A x \in 1 .. n : passed'[f][x] = passed[f][x - 1]
    BY <1>1
  <2>2. n \in Nat
    OBVIOUS
  <2> QED BY <2>1, <2>2, PrefixShifted
<1>3. \A n \in Ages : P(n) = P(n - 1) + passed[f][n] /\ P(n - 1) \in Nat
  <2> TAKE n \in Ages
  <2>1. \A x \in 0 .. n : passed[f][x] \in Nat
    BY <1>1
  <2>2. \A x \in 0 .. n - 1 : passed[f][x] \in Nat
    BY <1>1
  <2> QED BY <2>1, <2>2, PrefixGrows, PrefixIsNat
<1>4. Recent(f) = P(LoopWindow - 1) /\ Recent(f)' = Q(LoopWindow - 1)
  BY Sums, <1>1 DEF Recent, SumFunction
<1>5. counters'[f] = Store!Aged(counters[f], Store!NoCounter)
  BY DEF Tick, Store!Tick
<1>6. /\ Recent(f)' = Recent(f) - passed[f][LoopWindow - 1]
      /\ Recent(f)' \in Nat /\ Recent(f) \in Nat
      /\ passed[f][LoopWindow - 1] \in Nat
  <2>1. LoopWindow - 1 \in Ages /\ passed[f][LoopWindow - 1] \in Nat
    BY <1>1
  <2>2. /\ Q(LoopWindow - 1) = P(LoopWindow - 1 - 1)
        /\ P(LoopWindow - 1) =
             P(LoopWindow - 1 - 1) + passed[f][LoopWindow - 1]
        /\ P(LoopWindow - 1 - 1) \in Nat
    BY <1>2, <1>3, <2>1
  <2> HIDE DEF P, Q
  <2> QED BY <1>4, <2>1, <2>2
<1>7. CASE Closed(f)
  <2>1. counters'[f] = Store!NoCounter
    BY <1>5, <1>7 DEF Closed, Store!NoCounter, Store!Aged
  <2>2. passed'[f][0] = 0
    BY <1>1
  <2>3. Recent(f)' < LoopThreshold
    BY <1>6, <1>7 DEF Closed
  <2> QED BY <2>1, <2>2, <2>3 DEF Closed
<1>8. CASE Open(f) /\ counters[f].life = 1
  <2>1. counters'[f] = Store!NoCounter
    BY <1>5, <1>8 DEF Store!Aged
  <2>2. Elapsed(f) = LoopWindow - 1 /\ SinceOpened(f) = Recent(f)
    BY <1>4, <1>8 DEF Elapsed, SinceOpened
  <2>3. Recent(f) <= LoopThreshold /\ passed[f][LoopWindow - 1] > 0
    BY <1>8, <2>2, Counts DEF Open, Capped
  <2>4. passed'[f][0] = 0
    BY <1>1
  <2>5. Recent(f)' < LoopThreshold
    BY <1>6, <2>3
  <2> QED BY <2>1, <2>4, <2>5 DEF Closed
<1>9. CASE Open(f) /\ counters[f].life # 1
  <2>1. /\ counters'[f].count = counters[f].count
        /\ counters'[f].life = counters[f].life - 1
        /\ counters[f].life \in 2 .. LoopWindow
    BY <1>5, <1>9, Counts DEF Open, Store!Aged
  <2>2. Elapsed(f)' = Elapsed(f) + 1 /\ Elapsed(f)' \in Ages /\ Elapsed(f) \in Ages
    BY <2>1 DEF Elapsed
  <2>3. SinceOpened(f)' = SinceOpened(f)
    <3>1. SinceOpened(f)' = Q(Elapsed(f)')
      BY DEF SinceOpened
    <3> QED BY <1>2, <2>2, <3>1 DEF SinceOpened
  <2>4. passed'[f][Elapsed(f)'] = passed[f][Elapsed(f)]
    <3> HIDE DEF Q
    <3>1. Elapsed(f)' # 0 /\ Elapsed(f)' - 1 = Elapsed(f)
      BY <2>2
    <3> QED BY <1>1, <2>2, <3>1
  <2>5. SinceOpened(f) \in Nat /\ Recent(f) \in Nat
    BY <2>1, Sums
  <2>6. Recent(f)' - SinceOpened(f)' < LoopThreshold
    BY <1>6, <1>9, <2>3, <2>5 DEF Open
  <2>7. /\ counters'[f].count > 0 /\ counters'[f].life > 0
        /\ passed'[f][Elapsed(f)'] > 0
    BY <1>9, <2>1, <2>4 DEF Open
  <2>8. SinceOpened(f)' = Capped(counters'[f].count)
    BY <1>9, <2>1, <2>3 DEF Open, Capped
  <2> QED BY <2>6, <2>7, <2>8 DEF Open, Capped
<1> QED BY <1>7, <1>8, <1>9

LEMMA WindowsAtFirst == Init => WindowInv
<1> SUFFICES ASSUME Init, NEW f \in Fingerprints PROVE Closed(f)
  BY ByWindow
<1>1. counters[f] = Store!NoCounter /\ passed[f] = [a \in Ages |-> 0]
  BY DEF Init, Store!Init
<1>2. Recent(f) = 0
  <2>1. IsFiniteSet(0 .. LoopWindow - 1)
    BY FS_Interval
  <2> QED BY <1>1, <2>1, SumOfZeros DEF Recent, SumFunction
<1> QED BY <1>1, <1>2 DEF Closed

LEMMA WindowsKept == Inv /\ [Next]_vars => WindowInv'
<1> SUFFICES ASSUME Inv, [Next]_vars PROVE WindowInv'
  OBVIOUS
<1>1. TypeOK /\ TypeOK' /\ \A f \in Fingerprints : Closed(f) \/ Open(f)
  BY TypesKept, ByWindow DEF Inv
<1>2. WindowInv' <=> \A f \in Fingerprints : Closed(f)' \/ Open(f)'
  BY DEF WindowInv, Closed, Open
<1>3. ASSUME NEW f \in Fingerprints, LetThrough(f) PROVE WindowInv'
  BY <1>1, <1>2, <1>3, AloneChanged, LetThroughWindow
<1>4. ASSUME NEW f \in Fingerprints, Deny(f) PROVE WindowInv'
  BY <1>1, <1>2, <1>4, AloneChanged, DenyWindow
<1>5. ASSUME Tick PROVE WindowInv'
  BY <1>1, <1>2, <1>5, TickWindow
<1>6. ASSUME UNCHANGED vars PROVE WindowInv'
  BY <1>6 DEF Inv, vars, WindowInv, Recent, Elapsed, SinceOpened, Capped
<1> QED BY <1>3, <1>4, <1>5, <1>6 DEF Next

-----------------------------------------------------------------------------
(* Theorems *)

(* The counter and the requests let through tell the same story at all     *)
(* times (plane.py:202-218, memory.py:45-53).                              *)
THEOREM CounterTellsRequests == Spec => []Inv
<1>1. Init => Inv
  BY TypesAtFirst, WindowsAtFirst DEF Inv
<1>2. Inv /\ [Next]_vars => Inv'
  BY TypesKept, WindowsKept DEF Inv
<1> QED BY <1>1, <1>2, PTL DEF Spec

(* Fewer than twice the threshold are let through in any span of a window, *)
(* whatever the window, the threshold and the schedule.                    *)
THEOREM LoopsAreBounded == Spec => []TwoWindowBound
<1>1. Inv => TwoWindowBound
  <2> SUFFICES ASSUME Inv, NEW f \in Fingerprints
               PROVE  Recent(f) < 2 * LoopThreshold
    BY DEF TwoWindowBound
  <2>1. TypeOK /\ (Closed(f) \/ Open(f))
    BY ByWindow DEF Inv
  <2>2. CASE Closed(f)
    BY <2>1, <2>2, Sums DEF Closed
  <2>3. CASE Open(f)
    <3>1. SinceOpened(f) <= LoopThreshold
      BY <2>1, <2>3, Counts DEF Open, Capped
    <3> QED BY <2>1, <2>3, <3>1, Sums DEF Open
  <2> QED BY <2>1, <2>2, <2>3
<1> QED BY <1>1, CounterTellsRequests, PTL

(* A denial means that the threshold was reached within the last window.   *)
THEOREM DenialsRestOnLoops == Spec => NoDenialWithoutLoop
<1>1. ASSUME Inv, NEW f \in Fingerprints, Deny(f)
      PROVE  Recent(f) >= LoopThreshold
  <2>1. TypeOK /\ (Closed(f) \/ Open(f))
    BY <1>1, ByWindow DEF Inv
  <2>2. Open(f) /\ counters[f].count >= LoopThreshold
    BY <1>1, <2>1, DenyFinds
  <2>3. SinceOpened(f) = LoopThreshold
    BY <2>1, <2>2, Counts DEF Open, Capped
  <2> QED BY <2>1, <2>2, <2>3, Sums DEF Open
<1>2. Inv => [\A f \in Fingerprints :
                Deny(f) => Recent(f) >= LoopThreshold]_vars
  BY <1>1
<1> QED BY <1>2, CounterTellsRequests, PTL DEF NoDenialWithoutLoop
=============================================================================
