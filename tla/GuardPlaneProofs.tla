-------------------------- MODULE GuardPlaneProofs --------------------------
(***************************************************************************)
(* What the guard plane promises for any number of workers, operators and  *)
(* requests, any configuration, and every interleaving of their awaits.    *)
(***************************************************************************)
EXTENDS GuardPlane, SumProofs

-----------------------------------------------------------------------------
(* The store *)

(* The largest threshold is one, and no configuration exceeds it.          *)
LEMMA Threshold ==
    /\ MaxThreshold \in Nat
    /\ \A c \in Configs : c.loop_threshold \in 0 .. MaxThreshold
<1> DEFINE Thresholds == {c.loop_threshold : c \in Configs}
<1>1. \E n \in Thresholds : \A c \in Configs : c.loop_threshold <= n
  BY ConfigsAssumption
<1>2. /\ MaxThreshold \in Thresholds
      /\ \A c \in Configs : c.loop_threshold <= MaxThreshold
  BY <1>1 DEF MaxThreshold
<1> QED
  BY <1>2, LoopAssumption

(* Every operation of the store keeps its types.                           *)
LEMMA StoreTypes ==
    ASSUME Store!TypeOK
    PROVE  /\ \A f \in Fingerprints :
                Store!IncrInWindow(f, LoopWindow) => Store!TypeOK'
           /\ \A reason \in Reasons :
                Store!Set(KillSwitchKey, reason, Store!Forever) => Store!TypeOK'
           /\ Store!DeleteValue(KillSwitchKey) => Store!TypeOK'
           /\ Store!Tick => Store!TypeOK'
           /\ UNCHANGED storeVars => Store!TypeOK'
<1> USE DEF Store!TypeOK
<1>1. ASSUME NEW f \in Fingerprints, Store!IncrInWindow(f, LoopWindow)
      PROVE  Store!TypeOK'
  BY <1>1, Threshold, LoopAssumption DEF Store!IncrInWindow, Store!CountAfter
<1>2. ASSUME NEW reason \in Reasons,
             Store!Set(KillSwitchKey, reason, Store!Forever)
      PROVE  Store!TypeOK'
  BY <1>2 DEF Store!Set, Store!Forever
<1>3. ASSUME Store!DeleteValue(KillSwitchKey)
      PROVE  Store!TypeOK'
  BY <1>3 DEF Store!DeleteValue, Store!NoValue, Store!Forever
<1>4. ASSUME Store!Tick
      PROVE  Store!TypeOK'
  <2>1. ASSUME NEW k \in {KillSwitchKey}
        PROVE  Store!Aged(values[k], Store!NoValue)
                 \in [value : Reasons \cup {None},
                      life : {Store!Forever} \cup Store!Lives]
    <3>1. values[k].life \in 0 .. LoopWindow
      BY LoopAssumption DEF Store!Lives, Store!Forever
    <3>2. values[k].life \notin {0, 1} =>
            values[k].life - 1 \in Store!Lives
      BY <3>1, LoopAssumption DEF Store!Lives
    <3> QED
      BY <3>2 DEF Store!Aged, Store!NoValue, Store!Forever
  <2>2. ASSUME NEW f \in Fingerprints
        PROVE  Store!Aged(counters[f], Store!NoCounter)
                 \in [count : 0 .. MaxThreshold + 1, life : 0 .. LoopWindow]
    <3>1. counters[f].life \notin {0, 1} =>
            counters[f].life - 1 \in 0 .. LoopWindow
      BY LoopAssumption
    <3> QED
      BY <3>1, Threshold, LoopAssumption DEF Store!Aged, Store!NoCounter
  <2> QED
    BY <1>4, <2>1, <2>2 DEF Store!Tick
<1>5. UNCHANGED storeVars => Store!TypeOK'
  BY DEF storeVars
<1> QED
  BY <1>1, <1>2, <1>3, <1>4, <1>5

-----------------------------------------------------------------------------
(* Types *)

LEMMA DecisionTypes ==
    ASSUME TypeOK, NEW w \in Workers, pc[w] # "idle"
    PROVE  /\ Allow \in Decisions
           /\ LocalRefusals(call[w].request) \subseteq Decisions
           /\ \A k \in Keys : Decision("reuse", "semantic_dedup", k) \in Decisions
           /\ Decision("deny", "loop_detector", None) \in Decisions
           /\ Engaged => Decision("deny", "kill_switch", Tripped) \in Decisions
BY DEF TypeOK, Allow, Decision, Decisions, Outcomes, Checks, LocalRefusals,
       Engaged, Tripped, Store!Got, Store!TypeOK

LEMMA InitTypes == Init => TypeOK
BY LoopAssumption, BoundsAssumption, Threshold
   DEF Init, TypeOK, Store!Init, Store!TypeOK, Store!NoValue, Store!NoCounter,
       Store!Forever, Idle, Calls

(* Where the workers are, and what they hold.                              *)
ControlOK ==
    /\ pc \in [Workers -> {"idle", "kill_switch", "loop", "dedup", "audit"}]
    /\ call \in [Workers -> Calls]
    /\ decision \in [Workers -> Decisions \cup {None}]
    /\ \A w \in Workers :
         /\ pc[w] # "idle" => call[w].request \in Requests
         /\ pc[w] = "audit" => decision[w] \in Decisions
    /\ clear \in [Workers -> BOOLEAN]
    /\ known \in [Workers -> BOOLEAN]

LEMMA ControlTypes ==
    ASSUME ControlOK, NEW w \in Workers
    PROVE  /\ \A label \in {"loop", "dedup"} :
                pc[w] # "idle" /\ Goto(w, label) => ControlOK'
           /\ \A d \in Decisions :
                pc[w] # "idle" /\ Decide(w, d) => ControlOK'
           /\ Leave(w) => ControlOK'
<1>1. Idle \in Calls
  BY BoundsAssumption DEF Idle, Calls
<1>2. ASSUME NEW label \in {"loop", "dedup"}, pc[w] # "idle", Goto(w, label)
      PROVE  ControlOK'
  BY <1>2 DEF ControlOK, Goto
<1>3. ASSUME NEW d \in Decisions, pc[w] # "idle", Decide(w, d)
      PROVE  ControlOK'
  BY <1>3 DEF ControlOK, Decide
<1>4. ASSUME Leave(w)
      PROVE  ControlOK'
  BY <1>1, <1>4 DEF ControlOK, Leave
<1> QED
  BY <1>2, <1>3, <1>4

(* What a resumed worker does before its record is written.                *)
LEMMA ResumedTypes ==
    ASSUME TypeOK, NEW w \in Workers,
           \/ DenyKilled(w) \/ RefuseLocally(w) \/ PassLocally(w)
           \/ CheckLoop(w) \/ CheckDedup(w)
    PROVE  ControlOK'
<1> ControlOK /\ pc[w] # "idle"
  BY DEF TypeOK, ControlOK, DenyKilled, RefuseLocally, PassLocally, CheckLoop,
         CheckDedup
<1>1. CASE DenyKilled(w)
  BY <1>1, DecisionTypes, ControlTypes DEF DenyKilled
<1>2. CASE RefuseLocally(w)
  BY <1>2, DecisionTypes, ControlTypes DEF RefuseLocally
<1>3. AfterLoop(w) => ControlOK'
  BY DecisionTypes, ControlTypes DEF AfterLoop
<1>4. CASE PassLocally(w)
  BY <1>3, <1>4, ControlTypes DEF PassLocally
<1>5. CASE CheckLoop(w)
  BY <1>3, <1>5, DecisionTypes, ControlTypes DEF CheckLoop
<1>6. CASE CheckDedup(w)
  <2>1. ASSUME NEW g \in Nearest(call[w].request.prompt) PROVE g.key \in Keys
    BY DEF Nearest, TypeOK, Keys
  <2> QED
    BY <1>6, <2>1, DecisionTypes, ControlTypes DEF CheckDedup
<1> QED
  BY <1>1, <1>2, <1>4, <1>5, <1>6

(* The rest of the state that TypeOK is about.                             *)
RestOK ==
    /\ config \in Configs
    /\ index \subseteq remembered /\ remembered \subseteq Generations
    /\ switching \in [Operators -> Changes \cup {None}]
    /\ returned \subseteq [call : [number : 0 .. MaxCalls, request : Requests],
                            decision : Decisions]
    /\ calls \in 0 .. MaxCalls
    /\ failures \in 0 .. MaxFailures
    /\ clock \in 0 .. MaxTicks

LEMMA TypeParts == TypeOK <=> Store!TypeOK /\ ControlOK /\ RestOK
BY DEF TypeOK, ControlOK, RestOK

LEMMA StepTypes == TypeOK /\ [Next]_vars => TypeOK'
<1> SUFFICES ASSUME TypeOK, [Next]_vars PROVE TypeOK'
  OBVIOUS
<1>0. Store!TypeOK /\ ControlOK /\ RestOK
  BY TypeParts
<1>1. Store!TypeOK' /\ ControlOK' /\ RestOK' => TypeOK'
  BY TypeParts, PTL
<1>2. ASSUME NEW w \in Workers, NEW r \in Requests, Begin(w, r),
             config' = config
      PROVE  TypeOK'
  <2>1. calls + 1 \in 0 .. MaxCalls /\ calls' = calls + 1
    BY <1>0, <1>2, BoundsAssumption DEF RestOK, Begin, NewCall
  <2>2. ControlOK'
    <3>1. [number |-> calls + 1, request |-> r] \in Calls
      BY <2>1 DEF Calls
    <3>2. /\ clear' \in [Workers -> BOOLEAN]
          /\ known' \in [Workers -> BOOLEAN]
      BY <1>0, <1>2 DEF Begin, ControlOK, DuplicateIndexed
    <3> QED
      BY <1>0, <1>2, <3>1, <3>2 DEF Begin, ControlOK
  <2>3. RestOK'
    BY <1>0, <1>2, <2>1 DEF RestOK, Begin, indexVars
  <2>4. Store!TypeOK'
    BY <1>0, <1>2, StoreTypes DEF Begin
  <2> QED
    BY <1>1, <2>2, <2>3, <2>4
<1>3. ASSUME NEW w \in Workers, config' = config,
             \/ DenyKilled(w) \/ RefuseLocally(w) \/ PassLocally(w)
             \/ CheckLoop(w) \/ CheckDedup(w)
      PROVE  TypeOK'
  <2>1. /\ UNCHANGED <<indexVars, switching, bounds, returned>>
        /\ UNCHANGED storeVars \/ \E f \in Fingerprints : Store!IncrInWindow(f, LoopWindow)
    BY <1>0, <1>3
       DEF DenyKilled, RefuseLocally, PassLocally, CheckLoop, CheckDedup,
           Decide, Goto, AfterLoop, LoopKey, Fingerprints, ControlOK
  <2>2. RestOK'
    BY <1>0, <1>3, <2>1 DEF RestOK, bounds, indexVars
  <2> QED
    BY <1>0, <1>1, <1>3, <2>1, <2>2, ResumedTypes, StoreTypes
<1>4. ASSUME NEW w \in Workers, config' = config, RecordDecision(w)
      PROVE  TypeOK'
  <2>1. [call |-> call[w], decision |-> decision[w]]
          \in [call : [number : 0 .. MaxCalls, request : Requests],
               decision : Decisions]
    BY <1>0, <1>4 DEF ControlOK, RecordDecision, Calls
  <2>2. RestOK'
    BY <1>0, <1>4, <2>1 DEF RestOK, RecordDecision, bounds, indexVars
  <2> QED
    BY <1>0, <1>1, <1>4, <2>2, ControlTypes, StoreTypes DEF RecordDecision
<1>5. ASSUME NEW w \in Workers, config' = config, Raise(w)
      PROVE  TypeOK'
  <2>1. RestOK'
    BY <1>0, <1>5, BoundsAssumption DEF RestOK, Raise, indexVars
  <2>2. Store!TypeOK'
    BY <1>0, <1>5, StoreTypes
       DEF Raise, LoopKey, Fingerprints, ControlOK, storeVars
  <2> QED
    BY <1>0, <1>1, <1>5, <2>1, <2>2, ControlTypes DEF Raise
<1>6. ASSUME NEW o \in Operators, config' = config,
             \/ \E reason \in Reasons : Trip(o, reason)
             \/ Reset(o)
      PROVE  TypeOK'
  <2>1. calls' \in 1 .. MaxCalls
    BY <1>0, <1>6, BoundsAssumption DEF RestOK, Trip, Reset, NewCall
  <2>2. \A reason \in Reasons \cup {None}, outcome \in {"tripped", "reset"} :
          Switched(o, outcome, reason) =>
            switching' \in [Operators -> Changes \cup {None}]
    BY <1>0, <2>1 DEF RestOK, Switched, Changes
  <2>3. RestOK'
    BY <1>0, <1>6, <2>1, <2>2 DEF RestOK, Trip, Reset, workerVars, indexVars
  <2>4. ControlOK'
    BY <1>0, <1>6 DEF ControlOK, Trip, Reset, NoteClear, workerVars
  <2> QED
    BY <1>0, <1>1, <1>6, <2>3, <2>4, StoreTypes DEF Trip, Reset
<1>7. ASSUME NEW o \in Operators, config' = config,
             RecordSwitch(o) \/ RecordSwitchRaises(o)
      PROVE  TypeOK'
  <2>1. RestOK' /\ ControlOK'
    BY <1>0, <1>7, BoundsAssumption
       DEF indexVars, RestOK, ControlOK, RecordSwitch, RecordSwitchRaises, workerVars, bounds
  <2> QED
    BY <1>0, <1>1, <1>7, <2>1, StoreTypes DEF RecordSwitch, RecordSwitchRaises
<1>8. ASSUME NEW o \in Operators, config' = config, SwitchRaises(o)
      PROVE  TypeOK'
  <2>1. RestOK'
    BY <1>0, <1>8, BoundsAssumption DEF RestOK, SwitchRaises, NewCall, indexVars
  <2>2. clear' \in [Workers -> BOOLEAN]
    BY <1>0, <1>8 DEF ControlOK, SwitchRaises, NoteClear
  <2>3. ControlOK'
    BY <1>0, <1>8, <2>2 DEF ControlOK, SwitchRaises
  <2> QED
    BY <1>0, <1>1, <1>8, <2>1, <2>3, StoreTypes DEF SwitchRaises
<1>9. ASSUME NEW g \in Generations, config' = config, Remember(g)
      PROVE  TypeOK'
  <2>1. RestOK' /\ ControlOK'
    BY <1>0, <1>9 DEF RestOK, ControlOK, Remember, workerVars, bounds
  <2> QED
    BY <1>0, <1>1, <1>9, <2>1, StoreTypes DEF Remember
<1>10. CASE Tick /\ config' = config
  <2>1. RestOK' /\ ControlOK'
    BY <1>0, <1>10, BoundsAssumption DEF RestOK, ControlOK, Tick, workerVars, indexVars
  <2> QED
    BY <1>0, <1>1, <1>10, <2>1, StoreTypes DEF Tick
<1>11. CASE UNCHANGED vars
  BY <1>0, <1>1, <1>11, StoreTypes
     DEF indexVars, vars, RestOK, ControlOK, workerVars, bounds
<1> QED
  BY <1>2, <1>3, <1>4, <1>5, <1>6, <1>7, <1>8, <1>9, <1>10, <1>11
     DEF Next, Step, Resume

(* Every field of the plane's state has its type.                          *)
THEOREM PlaneTypeCorrect == Spec => []TypeOK
BY InitTypes, StepTypes, PTL DEF Spec

-----------------------------------------------------------------------------
(* The kill switch *)

(* The switch does not expire, and a worker that has not looked at it yet, *)
(* and would not have seen it off, will see it engaged.                    *)
SwitchInv ==
    /\ values[KillSwitchKey].life = Store!Forever
    /\ \A w \in Workers : pc[w] = "kill_switch" /\ ~ clear[w] => Engaged

KillInv == SwitchInv /\ StoppedWhileEngaged

(* What the operations of the store do to the switch.                      *)
LEMMA SwitchOperations ==
    ASSUME Store!TypeOK
    PROVE  /\ \A f \in Fingerprints :
                Store!IncrInWindow(f, LoopWindow) => values' = values
           /\ \A reason \in Reasons :
                Store!Set(KillSwitchKey, reason, Store!Forever) =>
                  /\ values'[KillSwitchKey].life = Store!Forever
                  /\ Tripped' = reason /\ Engaged'
           /\ Store!DeleteValue(KillSwitchKey) =>
                /\ values'[KillSwitchKey].life = Store!Forever
                /\ ~ Engaged'
           /\ Store!Tick /\ values[KillSwitchKey].life = Store!Forever =>
                /\ values'[KillSwitchKey].life = Store!Forever
                /\ Tripped' = Tripped
           /\ UNCHANGED storeVars => values' = values
BY NoneAssumption
   DEF Store!TypeOK, Store!IncrInWindow, Store!Set, Store!DeleteValue,
       Store!Tick, Store!Aged, Store!NoValue, Store!Forever, Tripped, Engaged,
       Store!Got, storeVars

LEMMA InitKill == Init => KillInv
BY DEF Init, KillInv, SwitchInv, StoppedWhileEngaged, Store!Init, Store!NoValue

LEMMA StepKill == TypeOK /\ KillInv /\ [Next]_vars => KillInv'
<1> SUFFICES ASSUME TypeOK, KillInv, [Next]_vars PROVE KillInv'
  OBVIOUS
<1> USE DEF KillInv, SwitchInv, StoppedWhileEngaged
<1>0. Store!TypeOK /\ ControlOK /\ RestOK
  BY TypeParts
<1>1. ASSUME values' = values
      PROVE  /\ values'[KillSwitchKey].life = Store!Forever
             /\ Engaged' = Engaged
             /\ Tripped' = Tripped
  BY <1>1 DEF Engaged, Tripped, Store!Got
<1>2. ASSUME NEW w \in Workers, NEW r \in Requests, Begin(w, r)
      PROVE  KillInv'
  <2>1. values' = values
    BY <1>0, <1>2, SwitchOperations DEF Begin
  <2>2. /\ pc'[w] = "kill_switch"
        /\ ~ clear'[w] => Engaged
        /\ \A v \in Workers \ {w} : pc'[v] = pc[v] /\ clear'[v] = clear[v]
        /\ decision' = decision
    BY <1>0, <1>2 DEF Begin, ControlOK
  <2> QED
    BY <1>1, <2>1, <2>2
<1>3. ASSUME NEW w \in Workers, DenyKilled(w)
      PROVE  KillInv'
  BY <1>0, <1>1, <1>3, SwitchOperations
     DEF DenyKilled, Decide, Decision, ControlOK
<1>4. ASSUME NEW w \in Workers, RefuseLocally(w) \/ PassLocally(w)
      PROVE  KillInv'
  <2>1. /\ clear[w] /\ UNCHANGED <<storeVars, clear>>
        /\ \A v \in Workers \ {w} : pc'[v] = pc[v] /\ decision'[v] = decision[v]
        /\ pc'[w] # "kill_switch"
    BY <1>0, <1>4
       DEF RefuseLocally, PassLocally, Goto, Decide, AfterLoop, ControlOK
  <2> QED
    BY <1>0, <1>1, <2>1, SwitchOperations DEF ControlOK
<1>5. ASSUME NEW w \in Workers, CheckLoop(w) \/ CheckDedup(w)
      PROVE  KillInv'
  <2>1. /\ clear[w] /\ UNCHANGED clear /\ values' = values
        /\ \A v \in Workers \ {w} : pc'[v] = pc[v] /\ decision'[v] = decision[v]
        /\ pc'[w] # "kill_switch"
    BY <1>0, <1>5, SwitchOperations
       DEF CheckLoop, CheckDedup, Goto, Decide, AfterLoop, ControlOK, LoopKey,
           Fingerprints
  <2> QED
    BY <1>0, <1>1, <2>1 DEF ControlOK
<1>6. ASSUME NEW w \in Workers, RecordDecision(w) \/ Raise(w)
      PROVE  KillInv'
  <2>1. values' = values /\ Leave(w)
    BY <1>0, <1>6, SwitchOperations
       DEF RecordDecision, Raise, ControlOK, LoopKey, Fingerprints
  <2> QED
    BY <1>0, <1>1, <2>1 DEF Leave, ControlOK
<1>7. ASSUME NEW o \in Operators, NEW reason \in Reasons, Trip(o, reason)
      PROVE  KillInv'
  BY <1>0, <1>7, SwitchOperations DEF Trip, workerVars
<1>8. ASSUME NEW o \in Operators, Reset(o)
      PROVE  KillInv'
  BY <1>0, <1>8, SwitchOperations DEF Reset, NoteClear, ControlOK
<1>9. ASSUME NEW o \in Operators, RecordSwitch(o) \/ RecordSwitchRaises(o)
      PROVE  KillInv'
  BY <1>0, <1>1, <1>9, SwitchOperations
     DEF RecordSwitch, RecordSwitchRaises, workerVars
<1>10. ASSUME NEW o \in Operators, SwitchRaises(o)
      PROVE  KillInv'
  <2>1. CASE \E reason \in Reasons :
               Store!Set(KillSwitchKey, reason, Store!Forever) /\ UNCHANGED clear
    BY <1>0, <1>10, <2>1, SwitchOperations DEF SwitchRaises
  <2>2. CASE Store!DeleteValue(KillSwitchKey) /\ NoteClear
    BY <1>0, <1>10, <2>2, SwitchOperations DEF SwitchRaises, NoteClear, ControlOK
  <2> QED
    BY <1>10, <2>1, <2>2 DEF SwitchRaises
<1>11. ASSUME NEW g \in Generations, Remember(g)
      PROVE  KillInv'
  BY <1>0, <1>1, <1>11, SwitchOperations DEF Remember, workerVars
<1>12. CASE Tick
  <2>1. Engaged' = Engaged
    BY <1>0, <1>12, SwitchOperations DEF Tick, Engaged
  <2> QED
    BY <1>0, <1>12, <2>1, SwitchOperations DEF Tick, workerVars
<1>13. CASE UNCHANGED vars
  BY <1>0, <1>1, <1>13, SwitchOperations DEF vars, workerVars
<1> QED
  BY <1>2, <1>3, <1>4, <1>5, <1>6, <1>7, <1>8, <1>9, <1>10, <1>11, <1>12, <1>13
     DEF Next, Step, Resume

(* A call that found the switch engaged whenever it could have looked is   *)
(* denied by it, with any number of workers and operators, whatever raises *)
(* and however long it stays engaged (plane.py:141-148).                   *)
THEOREM SwitchStopsCalls == Spec => []StoppedWhileEngaged
<1>1. KillInv => StoppedWhileEngaged
  BY DEF KillInv
<1> QED
  BY <1>1, InitTypes, StepTypes, InitKill, StepKill, PTL DEF Spec

-----------------------------------------------------------------------------
(* The log *)

IsLog == \E S : chain \in Seq(S)

(* A record is appended as it was given, after all the others.             *)
LEMMA RecordAppends ==
    ASSUME IsLog, NEW d, Log!Record(d)
    PROVE  /\ IsLog'
           /\ Len(chain) \in Nat
           /\ Len(chain') = Len(chain) + 1
           /\ \A i \in 1 .. Len(chain) : chain'[i] = chain[i]
           /\ chain'[Len(chain) + 1].detail = d
<1>1. PICK S : chain \in Seq(S)
  BY DEF IsLog
<1>2. PICK new : chain' = Append(chain, new) /\ new.detail = d
  BY DEF Log!Record, Log!Sealed
<1>3. chain' \in Seq(S \cup {new})
  BY <1>1, <1>2
<1> QED
  BY <1>1, <1>2, <1>3 DEF IsLog

(* No two calls have one number: none under way, none in the log, and none *)
(* of those that returned.                                                 *)
NumbersInv ==
    /\ IsLog
    /\ \A w \in Workers : pc[w] # "idle" => call[w].number \in 1 .. calls
    /\ \A o \in Operators : switching[o] # None =>
         /\ switching[o] \in Changes
         /\ switching[o].number \in 1 .. calls
    /\ \A i \in 1 .. Len(chain) : chain[i].detail.call \in 1 .. calls

Distinct ==
    /\ \A v, w \in Workers :
         pc[v] # "idle" /\ pc[w] # "idle" /\ call[v].number = call[w].number
           => v = w
    /\ \A o, p \in Operators :
         /\ switching[o] # None /\ switching[p] # None
         /\ switching[o].number = switching[p].number
         => o = p
    /\ \A w \in Workers, o \in Operators :
         pc[w] # "idle" /\ switching[o] # None =>
           call[w].number # switching[o].number

Unlogged ==
    /\ \A i \in 1 .. Len(chain) :
         /\ \A w \in Workers : pc[w] # "idle" =>
              chain[i].detail.call # call[w].number
         /\ \A o \in Operators : switching[o] # None =>
              chain[i].detail.call # switching[o].number
    /\ \A i, j \in 1 .. Len(chain) :
         chain[i].detail.call = chain[j].detail.call => i = j

ReturnedInv ==
    /\ \A d \in returned : \E i \in 1 .. Len(chain) :
         chain[i].detail = DecisionEntry(d.call, d.decision)
    /\ \A d, e \in returned : d.call.number = e.call.number => d = e

LogInv == NumbersInv /\ Distinct /\ Unlogged /\ ReturnedInv

LEMMA InitLog == Init => LogInv
<1> SUFFICES ASSUME Init PROVE LogInv
  OBVIOUS
<1>1. chain = <<>> /\ chain \in Seq({})
  BY DEF Init, Log!Init
<1>2. IsLog
  BY <1>1 DEF IsLog
<1> QED
  BY <1>1, <1>2
     DEF Init, LogInv, NumbersInv, Distinct, Unlogged, ReturnedInv

(* A step that logs nothing and opens no call keeps the log's invariant.   *)
LEMMA QuietStep ==
    ASSUME LogInv, UNCHANGED <<chain, returned>>, calls' \in Nat, calls \in Nat,
           calls <= calls',
           \A w \in Workers : pc'[w] # "idle" =>
              pc[w] # "idle" /\ call'[w] = call[w],
           \A o \in Operators : switching'[o] # None => switching'[o] = switching[o]
    PROVE  LogInv'
<1>1. NumbersInv'
  BY DEF LogInv, NumbersInv, IsLog
<1>2. Distinct'
  BY DEF LogInv, Distinct
<1>3. Unlogged'
  BY DEF LogInv, Unlogged
<1>4. ReturnedInv'
  BY DEF LogInv, ReturnedInv
<1> QED
  BY <1>1, <1>2, <1>3, <1>4 DEF LogInv

(* A call under way is recorded and is over, returned or not.              *)
LEMMA WorkerLogs ==
    ASSUME TypeOK, LogInv, NEW w \in Workers, pc[w] = "audit",
           Log!Record(DecisionEntry(call[w], decision[w])), Leave(w),
           UNCHANGED <<switching, calls>>,
           \/ returned' = returned
           \/ returned' = returned \cup
                 {[call |-> call[w], decision |-> decision[w]]}
    PROVE  LogInv'
<1> DEFINE entry == DecisionEntry(call[w], decision[w])
           last == Len(chain) + 1
<1>0. PICK new : new = entry
  OBVIOUS
<1>1. /\ IsLog'
      /\ Len(chain) \in Nat /\ Len(chain') = last
      /\ \A i \in 1 .. Len(chain) : chain'[i] = chain[i]
      /\ chain'[last].detail = new
  BY <1>0, RecordAppends DEF LogInv, NumbersInv
<1>2. /\ new.call = call[w].number
      /\ call[w].number \in 1 .. calls
  BY <1>0 DEF DecisionEntry, Entry, LogInv, NumbersInv
<1>3. /\ pc'[w] = "idle"
      /\ \A v \in Workers \ {w} : pc'[v] = pc[v] /\ call'[v] = call[v]
  BY DEF Leave, TypeOK
<1>4. NumbersInv'
  BY <1>1, <1>2, <1>3 DEF LogInv, NumbersInv
<1>5. Distinct'
  BY <1>3 DEF LogInv, Distinct
<1>6. Unlogged'
  <2>1. /\ \A v \in Workers \ {w} : pc[v] # "idle" =>
             call[v].number # new.call
        /\ \A o \in Operators : switching[o] # None =>
             switching[o].number # new.call
        /\ \A i \in 1 .. Len(chain) : chain[i].detail.call # new.call
    BY <1>2 DEF LogInv, Distinct, Unlogged
  <2>2. ASSUME NEW v \in Workers, pc'[v] # "idle", NEW i \in 1 .. last
        PROVE  chain'[i].detail.call # call'[v].number
    <3>1. pc[v] # "idle" /\ v # w /\ call'[v] = call[v]
      BY <1>3, <2>2
    <3>2. CASE i = last
      BY <1>1, <2>1, <3>1, <3>2
    <3>3. CASE i \in 1 .. Len(chain)
      BY <1>1, <3>1, <3>3 DEF LogInv, Unlogged
    <3> QED BY <1>1, <3>2, <3>3
  <2>3. ASSUME NEW p \in Operators, switching'[p] # None, NEW i \in 1 .. last
        PROVE  chain'[i].detail.call # switching'[p].number
    <3>1. switching'[p] = switching[p]
      OBVIOUS
    <3>2. CASE i = last
      BY <1>1, <2>1, <2>3, <3>1, <3>2
    <3>3. CASE i \in 1 .. Len(chain)
      BY <1>1, <2>3, <3>1, <3>3 DEF LogInv, Unlogged
    <3> QED BY <1>1, <3>2, <3>3
  <2>4. \A i, j \in 1 .. last :
          chain'[i].detail.call = chain'[j].detail.call => i = j
    BY <1>1, <2>1 DEF LogInv, Unlogged
  <2> HIDE DEF last
  <2> QED BY <1>1, <2>2, <2>3, <2>4 DEF Unlogged
<1>7. ReturnedInv'
  <2>1. ASSUME NEW d \in returned
        PROVE  \E i \in 1 .. Len(chain') :
                 /\ chain'[i].detail = DecisionEntry(d.call, d.decision)
                 /\ i <= Len(chain)
    BY <1>1 DEF LogInv, ReturnedInv
  <2>2. ASSUME NEW d \in returned
        PROVE  d.call.number # call[w].number
    <3>1. PICK i \in 1 .. Len(chain) :
            chain[i].detail = DecisionEntry(d.call, d.decision)
      BY DEF LogInv, ReturnedInv
    <3>2. chain[i].detail.call = d.call.number
      BY <3>1 DEF DecisionEntry, Entry
    <3> QED
      BY <3>2 DEF LogInv, Unlogged
  <2>3. CASE returned' = returned
    BY <2>1, <2>3 DEF LogInv, ReturnedInv
  <2>4. CASE returned' = returned \cup
                           {[call |-> call[w], decision |-> decision[w]]}
    <3>1. PICK r : r = [call |-> call[w], decision |-> decision[w]]
      OBVIOUS
    <3>2. /\ chain'[last].detail = DecisionEntry(r.call, r.decision)
          /\ last \in 1 .. Len(chain')
      BY <1>0, <1>1, <3>1
    <3>3. \A d \in returned' : \E i \in 1 .. Len(chain') :
            chain'[i].detail = DecisionEntry(d.call, d.decision)
      BY <2>1, <2>4, <3>1, <3>2
    <3>4. \A d, e \in returned' : d.call.number = e.call.number => d = e
      BY <2>2, <2>4, <3>1 DEF LogInv, ReturnedInv
    <3> QED
      BY <3>3, <3>4 DEF ReturnedInv, DecisionEntry, Entry
  <2> QED
    BY <2>3, <2>4
<1> QED
  BY <1>4, <1>5, <1>6, <1>7 DEF LogInv

(* A change of the switch is recorded.                                     *)
LEMMA OperatorLogs ==
    ASSUME TypeOK, LogInv, NEW o \in Operators, switching[o] # None,
           Log!Record(SwitchEntry(switching[o])),
           switching' = [switching EXCEPT ![o] = None],
           UNCHANGED <<pc, call, returned, calls>>
    PROVE  LogInv'
<1> DEFINE last == Len(chain) + 1
<1>0. PICK new : new = SwitchEntry(switching[o])
  OBVIOUS
<1>1. /\ IsLog'
      /\ Len(chain) \in Nat /\ Len(chain') = last
      /\ \A i \in 1 .. Len(chain) : chain'[i] = chain[i]
      /\ chain'[last].detail = new
  BY <1>0, RecordAppends DEF LogInv, NumbersInv
<1>2. /\ new.call = switching[o].number
      /\ switching[o].number \in 1 .. calls
  BY <1>0 DEF SwitchEntry, Entry, LogInv, NumbersInv
<1>3. /\ switching'[o] = None
      /\ \A p \in Operators \ {o} : switching'[p] = switching[p]
  BY DEF TypeOK
<1>4. NumbersInv'
  BY <1>1, <1>2, <1>3 DEF LogInv, NumbersInv
<1>5. Distinct'
  BY <1>3 DEF LogInv, Distinct
<1>6. Unlogged'
  <2>1. /\ \A v \in Workers : pc[v] # "idle" => call[v].number # new.call
        /\ \A p \in Operators \ {o} : switching[p] # None =>
             switching[p].number # new.call
        /\ \A i \in 1 .. Len(chain) : chain[i].detail.call # new.call
    BY <1>2 DEF LogInv, Distinct, Unlogged
  <2>2. ASSUME NEW v \in Workers, pc'[v] # "idle", NEW i \in 1 .. last
        PROVE  chain'[i].detail.call # call'[v].number
    <3>1. pc[v] # "idle" /\ call'[v] = call[v]
      BY <2>2
    <3>2. CASE i = last
      BY <1>1, <2>1, <3>1, <3>2
    <3>3. CASE i \in 1 .. Len(chain)
      BY <1>1, <3>1, <3>3 DEF LogInv, Unlogged
    <3> QED BY <1>1, <3>2, <3>3
  <2>3. ASSUME NEW p \in Operators, switching'[p] # None, NEW i \in 1 .. last
        PROVE  chain'[i].detail.call # switching'[p].number
    <3>1. p # o /\ switching'[p] = switching[p]
      BY <1>3, <2>3
    <3>2. CASE i = last
      BY <1>1, <2>1, <2>3, <3>1, <3>2
    <3>3. CASE i \in 1 .. Len(chain)
      BY <1>1, <2>3, <3>1, <3>3 DEF LogInv, Unlogged
    <3> QED BY <1>1, <3>2, <3>3
  <2>4. \A i, j \in 1 .. last :
          chain'[i].detail.call = chain'[j].detail.call => i = j
    BY <1>1, <2>1 DEF LogInv, Unlogged
  <2> HIDE DEF last
  <2> QED BY <1>1, <2>2, <2>3, <2>4 DEF Unlogged
<1>7. ReturnedInv'
  BY <1>1 DEF LogInv, ReturnedInv
<1> QED
  BY <1>4, <1>5, <1>6, <1>7 DEF LogInv

(* A call of evaluate() gets a number of its own.                          *)
LEMMA WorkerBegins ==
    ASSUME TypeOK, LogInv, NEW w \in Workers, NEW r \in Requests, Begin(w, r)
    PROVE  LogInv'
<1>1. /\ calls \in Nat /\ calls' = calls + 1
      /\ call'[w].number = calls + 1
      /\ \A v \in Workers \ {w} : pc'[v] = pc[v] /\ call'[v] = call[v]
      /\ UNCHANGED <<chain, switching, returned>>
  BY BoundsAssumption DEF TypeOK, Begin, NewCall
<1>2. NumbersInv'
  BY <1>1 DEF LogInv, NumbersInv, IsLog
<1>3. Distinct'
  BY <1>1 DEF LogInv, Distinct, NumbersInv
<1>4. Unlogged'
  BY <1>1 DEF LogInv, Unlogged, NumbersInv
<1>5. ReturnedInv'
  BY <1>1 DEF LogInv, ReturnedInv
<1> QED
  BY <1>2, <1>3, <1>4, <1>5 DEF LogInv

(* So does a change of the switch.                                         *)
LEMMA OperatorBegins ==
    ASSUME TypeOK, LogInv, NEW o \in Operators, NewCall,
           NEW outcome \in {"tripped", "reset"},
           NEW reason \in Reasons \cup {None},
           Switched(o, outcome, reason),
           UNCHANGED <<chain, pc, call, returned>>
    PROVE  LogInv'
<1>1. /\ calls \in Nat /\ calls' = calls + 1 /\ calls' \in 1 .. MaxCalls
      /\ switching'[o].number = calls + 1
      /\ switching'[o] \in Changes
      /\ \A p \in Operators \ {o} : switching'[p] = switching[p]
  BY BoundsAssumption DEF TypeOK, Switched, NewCall, Changes
<1>2. NumbersInv'
  BY <1>1 DEF LogInv, NumbersInv, IsLog
<1>3. Distinct'
  BY <1>1 DEF LogInv, Distinct, NumbersInv
<1>4. Unlogged'
  BY <1>1 DEF LogInv, Unlogged, NumbersInv
<1>5. ReturnedInv'
  BY DEF LogInv, ReturnedInv
<1> QED
  BY <1>2, <1>3, <1>4, <1>5 DEF LogInv

LEMMA StepLog == TypeOK /\ LogInv /\ [Next]_vars => LogInv'
<1> SUFFICES ASSUME TypeOK, LogInv, [Next]_vars PROVE LogInv'
  OBVIOUS
<1>0. calls \in Nat /\ calls <= calls
  BY BoundsAssumption DEF TypeOK
<1>1. ASSUME NEW w \in Workers, NEW r \in Requests, Begin(w, r)
      PROVE  LogInv'
  BY <1>1, WorkerBegins
<1>2. ASSUME NEW w \in Workers,
             \/ DenyKilled(w) \/ RefuseLocally(w) \/ PassLocally(w)
             \/ CheckLoop(w) \/ CheckDedup(w)
      PROVE  LogInv'
  <2>1. /\ UNCHANGED <<chain, returned, switching, calls, call>>
        /\ \A v \in Workers : pc'[v] # "idle" => pc[v] # "idle"
    BY <1>2
       DEF DenyKilled, RefuseLocally, PassLocally, CheckLoop, CheckDedup,
           Decide, Goto, AfterLoop, TypeOK, bounds
  <2> QED
    BY <1>0, <2>1, QuietStep
<1>3. ASSUME NEW w \in Workers, RecordDecision(w)
      PROVE  LogInv'
  BY <1>3, WorkerLogs DEF RecordDecision, bounds
<1>4. ASSUME NEW w \in Workers, Raise(w)
      PROVE  LogInv'
  <2>1. CASE UNCHANGED chain
    <3>1. /\ UNCHANGED <<chain, returned, switching, calls>>
          /\ \A v \in Workers : pc'[v] # "idle" =>
               pc[v] # "idle" /\ call'[v] = call[v]
      BY <1>4, <2>1 DEF Raise, Leave, TypeOK
    <3> QED
      BY <1>0, <3>1, QuietStep
  <2>2. CASE pc[w] = "audit" /\ Log!Record(DecisionEntry(call[w], decision[w]))
    BY <1>4, <2>2, WorkerLogs DEF Raise
  <2> QED
    BY <1>4, <2>1, <2>2 DEF Raise
<1>5. ASSUME NEW o \in Operators, NEW reason \in Reasons, Trip(o, reason)
      PROVE  LogInv'
  BY <1>5, OperatorBegins DEF Trip, workerVars
<1>6. ASSUME NEW o \in Operators, Reset(o)
      PROVE  LogInv'
  BY <1>6, OperatorBegins DEF Reset
<1>7. ASSUME NEW o \in Operators, RecordSwitch(o)
      PROVE  LogInv'
  BY <1>7, OperatorLogs DEF RecordSwitch, workerVars, bounds
<1>8. ASSUME NEW o \in Operators, RecordSwitchRaises(o)
      PROVE  LogInv'
  <2>1. CASE UNCHANGED chain
    <3>1. \A p \in Operators : switching'[p] # None => switching'[p] = switching[p]
      BY <1>8 DEF RecordSwitchRaises, TypeOK
    <3> QED
      BY <1>0, <1>8, <2>1, <3>1, QuietStep DEF RecordSwitchRaises, workerVars
  <2>2. CASE Log!Record(SwitchEntry(switching[o]))
    BY <1>8, <2>2, OperatorLogs DEF RecordSwitchRaises, workerVars
  <2> QED
    BY <1>8, <2>1, <2>2 DEF RecordSwitchRaises
<1>9. ASSUME NEW o \in Operators, SwitchRaises(o)
      PROVE  LogInv'
  <2>1. calls' \in Nat /\ calls <= calls'
    BY <1>0, <1>9 DEF SwitchRaises, NewCall
  <2> QED
    BY <1>0, <1>9, <2>1, QuietStep DEF SwitchRaises
<1>10. ASSUME NEW g \in Generations, Remember(g)
      PROVE  LogInv'
  BY <1>0, <1>10, QuietStep DEF Remember, workerVars, bounds
<1>11. CASE Tick
  BY <1>0, <1>11, QuietStep DEF Tick, workerVars
<1>12. CASE UNCHANGED vars
  BY <1>0, <1>12, QuietStep DEF vars, workerVars, bounds
<1> QED
  BY <1>1, <1>2, <1>3, <1>4, <1>5, <1>6, <1>7, <1>8, <1>9, <1>10, <1>11, <1>12
     DEF Next, Step, Resume

(* No caller holds a decision that is not in the log as it was returned,   *)
(* and no call is in the log twice, whatever raises (plane.py:100,         *)
(* 125-138).                                                               *)
THEOREM ReturnedIsLogged == Spec => []DecisionsLogged
<1>1. LogInv => DecisionsLogged
  BY DEF LogInv, Unlogged, ReturnedInv, DecisionsLogged, Logged
<1> QED
  BY <1>1, InitTypes, StepTypes, InitLog, StepLog, PTL DEF Spec

-----------------------------------------------------------------------------
(* The log as the abstract one *)

(* The bound MaxCalls on the log keeps no record from being written: there *)
(* are as many calls as records at most.                                   *)
RoomForRecords ==
    /\ \A w \in Workers : pc[w] # "idle" => Len(chain) < MaxCalls
    /\ \A o \in Operators : switching[o] # None => Len(chain) < MaxCalls

LEMMA LogHasRoom ==
    ASSUME TypeOK, LogInv, NEW n \in 1 .. calls,
           \A i \in 1 .. Len(chain) : chain[i].detail.call # n
    PROVE  Len(chain) < MaxCalls
<1> DEFINE places  == 1 .. Len(chain)
           numbers == (1 .. calls) \ {n}
           number  == [i \in places |-> chain[i].detail.call]
<1>1. Len(chain) \in Nat /\ calls \in Nat /\ calls <= MaxCalls
  BY BoundsAssumption DEF LogInv, NumbersInv, IsLog, TypeOK
<1>2. number \in Injection(places, numbers)
  <2>1. \A i \in places : chain[i].detail.call \in numbers
    BY DEF LogInv, NumbersInv
  <2>2. \A i, j \in places : number[i] = number[j] => i = j
    BY DEF LogInv, Unlogged
  <2> QED BY <2>1, <2>2 DEF Injection, IsInjective
<1>3. IsFiniteSet(1 .. calls) /\ Cardinality(1 .. calls) = calls
  BY <1>1, FS_Interval
<1>4. IsFiniteSet(numbers) /\ Cardinality(numbers) = calls - 1
  BY <1>3, FS_RemoveElement
<1>5. IsFiniteSet(places) /\ Cardinality(places) = Len(chain)
  <2> DEFINE length == Len(chain)
  <2>1. length \in Nat
    BY <1>1
  <2> HIDE DEF length
  <2>2. IsFiniteSet(1 .. length) /\ Cardinality(1 .. length) = length
    BY <2>1, FS_Interval
  <2> QED BY <2>2 DEF length
<1> HIDE DEF places, numbers, number
<1>6. Cardinality(places) <= Cardinality(numbers)
  BY <1>2, <1>4, FS_Injection DEF ExistsInjection
<1> QED BY <1>1, <1>4, <1>5, <1>6, BoundsAssumption

(* Whoever has a record to write finds room for it in the log: calls and   *)
(* switches carry different numbers, so the bound MaxCalls on the numbers  *)
(* alone stops no recording in the middle of evaluate() or of              *)
(* trip_kill_switch() (plane.py:117-138).                                  *)
THEOREM NoRecordIsKeptOut == Spec => []RoomForRecords
<1>1. TypeOK /\ LogInv => RoomForRecords
  <2> SUFFICES ASSUME TypeOK, LogInv PROVE RoomForRecords
    OBVIOUS
  <2>1. ASSUME NEW w \in Workers, pc[w] # "idle" PROVE Len(chain) < MaxCalls
    <3>1. call[w].number \in 1 .. calls
      BY <2>1 DEF LogInv, NumbersInv
    <3>2. \A i \in 1 .. Len(chain) : chain[i].detail.call # call[w].number
      BY <2>1 DEF LogInv, Unlogged
    <3> QED BY <3>1, <3>2, LogHasRoom
  <2>2. ASSUME NEW o \in Operators, switching[o] # None
        PROVE  Len(chain) < MaxCalls
    <3>1. switching[o].number \in 1 .. calls
      BY <2>2 DEF LogInv, NumbersInv
    <3>2. \A i \in 1 .. Len(chain) :
            chain[i].detail.call # switching[o].number
      BY <2>2 DEF LogInv, Unlogged
    <3> QED BY <3>1, <3>2, LogHasRoom
  <2> QED BY <2>1, <2>2 DEF RoomForRecords
<1> QED BY <1>1, InitTypes, StepTypes, InitLog, StepLog, PTL DEF Spec

(* What is recorded is a record of the abstract log.                       *)
LEMMA EntriesFit ==
    ASSUME TypeOK, LogInv
    PROVE  /\ \A w \in Workers : pc[w] = "audit" =>
                DecisionEntry(call[w], decision[w]) \in Entries
           /\ \A o \in Operators : switching[o] # None =>
                SwitchEntry(switching[o]) \in Entries
<1>1. ASSUME NEW n \in 1 .. calls PROVE n \in 1 .. MaxCalls
  BY BoundsAssumption DEF TypeOK
<1>2. ASSUME NEW w \in Workers, pc[w] = "audit"
      PROVE  DecisionEntry(call[w], decision[w]) \in Entries
  <2>1. call[w].number \in 1 .. MaxCalls
    BY <1>1, <1>2 DEF LogInv, NumbersInv
  <2>2. call[w].request \in Requests
    BY <1>2 DEF TypeOK
  <2>3. decision[w] \in Decisions
    BY <1>2 DEF TypeOK
  <2>4. /\ decision[w].outcome \in Outcomes /\ decision[w].check \in Checks
        /\ decision[w].about \in Reasons \cup Keys \cup {None}
    BY <2>3 DEF Decisions
  <2> QED BY <2>1, <2>2, <2>4 DEF DecisionEntry, Entry, Entries
<1>3. ASSUME NEW o \in Operators, switching[o] # None
      PROVE  SwitchEntry(switching[o]) \in Entries
  <2>1. switching[o] \in Changes
    BY <1>3 DEF LogInv, NumbersInv
  <2>2. /\ switching[o].number \in 1 .. MaxCalls
        /\ switching[o].outcome \in {"tripped", "reset"}
        /\ switching[o].about \in Reasons \cup {None}
    BY <2>1 DEF Changes
  <2>3. "kill_switch" \in Checks
    BY DEF Checks
  <2> QED BY <2>2, <2>3 DEF SwitchEntry, Entry, Entries
<1> QED BY <1>2, <1>3

LEMMA StepOfTheLog == TypeOK /\ LogInv /\ [Next]_vars => [Log!Next]_chain
<1> SUFFICES ASSUME TypeOK, LogInv, Step, chain' # chain PROVE Log!Next
  BY DEF Next, vars
<1>1. \/ \E w \in Workers : /\ pc[w] = "audit"
                            /\ Log!Record(DecisionEntry(call[w], decision[w]))
      \/ \E o \in Operators : /\ switching[o] # None
                              /\ Log!Record(SwitchEntry(switching[o]))
  BY DEF Step, Begin, Resume, DenyKilled, RefuseLocally, PassLocally, CheckLoop,
         CheckDedup, RecordDecision, Raise, Trip, Reset, RecordSwitch,
         RecordSwitchRaises, SwitchRaises, Remember, Tick
<1> QED BY <1>1, EntriesFit DEF Log!Next

(* The plane writes the log as AuditLog does: one chain, extended at its   *)
(* end, a record at a time, by what the plane and its operators do         *)
(* (plane.py:100-138).                                                     *)
THEOREM PlaneExtendsTheLog == Spec => Log!Spec
<1>1. Init => Log!Init
  BY DEF Init
<1> QED
  BY <1>1, InitTypes, StepTypes, InitLog, StepLog, StepOfTheLog, PTL
     DEF Spec, Log!Spec

Chain == INSTANCE AuditTamperingProofs WITH
            MaxRecords <- MaxCalls, Details <- Entries

(* What is tampered with in the log of the plane is found by verify(),     *)
(* except in its last record (audit.py:3-8, 96-111).                       *)
THEOREM PlaneTamperingIsFound == Spec => []Chain!TamperingDetected
<1>1. Log!Init => Chain!Init
  BY DEF Log!Init, Chain!Init
<1>2. [Log!Next]_chain => [Chain!Next]_chain
  BY DEF Log!Next, Log!Record, Log!Sealed, Log!ComputeHash, Log!LastHash,
         Log!GenesisHash, Chain!Next, Chain!Record, Chain!Sealed,
         Chain!ComputeHash, Chain!LastHash, Chain!GenesisHash
<1>3. Chain!Spec => []Chain!TamperingDetected
  BY Chain!TamperingIsFound
<1> QED BY <1>1, <1>2, <1>3, PlaneExtendsTheLog, PTL DEF Log!Spec, Chain!Spec

-----------------------------------------------------------------------------
(* The order of the checks *)

Admissible(r) == MayRun(r.action) /\ r.action \notin ShadowActions

(* Whoever is past the checks without I/O was let through by them.         *)
PassedInv ==
    /\ \A w \in Workers :
         \/ pc[w] \in {"loop", "dedup"}
         \/ pc[w] = "audit" /\ decision[w].outcome \in {"allow", "reuse"}
         => Admissible(call[w].request)
    /\ RefusalsComeFirst

LEMMA PassedLocally ==
    ASSUME TypeOK, NEW r, LocalRefusals(r) = {}
    PROVE  Admissible(r)
<1>1. config.autonomy \in 0 .. 3
  BY ConfigsAssumption DEF TypeOK
<1>2. ~ TooAutonomous(r) /\ r.action \notin ShadowActions
  BY DEF LocalRefusals
<1> QED
  BY <1>1, <1>2
     DEF Admissible, MayRun, TooAutonomous, RequiredLevel, ActionLevels,
         ASSISTANT, OPERATOR, AUTOPILOT

(* The store counts what it is asked to count, and forgets.                *)
LEMMA CounterOperations ==
    ASSUME Store!TypeOK, NEW f \in Fingerprints
    PROVE  /\ \A g \in Fingerprints :
                Store!IncrInWindow(g, LoopWindow) /\ counters'[f].count > 0 =>
                  counters[f].count > 0 \/ f = g
           /\ Store!Tick /\ counters'[f].count > 0 => counters[f].count > 0
           /\ \A reason \in Reasons :
                Store!Set(KillSwitchKey, reason, Store!Forever) =>
                  counters' = counters
           /\ Store!DeleteValue(KillSwitchKey) => counters' = counters
           /\ UNCHANGED storeVars => counters' = counters
BY DEF Store!TypeOK, Store!IncrInWindow, Store!Tick, Store!Aged,
       Store!NoCounter, Store!Set, Store!DeleteValue, storeVars

LEMMA InitPassed == Init => PassedInv
BY DEF Init, PassedInv, RefusalsComeFirst, Store!Init, Store!NoCounter

(* A step that lets nobody past the checks and counts for nobody.          *)
LEMMA PassedStays ==
    ASSUME TypeOK, PassedInv, UNCHANGED <<config, returned>>,
           \A w \in Workers :
             \/ pc'[w] \in {"idle", "kill_switch"}
             \/ UNCHANGED <<pc[w], call[w], decision[w]>>
             \/ pc'[w] = "audit" /\ decision'[w].outcome \notin {"allow", "reuse"}
             \/ call'[w] = call[w] /\ Admissible(call[w].request),
           \A f \in Fingerprints : counters'[f].count > 0 =>
             \/ counters[f].count > 0
             \/ MayRun(f.action) /\ f.action \notin ShadowActions
    PROVE  PassedInv'
<1>1. \A r : Admissible(r)' <=> Admissible(r)
  BY DEF Admissible, MayRun
<1>2. RefusalsComeFirst'
  BY DEF PassedInv, RefusalsComeFirst, MayRun
<1> QED
  BY <1>1, <1>2 DEF PassedInv, Admissible, MayRun

LEMMA StepPassed == TypeOK /\ PassedInv /\ [Next]_vars => PassedInv'
<1> SUFFICES ASSUME TypeOK, PassedInv, [Next]_vars PROVE PassedInv'
  OBVIOUS
<1>0. Store!TypeOK /\ ControlOK /\ RestOK /\ config' = config
  BY TypeParts DEF Next, vars
<1>1. ASSUME NEW w \in Workers, NEW r \in Requests, Begin(w, r)
      PROVE  PassedInv'
  BY <1>0, <1>1, CounterOperations, PassedStays DEF Begin, ControlOK
<1>2. ASSUME NEW w \in Workers, DenyKilled(w) \/ RefuseLocally(w)
      PROVE  PassedInv'
  <2>1. \A r : \A d \in LocalRefusals(r) : d.outcome \notin {"allow", "reuse"}
    BY DEF LocalRefusals, Decision
  <2>2. /\ pc'[w] = "audit" /\ decision'[w].outcome \notin {"allow", "reuse"}
        /\ \A v \in Workers \ {w} : UNCHANGED <<pc[v], call[v], decision[v]>>
        /\ UNCHANGED <<returned, storeVars>>
    BY <1>0, <1>2, <2>1
       DEF DenyKilled, RefuseLocally, Decide, Decision, ControlOK
  <2> QED
    BY <1>0, <2>2, CounterOperations, PassedStays
<1>3. ASSUME NEW w \in Workers, PassLocally(w) \/ CheckLoop(w) \/ CheckDedup(w)
      PROVE  PassedInv'
  <2>1. Admissible(call[w].request)
    BY <1>3, PassedLocally DEF PassLocally, CheckLoop, CheckDedup, PassedInv
  <2>2. /\ UNCHANGED <<call, returned>>
        /\ \A v \in Workers \ {w} : UNCHANGED <<pc[v], call[v], decision[v]>>
    BY <1>0, <1>3
       DEF PassLocally, CheckLoop, CheckDedup, AfterLoop, Goto, Decide, ControlOK
  <2>3. ASSUME NEW f \in Fingerprints, counters'[f].count > 0
        PROVE  \/ counters[f].count > 0
               \/ MayRun(f.action) /\ f.action \notin ShadowActions
    <3>1. LoopKey(w) \in Fingerprints \/ pc[w] = "idle"
      BY <1>0 DEF ControlOK, LoopKey, Fingerprints
    <3>2. LoopKey(w).action = call[w].request.action
      BY DEF LoopKey, Fingerprint
    <3> QED
      BY <1>0, <1>3, <2>1, <2>3, <3>1, <3>2, CounterOperations
         DEF PassLocally, CheckLoop, CheckDedup, Admissible
  <2> QED
    BY <1>0, <2>1, <2>2, <2>3, PassedStays
<1>4. ASSUME NEW w \in Workers, RecordDecision(w)
      PROVE  PassedInv'
  <2>1. /\ pc[w] = "audit" /\ UNCHANGED storeVars
        /\ pc'[w] = "idle"
        /\ \A v \in Workers \ {w} : UNCHANGED <<pc[v], call[v], decision[v]>>
    BY <1>0, <1>4 DEF RecordDecision, Leave, ControlOK
  <2>2. PICK d : /\ d = [call |-> call[w], decision |-> decision[w]]
                 /\ returned' = returned \cup {d}
    BY <1>4 DEF RecordDecision
  <2>3. d.decision.outcome \in {"allow", "reuse"} =>
          Admissible(d.call.request)
    BY <2>1, <2>2 DEF PassedInv
  <2>4. RefusalsComeFirst'
    BY <1>0, <2>1, <2>2, <2>3, CounterOperations
       DEF PassedInv, RefusalsComeFirst, MayRun, Admissible
  <2> QED
    BY <1>0, <2>1, <2>4 DEF PassedInv, Admissible, MayRun
<1>5. ASSUME NEW w \in Workers, Raise(w)
      PROVE  PassedInv'
  <2>1. /\ pc'[w] = "idle" /\ UNCHANGED returned
        /\ \A v \in Workers \ {w} : UNCHANGED <<pc[v], call[v], decision[v]>>
    BY <1>0, <1>5 DEF Raise, Leave, ControlOK
  <2>2. ASSUME NEW f \in Fingerprints, counters'[f].count > 0
        PROVE  \/ counters[f].count > 0
               \/ MayRun(f.action) /\ f.action \notin ShadowActions
    <3>1. LoopKey(w) \in Fingerprints
      BY <1>0, <1>5 DEF ControlOK, LoopKey, Fingerprints, Raise
    <3>2. LoopKey(w).action = call[w].request.action
      BY DEF LoopKey, Fingerprint
    <3>3. CASE UNCHANGED storeVars
      BY <1>0, <2>2, <3>3, CounterOperations
    <3>4. CASE pc[w] = "loop" /\ Store!IncrInWindow(LoopKey(w), LoopWindow)
      BY <1>0, <2>2, <3>1, <3>2, <3>4, CounterOperations DEF PassedInv, Admissible
    <3> QED
      BY <1>5, <3>3, <3>4 DEF Raise
  <2> QED
    BY <1>0, <2>1, <2>2, PassedStays
<1>6. ASSUME NEW o \in Operators,
             \/ \E reason \in Reasons : Trip(o, reason)
             \/ Reset(o) \/ RecordSwitch(o) \/ RecordSwitchRaises(o)
             \/ SwitchRaises(o)
      PROVE  PassedInv'
  <2>1. UNCHANGED <<pc, call, decision, returned, counters>>
    BY <1>0, <1>6
       DEF Trip, Reset, RecordSwitch, RecordSwitchRaises, SwitchRaises,
           workerVars, storeVars, Store!Set, Store!DeleteValue
  <2> QED
    BY <1>0, <2>1, PassedStays
<1>7. ASSUME NEW g \in Generations, Remember(g)
      PROVE  PassedInv'
  BY <1>0, <1>7, PassedStays DEF Remember, workerVars, storeVars
<1>8. CASE Tick
  BY <1>0, <1>8, CounterOperations, PassedStays DEF Tick, workerVars
<1>9. CASE UNCHANGED vars
  BY <1>0, <1>9, PassedStays DEF vars, workerVars, storeVars
<1> QED
  BY <1>1, <1>2, <1>3, <1>4, <1>5, <1>6, <1>7, <1>8, <1>9
     DEF Next, Step, Resume

(* What is let through is what the autonomy level lets run, and what was   *)
(* refused without I/O used up nobody's loop window (plane.py:3-7,         *)
(* 150-174).                                                               *)
THEOREM LocalRefusalsFirst == Spec => []RefusalsComeFirst
<1>1. PassedInv => RefusalsComeFirst
  BY DEF PassedInv
<1> QED
  BY <1>1, InitTypes, StepTypes, InitPassed, StepPassed, PTL DEF Spec

-----------------------------------------------------------------------------
(* What the workers' steps leave alone *)

(* A resumed worker that does not write its record changes its own control *)
(* and the store's counters, nothing else.                                 *)
LEMMA ResumedOnly ==
    ASSUME TypeOK, NEW w \in Workers,
           \/ DenyKilled(w) \/ RefuseLocally(w) \/ PassLocally(w)
           \/ CheckLoop(w) \/ CheckDedup(w)
    PROVE  /\ UNCHANGED <<chain, indexVars, switching, returned, failures, values, clock>>
           /\ \A v \in Workers \ {w} : UNCHANGED <<pc[v], call[v], decision[v]>>
           /\ call'[w] = call[w] /\ pc[w] # "idle" /\ known' = known
           /\ pc'[w] \in {"loop", "dedup", "audit"}
BY DEF DenyKilled, RefuseLocally, PassLocally, CheckLoop, CheckDedup, AfterLoop,
       Goto, Decide, TypeOK, bounds, storeVars, Store!IncrInWindow

(* What it decides, if it does.                                            *)
LEMMA ResumedDecides ==
    ASSUME TypeOK, NEW w \in Workers,
           \/ DenyKilled(w) \/ RefuseLocally(w) \/ PassLocally(w)
           \/ CheckLoop(w) \/ CheckDedup(w),
           pc'[w] = "audit"
    PROVE  \/ DenyKilled(w) /\ decision'[w] = Decision("deny", "kill_switch", Tripped)
           \/ decision'[w] \in LocalRefusals(call[w].request)
           \/ decision'[w] = Decision("deny", "loop_detector", None)
           \/ decision'[w] = Allow
           \/ /\ CheckDedup(w)
              /\ \E k \in Nearest(call[w].request.prompt) :
                   /\ IsDuplicate(call[w].request.prompt, k)
                   /\ decision'[w] = Decision("reuse", "semantic_dedup", k.key)
BY DEF DenyKilled, RefuseLocally, PassLocally, CheckLoop, CheckDedup, AfterLoop,
       Goto, Decide, TypeOK

LEMMA LocalRefusalKinds ==
    ASSUME NEW r, NEW d \in LocalRefusals(r)
    PROVE  /\ d.outcome \in {"deny", "shadow"}
           /\ d.check \in {"autonomy", "shadow_mode", "call_ceiling"}
BY DEF LocalRefusals, Decision

-----------------------------------------------------------------------------
(* Reuse *)

(* Decision d about prompt p rests on a generation that was remembered.    *)
Earned(p, d) ==
    d.outcome = "reuse" =>
      \E g \in remembered :
        g.key = d.about /\ Similarity[<<p, g.prompt>>] >= DedupThreshold

(* The index that is searched exactly keeps all, so what is known of it    *)
(* when a call begins is true when it is searched.                         *)
ReuseInv ==
    /\ \A w \in Workers : pc[w] = "audit" =>
         Earned(call[w].request.prompt, decision[w])
    /\ \A d \in returned : Earned(d.call.request.prompt, d.decision)
    /\ \A w \in Workers : pc[w] # "idle" /\ known[w] =>
         /\ DuplicateIndexed(call[w].request)
         /\ pc[w] = "audit" => decision[w] # Allow

LEMMA InitReuse == Init => ReuseInv
BY DEF Init, ReuseInv

(* A step after which everything is remembered that was, and an exact      *)
(* search still finds what it found.                                       *)
LEMMA ReuseStays ==
    ASSUME TypeOK, ReuseInv, remembered \subseteq remembered',
           config' = config,
           \A d \in returned' :
             d \in returned \/ Earned(d.call.request.prompt, d.decision),
           config.index = "memory" => index \subseteq index',
           \A w \in Workers :
             \/ pc'[w] = "idle"
             \/ /\ pc[w] # "idle" /\ call'[w] = call[w] /\ known'[w] = known[w]
                /\ pc'[w] = "audit" =>
                     \/ pc[w] = "audit" /\ decision'[w] = decision[w]
                     \/ /\ Earned(call[w].request.prompt, decision'[w])
                        /\ known[w] => decision'[w] # Allow
             \/ pc'[w] # "audit" /\ known'[w] = DuplicateIndexed(call'[w].request)
                /\ index' = index
    PROVE  ReuseInv'
<1>1. ASSUME NEW p, NEW d, Earned(p, d) PROVE Earned(p, d)'
  BY <1>1 DEF Earned
<1>2. ASSUME NEW r, DuplicateIndexed(r) PROVE DuplicateIndexed(r)'
  BY <1>2 DEF DuplicateIndexed, DedupApplies
<1>3. \A d \in returned' : Earned(d.call.request.prompt, d.decision)'
  BY <1>1 DEF ReuseInv
<1>4. ASSUME NEW w \in Workers, pc'[w] = "audit",
             NEW p, p = call'[w].request.prompt, NEW d, d = decision'[w]
      PROVE  Earned(p, d)'
  BY <1>1, <1>4 DEF ReuseInv
<1>5. ASSUME NEW w \in Workers, pc'[w] # "idle", known'[w],
             NEW r, r = call'[w].request
      PROVE  DuplicateIndexed(r)' /\ (pc'[w] = "audit" => decision'[w] # Allow)
  <2>1. CASE /\ pc[w] # "idle" /\ call'[w] = call[w] /\ known'[w] = known[w]
             /\ pc'[w] = "audit" =>
                  \/ pc[w] = "audit" /\ decision'[w] = decision[w]
                  \/ known[w] => decision'[w] # Allow
    BY <1>2, <1>5, <2>1 DEF ReuseInv
  <2>2. CASE pc'[w] # "audit" /\ known'[w] = DuplicateIndexed(call'[w].request)
    BY <1>2, <1>5, <2>2
  <2> QED
    BY <1>5, <2>1, <2>2
<1>6. ASSUME NEW w \in Workers, pc'[w] = "audit"
      PROVE  Earned(call[w].request.prompt, decision[w])'
  <2>1. PICK p, d : p = call'[w].request.prompt /\ d = decision'[w]
    OBVIOUS
  <2>2. Earned(p, d)'
    BY <1>4, <1>6, <2>1
  <2> QED
    BY <2>1, <2>2 DEF Earned
<1>7. \A w \in Workers : (pc[w] # "idle" /\ known[w] =>
         /\ DuplicateIndexed(call[w].request)
         /\ pc[w] = "audit" => decision[w] # Allow)'
  BY <1>5 DEF DuplicateIndexed, DedupApplies, Allow, Decision
<1> QED
  BY <1>3, <1>6, <1>7 DEF ReuseInv

(* An exact search that ends in Allow had no duplicate to find.            *)
LEMMA ExactSearch ==
    ASSUME TypeOK, NEW w \in Workers, CheckDedup(w),
           DuplicateIndexed(call[w].request)
    PROVE  decision'[w] # Allow
<1> DEFINE prompt == call[w].request.prompt
<1>1. /\ pc[w] = "dedup" /\ call[w].request \in Requests
      /\ config.index = "memory" /\ prompt # None
      /\ index \subseteq Generations
  BY DEF CheckDedup, TypeOK, DuplicateIndexed, DedupApplies
<1>2. PICK o \in index : Similarity[<<prompt, o.prompt>>] >= DedupThreshold
  BY DEF DuplicateIndexed
<1>3. ASSUME NEW g \in Nearest(prompt) PROVE IsDuplicate(prompt, g)
  <2>1. /\ g \in index
        /\ Similarity[<<prompt, o.prompt>>] <= Similarity[<<prompt, g.prompt>>]
    BY <1>1, <1>2 DEF Nearest
  <2>2. /\ Similarity[<<prompt, o.prompt>>] \in Int
        /\ Similarity[<<prompt, g.prompt>>] \in Int
        /\ DedupThreshold \in Int
    BY <1>1, <1>2, <2>1, SimilarityAssumption
  <2> QED
    BY <1>2, <2>1, <2>2 DEF IsDuplicate
<1>4. PICK g \in Nearest(prompt) :
        Decide(w, Decision("reuse", "semantic_dedup", g.key))
  BY <1>1, <1>2, <1>3 DEF CheckDedup
<1> QED
  BY <1>4 DEF Decide, Decision, Allow, TypeOK

(* What a call decides before its record is written.                       *)
LEMMA ReuseDecided ==
    ASSUME TypeOK, ReuseInv, NEW w \in Workers,
           \/ DenyKilled(w) \/ RefuseLocally(w) \/ PassLocally(w)
           \/ CheckLoop(w) \/ CheckDedup(w),
           pc'[w] = "audit"
    PROVE  /\ Earned(call[w].request.prompt, decision'[w])
           /\ known[w] => decision'[w] # Allow
<1>1. CASE decision'[w].outcome \in {"deny", "shadow"}
  BY <1>1 DEF Earned, Allow, Decision
<1>2. \/ decision'[w].outcome \in {"deny", "shadow"}
      \/ decision'[w] = Allow
      \/ CheckDedup(w)
  BY ResumedDecides, LocalRefusalKinds DEF Decision
<1>3. CASE CheckDedup(w)
  <2>1. known[w] => DuplicateIndexed(call[w].request)
    BY <1>3 DEF ReuseInv, CheckDedup
  <2>2. CASE decision'[w] = Allow
    BY <1>3, <2>1, <2>2, ExactSearch DEF Earned, Allow, Decision
  <2>3. ASSUME NEW g \in Nearest(call[w].request.prompt),
               IsDuplicate(call[w].request.prompt, g),
               decision'[w] = Decision("reuse", "semantic_dedup", g.key)
        PROVE  /\ Earned(call[w].request.prompt, decision'[w])
               /\ decision'[w] # Allow
    <3>1. g \in remembered
      BY DEF Nearest, TypeOK
    <3>2. decision'[w].about = g.key /\ decision'[w].outcome = "reuse"
      BY <2>3 DEF Decision
    <3>3. decision'[w] # Allow
      BY <3>2 DEF Allow, Decision
    <3> QED
      BY <2>3, <3>1, <3>2, <3>3 DEF Earned, IsDuplicate
  <2> QED
    BY <1>3, <2>2, <2>3 DEF CheckDedup, Decide, TypeOK
<1>4. CASE decision'[w] = Allow /\ ~ CheckDedup(w)
  <2>1. PassLocally(w) \/ CheckLoop(w)
    BY <1>4, LocalRefusalKinds
       DEF DenyKilled, RefuseLocally, Decide, Decision, Allow, TypeOK
  <2>2. ~ DedupApplies(call[w].request)
    BY <1>4, <2>1
       DEF PassLocally, CheckLoop, AfterLoop, Goto, Decide, Decision, Allow, TypeOK
  <2>3. ~ known[w]
    BY <2>1, <2>2 DEF ReuseInv, PassLocally, CheckLoop, DuplicateIndexed
  <2> QED
    BY <1>4, <2>3 DEF Earned, Allow, Decision
<1> QED
  BY <1>1, <1>2, <1>3, <1>4

LEMMA StepReuse == TypeOK /\ ReuseInv /\ [Next]_vars => ReuseInv'
<1> SUFFICES ASSUME TypeOK, ReuseInv, [Next]_vars PROVE ReuseInv'
  OBVIOUS
<1>0. ControlOK /\ RestOK /\ config' = config
  BY TypeParts DEF Next, vars
<1>1. ASSUME UNCHANGED <<indexVars, returned, pc, call, decision, known>>
      PROVE  ReuseInv'
  BY <1>0, <1>1, ReuseStays DEF indexVars
<1>2. ASSUME NEW w \in Workers, NEW r \in Requests, Begin(w, r)
      PROVE  ReuseInv'
  <2>1. /\ pc'[w] = "kill_switch" /\ call'[w].request = r
        /\ known'[w] = DuplicateIndexed(r)
        /\ \A v \in Workers \ {w} : UNCHANGED <<pc[v], call[v], decision[v], known[v]>>
        /\ UNCHANGED <<indexVars, returned>>
    BY <1>0, <1>2 DEF Begin, ControlOK
  <2> QED
    BY <1>0, <2>1, ReuseStays DEF indexVars
<1>3. ASSUME NEW w \in Workers,
             \/ DenyKilled(w) \/ RefuseLocally(w) \/ PassLocally(w)
             \/ CheckLoop(w) \/ CheckDedup(w)
      PROVE  ReuseInv'
  <2>1. pc'[w] = "audit" =>
          /\ Earned(call[w].request.prompt, decision'[w])
          /\ known[w] => decision'[w] # Allow
    BY <1>3, ReuseDecided
  <2>2. /\ UNCHANGED <<indexVars, returned, known>> /\ call'[w] = call[w]
        /\ pc[w] # "idle"
        /\ \A v \in Workers \ {w} : UNCHANGED <<pc[v], call[v], decision[v]>>
    BY <1>3, ResumedOnly
  <2> QED
    BY <1>0, <2>1, <2>2, ReuseStays DEF indexVars
<1>4. ASSUME NEW w \in Workers, RecordDecision(w) \/ Raise(w)
      PROVE  ReuseInv'
  <2>1. /\ pc'[w] = "idle" /\ UNCHANGED indexVars
        /\ \A v \in Workers \ {w} :
             UNCHANGED <<pc[v], call[v], decision[v], known[v]>>
    BY <1>0, <1>4 DEF RecordDecision, Raise, Leave, ControlOK
  <2>2. \A d \in returned' :
          d \in returned \/ Earned(d.call.request.prompt, d.decision)
    BY <1>4 DEF RecordDecision, Raise, ReuseInv
  <2> QED
    BY <1>0, <2>1, <2>2, ReuseStays DEF indexVars
<1>5. ASSUME NEW o \in Operators,
             \/ \E reason \in Reasons : Trip(o, reason)
             \/ Reset(o) \/ RecordSwitch(o) \/ RecordSwitchRaises(o)
             \/ SwitchRaises(o)
      PROVE  ReuseInv'
  BY <1>1, <1>5
     DEF Trip, Reset, RecordSwitch, RecordSwitchRaises, SwitchRaises, workerVars
<1>6. ASSUME NEW g \in Generations, Remember(g)
      PROVE  ReuseInv'
  <2>1. /\ remembered \subseteq remembered'
        /\ config.index = "memory" => index \subseteq index'
        /\ UNCHANGED <<returned, pc, call, decision, known>>
    BY <1>6 DEF Remember, workerVars
  <2> QED
    BY <1>0, <2>1, ReuseStays
<1>7. CASE Tick
  BY <1>1, <1>7 DEF Tick, workerVars
<1>8. CASE UNCHANGED vars
  BY <1>1, <1>8 DEF vars, workerVars
<1> QED
  BY <1>2, <1>3, <1>4, <1>5, <1>6, <1>7, <1>8 DEF Next, Step, Resume

(* What is handed out for reuse was remembered and is similar enough, and  *)
(* an exact search overlooks nothing that was there when the call began,   *)
(* for every similarity and threshold (plane.py:220-246).                  *)
THEOREM ReuseRestsOnGenerations == Spec => []ReuseIsEarned
<1>1. TypeOK /\ ReuseInv => ReuseIsEarned
  BY DEF ReuseInv, Earned, ReuseIsEarned
<1> QED
  BY <1>1, InitTypes, StepTypes, InitReuse, StepReuse, PTL DEF Spec

-----------------------------------------------------------------------------
(* The switch and the log *)

(* As long as nothing raises: what a step does to the log.                 *)
LEMMA LogGrows ==
    ASSUME TypeOK, IsLog, [Next]_vars, failures' = 0
    PROVE  \/ UNCHANGED chain /\ (\A o \in Operators : ~ RecordSwitch(o))
           \/ \E w \in Workers :
                /\ pc[w] = "audit" /\ UNCHANGED <<storeVars, switching>>
                /\ Log!Record(DecisionEntry(call[w], decision[w]))
           \/ \E o \in Operators : RecordSwitch(o)
<1>1. failures \in Nat
  BY BoundsAssumption DEF TypeOK
<1>2. \A w \in Workers : ~ Raise(w)
  BY <1>1 DEF Raise
<1>3. \A o \in Operators : ~ RecordSwitchRaises(o) /\ ~ SwitchRaises(o)
  BY <1>1 DEF RecordSwitchRaises, SwitchRaises
<1>4. \/ UNCHANGED chain
      \/ \E w \in Workers : RecordDecision(w)
      \/ \E o \in Operators : RecordSwitch(o)
  BY <1>2, <1>3, ResumedOnly
     DEF Next, Step, Resume, Begin, Trip, Reset, Remember, Tick, vars
<1> QED
  BY <1>4 DEF RecordDecision

LEMMA LoggedGrows ==
    ASSUME IsLog, NEW d, Log!Record(d)
    PROVE  Logged \subseteq Logged' /\ d \in Logged'
BY RecordAppends DEF Logged

(* Somebody's trip for this reason is in the log, or about to be.          *)
Explained(reason) ==
    \/ \E e \in Logged : e.outcome = "tripped" /\ e.about = reason
    \/ \E o \in Operators :
         /\ switching[o] # None
         /\ switching[o].outcome = "tripped"
         /\ switching[o].about = reason

LEMMA ExplainedStays ==
    ASSUME TypeOK, IsLog, [Next]_vars, failures' = 0, NEW reason,
           Explained(reason)
    PROVE  Explained(reason)'
<1>1. Logged \subseteq Logged'
  <2>1. CASE UNCHANGED chain
    BY <2>1 DEF Logged
  <2>2. CASE \E w \in Workers : Log!Record(DecisionEntry(call[w], decision[w]))
    BY <2>2, LoggedGrows
  <2>3. CASE \E o \in Operators : RecordSwitch(o)
    BY <2>3, LoggedGrows DEF RecordSwitch
  <2> QED
    BY <2>1, <2>2, <2>3, LogGrows
<1>2. CASE \E e \in Logged : e.outcome = "tripped" /\ e.about = reason
  BY <1>1, <1>2 DEF Explained
<1>3. ASSUME NEW o \in Operators, switching[o] # None,
             switching[o].outcome = "tripped", switching[o].about = reason
      PROVE  Explained(reason)'
  <2>1. failures \in Nat
    BY BoundsAssumption DEF TypeOK
  <2>2. CASE RecordSwitch(o)
    <3>1. SwitchEntry(switching[o]) \in Logged'
      BY <2>2, LoggedGrows DEF RecordSwitch
    <3>2. /\ SwitchEntry(switching[o]).outcome = "tripped"
          /\ SwitchEntry(switching[o]).about = reason
      BY <1>3 DEF SwitchEntry, Entry
    <3> QED
      BY <3>1, <3>2 DEF Explained
  <2>3. CASE ~ RecordSwitch(o)
    <3>1. switching'[o] = switching[o]
      BY <1>3, <2>1, <2>3, ResumedOnly
         DEF Next, Step, Resume, Begin, RecordDecision, Raise, Trip, Reset,
             RecordSwitch, RecordSwitchRaises, SwitchRaises, Remember, Tick,
             Switched, vars, TypeOK
    <3> QED
      BY <1>3, <3>1 DEF Explained
  <2> QED
    BY <2>2, <2>3
<1> QED
  BY <1>2, <1>3 DEF Explained

(* Every reason that stands in the switch or in a denial is explained.     *)
ExplainInv ==
    failures = 0 =>
      /\ Engaged => Explained(Tripped)
      /\ \A w \in Workers :
           pc[w] = "audit" /\ decision[w].check = "kill_switch" =>
             Explained(decision[w].about)
      /\ \A d \in returned : d.decision.check = "kill_switch" =>
           Explained(d.decision.about)

LEMMA InitExplain == Init => ExplainInv
BY DEF Init, ExplainInv, Engaged, Tripped, Store!Got, Store!Init, Store!NoValue

LEMMA StepExplain ==
    TypeOK /\ IsLog /\ SwitchInv /\ ExplainInv /\ [Next]_vars => ExplainInv'
<1> SUFFICES ASSUME TypeOK, IsLog, SwitchInv, ExplainInv, [Next]_vars,
                    failures' = 0
             PROVE  ExplainInv'
  BY DEF ExplainInv
<1>0. Store!TypeOK /\ ControlOK /\ RestOK
  BY TypeParts
<1>1. /\ failures = 0
      /\ \A w \in Workers : ~ Raise(w)
      /\ \A o \in Operators : ~ RecordSwitchRaises(o) /\ ~ SwitchRaises(o)
  BY <1>0, BoundsAssumption, ResumedOnly
     DEF RestOK, Raise, RecordSwitchRaises, SwitchRaises, Next, Step, Resume,
         Begin, RecordDecision, Trip, Reset, RecordSwitch, Remember, Tick, bounds,
         vars
<1>2. ASSUME NEW reason, Explained(reason) PROVE Explained(reason)'
  BY <1>2, ExplainedStays
<1>3. Engaged' => Explained(Tripped)'
  <2>1. CASE \E o \in Operators, reason \in Reasons : Trip(o, reason)
    <3>1. PICK o \in Operators, reason \in Reasons : Trip(o, reason)
      BY <2>1
    <3>2. Tripped' = reason
      BY <1>0, <3>1, SwitchOperations DEF Trip
    <3>3. /\ switching'[o].outcome = "tripped" /\ switching'[o].about = reason
          /\ switching'[o] \in Changes
      BY <1>0, <3>1, BoundsAssumption DEF Trip, Switched, NewCall, RestOK, Changes
    <3>4. switching'[o] # None
      BY <3>3, NoneAssumption, BoundsAssumption DEF Changes
    <3> QED
      BY <3>2, <3>3, <3>4 DEF Explained
  <2>2. CASE \E o \in Operators : Reset(o)
    BY <1>0, <2>2, SwitchOperations DEF Reset
  <2>3. CASE /\ ~ \E o \in Operators, reason \in Reasons : Trip(o, reason)
             /\ ~ \E o \in Operators : Reset(o)
    <3>1. Tripped' = Tripped
      BY <1>0, <1>1, <2>3, ResumedOnly, SwitchOperations
         DEF Next, Step, Resume, Begin, RecordDecision, RecordSwitch, Remember,
             Tick, vars, Tripped, Store!Got, SwitchInv, storeVars
    <3> QED
      BY <1>1, <1>2, <3>1 DEF ExplainInv, Engaged
  <2> QED
    BY <2>1, <2>2, <2>3
<1>4. ASSUME NEW w \in Workers, pc'[w] = "audit",
             decision'[w].check = "kill_switch"
      PROVE  Explained(decision[w].about)'
  <2>1. CASE UNCHANGED <<pc[w], decision[w]>>
    BY <1>1, <1>2, <1>4, <2>1 DEF ExplainInv
  <2>2. CASE DenyKilled(w)
    <3>1. decision'[w].about = Tripped
      BY <1>0, <2>2 DEF DenyKilled, Decide, Decision, ControlOK
    <3>2. Explained(Tripped)
      BY <1>1, <2>2 DEF DenyKilled, ExplainInv
    <3>3. PICK reason : reason = Tripped
      OBVIOUS
    <3>4. Explained(reason)'
      BY <1>2, <3>2, <3>3
    <3> QED
      BY <3>1, <3>3, <3>4 DEF Explained
  <2>3. UNCHANGED <<pc[w], decision[w]>> \/ DenyKilled(w)
    <3>1. ASSUME RefuseLocally(w) \/ PassLocally(w) \/ CheckLoop(w) \/ CheckDedup(w)
          PROVE  FALSE
      <4>1. \A d \in LocalRefusals(call[w].request) : d.check # "kill_switch"
        BY LocalRefusalKinds
      <4>2. ~ DenyKilled(w) \/ decision'[w].check = "kill_switch"
        BY <1>4
      <4> QED
        BY <1>0, <1>4, <3>1, <4>1
           DEF RefuseLocally, PassLocally, CheckLoop, CheckDedup, AfterLoop,
               Goto, Decide, Decision, Allow, ControlOK
    <3>2. ASSUME NEW v \in Workers, v # w,
                 \/ DenyKilled(v) \/ RefuseLocally(v) \/ PassLocally(v)
                 \/ CheckLoop(v) \/ CheckDedup(v)
          PROVE  UNCHANGED <<pc[w], decision[w]>>
      BY <3>2, ResumedOnly
    <3> QED
      BY <1>0, <1>1, <1>4, <3>1, <3>2
         DEF Next, Step, Resume, Begin, RecordDecision, Leave, Trip, Reset,
             RecordSwitch, Remember, Tick, vars, workerVars, ControlOK
  <2> QED
    BY <2>1, <2>2, <2>3
<1>5. ASSUME NEW d \in returned', d.decision.check = "kill_switch"
      PROVE  Explained(d.decision.about)'
  <2>1. CASE d \in returned
    BY <1>1, <1>2, <1>5, <2>1 DEF ExplainInv
  <2>2. CASE d \notin returned
    <3>1. PICK w \in Workers :
            RecordDecision(w) /\ d = [call |-> call[w], decision |-> decision[w]]
      BY <1>1, <1>5, <2>2, ResumedOnly
         DEF Next, Step, Resume, Begin, RecordDecision, Trip, Reset,
             RecordSwitch, Remember, Tick, vars, workerVars
    <3>2. Explained(d.decision.about)
      BY <1>1, <1>5, <3>1 DEF ExplainInv, RecordDecision
    <3> QED
      BY <1>2, <3>2
  <2> QED
    BY <2>1, <2>2
<1> QED
  BY <1>3, <1>4, <1>5 DEF ExplainInv

(* As long as nothing raised, a denial by the kill switch quotes a trip    *)
(* that is in the log or about to be (plane.py:117-119, 142-148).          *)
THEOREM KillDenialsAreExplained == Spec => []KillDenialsExplained
<1>1. ExplainInv => KillDenialsExplained
  BY DEF ExplainInv, Explained, KillDenialsExplained
<1>2. LogInv => IsLog
  BY DEF LogInv, NumbersInv
<1>3. KillInv => SwitchInv
  BY DEF KillInv
<1> QED
  BY <1>1, <1>2, <1>3, InitTypes, StepTypes, InitLog, StepLog, InitKill,
     StepKill, InitExplain, StepExplain, PTL DEF Spec

(* The last change of the switch in the log is a trip.                     *)
LastIsTrip ==
    \E i \in SwitchChanges :
       /\ \A j \in SwitchChanges : j <= i
       /\ chain[i].detail.outcome = "tripped"

(* For the only operator, if there is one: what is pending is what the     *)
(* switch was set to, and if nothing is, the log says it.                  *)
AgreeInv ==
    \A o \in Operators : failures = 0 /\ Operators = {o} =>
      /\ switching[o] # None =>
           /\ switching[o] \in Changes
           /\ Engaged <=> switching[o].outcome = "tripped"
      /\ switching[o] = None => (Engaged <=> LastIsTrip)

LEMMA InitAgree == Init => AgreeInv
BY DEF Init, AgreeInv, LastIsTrip, SwitchChanges, Engaged, Tripped, Store!Got,
       Store!Init, Store!NoValue, Log!Init

(* The record of a decision is no change of the switch.                    *)
LEMMA DecisionsAreNoChanges ==
    ASSUME TypeOK, IsLog, NEW w \in Workers, pc[w] = "audit",
           Log!Record(DecisionEntry(call[w], decision[w]))
    PROVE  LastIsTrip' <=> LastIsTrip
<1>1. PICK d : d = DecisionEntry(call[w], decision[w])
  OBVIOUS
<1>2. d.outcome \notin {"tripped", "reset"}
  BY <1>1 DEF TypeOK, DecisionEntry, Entry, Decisions, Outcomes
<1>3. /\ Len(chain) \in Nat /\ Len(chain') = Len(chain) + 1
      /\ \A i \in 1 .. Len(chain) : chain'[i] = chain[i]
      /\ chain'[Len(chain) + 1].detail = d
  BY <1>1, RecordAppends
<1>4. SwitchChanges' = SwitchChanges
  BY <1>2, <1>3 DEF SwitchChanges
<1>5. \A i \in SwitchChanges : chain'[i] = chain[i]
  BY <1>3 DEF SwitchChanges
<1> QED
  BY <1>4, <1>5 DEF LastIsTrip

(* The record of a change is the last of them.                             *)
LEMMA ChangeIsLast ==
    ASSUME IsLog, NEW s \in Changes, Log!Record(SwitchEntry(s))
    PROVE  LastIsTrip' <=> s.outcome = "tripped"
<1>1. PICK d : d = SwitchEntry(s)
  OBVIOUS
<1>2. d.outcome = s.outcome /\ d.outcome \in {"tripped", "reset"}
  BY <1>1 DEF SwitchEntry, Entry, Changes
<1>3. /\ Len(chain) \in Nat /\ Len(chain') = Len(chain) + 1
      /\ chain'[Len(chain) + 1].detail = d
  BY <1>1, RecordAppends
<1>4. /\ Len(chain) + 1 \in SwitchChanges'
      /\ \A j \in SwitchChanges' : j \in Nat /\ j <= Len(chain) + 1
  BY <1>2, <1>3 DEF SwitchChanges
<1>5. \A i \in SwitchChanges' : (\A j \in SwitchChanges' : j <= i) =>
        i = Len(chain) + 1
  BY <1>3, <1>4
<1> QED
  BY <1>2, <1>3, <1>4, <1>5 DEF LastIsTrip

LEMMA StepAgree ==
    TypeOK /\ IsLog /\ SwitchInv /\ AgreeInv /\ [Next]_vars => AgreeInv'
<1> SUFFICES ASSUME TypeOK, IsLog, SwitchInv, AgreeInv, [Next]_vars,
                    failures' = 0, NEW o \in Operators, Operators = {o}
             PROVE  /\ switching'[o] # None =>
                         /\ switching'[o] \in Changes
                         /\ Engaged' <=> switching'[o].outcome = "tripped"
                    /\ switching'[o] = None => (Engaged' <=> LastIsTrip')
  BY DEF AgreeInv
<1>0. Store!TypeOK /\ ControlOK /\ RestOK
  BY TypeParts
<1>1. /\ failures = 0
      /\ \A w \in Workers : ~ Raise(w)
      /\ ~ RecordSwitchRaises(o) /\ ~ SwitchRaises(o)
  BY <1>0, BoundsAssumption, ResumedOnly
     DEF RestOK, Raise, RecordSwitchRaises, SwitchRaises, Next, Step, Resume,
         Begin, RecordDecision, Trip, Reset, RecordSwitch, Remember, Tick, bounds,
         vars
<1>2. /\ switching[o] # None =>
           /\ switching[o] \in Changes
           /\ Engaged <=> switching[o].outcome = "tripped"
      /\ switching[o] = None => (Engaged <=> LastIsTrip)
  BY <1>1 DEF AgreeInv
<1>3. ASSUME NEW outcome \in {"tripped", "reset"},
             NEW reason \in Reasons \cup {None},
             Switched(o, outcome, reason), NewCall,
             Engaged' <=> outcome = "tripped"
      PROVE  /\ switching'[o] # None /\ switching'[o] \in Changes
             /\ Engaged' <=> switching'[o].outcome = "tripped"
  <2>1. calls' \in 1 .. MaxCalls
    BY <1>0, <1>3, BoundsAssumption DEF RestOK, NewCall
  <2>2. switching'[o] = [number |-> calls', outcome |-> outcome, about |-> reason]
    BY <1>0, <1>3 DEF Switched, RestOK
  <2>3. switching'[o] \in Changes /\ switching'[o].outcome = outcome
    BY <2>1, <2>2 DEF Changes
  <2>4. switching'[o] # None
    BY <2>3, NoneAssumption, BoundsAssumption DEF Changes
  <2> QED
    BY <1>3, <2>3, <2>4
<1>4. CASE \E reason \in Reasons : Trip(o, reason)
  BY <1>0, <1>3, <1>4, SwitchOperations DEF Trip
<1>5. CASE Reset(o)
  BY <1>0, <1>3, <1>5, SwitchOperations DEF Reset
<1>6. CASE RecordSwitch(o)
  <2>1. values' = values
    BY <1>0, <1>6, SwitchOperations DEF RecordSwitch
  <2>2. Engaged' <=> Engaged
    BY <2>1 DEF Engaged, Tripped, Store!Got
  <2>3. switching'[o] = None /\ switching[o] # None
    BY <1>0, <1>6 DEF RecordSwitch, RestOK
  <2>4. LastIsTrip' <=> switching[o].outcome = "tripped"
    BY <1>2, <1>6, <2>3, ChangeIsLast DEF RecordSwitch
  <2> QED
    BY <1>2, <2>2, <2>3, <2>4
<1>7. CASE ~ RecordSwitch(o) /\ ~ Reset(o) /\ ~ \E reason \in Reasons : Trip(o, reason)
  <2>1. UNCHANGED switching /\ Tripped' = Tripped
    BY <1>0, <1>1, <1>7, ResumedOnly, SwitchOperations
       DEF Next, Step, Resume, Begin, RecordDecision, Remember, Tick, vars,
           Tripped, Store!Got, SwitchInv, storeVars
  <2>2. Engaged' <=> Engaged
    BY <2>1 DEF Engaged
  <2>3. LastIsTrip' <=> LastIsTrip
    <3>1. CASE UNCHANGED chain
      BY <3>1 DEF LastIsTrip, SwitchChanges
    <3>2. CASE \E w \in Workers :
                 /\ pc[w] = "audit"
                 /\ Log!Record(DecisionEntry(call[w], decision[w]))
      BY <3>2, DecisionsAreNoChanges
    <3> QED
      BY <1>7, <3>1, <3>2, LogGrows
  <2> QED
    BY <1>2, <2>1, <2>2, <2>3
<1> QED
  BY <1>4, <1>5, <1>6, <1>7

(* With one operator, and as long as nothing raised, the last change in    *)
(* the log is the state the switch is in, whenever none is waiting to be   *)
(* recorded (plane.py:117-123).                                            *)
THEOREM LogTellsTheSwitch == Spec => []SwitchLogAgrees
<1>1. AgreeInv => SwitchLogAgrees
  <2> SUFFICES ASSUME AgreeInv, failures = 0, Cardinality(Operators) = 1,
                      \A o \in Operators : switching[o] = None
               PROVE  Engaged <=> LastIsTrip
    BY DEF SwitchLogAgrees, LastIsTrip
  <2>1. PICK o : Operators = {o}
    BY OperatorsAssumption, FS_Singleton
  <2> QED
    BY <2>1 DEF AgreeInv
<1>2. LogInv => IsLog
  BY DEF LogInv, NumbersInv
<1>3. KillInv => SwitchInv
  BY DEF KillInv
<1> QED
  BY <1>1, <1>2, <1>3, InitTypes, StepTypes, InitLog, StepLog, InitKill,
     StepKill, InitAgree, StepAgree, PTL DEF Spec

-----------------------------------------------------------------------------
(* The loop detector *)

(* Multiplication, for the backends.                                       *)
LEMMA OneMore ==
    ASSUME NEW a \in Nat, NEW b \in Nat
    PROVE  a * b \in Nat /\ a * (b + 1) = a * b + a /\ (b + 1) * a = b * a + a
OBVIOUS

(* Worker w is past the loop detector with fingerprint f, or caller of d.  *)
Beyond(w, f) ==
    /\ \/ pc[w] = "dedup"
       \/ pc[w] = "audit" /\ decision[w].outcome \in {"allow", "reuse"}
    /\ Fingerprint(call[w].request) = f

CameThrough(d, f) ==
    /\ Fingerprint(d.call.request) = f
    /\ d.decision.outcome \in {"allow", "reuse"}

(* The calls that got past the loop detector, by number.                   *)
Past(f) ==
    {n \in 0 .. MaxCalls :
       \/ \E w \in Workers : Beyond(w, f) /\ call[w].number = n
       \/ \E d \in returned : CameThrough(d, f) /\ d.call.number = n}

(* What the window that is open accounts for.                              *)
Counted(f) ==
    IF counters[f].count > config.loop_threshold THEN config.loop_threshold
    ELSE counters[f].count

(* When the window that is open was opened, or now.                        *)
Elapsed(f) ==
    IF counters[f].count > 0 THEN LoopWindow - counters[f].life ELSE 0

(* n windows have opened and closed before, which took their time.         *)
Windows(f, n) ==
    /\ Cardinality(Past(f)) <= config.loop_threshold * n + Counted(f)
    /\ n * LoopWindow + Elapsed(f) <= clock
    /\ counters[f].count > 0 => counters[f].life > 0

LoopInv ==
    config.loop_threshold > 0 =>
      \A f \in Fingerprints : \E n \in Nat : Windows(f, n)

LEMMA PastIsFinite ==
    ASSUME NEW f
    PROVE  IsFiniteSet(Past(f)) /\ Cardinality(Past(f)) \in Nat
<1>1. IsFiniteSet(0 .. MaxCalls)
  BY BoundsAssumption, FS_Interval
<1>2. Past(f) \in SUBSET (0 .. MaxCalls)
  BY DEF Past
<1> QED
  BY <1>1, <1>2, FS_Subset, FS_CardinalityType

(* Whoever came back with a decision is among them, once.                  *)
LEMMA ReturnedArePast ==
    ASSUME TypeOK, LogInv, NEW f
    PROVE  /\ Cardinality({d \in returned : CameThrough(d, f)}) \in Nat
           /\ Cardinality({d \in returned : CameThrough(d, f)})
                <= Cardinality(Past(f))
<1> DEFINE through == {d \in returned : CameThrough(d, f)}
           number  == [d \in through |-> d.call.number]
<1>1. \A d \in through : number[d] \in Past(f)
  BY DEF Past, TypeOK
<1>2. \A d, e \in through : number[d] = number[e] => d = e
  BY DEF LogInv, ReturnedInv
<1>3. number \in Injection(through, Past(f))
  BY <1>1, <1>2 DEF Injection, IsInjective
<1>4. IsFiniteSet(through) /\ Cardinality(through) <= Cardinality(Past(f))
  BY <1>3, PastIsFinite, FS_Injection
<1> QED
  BY <1>4, FS_CardinalityType

LEMMA InitLoop == Init => LoopInv
<1> SUFFICES ASSUME Init, config.loop_threshold > 0, NEW f \in Fingerprints
             PROVE  Windows(f, 0)
  BY DEF LoopInv
<1>1. Past(f) = {}
  BY DEF Init, Past, Beyond
<1>2. Cardinality(Past(f)) = 0
  BY <1>1, FS_EmptySet
<1>3. config.loop_threshold \in Nat
  BY LoopAssumption DEF Init
<1>4. counters[f] = [count |-> 0, life |-> 0] /\ clock = 0
  BY DEF Init, Store!Init, Store!NoCounter
<1> QED
  BY <1>2, <1>3, <1>4, LoopAssumption DEF Windows, Counted, Elapsed

(* A step that lets nobody past the detector, and on which the counter     *)
(* stays or goes up by one.                                                *)
LEMMA NobodyPasses ==
    ASSUME TypeOK, NEW f \in Fingerprints, NEW n \in Nat, Windows(f, n),
           config' = config, clock' = clock, Past(f)' \subseteq Past(f),
           \/ counters'[f] = counters[f]
           \/ Store!IncrInWindow(f, LoopWindow)
    PROVE  Windows(f, n)'
<1>1. Cardinality(Past(f)') <= Cardinality(Past(f))
  BY PastIsFinite, FS_Subset
<1>2. /\ config.loop_threshold \in Nat
      /\ counters[f].count \in 0 .. MaxThreshold + 1
      /\ counters[f].life \in 0 .. LoopWindow
      /\ MaxThreshold \in Nat /\ LoopWindow \in Nat \ {0}
      /\ clock \in Nat
  BY LoopAssumption, BoundsAssumption, Threshold DEF TypeOK, Store!TypeOK
<1>3. CASE counters'[f] = counters[f]
  <2>1. Counted(f)' = Counted(f) /\ Elapsed(f)' = Elapsed(f)
    BY <1>3 DEF Counted, Elapsed
  <2>2. Cardinality(Past(f))' <= config.loop_threshold * n + Counted(f)
    <3>1. /\ Cardinality(Past(f))' \in Nat /\ Cardinality(Past(f)) \in Nat
          /\ config.loop_threshold * n \in Nat /\ Counted(f) \in Nat
      BY <1>1, <1>2, PastIsFinite, FS_Subset, FS_CardinalityType, OneMore DEF Counted
    <3> QED
      BY <1>1, <3>1 DEF Windows
  <2> QED
    BY <1>3, <2>1, <2>2 DEF Windows
<1>4. CASE Store!IncrInWindow(f, LoopWindow)
  <2>1. /\ counters'[f].count \in Nat
        /\ counters'[f].count >= counters[f].count
        /\ counters'[f].life =
             IF counters[f].count = 0 THEN LoopWindow ELSE counters[f].life
    BY <1>2, <1>4
       DEF Store!IncrInWindow, Store!CountAfter, TypeOK, Store!TypeOK
  <2>2. Counted(f)' \in Nat /\ Counted(f) \in Nat /\ Counted(f)' >= Counted(f)
    BY <1>2, <2>1 DEF Counted
  <2>3. Cardinality(Past(f))' <= config.loop_threshold * n + Counted(f)'
    <3>1. /\ Cardinality(Past(f))' \in Nat /\ Cardinality(Past(f)) \in Nat
          /\ config.loop_threshold * n \in Nat
      BY <1>1, <1>2, PastIsFinite, FS_Subset, FS_CardinalityType, OneMore
    <3> QED
      BY <1>1, <2>2, <3>1 DEF Windows
  <2>4. n * LoopWindow + Elapsed(f)' <= clock
    <3>1. n * LoopWindow \in Nat
      BY <1>2, OneMore
    <3>2. Elapsed(f)' <= Elapsed(f)
      BY <1>2, <2>1 DEF Elapsed
    <3>3. Elapsed(f) \in Nat /\ Elapsed(f)' \in Nat
      BY <1>2, <2>1 DEF Elapsed
    <3> QED
      BY <1>2, <3>1, <3>2, <3>3 DEF Windows
  <2> QED
    BY <1>2, <2>1, <2>3, <2>4 DEF Windows
<1> QED
  BY <1>3, <1>4

(* A worker gets past the detector: the window accounts for one more.      *)
LEMMA SomebodyPasses ==
    ASSUME TypeOK, NEW f \in Fingerprints, NEW n \in Nat, Windows(f, n),
           config' = config, clock' = clock,
           NEW number, Past(f)' \subseteq Past(f) \cup {number},
           Store!IncrInWindow(f, LoopWindow),
           ~ (Store!CountAfter(f) > config.loop_threshold)
    PROVE  Windows(f, n)'
<1>1. /\ config.loop_threshold \in 0 .. MaxThreshold
      /\ counters[f].count \in 0 .. MaxThreshold + 1
      /\ counters[f].life \in 0 .. LoopWindow
      /\ MaxThreshold \in Nat /\ LoopWindow \in Nat \ {0}
      /\ clock \in Nat
  BY LoopAssumption, BoundsAssumption, Threshold DEF TypeOK, Store!TypeOK
<1>2. /\ counters[f].count < config.loop_threshold
      /\ Store!CountAfter(f) = counters[f].count + 1
  BY <1>1 DEF Store!CountAfter
<1>3. /\ counters'[f].count = counters[f].count + 1
      /\ counters'[f].life =
           IF counters[f].count = 0 THEN LoopWindow ELSE counters[f].life
  BY <1>2 DEF Store!IncrInWindow, TypeOK, Store!TypeOK
<1>4. /\ Counted(f) = counters[f].count
      /\ Counted(f)' = counters[f].count + 1
  BY <1>1, <1>2, <1>3 DEF Counted
<1>5. /\ Cardinality(Past(f))' \in Nat /\ Cardinality(Past(f)) \in Nat
      /\ Cardinality(Past(f))' <= Cardinality(Past(f)) + 1
  <2>1. /\ IsFiniteSet(Past(f) \cup {number})
        /\ Cardinality(Past(f) \cup {number}) <= Cardinality(Past(f)) + 1
        /\ Cardinality(Past(f) \cup {number}) \in Nat
        /\ Cardinality(Past(f)) \in Nat
    <3>1. IsFiniteSet(Past(f)) /\ Cardinality(Past(f)) \in Nat
      BY PastIsFinite
    <3>2. /\ IsFiniteSet(Past(f) \cup {number})
          /\ Cardinality(Past(f) \cup {number}) =
               IF number \in Past(f) THEN Cardinality(Past(f))
               ELSE Cardinality(Past(f)) + 1
      BY <3>1, FS_AddElement
    <3> QED
      BY <3>1, <3>2
  <2>2. /\ Cardinality(Past(f)') <= Cardinality(Past(f) \cup {number})
        /\ Cardinality(Past(f)') \in Nat
    BY <2>1, FS_Subset, FS_CardinalityType
  <2> QED
    BY <2>1, <2>2
<1>6. config.loop_threshold * n \in Nat /\ n * LoopWindow \in Nat
  BY <1>1, OneMore
<1>7. Elapsed(f)' = Elapsed(f) /\ counters'[f].life > 0
  BY <1>1, <1>3 DEF Elapsed, Windows
<1> QED
  BY <1>1, <1>4, <1>5, <1>6, <1>7 DEF Windows

(* Time passes: the window gets older, or closes and is one of those that  *)
(* came before.                                                            *)
LEMMA TimePasses ==
    ASSUME TypeOK, NEW f \in Fingerprints, NEW n \in Nat, Windows(f, n),
           config' = config, clock' = clock + 1, Past(f)' = Past(f), Store!Tick
    PROVE  Windows(f, n)' \/ Windows(f, n + 1)'
<1>1. /\ config.loop_threshold \in Nat
      /\ counters[f].count \in Nat
      /\ counters[f].life \in 0 .. LoopWindow
      /\ LoopWindow \in Nat \ {0}
      /\ clock \in Nat
  BY LoopAssumption, BoundsAssumption, Threshold DEF TypeOK, Store!TypeOK
<1>2. counters'[f] = Store!Aged(counters[f], Store!NoCounter)
  BY DEF Store!Tick
<1>3. /\ Cardinality(Past(f)) \in Nat
      /\ Cardinality(Past(f))' = Cardinality(Past(f))
      /\ config.loop_threshold * n \in Nat /\ n * LoopWindow \in Nat
      /\ config.loop_threshold * (n + 1)
            = config.loop_threshold * n + config.loop_threshold
      /\ (n + 1) * LoopWindow = n * LoopWindow + LoopWindow
  BY <1>1, PastIsFinite, OneMore
<1>4. CASE counters[f].count > 0 /\ counters[f].life = 1
  <2>1. counters'[f].count = 0
    BY <1>2, <1>4 DEF Store!Aged, Store!NoCounter
  <2>2. Counted(f)' = 0 /\ Elapsed(f)' = 0
    BY <1>1, <2>1 DEF Counted, Elapsed
  <2>3. /\ Counted(f) \in Nat /\ Counted(f) <= config.loop_threshold
        /\ Elapsed(f) = LoopWindow - 1
    BY <1>1, <1>4 DEF Counted, Elapsed
  <2> QED
    BY <1>1, <1>3, <2>1, <2>2, <2>3 DEF Windows
<1>5. CASE counters[f].count > 0 /\ counters[f].life # 1
  <2>1. /\ counters'[f].count = counters[f].count
        /\ counters'[f].life = counters[f].life - 1
        /\ counters[f].life > 1
    BY <1>1, <1>2, <1>5 DEF Store!Aged, Windows, TypeOK, Store!TypeOK
  <2>2. /\ Counted(f)' = Counted(f) /\ Counted(f) \in Nat
        /\ Elapsed(f)' = Elapsed(f) + 1 /\ Elapsed(f) \in Nat
    BY <1>1, <1>5, <2>1 DEF Counted, Elapsed
  <2> QED
    BY <1>1, <1>3, <2>1, <2>2 DEF Windows
<1>6. CASE counters[f].count = 0
  <2>1. counters'[f].count = 0
    <3>1. counters[f] \in [count : Nat, life : Nat]
      BY Threshold, LoopAssumption DEF TypeOK, Store!TypeOK
    <3> QED
      BY <1>2, <1>6, <3>1 DEF Store!Aged, Store!NoCounter
  <2>2. Counted(f)' = Counted(f) /\ Elapsed(f)' = 0 /\ Elapsed(f) = 0 /\ Counted(f) = 0
    BY <1>1, <1>6, <2>1 DEF Counted, Elapsed
  <2> QED
    BY <1>1, <1>3, <2>1, <2>2 DEF Windows
<1> QED
  BY <1>1, <1>4, <1>5, <1>6

(* Nobody gets past the detector but by it.                                *)
LEMMA PastGrows ==
    ASSUME TypeOK, [Next]_vars, config.loop_threshold > 0, NEW f
    PROVE  \/ Past(f)' \subseteq Past(f)
           \/ \E w \in Workers :
                /\ CheckLoop(w) /\ LoopKey(w) = f
                /\ ~ (Store!CountAfter(f) > config.loop_threshold)
                /\ Past(f)' \subseteq Past(f) \cup {call[w].number}
<1>0. ControlOK /\ RestOK
  BY TypeParts
<1>1. ASSUME \A v \in Workers : Beyond(v, f)' =>
               Beyond(v, f) /\ call'[v] = call[v],
             returned' = returned
      PROVE  Past(f)' \subseteq Past(f)
  BY <1>1 DEF Past, CameThrough
<1>2. ASSUME NEW w \in Workers, DenyKilled(w) \/ RefuseLocally(w)
      PROVE  Past(f)' \subseteq Past(f)
  <2>1. \A r : \A d \in LocalRefusals(r) : d.outcome \notin {"allow", "reuse"}
    BY LocalRefusalKinds
  <2>2. /\ pc'[w] = "audit" /\ decision'[w].outcome \notin {"allow", "reuse"}
        /\ \A v \in Workers \ {w} : UNCHANGED <<pc[v], call[v], decision[v]>>
        /\ UNCHANGED returned
    BY <1>0, <1>2, <2>1
       DEF DenyKilled, RefuseLocally, Decide, Decision, ControlOK
  <2> QED
    BY <1>1, <2>2 DEF Beyond
<1>3. ASSUME NEW w \in Workers, PassLocally(w)
      PROVE  Past(f)' \subseteq Past(f)
  <2>1. /\ pc'[w] = "loop" /\ UNCHANGED returned
        /\ \A v \in Workers \ {w} : UNCHANGED <<pc[v], call[v], decision[v]>>
    BY <1>0, <1>3 DEF PassLocally, Goto, ControlOK
  <2> QED
    BY <1>1, <2>1 DEF Beyond
<1>4. ASSUME NEW w \in Workers, CheckLoop(w)
      PROVE  \/ Past(f)' \subseteq Past(f)
             \/ /\ LoopKey(w) = f
                /\ ~ (Store!CountAfter(f) > config.loop_threshold)
                /\ Past(f)' \subseteq Past(f) \cup {call[w].number}
  <2>1. /\ UNCHANGED returned /\ call' = call
        /\ \A v \in Workers \ {w} : UNCHANGED <<pc[v], call[v], decision[v]>>
    BY <1>0, <1>4 DEF CheckLoop, AfterLoop, Goto, Decide, ControlOK
  <2>2. CASE Store!CountAfter(LoopKey(w)) > config.loop_threshold
    <3>1. pc'[w] = "audit" /\ decision'[w].outcome = "deny"
      BY <1>0, <1>4, <2>2 DEF CheckLoop, Decide, Decision, ControlOK
    <3> QED
      BY <1>1, <2>1, <3>1 DEF Beyond
  <2>3. CASE LoopKey(w) # f
    BY <1>1, <2>1, <2>3 DEF Beyond, LoopKey
  <2>4. Past(f)' \subseteq Past(f) \cup {call[w].number}
    BY <2>1 DEF Past, Beyond, CameThrough
  <2> QED
    BY <2>2, <2>3, <2>4
<1>5. ASSUME NEW w \in Workers, CheckDedup(w)
      PROVE  Past(f)' \subseteq Past(f)
  <2>1. /\ UNCHANGED returned /\ call' = call /\ pc[w] = "dedup"
        /\ \A v \in Workers \ {w} : UNCHANGED <<pc[v], call[v], decision[v]>>
    BY <1>0, <1>5 DEF CheckDedup, Decide, ControlOK
  <2> QED
    BY <1>1, <2>1 DEF Beyond
<1>6. ASSUME NEW w \in Workers, RecordDecision(w)
      PROVE  Past(f)' \subseteq Past(f)
  <2>1. /\ pc[w] = "audit" /\ pc'[w] = "idle"
        /\ \A v \in Workers \ {w} : UNCHANGED <<pc[v], call[v], decision[v]>>
    BY <1>0, <1>6 DEF RecordDecision, Leave, ControlOK
  <2>2. PICK d : /\ d = [call |-> call[w], decision |-> decision[w]]
                 /\ returned' = returned \cup {d}
    BY <1>6 DEF RecordDecision
  <2>3. CameThrough(d, f) => Beyond(w, f) /\ d.call.number = call[w].number
    BY <2>1, <2>2 DEF CameThrough, Beyond
  <2>4. \A v \in Workers : Beyond(v, f)' => v # w /\ Beyond(v, f) /\ call'[v] = call[v]
    BY <2>1 DEF Beyond
  <2> QED
    BY <2>2, <2>3, <2>4 DEF Past, CameThrough
<1>7. ASSUME NEW w \in Workers, Raise(w) \/ \E r \in Requests : Begin(w, r)
      PROVE  Past(f)' \subseteq Past(f)
  <2>1. /\ pc'[w] \in {"idle", "kill_switch"} /\ UNCHANGED returned
        /\ \A v \in Workers \ {w} : UNCHANGED <<pc[v], call[v], decision[v]>>
    BY <1>0, <1>7 DEF Raise, Leave, Begin, ControlOK
  <2> QED
    BY <1>1, <2>1 DEF Beyond
<1>8. CASE UNCHANGED <<pc, call, decision, returned>>
  BY <1>1, <1>8 DEF Beyond
<1> QED
  BY <1>2, <1>3, <1>4, <1>5, <1>6, <1>7, <1>8
     DEF Next, Step, Resume, Trip, Reset, RecordSwitch, RecordSwitchRaises,
         SwitchRaises, Remember, Tick, vars, workerVars

(* What a step does to the counters.                                       *)
LEMMA CountersMove ==
    ASSUME TypeOK, [Next]_vars, NEW f \in Fingerprints
    PROVE  \/ Tick /\ Store!Tick /\ clock' = clock + 1
           \/ /\ clock' = clock
              /\ \/ counters'[f] = counters[f]
                 \/ Store!IncrInWindow(f, LoopWindow)
<1>1. ASSUME NEW g, Store!IncrInWindow(g, LoopWindow)
      PROVE  counters'[f] = counters[f] \/ Store!IncrInWindow(f, LoopWindow)
  BY <1>1 DEF Store!IncrInWindow, TypeOK, Store!TypeOK
<1> QED
  BY <1>1
     DEF Next, Step, Resume, Begin, DenyKilled, RefuseLocally, PassLocally,
         CheckLoop, CheckDedup, RecordDecision, Raise, Trip, Reset,
         RecordSwitch, RecordSwitchRaises, SwitchRaises, Remember, Tick,
         Store!Set, Store!DeleteValue, storeVars, bounds, vars

LEMMA StepLoop == TypeOK /\ LoopInv /\ [Next]_vars => LoopInv'
<1> SUFFICES ASSUME TypeOK, LoopInv, [Next]_vars, config.loop_threshold > 0,
                    NEW f \in Fingerprints
             PROVE  \E n \in Nat : Windows(f, n)'
  BY DEF LoopInv, Next, vars
<1>0. config' = config
  BY DEF Next, vars
<1>1. PICK n \in Nat : Windows(f, n)
  BY DEF LoopInv
<1>2. CASE Tick /\ Store!Tick /\ clock' = clock + 1
  <2>1. UNCHANGED <<pc, call, decision, returned>>
    BY <1>2 DEF Tick, workerVars
  <2>2. Past(f)' = Past(f)
    BY <2>1 DEF Past, Beyond, CameThrough
  <2> QED
    BY <1>0, <1>1, <1>2, <2>2, TimePasses
<1>3. CASE /\ clock' = clock
           /\ \/ counters'[f] = counters[f]
              \/ Store!IncrInWindow(f, LoopWindow)
  <2>1. CASE Past(f)' \subseteq Past(f)
    BY <1>0, <1>1, <1>3, <2>1, NobodyPasses
  <2>2. ASSUME NEW w \in Workers, CheckLoop(w), LoopKey(w) = f,
               ~ (Store!CountAfter(f) > config.loop_threshold),
               Past(f)' \subseteq Past(f) \cup {call[w].number}
        PROVE  Windows(f, n)'
    BY <1>0, <1>1, <1>3, <2>2, SomebodyPasses DEF CheckLoop
  <2> QED
    BY <1>1, <2>1, <2>2, PastGrows
<1> QED
  BY <1>2, <1>3, CountersMove

(* However many workers race, a fingerprint gets past the loop detector at *)
(* most the threshold's number of times per window that can have opened    *)
(* (plane.py:202-218).                                                     *)
THEOREM LoopsAreLimited == Spec => []LoopLimitHolds
<1>1. TypeOK /\ LogInv /\ LoopInv => LoopLimitHolds
  <2> SUFFICES ASSUME TypeOK, LogInv, LoopInv, config.loop_threshold > 0,
                      NEW f \in Fingerprints
               PROVE  Cardinality({d \in returned : CameThrough(d, f)})
                        <= config.loop_threshold * (1 + clock \div LoopWindow)
    BY DEF LoopLimitHolds, CameThrough
  <2>1. PICK n \in Nat : Windows(f, n)
    BY DEF LoopInv
  <2> DEFINE q == clock \div LoopWindow
             t == config.loop_threshold
  <2>2. /\ t \in Nat /\ LoopWindow \in Nat \ {0} /\ clock \in Nat
        /\ counters[f].count \in Nat /\ counters[f].life \in 0 .. LoopWindow
    BY LoopAssumption, BoundsAssumption, Threshold DEF TypeOK, Store!TypeOK
  <2>3. Elapsed(f) \in Nat /\ Counted(f) \in Nat /\ Counted(f) <= t
    BY <2>2 DEF Elapsed, Counted
  <2>4. n * LoopWindow <= clock
    <3>1. n * LoopWindow \in Nat
      BY <2>2, OneMore
    <3> QED
      BY <2>1, <2>2, <2>3, <3>1 DEF Windows
  <2>5. q \in Nat /\ n <= q
    BY <2>2, <2>4, Quotient
  <2>6. /\ t * n \in Nat /\ t * q \in Nat /\ t * n <= t * q
        /\ t * (q + 1) = t * q + t
    BY <2>2, <2>5, OneMore, Monotone
  <2>7. Cardinality(Past(f)) \in Nat /\ Cardinality(Past(f)) <= t * n + Counted(f)
    BY <2>1, PastIsFinite DEF Windows
  <2>8. Cardinality(Past(f)) <= t * (q + 1)
    BY <2>2, <2>3, <2>6, <2>7
  <2>9. /\ Cardinality({d \in returned : CameThrough(d, f)}) \in Nat
        /\ Cardinality({d \in returned : CameThrough(d, f)})
             <= Cardinality(Past(f))
    BY ReturnedArePast
  <2>10. t \in Nat /\ q \in Nat /\ t * q \in Nat /\ t * (q + 1) = t * q + t
    BY <2>2, <2>5, <2>6
  <2> HIDE DEF t, q
  <2>11. t * (1 + q) = t * (q + 1) /\ t * (q + 1) \in Nat
    BY <2>10
  <2>12. Cardinality({d \in returned : CameThrough(d, f)}) <= t * (1 + q)
    BY <2>7, <2>8, <2>9, <2>11
  <2> QED
    BY <2>12 DEF t, q
<1> QED
  BY <1>1, InitTypes, StepTypes, InitLog, StepLog, InitLoop, StepLoop, PTL DEF Spec
=============================================================================
