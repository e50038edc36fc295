----------------------------- MODULE GuardPlane -----------------------------
(***************************************************************************)
(* GuardPlane (mainager/guard/plane.py): workers evaluate requests while   *)
(* an operator trips and resets the kill switch and finished generations   *)
(* are indexed.  The plane keeps no state of its own; it composes a shared *)
(* key-value store (KeyValueStore), the audit log (AuditChain, which       *)
(* PostgresAudit implements) and a vector index.                           *)
(*                                                                         *)
(* Each await is a step: pc names the one a worker is suspended at.  What  *)
(* runs between two awaits, checks 2 to 4 for instance, is part of the     *)
(* step that resumes the worker.                                           *)
(***************************************************************************)
EXTENDS Integers, Sequences, FiniteSets

CONSTANTS
    Workers,            \* callers of evaluate()
    Operators,          \* callers of trip_kill_switch(), reset_kill_switch()
    Requests,           \* records [action, tenant, prompt, params, cost]
    None,               \* Python's None
    Normalised,         \* prompt |-> lower case, white space collapsed
    Reasons,            \* reasons an operator gives for tripping the switch
    Configs,            \* records [autonomy, loop_threshold, index]: the
                        \* level, when a loop is denied (0: never), and the
                        \* kind of index, if an index and embedder are there
    CallCeiling,        \* GuardConfig.call_ceiling_rub, which may be None
    LoopWindow,         \* GuardConfig.loop_window_s, in ticks
    ShadowActions,      \* GuardConfig.shadow_actions
    Similarity,         \* <<prompt, prompt>> |-> cosine of their embeddings
    DedupThreshold,     \* GuardConfig.dedup_threshold
    Generations,        \* records [key, prompt]: what may be remembered
    MaxCalls,           \* bound on the calls made to the plane
    MaxFailures,        \* bound on the awaits that raise
    MaxTicks            \* bound on the time that passes

ASSUME LoopAssumption ==
    /\ LoopWindow \in Nat \ {0}
    /\ \A c \in Configs : c.loop_threshold \in Nat

(* AutonomyLevel has four members, and a threshold is the largest.         *)
ASSUME ConfigsAssumption ==
    /\ \A c \in Configs : c.autonomy \in 0 .. 3
    /\ \E c \in Configs :
         \A d \in Configs : d.loop_threshold <= c.loop_threshold

(* A reason is a string, and no string or record is Python's None.         *)
ASSUME NoneAssumption ==
    /\ None \notin Reasons
    /\ None \notin [number : Nat, outcome : {"tripped", "reset"},
                    about : Reasons \cup {None}]

(* The cosine of two embeddings, and the threshold, in hundredths.         *)
ASSUME SimilarityAssumption ==
    /\ DedupThreshold \in Int
    /\ \A r \in Requests, g \in Generations :
         r.prompt # None => Similarity[<<r.prompt, g.prompt>>] \in Int

ASSUME OperatorsAssumption == IsFiniteSet(Operators)

ASSUME BoundsAssumption ==
    MaxCalls \in Nat /\ MaxFailures \in Nat /\ MaxTicks \in Nat

VARIABLES
    config,             \* what this plane was constructed with
    values, counters,   \* the shared store
    chain,              \* the audit log
    index,              \* the generations that nearest() looks through
    remembered,         \* the generations that were ever put there
    pc,                 \* per worker: the await evaluate() is suspended at
    call,               \* per worker: the number and request of its call
    decision,           \* per worker: what _evaluate() returned
    switching,          \* per operator: what it did and has not recorded
    returned,           \* the decisions evaluate() returned to callers
    clear,              \* per worker: the switch was off during its call
    known,              \* per worker: a duplicate was there when it called
    calls, failures, clock      \* what the bounds bound

storeVars == <<values, counters>>

indexVars == <<index, remembered>>

workerVars == <<pc, call, decision, returned, clear, known>>

bounds == <<calls, failures, clock>>

vars == <<config, storeVars, chain, indexVars, workerVars, switching, bounds>>

-----------------------------------------------------------------------------
(* Requests and decisions *)

(* AutonomyLevel; no action class gets by with ADVISOR, which is 0.        *)
ASSISTANT == 1
OPERATOR  == 2
AUTOPILOT == 3

ActionLevels ==
    [read           |-> ASSISTANT, estimate      |-> ASSISTANT,
     generate       |-> OPERATOR,  upload        |-> OPERATOR,
     campaign_write |-> AUTOPILOT, autopilot_run |-> AUTOPILOT]

RequiredLevel(action) ==
    IF action \in DOMAIN ActionLevels THEN ActionLevels[action] ELSE AUTOPILOT

(* intent_fingerprint, with the tenant the loop key adds to it once more.  *)
(* The cost is not part of it.                                             *)
Fingerprint(r) ==
    [action |-> r.action, tenant |-> r.tenant, params |-> r.params,
     prompt |-> IF r.prompt = None THEN None ELSE Normalised[r.prompt]]

Fingerprints == {Fingerprint(r) : r \in Requests}

Outcomes == {"allow", "deny", "shadow", "reuse"}

Checks == {"all", "kill_switch", "autonomy", "shadow_mode", "call_ceiling",
           "loop_detector", "semantic_dedup"}

Decision(outcome, check, about) ==
    [outcome |-> outcome, check |-> check, about |-> about]

Allow == Decision("allow", "all", None)

TooAutonomous(r) == config.autonomy < RequiredLevel(r.action)

OverCeiling(r) ==
    r.cost # None /\ CallCeiling # None /\ r.cost > CallCeiling

\* A fault: shadow mode is skipped.
LocalRefusalsUnshadowed(r) ==
    IF TooAutonomous(r) THEN {Decision("deny", "autonomy", None)}
    ELSE IF OverCeiling(r) THEN {Decision("deny", "call_ceiling", None)}
    ELSE {}

(* Checks 2, 3 and 4: no await among them.                                 *)
LocalRefusals(r) ==
    IF TooAutonomous(r) THEN {Decision("deny", "autonomy", None)}
    ELSE IF r.action \in ShadowActions
         THEN {Decision("shadow", "shadow_mode", None)}
    ELSE IF OverCeiling(r) THEN {Decision("deny", "call_ceiling", None)}
    ELSE {}

(* _check_dedup goes on to the index.                                      *)
DedupApplies(r) ==
    config.index # "none" /\ r.prompt # None /\ r.action = "generate"

(* What index.nearest(vector, limit=1) may return.  MemoryVectorIndex      *)
(* compares with every entry; ties are the index's.  PgVectorIndex asks an *)
(* HNSW index, which is approximate: it may overlook what is nearer.       *)
Nearest(prompt) ==
    IF config.index = "pgvector" THEN index
    ELSE {g \in index : \A o \in index :
            Similarity[<<prompt, o.prompt>>] <= Similarity[<<prompt, g.prompt>>]}

\* A fault: the nearest generation is a duplicate however far it is.
IsDuplicateAlways(prompt, g) == TRUE

IsDuplicate(prompt, g) == Similarity[<<prompt, g.prompt>>] >= DedupThreshold

-----------------------------------------------------------------------------
(* The components *)

KillSwitchKey == "mainager:kill_switch"

MaxThreshold ==
    CHOOSE n \in {c.loop_threshold : c \in Configs} :
       \A c \in Configs : c.loop_threshold <= n

Store == INSTANCE KeyValueStore WITH
            ValueKeys <- {KillSwitchKey}, CounterKeys <- Fingerprints,
            Values <- Reasons, Absent <- None, MaxLife <- LoopWindow,
            MaxCount <- MaxThreshold + 1

Tripped == Store!Got(KillSwitchKey)

Engaged == Tripped # None

(* What a caller of AuditLog.record writes.  The number of the call stands *)
(* for the time stamp: no two calls write the same record.                 *)
Entry(n, action, outcome, check, about) ==
    [call |-> n, action |-> action, outcome |-> outcome, check |-> check,
     about |-> about]

Keys == {g.key : g \in Generations}

(* What those callers can write: a decision with its request, or a switch. *)
Entries ==
    [call    : 1 .. MaxCalls,
     action  : {r.action : r \in Requests} \cup {"kill_switch"},
     outcome : Outcomes \cup {"tripped", "reset"},
     check   : Checks,
     about   : Reasons \cup Keys \cup {None}]

Log == INSTANCE AuditChain WITH
          MaxRecords <- MaxCalls,
          Details <- Entries

Logged == {chain[i].detail : i \in 1 .. Len(chain)}

-----------------------------------------------------------------------------
(* evaluate() *)

Idle == [number |-> 0, request |-> None]

Init ==
    /\ config \in Configs
    /\ Store!Init
    /\ Log!Init
    /\ index = {}
    /\ remembered = {}
    /\ pc = [w \in Workers |-> "idle"]
    /\ call = [w \in Workers |-> Idle]
    /\ decision = [w \in Workers |-> None]
    /\ switching = [o \in Operators |-> None]
    /\ returned = {}
    /\ clear = [w \in Workers |-> FALSE]
    /\ known = [w \in Workers |-> FALSE]
    /\ calls = 0
    /\ failures = 0
    /\ clock = 0

NewCall == calls < MaxCalls /\ calls' = calls + 1

(* The resumed worker runs to the next await, or to the end of _evaluate.  *)
Goto(w, label) ==
    /\ pc' = [pc EXCEPT ![w] = label]
    /\ UNCHANGED <<call, decision, returned, clear, known>>

Decide(w, d) ==
    /\ pc' = [pc EXCEPT ![w] = "audit"]
    /\ decision' = [decision EXCEPT ![w] = d]
    /\ UNCHANGED <<call, returned, clear, known>>

(* evaluate() is over for worker w.                                        *)
Leave(w) ==
    /\ pc' = [pc EXCEPT ![w] = "idle"]
    /\ call' = [call EXCEPT ![w] = Idle]
    /\ decision' = [decision EXCEPT ![w] = None]
    /\ clear' = [clear EXCEPT ![w] = FALSE]
    /\ known' = [known EXCEPT ![w] = FALSE]

(* For the properties: an exact search would find a duplicate of r now.    *)
DuplicateIndexed(r) ==
    /\ config.index = "memory"
    /\ DedupApplies(r)
    /\ \E g \in index : Similarity[<<r.prompt, g.prompt>>] >= DedupThreshold

Begin(w, r) ==
    /\ pc[w] = "idle"
    /\ NewCall
    /\ pc' = [pc EXCEPT ![w] = "kill_switch"]
    /\ call' = [call EXCEPT ![w] = [number |-> calls + 1, request |-> r]]
    /\ clear' = [clear EXCEPT ![w] = ~ Engaged]
    /\ known' = [known EXCEPT ![w] = DuplicateIndexed(r)]
    /\ UNCHANGED <<storeVars, chain, indexVars, decision, returned, switching,
                   failures, clock>>

(* Check 1.                                                                *)
DenyKilled(w) ==
    /\ pc[w] = "kill_switch"
    /\ Engaged
    /\ Decide(w, Decision("deny", "kill_switch", Tripped))
    /\ UNCHANGED <<storeVars, chain, indexVars, switching, bounds>>

(* Checks 2 to 4, in the same step as the lookup that found the switch off. *)
RefuseLocally(w) ==
    /\ pc[w] = "kill_switch"
    /\ ~ Engaged
    /\ \E d \in LocalRefusals(call[w].request) : Decide(w, d)
    /\ UNCHANGED <<storeVars, chain, indexVars, switching, bounds>>

\* A fault: the worker waits for an answer that nobody sends.
AfterLoopUnanswered(w) == Goto(w, "embed")

AfterLoop(w) ==
    IF DedupApplies(call[w].request) THEN Goto(w, "dedup") ELSE Decide(w, Allow)

\* A fault: the switch is not looked up.
PassLocallyUnlooked(w) ==
    /\ pc[w] = "kill_switch"
    /\ LocalRefusals(call[w].request) = {}
    /\ IF config.loop_threshold > 0 THEN Goto(w, "loop") ELSE AfterLoop(w)
    /\ UNCHANGED <<storeVars, chain, indexVars, switching, bounds>>

PassLocally(w) ==
    /\ pc[w] = "kill_switch"
    /\ ~ Engaged
    /\ LocalRefusals(call[w].request) = {}
    /\ IF config.loop_threshold > 0 THEN Goto(w, "loop") ELSE AfterLoop(w)
    /\ UNCHANGED <<storeVars, chain, indexVars, switching, bounds>>

LoopKey(w) == Fingerprint(call[w].request)

(* Check 5.                                                                *)
CheckLoop(w) ==
    /\ pc[w] = "loop"
    /\ Store!IncrInWindow(LoopKey(w), LoopWindow)
    /\ IF Store!CountAfter(LoopKey(w)) > config.loop_threshold
       THEN Decide(w, Decision("deny", "loop_detector", None))
       ELSE AfterLoop(w)
    /\ UNCHANGED <<chain, indexVars, switching, bounds>>

(* Check 6; embedding the prompt changes nothing and is part of the step.  *)
CheckDedup(w) ==
    LET prompt  == call[w].request.prompt
        matches == Nearest(prompt)
    IN  /\ pc[w] = "dedup"
        /\ \/ \E g \in matches :
                /\ IsDuplicate(prompt, g)
                /\ Decide(w, Decision("reuse", "semantic_dedup", g.key))
           \/ /\ \/ index = {}
                 \/ config.index = "pgvector"
                 \/ \E g \in matches : ~ IsDuplicate(prompt, g)
              /\ Decide(w, Allow)
        /\ UNCHANGED <<storeVars, chain, indexVars, switching, bounds>>

DecisionEntry(c, d) ==
    Entry(c.number, c.request.action, d.outcome, d.check, d.about)

\* A fault: the decision is returned while its record is still to be written.
RecordDecisionLater(w) ==
    /\ pc[w] = "audit"
    /\ returned' = returned \cup {[call |-> call[w], decision |-> decision[w]]}
    /\ Leave(w)
    /\ UNCHANGED <<storeVars, chain, indexVars, switching, bounds>>

(* await audit.record(...), and evaluate() returns the decision.           *)
RecordDecision(w) ==
    /\ pc[w] = "audit"
    /\ Log!Record(DecisionEntry(call[w], decision[w]))
    /\ returned' = returned \cup {[call |-> call[w], decision |-> decision[w]]}
    /\ Leave(w)
    /\ UNCHANGED <<storeVars, indexVars, switching, bounds>>

(* An await of evaluate() raises: the store, the embedder, the index or    *)
(* the log is unreachable, or its answer was lost after it had done what   *)
(* was asked.  The exception reaches the caller, who has no decision.      *)
Raise(w) ==
    /\ pc[w] # "idle"
    /\ failures < MaxFailures
    /\ failures' = failures + 1
    /\ \/ UNCHANGED <<storeVars, chain>>
       \/ /\ pc[w] = "loop"
          /\ Store!IncrInWindow(LoopKey(w), LoopWindow)
          /\ UNCHANGED chain
       \/ /\ pc[w] = "audit"
          /\ Log!Record(DecisionEntry(call[w], decision[w]))
          /\ UNCHANGED storeVars
    /\ Leave(w)
    /\ UNCHANGED <<indexVars, returned, switching, calls, clock>>

-----------------------------------------------------------------------------
(* trip_kill_switch() and reset_kill_switch() *)

(* The store has answered; what is left is to record the change.  clear    *)
(* notes, for the properties, that calls in progress saw the switch off.   *)
Switched(o, outcome, reason) ==
    switching' = [switching EXCEPT ![o] =
                    [number |-> calls', outcome |-> outcome, about |-> reason]]

NoteClear == clear' = [w \in Workers |-> clear[w] \/ pc[w] # "idle"]

Trip(o, reason) ==
    /\ switching[o] = None
    /\ NewCall
    /\ Store!Set(KillSwitchKey, reason, Store!Forever)
    /\ Switched(o, "tripped", reason)
    /\ UNCHANGED <<chain, indexVars, workerVars, failures, clock>>

Reset(o) ==
    /\ switching[o] = None
    /\ NewCall
    /\ Store!DeleteValue(KillSwitchKey)
    /\ Switched(o, "reset", None)
    /\ NoteClear
    /\ UNCHANGED <<chain, indexVars, pc, call, decision, returned, known,
                   failures, clock>>

SwitchEntry(s) ==
    Entry(s.number, "kill_switch", s.outcome, "kill_switch", s.about)

\* A fault: the change of the switch is not recorded.
ForgetSwitch(o) ==
    /\ switching[o] # None
    /\ switching' = [switching EXCEPT ![o] = None]
    /\ UNCHANGED <<storeVars, chain, indexVars, workerVars, bounds>>

RecordSwitch(o) ==
    /\ switching[o] # None
    /\ Log!Record(SwitchEntry(switching[o]))
    /\ switching' = [switching EXCEPT ![o] = None]
    /\ UNCHANGED <<storeVars, indexVars, workerVars, bounds>>

(* The record is not written, or the answer is lost after it was.          *)
RecordSwitchRaises(o) ==
    /\ switching[o] # None
    /\ failures < MaxFailures
    /\ failures' = failures + 1
    /\ \/ UNCHANGED chain
       \/ Log!Record(SwitchEntry(switching[o]))
    /\ switching' = [switching EXCEPT ![o] = None]
    /\ UNCHANGED <<storeVars, indexVars, workerVars, calls, clock>>

(* The store's answer is lost after it changed: nothing is recorded.       *)
SwitchRaises(o) ==
    /\ switching[o] = None
    /\ failures < MaxFailures
    /\ failures' = failures + 1
    /\ NewCall
    /\ \/ /\ \E reason \in Reasons :
               Store!Set(KillSwitchKey, reason, Store!Forever)
          /\ UNCHANGED clear
       \/ /\ Store!DeleteValue(KillSwitchKey)
          /\ NoteClear
    /\ UNCHANGED <<chain, indexVars, pc, call, decision, returned, known,
                   switching, clock>>

-----------------------------------------------------------------------------
(* The world *)

(* remember_generation(key, prompt, ...) may be called with any generation *)
(* at any time, whether evaluate() was asked about it or not, and again    *)
(* with a key it had before: PgVectorIndex replaces the row, and           *)
(* MemoryVectorIndex keeps both.                                           *)
Remember(g) ==
    /\ config.index # "none"
    /\ index' = {g} \cup
          {o \in index : config.index = "pgvector" => o.key # g.key}
    /\ remembered' = remembered \cup {g}
    /\ UNCHANGED <<storeVars, chain, workerVars, switching, bounds>>

Tick ==
    /\ clock < MaxTicks
    /\ clock' = clock + 1
    /\ Store!Tick
    /\ UNCHANGED <<chain, indexVars, workerVars, switching, calls, failures>>

Resume(w) ==
    \/ DenyKilled(w) \/ RefuseLocally(w) \/ PassLocally(w)
    \/ CheckLoop(w) \/ CheckDedup(w) \/ RecordDecision(w)

Step ==
    \/ \E w \in Workers :
         \/ \E r \in Requests : Begin(w, r)
         \/ Resume(w)
         \/ Raise(w)
    \/ \E o \in Operators :
         \/ \E reason \in Reasons : Trip(o, reason)
         \/ Reset(o)
         \/ RecordSwitch(o)
         \/ RecordSwitchRaises(o)
         \/ SwitchRaises(o)
    \/ \E g \in Generations : Remember(g)
    \/ Tick

Next == Step /\ UNCHANGED config

(* The event loop resumes whoever has an answer; nobody has to call.       *)
Spec ==
    /\ Init
    /\ [][Next]_vars
    /\ \A w \in Workers : WF_vars(Resume(w) /\ UNCHANGED config)
    /\ \A o \in Operators : WF_vars(RecordSwitch(o) /\ UNCHANGED config)

-----------------------------------------------------------------------------
(* Properties *)

Decisions == [outcome : Outcomes, check : Checks,
              about : Reasons \cup Keys \cup {None}]

Calls == [number : 0 .. MaxCalls, request : Requests \cup {None}]

Changes == [number : 1 .. MaxCalls, outcome : {"tripped", "reset"},
            about : Reasons \cup {None}]

TypeOK ==
    /\ config \in Configs
    /\ Store!TypeOK
    /\ index \subseteq remembered /\ remembered \subseteq Generations
    /\ pc \in [Workers -> {"idle", "kill_switch", "loop", "dedup", "audit"}]
    /\ call \in [Workers -> Calls]
    /\ decision \in [Workers -> Decisions \cup {None}]
    /\ \A w \in Workers :
         /\ pc[w] # "idle" => call[w].request \in Requests
         /\ pc[w] = "audit" => decision[w] \in Decisions
    /\ switching \in [Operators -> Changes \cup {None}]
    /\ returned \subseteq [call : [number : 0 .. MaxCalls, request : Requests],
                            decision : Decisions]
    /\ clear \in [Workers -> BOOLEAN]
    /\ known \in [Workers -> BOOLEAN]
    /\ calls \in 0 .. MaxCalls
    /\ failures \in 0 .. MaxFailures
    /\ clock \in 0 .. MaxTicks

(* A call that found the switch engaged whenever it could have looked is   *)
(* denied by it, whichever worker tripped it and however the checks of     *)
(* other calls are interleaved (plane.py:141-148).                         *)
StoppedWhileEngaged ==
    \A w \in Workers : pc[w] \notin {"idle", "kill_switch"} /\ ~ clear[w] =>
        pc[w] = "audit" /\ decision[w].check = "kill_switch"

(* No caller holds a decision that is not in the log, exactly as it was    *)
(* returned, and no call is in the log twice: an append that fails takes   *)
(* the decision with it (plane.py:100, 125-138).                           *)
DecisionsLogged ==
    /\ \A d \in returned : DecisionEntry(d.call, d.decision) \in Logged
    /\ \A i, j \in 1 .. Len(chain) :
         chain[i].detail.call = chain[j].detail.call => i = j

(* However many workers race, a fingerprint gets past the loop detector at *)
(* most the threshold's number of times per window that can have opened    *)
(* (plane.py:202-218).                                                     *)
LoopLimitHolds ==
    config.loop_threshold > 0 =>
      \A f \in Fingerprints :
        Cardinality({d \in returned :
                       /\ Fingerprint(d.call.request) = f
                       /\ d.decision.outcome \in {"allow", "reuse"}})
          <= config.loop_threshold * (1 + clock \div LoopWindow)

(* What is handed out for reuse is a generation that was remembered under  *)
(* the key that is named, and is similar enough to what was asked for.     *)
(* And where the search is exact nothing similar enough is overlooked: who *)
(* is told to go ahead began before any such generation was remembered     *)
(* (plane.py:220-246).                                                     *)
ReuseIsEarned ==
    /\ \A d \in returned : d.decision.outcome = "reuse" =>
         \E g \in remembered :
           /\ g.key = d.decision.about
           /\ Similarity[<<d.call.request.prompt, g.prompt>>] >= DedupThreshold
    /\ \A w \in Workers :
         pc[w] = "audit" /\ decision[w] = Allow => ~ known[w]

(* What the commercial ladder lets run at a level: at the highest one also *)
(* actions of no known class.                                              *)
MayRun(action) ==
    \/ config.autonomy >= ASSISTANT /\ action \in {"read", "estimate"}
    \/ config.autonomy >= OPERATOR /\ action \in {"generate", "upload"}
    \/ config.autonomy >= AUTOPILOT

(* A call that is let through is one the autonomy level lets run, and a    *)
(* call that is refused or turned into a diff for approval without I/O has *)
(* not used up the loop window of its fingerprint (plane.py:3-7, 150-174). *)
RefusalsComeFirst ==
    /\ \A d \in returned : d.decision.outcome \in {"allow", "reuse"} =>
         /\ MayRun(d.call.request.action)
         /\ d.call.request.action \notin ShadowActions
    /\ \A f \in Fingerprints : counters[f].count > 0 =>
         MayRun(f.action) /\ f.action \notin ShadowActions

(* As long as nothing raised, a denial by the kill switch is explained by  *)
(* the log: somebody's trip with the reason it quotes is recorded, or is   *)
(* about to be (plane.py:117-119, 142-148).                                *)
KillDenialsExplained ==
    failures = 0 =>
      \A d \in returned : d.decision.check = "kill_switch" =>
        \/ \E e \in Logged :
             e.outcome = "tripped" /\ e.about = d.decision.about
        \/ \E o \in Operators :
             /\ switching[o] # None
             /\ switching[o].outcome = "tripped"
             /\ switching[o].about = d.decision.about

(* With one operator, and as long as nothing raised, the last change of    *)
(* the switch in the log is the state the store is in, whenever no change  *)
(* is waiting to be recorded (plane.py:117-123).                           *)
SwitchChanges ==
    {i \in 1 .. Len(chain) : chain[i].detail.outcome \in {"tripped", "reset"}}

SwitchLogAgrees ==
    /\ failures = 0
    /\ Cardinality(Operators) = 1
    /\ \A o \in Operators : switching[o] = None
    => Engaged <=>
         \E i \in SwitchChanges :
           /\ \A j \in SwitchChanges : j <= i
           /\ chain[i].detail.outcome = "tripped"

(* Every call of evaluate() comes to an end, whatever raises.              *)
EvaluateEnds ==
    \A w \in Workers : pc[w] = "kill_switch" ~> pc[w] = "idle"
=============================================================================
