-------------------------------- MODULE Router --------------------------------
(***************************************************************************)
(* route (mainager/preflight/router.py): an intent is priced on every      *)
(* model that can serve it and the cheapest usable one is chosen.          *)
(*                                                                         *)
(* The estimates of an intent are concurrent, and answered in any order.   *)
(* What the provider answers is the environment.  Who calls route, with    *)
(* which ceiling, is up to the modules that extend this one.               *)
(***************************************************************************)
EXTENDS Compiler

CONSTANTS
    MaxConcurrent,  \* _MAX_CONCURRENT_ESTIMATES
    Answers,        \* records [cost, rejected, affordable] of a dry run
    Failed          \* an estimate that raises

ASSUME ConcurrencyAssumption == MaxConcurrent \in Nat \ {0}

ASSUME AnswersAssumption == \A a \in Answers : a.cost \in Nat \cup {None}

ASSUME FailedAssumption == Failed \notin Answers

VARIABLES
    bodies,         \* model |-> body, for the intent that is being priced
    answers,        \* model |-> what the provider answered about its body
    gathered        \* place in the gather |-> the answer collected there

routing == <<bodies, answers, gathered>>

(* The models that are looked at: pinned tiers are left out.               *)
Looked(intent) ==
    {id \in ByType(intent.media_type) : Specs[id].is_tier_of = None}

Servable(intent) == {id \in Looked(intent) : Compiles(intent, Specs[id])}

(* The semaphore admits the estimates in the order of the bodies.          *)
InFlight ==
    LET open == DOMAIN bodies \ DOMAIN answers
    IN  {id \in open :
           Cardinality({o \in open : IdRank[o] < IdRank[id]}) < MaxConcurrent}

(* A cost the answer does not name is read as zero.                        *)
CostOf(answer) == IF answer.cost = None THEN 0 ELSE answer.cost

(* The places of a gather are those of its awaitables, named here by the   *)
(* rank of their models, and are paired with the models again.             *)
Estimates == [id \in DOMAIN bodies |-> gathered[IdRank[id]]]

Status(answer, ceiling) ==
    IF answer = Failed THEN "incompatible"
    ELSE IF answer.rejected # {} THEN "dirty_body"
    ELSE IF ceiling # None /\ CostOf(answer) > ceiling
         THEN "over_ceiling"
    ELSE IF ~ answer.affordable THEN "unaffordable"
    ELSE "priced"

Priced(ceiling) ==
    {id \in DOMAIN bodies : Status(Estimates[id], ceiling) = "priced"}

Cheaper(a, b) ==
    \/ CostOf(Estimates[a]) < CostOf(Estimates[b])
    \/ CostOf(Estimates[a]) = CostOf(Estimates[b]) /\ IdRank[a] < IdRank[b]

Best(ceiling) ==
    CHOOSE id \in Priced(ceiling) :
        \A o \in Priced(ceiling) \ {id} : Cheaper(id, o)

-----------------------------------------------------------------------------
(* The awaits of _price_all *)

RouterInit == bodies = <<>> /\ answers = <<>> /\ gathered = <<>>

(* An intent that no model can be tried on costs no request.               *)
PriceAll(intent) ==
    /\ Servable(intent) # {}
    /\ bodies' = [id \in Servable(intent) |-> Body(intent, Specs[id])]
    /\ UNCHANGED <<answers, gathered>>

With(f, x, y) == [z \in DOMAIN f \cup {x} |-> IF z = x THEN y ELSE f[z]]

\* A fault: answers are collected as they complete (asyncio.as_completed).
EstimatedAsCompleted(id, answer) ==
    LET places == {IdRank[o] : o \in DOMAIN bodies} \ DOMAIN gathered
    IN  /\ id \in InFlight
        /\ answers' = With(answers, id, answer)
        /\ \E p \in places : /\ \A q \in places : p <= q
                             /\ gathered' = With(gathered, p, answer)
        /\ UNCHANGED bodies

(* An estimate is answered, or raises: return_exceptions keeps the others. *)
Estimated(id, answer) ==
    /\ id \in InFlight
    /\ answers' = With(answers, id, answer)
    /\ gathered' = With(gathered, IdRank[id], answer)
    /\ UNCHANGED bodies

AllAnswered == bodies # <<>> /\ DOMAIN answers = DOMAIN bodies

(* route returns, or raises NoViableModelError.                            *)
Routed == bodies' = <<>> /\ answers' = <<>> /\ gathered' = <<>>

(* What makes an answer one to choose from, for the properties.            *)
Usable(answer, ceiling) ==
    /\ answer # Failed
    /\ answer.rejected = {}
    /\ answer.affordable
    /\ ceiling # None => CostOf(answer) <= ceiling

(* What makes the bodies of an intent honest: nothing but what the model   *)
(* takes and needs, at most one of its alternatives, and all that was asked*)
(* for.  Where an extra parameter has the name of something else, it is the*)
(* extra parameter that was asked for, whatever the catalog allows.        *)
Takes(body, spec) ==
    /\ DOMAIN body \ Envelope \subseteq Accepted(spec)
    /\ spec.required \subseteq DOMAIN body
    /\ body.strict = TRUE
    /\ body.model = spec.model_id
    /\ Cardinality(GroupsTouched(body, spec)) <= 1

Carries(body, intent, spec) ==
    LET extra == intent.extra_params
        rest  == DOMAIN body \ DOMAIN extra
    IN  /\ DOMAIN extra \cup Stated(intent) \subseteq DOMAIN body
        /\ \A p \in DOMAIN extra \ {"idempotency_key"} : body[p] = extra[p]
        /\ \A p \in Stated(intent) \cap rest :
             body[p] = intent[p] /\ Allows(spec, p, body[p])
        /\ "type" \in rest => body.type = intent.media_type
        /\ "prompt" \in rest => body.prompt = intent.prompt
        /\ intent.idempotency_key # None =>
             /\ "idempotency_key" \in DOMAIN body
             /\ body.idempotency_key = intent.idempotency_key
        /\ intent.source_image =>
             \E p \in DOMAIN body \cap ToSet(ImageSourceParams) :
               p \in rest => body[p] = "url"

Honest(some, intent) ==
    \A id \in DOMAIN some :
      Takes(some[id], Specs[id]) /\ Carries(some[id], intent, Specs[id])
=============================================================================
