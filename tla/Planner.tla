------------------------------- MODULE Planner ------------------------------
(***************************************************************************)
(* estimate_plan (mainager/preflight/planner.py) over Router: a scenario   *)
(* is ordered, each of its steps is priced, and the whole is compared with *)
(* what the account and the ceilings allow.  Nothing is spent.             *)
(*                                                                         *)
(* The estimates of a step are concurrent, and answered in any order.      *)
(* What the provider answers is the environment.                           *)
(***************************************************************************)
EXTENDS Router

CONSTANTS
    Plans,          \* sequences of steps [name, intent, depends_on]
    Accounts,       \* records [balance, daily_limit, spent_today]
    StepCeiling,    \* step_ceiling_rub, or None
    PlanCeiling     \* plan_ceiling_rub, or None

ASSUME CeilingsAssumption == {StepCeiling, PlanCeiling} \subseteq Nat \cup {None}

ASSUME PlansAssumption ==
    \A p \in Plans :
      /\ p \in Seq(ToSet(p))
      /\ \A step \in ToSet(p) : step.depends_on \in Seq(ToSet(step.depends_on))

ASSUME AccountsAssumption ==
    \A a \in Accounts : /\ a.balance \in Int /\ a.spent_today \in Int
                        /\ a.daily_limit \in Int \cup {None}

VARIABLES
    plan,           \* the steps, or None
    account,        \* the account as the caller knows it
    pc,             \* where estimate_plan is
    order,          \* the names of the steps in the order they are priced
    costs,          \* per priced step: [name, model_id, cost_rub]
    quotes,         \* per priced step: the dry runs it was priced with
    result          \* the PlanEstimate, or None

planVars == <<plan, account, pc, order, costs, quotes, result>>

vars == <<planVars, routing>>

-----------------------------------------------------------------------------
(* execution_order *)

Names(p) == {p[i].name : i \in DOMAIN p}

StepOf(p, name) == p[CHOOSE i \in DOMAIN p : p[i].name = name]

\* A fault: the steps are taken as they come.
VisitedFlat(p, done, name) ==
    [done EXCEPT !.ordered = IF name \in ToSet(@) THEN @ ELSE Append(@, name)]

Walks(p) == [ordered : Seq(Names(p)), cyclic : BOOLEAN]

(* visit(name) with what is ordered already: dependencies come first, and  *)
(* a step met again while it is being visited closes a cycle.              *)
Visited(p, done, name) ==
    LET visit[open \in SUBSET Names(p)] ==
          [n \in Names(p) |-> [d \in Walks(p) |->
             IF d.cyclic \/ n \in ToSet(d.ordered) THEN d
             ELSE IF n \in open THEN [d EXCEPT !.cyclic = TRUE]
             ELSE LET after == FoldLeft(LAMBDA a, m : visit[open \cup {n}][m][a],
                                        d, StepOf(p, n).depends_on)
                  IN  [after EXCEPT !.ordered = Append(@, n)]]]
    IN  visit[{}][name][done]

Unordered == [ordered |-> <<>>, cyclic |-> FALSE]

Sorted(p) ==
    FoldLeft(LAMBDA done, step : Visited(p, done, step.name), Unordered, p)

WellNamed(p) ==
    /\ Cardinality(Names(p)) = Len(p)
    /\ \A i \in DOMAIN p : ToSet(p[i].depends_on) \subseteq Names(p)

(* execution_order raises PlanCycleError.                                  *)
Unplannable(p) == IF WellNamed(p) THEN Sorted(p).cyclic ELSE TRUE

-----------------------------------------------------------------------------
(* estimate_plan *)

StepName == order[Len(costs) + 1]

StepIntent == StepOf(plan, StepName).intent

Init ==
    /\ RouterInit
    /\ plan = None
    /\ account \in Accounts
    /\ pc = "idle"
    /\ order = <<>>
    /\ costs = <<>>
    /\ quotes = <<>>
    /\ result = None

EstimatePlan(p) ==
    /\ pc = "idle"
    /\ plan' = p
    /\ \/ Unplannable(p) /\ pc' = "raised" /\ UNCHANGED order
       \/ ~ Unplannable(p) /\ pc' = "ready" /\ order' = Sorted(p).ordered
    /\ UNCHANGED <<routing, account, costs, quotes, result>>

StepCost(model, cost) ==
    [name |-> StepName, model_id |-> model, cost_rub |-> cost]

\* A fault: the first step without a model ends the walk.
BlockStepAborting ==
    /\ pc = "ready"
    /\ Len(costs) < Len(order)
    /\ Servable(StepIntent) = {}
    /\ pc' = "raised"
    /\ UNCHANGED <<routing, plan, account, order, costs, quotes, result>>

(* A step on which no model can be tried costs no request.                 *)
BlockStep ==
    /\ pc = "ready"
    /\ Len(costs) < Len(order)
    /\ Servable(StepIntent) = {}
    /\ costs' = Append(costs, StepCost(None, None))
    /\ quotes' = Append(quotes, <<>>)
    /\ UNCHANGED <<routing, plan, account, pc, order, result>>

PriceStep ==
    /\ pc = "ready"
    /\ Len(costs) < Len(order)
    /\ PriceAll(StepIntent)
    /\ pc' = "pricing"
    /\ UNCHANGED <<plan, account, order, costs, quotes, result>>

Answered(id, answer) ==
    /\ pc = "pricing"
    /\ Estimated(id, answer)
    /\ UNCHANGED planVars

StepRouted ==
    IF Priced(StepCeiling) = {} THEN StepCost(None, None)
    ELSE StepCost(Best(StepCeiling), CostOf(Estimates[Best(StepCeiling)]))

(* All estimates of the step are there, in whatever order they came.       *)
ChooseModel ==
    /\ pc = "pricing"
    /\ AllAnswered
    /\ costs' = Append(costs, StepRouted)
    /\ quotes' = Append(quotes, answers)
    /\ Routed
    /\ pc' = "ready"
    /\ UNCHANGED <<plan, account, order, result>>

Total ==
    SumFunction([i \in DOMAIN costs |->
                   IF costs[i].cost_rub = None THEN 0 ELSE costs[i].cost_rub])

(* daily_remaining_rub                                                     *)
LeftToday ==
    IF account.spent_today > account.daily_limit THEN 0
    ELSE account.daily_limit - account.spent_today

\* A fault: what was spent today already is forgotten.
BlockersOfFreshDay ==
    {c.name : c \in {costs[i] : i \in {j \in DOMAIN costs :
                                         costs[j].model_id = None}}}
      \cup {b \in {"balance"} : Total > account.balance}
      \cup {b \in {"daily"} : account.daily_limit # None
                                /\ Total > account.daily_limit}
      \cup {b \in {"ceiling"} : PlanCeiling # None /\ Total > PlanCeiling}

Blockers ==
    {c.name : c \in {costs[i] : i \in {j \in DOMAIN costs :
                                         costs[j].model_id = None}}}
      \cup {b \in {"balance"} : Total > account.balance}
      \cup {b \in {"daily"} : account.daily_limit # None /\ Total > LeftToday}
      \cup {b \in {"ceiling"} : PlanCeiling # None /\ Total > PlanCeiling}

Conclude ==
    /\ pc = "ready"
    /\ Len(costs) = Len(order)
    /\ result' = [total |-> Total, blockers |-> Blockers,
                  verdict |-> IF Blockers = {} THEN "go" ELSE "no_go"]
    /\ pc' = "done"
    /\ UNCHANGED <<routing, plan, account, order, costs, quotes>>

Proceed ==
    \/ BlockStep \/ PriceStep \/ ChooseModel \/ Conclude
    \/ \E id \in DOMAIN bodies, answer \in Answers \cup {Failed} :
         Answered(id, answer)

Next == Proceed \/ \E p \in Plans : EstimatePlan(p)

(* The HTTP client gives up an estimate that stays unanswered.             *)
Spec == Init /\ [][Next]_vars /\ WF_vars(Proceed)

-----------------------------------------------------------------------------
(* Properties *)

TypeOK ==
    /\ plan \in Plans \cup {None}
    /\ account \in Accounts
    /\ pc \in {"idle", "ready", "pricing", "raised", "done"}
    /\ Len(quotes) = Len(costs)
    /\ DOMAIN bodies \subseteq DOMAIN Specs
    /\ DOMAIN answers \subseteq DOMAIN bodies
    /\ \A id \in DOMAIN answers : answers[id] \in Answers \cup {Failed}
    /\ pc = "pricing" => bodies # <<>>

(* A plan is refused exactly if its names do not identify its steps, a     *)
(* step waits for one that is not there, or a set of steps wait for each   *)
(* other; otherwise every step is priced once, after all it waits for      *)
(* (planner.py:84-113).                                                    *)
WaitForEachOther(p, some) ==
    /\ some # {}
    /\ \A n \in some : ToSet(StepOf(p, n).depends_on) \cap some # {}

OrderIsTopological ==
    plan # None =>
      /\ pc = "raised" <=>
           \/ ~ WellNamed(plan)
           \/ \E some \in SUBSET Names(plan) : WaitForEachOther(plan, some)
      /\ pc # "raised" =>
           /\ ToSet(order) = Names(plan)
           /\ Len(order) = Len(plan)
           /\ \A i \in DOMAIN order :
                \A n \in ToSet(StepOf(plan, order[i]).depends_on) :
                  \E j \in 1 .. i - 1 : order[j] = n

(* A body that is priced carries everything the intent states, prompt, key *)
(* and extra parameters included, with the value it states and, but for an *)
(* extra parameter, one the catalog allows; it has what the model requires,*)
(* under names the model knows, and nothing it would drop and bill for;    *)
(* strict is on (compiler.py:1-12, 104-186).                               *)
BodiesHonest == pc = "pricing" => Honest(bodies, StepIntent)

(* A step costs the least of what the usable dry runs of it say, each of   *)
(* them counted for the model that it was asked about, whatever order they *)
(* came in; every model that can serve the step was asked, and a usable    *)
(* answer is clean, within the ceiling and affordable.  No step is given up*)
(* while there is one (router.py:118-203).                                 *)
NothingCheaper ==
    \A i \in DOMAIN costs :
      LET usable == {id \in DOMAIN quotes[i] : Usable(quotes[i][id], StepCeiling)}
      IN  /\ DOMAIN quotes[i] = Servable(StepOf(plan, costs[i].name).intent)
          /\ IF costs[i].model_id = None THEN usable = {}
             ELSE /\ costs[i].model_id \in usable
                  /\ costs[i].cost_rub = CostOf(quotes[i][costs[i].model_id])
                  /\ \A id \in usable :
                       costs[i].cost_rub <= CostOf(quotes[i][id])

(* "go" is said exactly if every step found a model and the sum of them    *)
(* all, not only each, is covered by the balance, by what is left of the   *)
(* day and by the ceiling of the plan (planner.py:1-11, 156-181).          *)
Spent == [i \in DOMAIN costs |-> CostOf(quotes[i][costs[i].model_id])]

GoIsCovered ==
    result # None =>
      (result.verdict = "go" <=>
         /\ \A n \in Names(plan) : \E i \in DOMAIN costs :
              costs[i].name = n /\ costs[i].model_id # None
         /\ LET spent == SumFunction(Spent)
            IN  /\ spent <= account.balance
                /\ account.daily_limit # None =>
                     spent = 0 \/ spent + account.spent_today
                                    <= account.daily_limit
                /\ PlanCeiling # None => spent <= PlanCeiling)

(* A plan that can be ordered gets its verdict, whatever estimates fail.   *)
PlanConcluded == pc = "ready" ~> pc = "done"
=============================================================================
