------------------------------ MODULE Overspend ------------------------------
(***************************************************************************)
(* overspend_report (mainager/postflight/overspend.py) over Router: every  *)
(* generation of the account's history from which a request can be put     *)
(* together again is priced on what could serve it today, without a        *)
(* ceiling, and the differences are added up.                              *)
(*                                                                         *)
(* An entry of the history is a function from the fields it happens to     *)
(* have; `Other' stands for a value of a type that the code does not read  *)
(* (a text where a number should be, a null, a fraction, an empty list).   *)
(***************************************************************************)
EXTENDS Router

CONSTANTS
    Histories,      \* sequences of entries, as GET /generations may send
    Other           \* a value that is not of the type the code looks for

VARIABLES
    history,        \* the generations parsed, or None
    items,          \* the verdicts so far: [paid, cheapest_id, cheapest, skipped]
    compared        \* per verdict: the bodies priced for it and their answers

reportVars == <<history, items, compared>>

-----------------------------------------------------------------------------
(* Reading the history *)

MediaTypes == {"image", "video", "voice", "music", "text"}

Field(entry, name, default) ==
    IF name \in DOMAIN entry THEN entry[name] ELSE default

Read(v, default) == IF v = Other THEN default ELSE v

(* A cost that is no number is read as zero, whichever field holds it.     *)
Parsed(entry) ==
    [media_type |-> Field(entry, "type", ""),
     model_id   |-> Field(entry, "model", ""),
     cost       |-> Read(Field(entry, "cost",
                                Field(entry, "cost_rub", Other)), 0),
     refunded   |-> Field(entry, "refunded", FALSE),
     params     |-> Read(Field(entry, "params", <<>>), <<>>)]

(* Entries that are no objects are passed over.                            *)
ParseGenerations(raw) ==
    LET objects == Among(raw, ToSet(raw) \ {Other})
    IN  [i \in DOMAIN objects |-> Parsed(objects[i])]

(* reconstruct_intent gives a reason instead of an intent.                 *)
Unanalysable(g) ==
    \/ g.media_type \notin MediaTypes
    \/ g.model_id \notin DOMAIN Specs
    \/ Field(g.params, "prompt", Other) = Other
    \/ /\ "duration" \in Accepted(Specs[g.model_id])
       /\ "duration" \notin DOMAIN g.params

(* _first_media_url; not all of the compiler's ImageSourceParams.          *)
MediaKeys == {"image_input", "image_urls", "first_frame_url",
              "character_image_url", "image_url"}

Given(g, name) == Read(Field(g.params, name, Other), None)

ReconstructIntent(g) ==
    [media_type |-> g.media_type, prompt |-> g.params.prompt,
     source_image |-> \E k \in MediaKeys : Given(g, k) # None,
     duration |-> Given(g, "duration"),
     aspect_ratio |-> Given(g, "aspect_ratio"),
     resolution |-> Given(g, "resolution"),
     extra_params |-> <<>>, idempotency_key |-> None]

(* What was charged was not negative, in whole smallest units of money.    *)
ASSUME HistoriesAssumption ==
    \A raw \in Histories :
      /\ raw \in Seq(ToSet(raw))
      /\ \A e \in ToSet(raw) \ {Other} : Parsed(e).cost \in Nat

-----------------------------------------------------------------------------
(* overspend_report *)

ReportInit == history = None /\ items = <<>> /\ compared = <<>>

ReadHistory(raw) ==
    /\ history = None
    /\ history' = ParseGenerations(raw)
    /\ UNCHANGED <<routing, items, compared>>

InReport == history # None /\ Len(items) < Len(history)

Generation == history[Len(items) + 1]

Analysable == ~ Generation.refunded /\ ~ Unanalysable(Generation)

Verdict(id, cost) ==
    [paid |-> Generation.cost, cheapest_id |-> id, cheapest |-> cost,
     skipped |-> id = None]

(* Refunded, not to be put together again, or served by no model: the      *)
(* entry is in the report and in none of its sums.                         *)
SkipGeneration ==
    /\ InReport
    /\ bodies = <<>>
    /\ Analysable => Servable(ReconstructIntent(Generation)) = {}
    /\ items' = Append(items, Verdict(None, None))
    /\ compared' = Append(compared, [bodies |-> <<>>, answers |-> <<>>])
    /\ UNCHANGED <<routing, history>>

PriceGeneration ==
    /\ InReport
    /\ bodies = <<>>
    /\ Analysable
    /\ PriceAll(ReconstructIntent(Generation))
    /\ UNCHANGED reportVars

GenerationEstimated(id, answer) ==
    /\ InReport
    /\ Estimated(id, answer)
    /\ UNCHANGED reportVars

CompareGeneration ==
    /\ InReport
    /\ AllAnswered
    /\ items' = Append(items,
                  IF Priced(None) = {} THEN Verdict(None, None)
                  ELSE Verdict(Best(None), CostOf(Estimates[Best(None)])))
    /\ compared' = Append(compared, [bodies |-> bodies, answers |-> answers])
    /\ Routed
    /\ UNCHANGED history

Report ==
    \/ SkipGeneration \/ PriceGeneration \/ CompareGeneration
    \/ \E id \in DOMAIN bodies, answer \in Answers \cup {Failed} :
         GenerationEstimated(id, answer)

(* The sums the report prints.                                             *)
Counted == {i \in DOMAIN items : ~ items[i].skipped}

\* A fault: what was paid less than today is taken off the savings.
SavingNet(item) == item.paid - item.cheapest

Saving(item) ==
    IF item.paid > item.cheapest THEN item.paid - item.cheapest ELSE 0

PaidRub == SumFunction([i \in Counted |-> items[i].paid])

OptimalRub == SumFunction([i \in Counted |-> items[i].cheapest])

OverspendRub == SumFunction([i \in Counted |-> Saving(items[i])])

-----------------------------------------------------------------------------
(* Properties *)

(* Every generation has its verdict, in the order of the history.  What is *)
(* called avoidable was paid, not refunded, and is against the lowest of   *)
(* the usable answers to honest requests for one intent: the one put       *)
(* together again from the generation.  What is skipped is in no sum, and  *)
(* no generation that was cheaper than today makes up for one that was not *)
(* (overspend.py:42-91, 179-234).                                          *)
(* As the code has it an answer that names no cost is the lowest there is, *)
(* so that all of the charge counts as avoidable (pricing.py:21-27); and   *)
(* the intent is without what the history has in a form that is not read.  *)
LowestAnswer(i) ==
    LET quoted == compared[i].answers
        usable == {id \in DOMAIN quoted : Usable(quoted[id], None)}
    IN  {CostOf(quoted[id]) : id \in {b \in usable :
           \A o \in usable : CostOf(quoted[b]) <= CostOf(quoted[o])}}

SavingsAddUp ==
    /\ \A i \in DOMAIN items :
         /\ items[i].paid = history[i].cost
         /\ items[i].skipped <=>
              \/ history[i].refunded
              \/ LowestAnswer(i) = {}
         /\ ~ items[i].skipped =>
              /\ LowestAnswer(i) = {items[i].cheapest}
              /\ ~ Unanalysable(history[i])
              /\ Honest(compared[i].bodies, ReconstructIntent(history[i]))
              /\ DOMAIN compared[i].answers = DOMAIN compared[i].bodies
    /\ OverspendRub <= PaidRub
    /\ OverspendRub >= PaidRub - OptimalRub
    /\ OverspendRub = SumFunction(
         [i \in DOMAIN items |->
            Cardinality({rub \in 1 .. items[i].paid :
              ~ items[i].skipped /\ rub > items[i].cheapest})])
=============================================================================
