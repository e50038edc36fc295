------------------------------- MODULE Reconcile -------------------------------
(***************************************************************************)
(* The comparison of the catalog with the price list                       *)
(* (mainager/preflight/reconcile.py).  `specs' is a registry, `prices' a   *)
(* price list, flattened to model id |-> [category, price].                *)
(***************************************************************************)
EXTENDS Registry

CONSTANT NamedAfter   \* <<p, id>>: id is p, a dash and something more

(* A price list is a sequence of categories, each with the prices of some  *)
(* ids; of two prices of an id the later one counts.                       *)
FlattenPrices(list) ==
    FoldLeft(LAMBDA flat, c :
               [id \in DOMAIN flat \cup DOMAIN c.entries |->
                  IF id \in DOMAIN c.entries
                  THEN [category |-> c.category, price |-> c.entries[id]]
                  ELSE flat[id]],
             <<>>, list)

(* "other" is no category of models.                                       *)
Drift(specs, prices) ==
    [generatable_without_price |-> DOMAIN specs \ DOMAIN prices,
     priced_without_model      |-> DOMAIN prices \ DOMAIN specs,
     category_mismatch         |->
       {<<id, specs[id].media_type, prices[id].category>> :
          id \in {both \in DOMAIN specs \cap DOMAIN prices :
                   prices[both].category
                     \notin {"other", specs[both].media_type}}}]

IsClean(drift) ==
    /\ drift.generatable_without_price = {}
    /\ drift.priced_without_model = {}
    /\ drift.category_mismatch = {}

(* The models whose tiers the catalog declares with their prices.          *)
TierParents(specs) ==
    {id \in DOMAIN specs :
       DOMAIN specs[id].tier_prices # {} /\ specs[id].is_tier_of = None}

Highest(prices) == CHOOSE p \in prices : \A o \in prices : o <= p

DeclaredMax(spec) ==
    Highest({spec.tier_prices[t] : t \in DOMAIN spec.tier_prices})

UnlistedOf(specs, prices, parent) ==
    {id \in DOMAIN prices \ DOMAIN specs : <<parent, id>> \in NamedAfter}

UnlistedTiers(specs, prices) ==
    UNION {{<<p, id, prices[id].price>> : id \in UnlistedOf(specs, prices, p)} :
             p \in TierParents(specs)}

(* How far the catalog's dearest tier of a model is below what is billed.  *)
Gap(specs, prices, parent) ==
    LET declared == DeclaredMax(specs[parent])
    IN  Highest({declared} \cup
                {prices[id].price : id \in UnlistedOf(specs, prices, parent)})
          - declared

\* A fault: the gap of the last model is reported, not the widest one.
CeilingGapOfAny(specs, prices) ==
    LET parents == TierParents(specs)
    IN  IF parents = {} THEN 0
        ELSE Gap(specs, prices, CHOOSE p \in parents : TRUE)

CeilingGap(specs, prices) ==
    Highest({0} \cup {Gap(specs, prices, p) : p \in TierParents(specs)})

(* The model with the widest gap: of several the first in ids(), and none  *)
(* if nothing is billed above what the catalog declares.                   *)
CeilingGapModel(specs, prices) ==
    LET widest == {p \in TierParents(specs) :
                     Gap(specs, prices, p) = CeilingGap(specs, prices)}
    IN  IF CeilingGap(specs, prices) = 0 \/ widest = {} THEN None
        ELSE CHOOSE p \in widest : \A o \in widest : IdRank[p] <= IdRank[o]

(* What `mainager drift --json' prints, but for the time of day; `sent' is *)
(* what GET /prices sends.  Of the prices it holds those of the unlisted   *)
(* tiers only; the hidden keys are the provider's own count.               *)
Reading(specs, sent) ==
    LET prices == FlattenPrices(sent.prices)
    IN  [routable_ids      |-> Cardinality(DOMAIN specs),
         price_keys        |-> Cardinality(DOMAIN prices),
         hidden_keys       |-> sent.hidden,
         drift             |-> Drift(specs, prices),
         unlisted_tiers    |-> UnlistedTiers(specs, prices),
         ceiling_gap       |-> CeilingGap(specs, prices),
         ceiling_gap_model |-> CeilingGapModel(specs, prices)]
=============================================================================
