------------------------------ MODULE Registry ------------------------------
(***************************************************************************)
(* ModelRegistry (mainager/preflight/registry.py): the callable models,    *)
(* parsed from the provider's catalog.  A tier of a model is a callable    *)
(* model too; it inherits everything but its id and its price.             *)
(***************************************************************************)
EXTENDS Integers, SequencesExt

CONSTANTS
    Catalog,        \* entries [model_id, media_type, required, optional,
                    \* enums, limits, price, tiers, tier_prices], in the
                    \* order of the catalog
    IdRank,         \* model id |-> its place in ids(), the sorted ids
    None            \* Python's None

ASSUME NoneAssumption == None \notin Int

(* The members of `seq' that are `kept', in their order: what a            *)
(* comprehension with a condition gives.                                   *)
Among(seq, kept) ==
    FoldLeft(LAMBDA taken, e : IF e \in kept THEN Append(taken, e) ELSE taken,
             <<>>, seq)

SpecFromEntry(e) ==
    [model_id |-> e.model_id, media_type |-> e.media_type,
     required |-> e.required, optional |-> e.optional, enums |-> e.enums,
     limits |-> e.limits, price |-> e.price, tiers |-> e.tiers,
     tier_prices |-> e.tier_prices, is_tier_of |-> None]

(* The tiers either field names; a model is not a tier of itself.          *)
TierNames(parent) ==
    (parent.tiers \cup DOMAIN parent.tier_prices) \ {parent.model_id}

TierSpec(parent, name) ==
    [parent EXCEPT
        !.model_id = name,
        !.price = IF name \in DOMAIN parent.tier_prices
                  THEN parent.tier_prices[name] ELSE None,
        !.tiers = {},
        !.tier_prices = <<>>,
        !.is_tier_of = parent.model_id]

ExpandTiers(parent) == [name \in TierNames(parent) |-> TierSpec(parent, name)]

(* Later entries win, and the tiers of an entry over the entry.            *)
WithEntry(specs, e) ==
    LET parent == SpecFromEntry(e)
        tiers  == ExpandTiers(parent)
    IN  [id \in DOMAIN specs \cup {parent.model_id} \cup DOMAIN tiers |->
           IF id \in DOMAIN tiers THEN tiers[id]
           ELSE IF id = parent.model_id THEN parent ELSE specs[id]]

SpecsOf(catalog) == FoldLeft(WithEntry, <<>>, catalog)

Specs == SpecsOf(Catalog)

ASSUME RankAssumption ==
    /\ DOMAIN Specs \subseteq DOMAIN IdRank
    /\ \A a, b \in DOMAIN IdRank :
         IdRank[a] \in Nat /\ (IdRank[a] = IdRank[b] => a = b)

Accepted(spec) == spec.required \cup spec.optional

ByType(media_type) == {id \in DOMAIN Specs : Specs[id].media_type = media_type}

Find(id) == IF id \in DOMAIN Specs THEN Specs[id] ELSE None
=============================================================================
