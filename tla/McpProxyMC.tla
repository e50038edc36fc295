---------------------------- MODULE McpProxyMC ------------------------------
(***************************************************************************)
(* An instance of McpProxy for model checking: one model with three tiers, *)
(* of which one is not in the list of tiers and one has no price, and with *)
(* a default of its own that is shorter than they are; and one model       *)
(* without tiers.                                                          *)
(***************************************************************************)
EXTENDS McpProxy

Entry(id, price, tiers, prices) ==
    [model_id |-> id, media_type |-> "video", required |-> {},
     optional |-> {}, enums |-> <<>>, limits |-> <<>>, price |-> price,
     tiers |-> tiers, tier_prices |-> prices]

TwoModels ==
    <<Entry("base", 1, {"t10", "t30"}, ("t10" :> 2) @@ ("t20" :> 3)),
      Entry("plain", 2, {}, <<>>)>>

Ranks ==
    ("base" :> 1) @@ ("plain" :> 2) @@ ("t10" :> 3) @@ ("t20" :> 4) @@ ("t30" :> 5)

TierLengths == ("base" :> 5) @@ ("t10" :> 10) @@ ("t20" :> 20) @@ ("plain" :> 10)

ATariff == ("base" :> 1) @@ ("t10" :> 2) @@ ("t20" :> 3) @@ ("plain" :> 2)

OneTariff == {ATariff}

TwoTariffs == {ATariff, [ATariff EXCEPT !["t10"] = 3, !["plain"] = 4]}

Request(tool, model, strict, duration, dropped, extra) ==
    [tool |-> tool, model |-> model, strict |-> strict,
     duration |-> duration, dropped |-> dropped, extra |-> extra]

(* Generations with a part that is dropped within params, beside it, or    *)
(* none, on every kind of model, with and without a duration and strict.   *)
ChargedRequests ==
    {Request("generate_content", model, strict, duration, drops[1], drops[2]) :
        model \in {"t20", "base"}, strict \in {TRUE, FALSE, None, Other},
        duration \in {None, 15},
        drops \in {<<{}, {}>>, <<{"bad"}, {}>>, <<{}, {"bad"}>>}}

OtherRequests ==
    {Request("generate_content", model, None, None, {}, {}) :
        model \in {"plain", "unknown", "t30"}} \cup
    {Request("estimate_generation", "t20", None, 5, drops, {}) :
        drops \in {{}, {"bad"}}} \cup
    {Request("get_balance", None, None, None, {}, {})}

MixedRequests == ChargedRequests \cup OtherRequests

CallSymmetry == Permutations(Calls)
=============================================================================
