----------------------------- MODULE FreeSideMC -----------------------------
(***************************************************************************)
(* An instance of FreeSide for model checking: the plans and models of     *)
(* PlannerMC, histories of two generations, four markets that follow each  *)
(* other, and one provider of whom all ten claims hold.                    *)
(***************************************************************************)
EXTENDS PlannerMC, FreeSide

(* Generations as the provider may send them. *)

Past(model, cost, params) ==
    ("type" :> "video") @@ ("model" :> model) @@ ("cost" :> cost)
      @@ ("params" :> params)

Shot == "prompt" :> 1

Timed(duration) == Shot @@ ("duration" :> duration)

Histories2 ==
    LET clip  == Past("clip", 4, Timed(5) @@ ("image_urls" :> "url"))
        later == {Past("film", 3, Timed(15) @@ ("first_frame_url" :> "url")),
                  Past("clip-10", 2, Timed(Other) @@ ("seed" :> 7)),
                  Past("clip", 4, Shot),
                  Past("clip", Other, Timed(5)),
                  ("refunded" :> TRUE) @@ clip,
                  Past("reel", 5, Shot @@ ("aspect_ratio" :> "16:9")),
                  Past("gone", 4, Timed(5)),
                  Past("clip", 4, Timed(20)),
                  ("type" :> "image") @@ ("model" :> "draw") @@ ("cost_rub" :> 1),
                  Other}
    IN  {<<clip, g>> : g \in later} \cup {<<g, clip>> : g \in later} \cup {<<>>}

(* Markets: the catalog prices one tier of each of two models, and the     *)
(* list sells dearer ones, of the one model, of the other, or of none.     *)

Priced1(id, media_type, price, tiers, tier_prices) ==
    [Entry(id, media_type, {"prompt"}, {}, <<>>, <<>>, tiers)
       EXCEPT !.price = price, !.tier_prices = tier_prices]

Clips5 == Priced1("clip", "video", 2, {"clip-20"}, "clip-10" :> 5)

Films4 == Priced1("film", "video", 3, {}, "film-10" :> 4)

Sold(category, entries) == [category |-> category, entries |-> entries]

Common == ("clip" :> 2) @@ ("clip-10" :> 5) @@ ("clip-20" :> 8) @@ ("film" :> 3)

Market(catalog, prices, hidden) ==
    [catalog |-> catalog, sent |-> [prices |-> prices, hidden |-> hidden]]

(* Two of them differ in nothing but the count of hidden keys.             *)
FourMarkets ==
    {Market(<<Clips5, Films4>>,
            <<Sold("video", Common @@ ("film-10" :> 4))>>, hidden) :
       hidden \in {110, 114}} \cup
    {Market(<<Clips5, Films4>>,
            <<Sold("video", Common @@ ("clip-30" :> 9) @@ ("film-30" :> 5)),
              Sold("image", "film" :> 3)>>, 110),
     Market(<<Films4, Clips5, Priced1("draw", "image", 1, {}, <<>>)>>,
            <<Sold("video", Common @@ ("clip-30" :> 6) @@ ("film-30" :> 9)),
              Sold("other", "draw" :> 1)>>, None)}

Tiers ==
    {"clip", "film"} \X {"clip-10", "clip-20", "clip-30", "film-10", "film-30"}

Prefixed ==
    {t \in Tiers : t[2] \in (IF t[1] = "clip" THEN {"clip-10", "clip-20", "clip-30"}
                             ELSE {"film-10", "film-30"})}

(* A provider of whom every claim holds, and one that set things right.    *)

Flat(id, price) == Priced1(id, "video", price, {}, <<>>)

Claimed ==
    <<Flat("grok-ttv", 1), Priced1("grok-itv", "video", 1, {"10"}, <<>>),
      Flat("gpt-image-2", 1), Flat("gpt-image-2-edit", 2),
      Flat("seedream-5-pro", 1), Flat("seedream-5-pro-edit", 2)>>

Righted ==
    <<Flat("grok-ttv", 0), Flat("gpt-image-2", 2), Flat("gpt-image-2-edit", 2)>>

TwoOffers ==
    {[catalog |-> Claimed, prices |-> <<>>, prose |-> {"10", "30"},
      documented |-> {}, params |-> {"duration"}],
     [catalog |-> Righted,
      prices |-> <<Sold("video", ("grok-ttv" :> 0) @@ ("gpt-image-2" :> 2)
                                   @@ ("gpt-image-2-edit" :> 2))>>,
      prose |-> None, documented |-> {"/me"}, params |-> {"duration"}]}

Schema(strict, params) == [strict |-> strict, params |-> params]

MixedListings ==
    {("generate_content" :> Schema(FALSE, {}))
       @@ ("estimate_generation" :> Schema(s, p)) :
       s \in BOOLEAN, p \in {{}, {"duration"}}}
      \cup {"generate_content" :> Schema(FALSE, {})}

Dryrun(cost, rejected) == [cost |-> cost, valid |-> TRUE, rejected |-> rejected]

MixedDryruns ==
    {Dryrun(0, {}), Dryrun(5, {"image_input"}), Dryrun(1, {}), Dryrun(None, {}),
     Dryrun(NoNumber, {})}

MixedPages == [price : {TRUE}, window : BOOLEAN]

MixedSelections ==
    {<<>>, <<3>>, <<10, 3>>, <<2, 2, 4>>, <<6, 99>>, <<5, 1, 9>>, <<7, 8>>}
=============================================================================
