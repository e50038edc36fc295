----------------------------- MODULE PlannerMC ------------------------------
(***************************************************************************)
(* An instance of Planner for model checking: a model for images, and for  *)
(* clips one with a pinned tier, one that needs a source image and one     *)
(* that needs to be told the aspect ratio.                                 *)
(***************************************************************************)
EXTENDS Planner

Entry(id, media_type, required, optional, enums, limits, tiers) ==
    [model_id |-> id, media_type |-> media_type, required |-> required,
     optional |-> optional, enums |-> enums, limits |-> limits,
     price |-> 1, tiers |-> tiers, tier_prices |-> <<>>]

Models ==
    <<Entry("draw", "image", {"prompt"}, {"resolution", "image_input"},
            "resolution" :> {"1k"}, "prompt_max" :> 2, {}),
      Entry("clip", "video", {"prompt"},
            {"duration", "image_urls", "seed", "aspect_ratio"},
            "aspect_ratio" :> {"16:9", "9:16"}, "duration" :> 1 .. 15,
            {"clip-10"}),
      Entry("film", "video", {"prompt", "first_frame_url"},
            {"duration", "reference_image_urls", "generation_type",
             "aspect_ratio"},
            "generation_type" :> {"image-to-video"},
            "mutually_exclusive" :>
              {{"first_frame_url"}, {"reference_image_urls"}}, {}),
      Entry("reel", "video", {"prompt", "aspect_ratio"}, {"image_input"},
            "aspect_ratio" :> {"16:9"}, <<>>, {})>>

Ranks ==
    ("clip" :> 1) @@ ("clip-10" :> 2) @@ ("clip-20" :> 3) @@ ("draw" :> 4)
      @@ ("film" :> 5) @@ ("film-10" :> 6) @@ ("reel" :> 7)

Intent(media_type, prompt, image, duration, resolution, extra) ==
    [media_type |-> media_type, prompt |-> prompt, source_image |-> image,
     duration |-> duration, aspect_ratio |-> None, resolution |-> resolution,
     extra_params |-> extra, idempotency_key |-> None]

Poster == Intent("image", 2, FALSE, None, "1k", <<>>)

Unservable == Intent("image", 3, FALSE, None, None, <<>>)

(* Extra parameters that add to, and overwrite, what is stated otherwise.  *)
Retaken ==
    [Intent("video", 1, TRUE, 5, None,
            ("seed" :> 7) @@ ("duration" :> 20) @@ ("prompt" :> 9))
       EXCEPT !.idempotency_key = 1]

(* Clips that both models can serve, one of them, or none.                 *)
Clips ==
    {Intent("video", 1, TRUE, 15, None, <<>>),
     Intent("video", 1, TRUE, 20, None, <<>>),
     Intent("video", 1, FALSE, 5, None, <<>>),
     Intent("video", 1, TRUE, None, None, "reference_image_urls" :> "other"),
     Retaken}

(* A clip that all three can serve: more than are priced at a time.        *)
Wide ==
    [Intent("video", 1, TRUE, None, None, <<>>) EXCEPT !.aspect_ratio = "16:9"]

Step(name, intent, deps) ==
    [name |-> name, intent |-> intent, depends_on |-> deps]

(* Two clips, the second made after the first.                             *)
ClipPlans ==
    {<<Step("two", d, <<"one">>), Step("one", c, <<>>)>> : c, d \in Clips}

(* Every relation among three steps, of which one is priced.               *)
Waits == {SetToSeq(names) : names \in SUBSET {"a", "b", "c"}}

RelatedPlans ==
    {<<Step("a", Poster, x), Step("b", Unservable, y), Step("c", Poster, z)>> :
        x, y, z \in Waits}

MisnamedPlans ==
    {<<Step("a", Poster, <<"ghost">>)>>,
     <<Step("a", Poster, <<>>), Step("a", Unservable, <<>>)>>}

AllPlans ==
    ClipPlans \cup {<<Step("one", Wide, <<>>)>>} \cup RelatedPlans 
      \cup MisnamedPlans \cup {<<>>}

Answer(cost, rejected, affordable) ==
    [cost |-> cost, rejected |-> rejected, affordable |-> affordable]

MixedAnswers ==
    {Answer(1, {}, TRUE), Answer(3, {}, TRUE), Answer(5, {}, TRUE),
     Answer(1, {"duration"}, TRUE), Answer(1, {}, FALSE),
     Answer(None, {}, TRUE)}

Account(balance, limit, spent) ==
    [balance |-> balance, daily_limit |-> limit, spent_today |-> spent]

MixedAccounts ==
    {Account(3, None, 0), Account(9, 5, 2), Account(9, 2, 3)}
=============================================================================
