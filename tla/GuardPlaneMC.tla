---------------------------- MODULE GuardPlaneMC ----------------------------
(***************************************************************************)
(* Instances of GuardPlane for model checking.                             *)
(***************************************************************************)
EXTENDS GuardPlane, FiniteSetsExt, TLC

CONSTANTS acme, cat, CAT, dog

(* "a cat" and "A  Cat" are one prompt to the fingerprint and all but one  *)
(* to the index; "a dog" is another to both.                               *)
Prompts == {cat, CAT, dog}

NormalisedPrompts == (cat :> cat) @@ (CAT :> cat) @@ (dog :> dog)

PromptSimilarity ==
    [p \in Prompts \X Prompts |->
       IF NormalisedPrompts[p[1]] = NormalisedPrompts[p[2]] THEN 99 ELSE 40]

Request(action, prompt, cost) ==
    [action |-> action, tenant |-> acme, prompt |-> prompt,
     params |-> None, cost |-> cost]

(* One of them is above the ceiling; they are one request to the loop      *)
(* detector.                                                               *)
GenerationRequests ==
    {Request("generate", CAT, 5), Request("generate", cat, 20)}

MixedRequests ==
    GenerationRequests \cup {Request("delete_account", None, None)}

Config(autonomy, threshold, kind) ==
    [autonomy |-> autonomy, loop_threshold |-> threshold, index |-> kind]

OneLevel == {Config(OPERATOR, 2, "memory")}

(* The lowest level, a common one, and the highest.                        *)
ThreeLevels ==
    {Config(0, 1, "none"), Config(OPERATOR, 2, "memory"),
     Config(AUTOPILOT, 0, "pgvector")}

Generation(key, prompt) == [key |-> key, prompt |-> prompt]

(* Nothing asks whether a generation was evaluated, or its key is new.     *)
CatAndDog == {Generation("gen1", cat), Generation("gen1", dog)}

CampaignShadow == {"campaign_write", "autopilot_run", "delete_account"}

-----------------------------------------------------------------------------
DailyCeiling == 8

(* All calls of a behaviour fall within a day.                             *)
AllowedToday ==
    {d \in returned : d.decision = Allow /\ d.call.request.cost # None}

(* What the plane has allowed within 24 hours costs no more than the daily *)
(* ceiling it is configured with (.env.example:9-12, plane.py:80).         *)
DailyCeilingHolds ==
    MapThenSumSet(LAMBDA d : d.call.request.cost, AllowedToday) <= DailyCeiling
=============================================================================
