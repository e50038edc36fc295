------------------------------ MODULE McpProxy ------------------------------
(***************************************************************************)
(* GuardingProxy (mainager/mcp_proxy.py) with the transformations it       *)
(* applies to tool calls (mainager/guard/mcp_guard.py): concurrent calls   *)
(* of the provider's tools, of which one is charged for.  The proxy prices *)
(* that one with a dry run first, and refuses it or forwards it.           *)
(*                                                                         *)
(* The provider is the environment.  Its tariff may change between two     *)
(* requests, its dry run may be unreadable or name no cost, and it may     *)
(* refuse what it is asked.                                                *)
(***************************************************************************)
EXTENDS Registry

CONSTANTS
    Calls,          \* the tool calls that may be made
    Requests,       \* records [tool, model, strict, duration, dropped, extra]
    Other,          \* a strict that is neither absent nor true nor false
    Params,         \* names of parameters
    Ceiling,        \* MAINAGER_PLAN_CEILING_RUB, or None
    Lengths,        \* tier, or base id as its own default |-> its length
    Tariffs         \* functions from those to prices

(* Of the parameters only those matter that the provider would drop: in    *)
(* "dropped" those within params, in "extra" those beside it.  An absent   *)
(* strict is None; one that is there may be any JSON value.                *)
ASSUME RequestsAssumption ==
    Requests \subseteq
        [tool : STRING, model : STRING \cup {None},
         strict : BOOLEAN \cup {None, Other}, duration : Nat \cup {None},
         dropped : SUBSET Params, extra : SUBSET Params]

ASSUME OtherAssumption == Other \notin BOOLEAN \cup {None}

ASSUME TariffsAssumption == Tariffs \subseteq [DOMAIN Lengths -> Nat]

ASSUME CeilingAssumption == Ceiling \in Nat \cup {None}

ASSUME LengthsAssumption == Lengths \in [DOMAIN Lengths -> Nat]

VARIABLES
    tariff,         \* the provider's prices
    pc,             \* per call: the await it is suspended at
    asked,          \* per call: its arguments as the client sent them
    guarded,        \* per call: its arguments as guarded
    notes,          \* per call: what the guard has to say of it
    dry_run,        \* per call: the answer to its dry run
    drifted,        \* per call: the tariff changed since its dry run
    charged,        \* per call: what the provider charged for, or None
    result          \* per call: what the client got, or None

proxyVars == <<pc, asked, guarded, notes, dry_run, result>>

vars == <<tariff, drifted, charged, proxyVars>>

ChargingTool == "generate_content"

EstimateTool == "estimate_generation"

GenerationTools == {EstimateTool, ChargingTool}

-----------------------------------------------------------------------------
(* The provider *)

Tiers(model) ==
    {t \in DOMAIN Lengths :
       t = model \/ (Find(t) # None /\ Find(t).is_tier_of = model)}

HasTiers(model) == \E id \in DOMAIN Specs : Specs[id].is_tier_of = model

(* What can serve a call.  A pinned tier ignores the duration, and so does *)
(* a model without tiers.  A base id has a default of its own, or leaves   *)
(* it to its tiers; with a duration it goes by that.                       *)
Sufficient(args) ==
    IF /\ args.model \in DOMAIN Lengths
       /\ args.duration = None \/ ~ HasTiers(args.model)
    THEN {args.model}
    ELSE {t \in Tiers(args.model) :
            args.duration = None \/ Lengths[t] >= args.duration}

(* A base id takes the shortest of them.                                   *)
Delivered(args) ==
    CHOOSE t \in Sufficient(args) :
        \A u \in Sufficient(args) : Lengths[t] <= Lengths[u]

Price(args) == tariff[Delivered(args)]

DropsFrom(args) == args.dropped \cup args.extra

(* What a dry run may answer: a verdict, an error without a cost, or       *)
(* something that is no JSON object.  The flag "valid", which nothing but  *)
(* the wording of a note depends on, is left out.                          *)
DryRuns(args) ==
    {None} \cup
    [cost : {None}, rejected : {{}}, affordable : {TRUE}] \cup
    IF Sufficient(args) = {} THEN {}
    ELSE [cost : {Price(args)}, rejected : {args.dropped},
          affordable : BOOLEAN]

(* With strict the provider charges for no body it would drop from.        *)
Charges(args) ==
    {None} \cup
    IF Sufficient(args) = {} \/ (args.strict = TRUE /\ DropsFrom(args) # {})
    THEN {}
    ELSE {[tier |-> Delivered(args), price |-> Price(args)]}

-----------------------------------------------------------------------------
(* The guard *)

\* A fault: the default is left to the provider.
EnsureStrictLeft(args) == args

EnsureStrict(args) ==
    [args EXCEPT !.strict = IF args.strict = None THEN TRUE ELSE @]

StrictNotes(args) ==
    IF args.strict = None THEN {"strict_added"}
    ELSE IF args.strict = FALSE THEN {"strict_off"} ELSE {}

IsPinned(model) ==
    /\ Find(model) # None
    /\ Find(model).is_tier_of # None
    /\ Find(Find(model).is_tier_of) # None

\* A fault: a call without a duration is rewritten too.
RewritePinnedShorter(args) ==
    IF IsPinned(args.model)
    THEN [args EXCEPT !.model = Find(args.model).is_tier_of]
    ELSE args

RewritePinned(args) ==
    IF args.duration # None /\ IsPinned(args.model)
    THEN [args EXCEPT !.model = Find(args.model).is_tier_of]
    ELSE args

TierNotes(args) ==
    IF ~ IsPinned(args.model) THEN {}
    ELSE IF args.duration = None THEN {"tier_advice"} ELSE {"tier_rewritten"}

(* The advice names the price of the tier; without one it is a TypeError.  *)
AdviceRaises(args) ==
    /\ args.tool \in GenerationTools
    /\ IsPinned(args.model)
    /\ args.duration = None
    /\ Find(args.model).price = None

GuardCall(args) ==
    IF args.tool \in GenerationTools
    THEN RewritePinned(EnsureStrict(args)) ELSE args

GuardNotes(args) ==
    IF args.tool \in GenerationTools
    THEN StrictNotes(args) \cup TierNotes(args) ELSE {}

(* The trap: what is beside params does not reach the dry run.             *)
EstimateArguments(args) == [args EXCEPT !.extra = {}]

(* A cost the answer does not name is read as zero.                        *)
CostOf(answer) == IF answer.cost = None THEN 0 ELSE answer.cost

SafeToCharge(answer) == answer.rejected = {} /\ answer.affordable

WithinCeiling(answer) == Ceiling = None \/ CostOf(answer) <= Ceiling

\* A fault: a client that insists is not held to the ceiling either.
MayChargeUncapped(args, answer) ==
    /\ answer # None
    /\ args.strict = FALSE \/ (SafeToCharge(answer) /\ WithinCeiling(answer))

MayCharge(args, answer) ==
    /\ answer # None
    /\ SafeToCharge(answer) \/ args.strict = FALSE
    /\ WithinCeiling(answer)

VerdictNotes(answer) ==
    IF answer = None \/ SafeToCharge(answer) THEN {} ELSE {"unsafe"}

-----------------------------------------------------------------------------
(* GuardingProxy.call_tool *)

Init ==
    /\ tariff \in Tariffs
    /\ pc = [c \in Calls |-> "idle"]
    /\ asked = [c \in Calls |-> None]
    /\ guarded = [c \in Calls |-> None]
    /\ notes = [c \in Calls |-> {}]
    /\ dry_run = [c \in Calls |-> None]
    /\ drifted = [c \in Calls |-> FALSE]
    /\ charged = [c \in Calls |-> None]
    /\ result = [c \in Calls |-> None]

CallTool(c, q) ==
    /\ pc[c] = "idle"
    /\ asked' = [asked EXCEPT ![c] = q]
    /\ guarded' = [guarded EXCEPT ![c] = GuardCall(q)]
    /\ notes' = [notes EXCEPT ![c] = GuardNotes(q)]
    /\ pc' = [pc EXCEPT ![c] =
                IF AdviceRaises(q) THEN "done"
                ELSE IF q.tool = ChargingTool THEN "probing" ELSE "forwarding"]
    /\ UNCHANGED <<tariff, drifted, charged, dry_run, result>>

\* A fault: a refusal gives its reason and nothing else.
ReturnBarely(c, refused, more) ==
    /\ pc' = [pc EXCEPT ![c] = "done"]
    /\ result' = [result EXCEPT ![c] =
                    [refused |-> refused,
                     notes |-> IF refused THEN more ELSE notes[c] \cup more]]
    /\ UNCHANGED <<asked, guarded, notes>>

Return(c, refused, more) ==
    /\ pc' = [pc EXCEPT ![c] = "done"]
    /\ result' = [result EXCEPT ![c] =
                    [refused |-> refused, notes |-> notes[c] \cup more]]
    /\ UNCHANGED <<asked, guarded, notes>>

(* A tool that is not charged for has answered.                            *)
ForwardAnswered(c) ==
    /\ pc[c] = "forwarding"
    /\ \/ /\ guarded[c].tool = EstimateTool
          /\ \E answer \in DryRuns(guarded[c]) :
               /\ dry_run' = [dry_run EXCEPT ![c] = answer]
               /\ Return(c, FALSE, VerdictNotes(answer))
       \/ /\ guarded[c].tool # EstimateTool
          /\ Return(c, FALSE, {})
          /\ UNCHANGED dry_run
    /\ UNCHANGED <<tariff, drifted, charged>>

(* The dry run before a charge has answered.                               *)
ProbeAnswered(c) ==
    /\ pc[c] = "probing"
    /\ \E answer \in DryRuns(EstimateArguments(guarded[c])) :
         /\ dry_run' = [dry_run EXCEPT ![c] = answer]
         /\ \/ /\ MayCharge(guarded[c], answer)
               /\ pc' = [pc EXCEPT ![c] = "charging"]
               /\ UNCHANGED <<asked, guarded, notes, result>>
            \/ /\ ~ MayCharge(guarded[c], answer)
               /\ Return(c, TRUE, {})
    /\ UNCHANGED <<tariff, drifted, charged>>

(* The provider has charged or refused.  Its answer is not looked at.      *)
ChargeAnswered(c) ==
    /\ pc[c] = "charging"
    /\ \E charge \in Charges(guarded[c]) :
         charged' = [charged EXCEPT ![c] = charge]
    /\ Return(c, FALSE, {"charged"})
    /\ UNCHANGED <<tariff, drifted, dry_run>>

(* A request to the provider raises; nothing catches it.  What it asked    *)
(* for may have been done.                                                 *)
UpstreamRaises(c) ==
    /\ pc[c] \in {"forwarding", "probing", "charging"}
    /\ pc' = [pc EXCEPT ![c] = "done"]
    /\ \/ UNCHANGED charged
       \/ /\ pc[c] = "charging"
          /\ \E charge \in Charges(guarded[c]) :
               charged' = [charged EXCEPT ![c] = charge]
    /\ UNCHANGED <<tariff, drifted, asked, guarded, notes, dry_run, result>>

ChangeTariff(t) ==
    /\ tariff' = t
    /\ drifted' = [c \in Calls |-> drifted[c] \/ pc[c] = "charging"]
    /\ UNCHANGED <<charged, proxyVars>>

Next ==
    \/ \E c \in Calls :
         \/ \E q \in Requests : CallTool(c, q)
         \/ ForwardAnswered(c)
         \/ ProbeAnswered(c)
         \/ ChargeAnswered(c)
         \/ UpstreamRaises(c)
    \/ \E t \in Tariffs : ChangeTariff(t)

Spec == Init /\ [][Next]_vars

-----------------------------------------------------------------------------
(* Properties *)

Notes ==
    {"strict_added", "strict_off", "tier_advice", "tier_rewritten", "unsafe",
     "charged"}

TypeOK ==
    /\ tariff \in Tariffs
    /\ pc \in [Calls ->
                {"idle", "forwarding", "probing", "charging", "done"}]
    /\ asked \in [Calls -> Requests \cup {None}]
    /\ \A c \in Calls : pc[c] # "idle" =>
         /\ asked[c] \in Requests
         /\ guarded[c].strict \in BOOLEAN \cup {None, Other}
         /\ Find(asked[c].model) # None => Find(guarded[c].model) # None
    /\ notes \in [Calls -> SUBSET Notes]
    /\ drifted \in [Calls -> BOOLEAN]
    /\ result \in
         [Calls -> [refused : BOOLEAN, notes : SUBSET Notes] \cup {None}]

(* Nobody pays for a body of which the provider drops a part by leaving    *)
(* strict out, or setting it: not when the model was rewritten, nor when   *)
(* the dry run is not shown the part.  Whoever sends strict=false has      *)
(* asked for that; whoever sends null, 0 or "false", which the guard takes *)
(* for neither, still pays for no part that the dry run named              *)
(* (mcp_guard.py:15-20, 134-141; mcp_proxy.py:84-90, 146-148).             *)
TrapNeverCharged ==
    \A c \in Calls :
        charged[c] # None /\ DropsFrom(asked[c]) # {} =>
          \/ asked[c].strict = FALSE
          \/ asked[c].strict = Other /\ dry_run[c].rejected = {}

(* Unless the tariff changed in between, what is charged is what the dry   *)
(* run named, for the body that was forwarded and not the one that was     *)
(* asked for, and it is within the ceiling, also for a client that waives  *)
(* strict (mcp_proxy.py:131-156).                                          *)
ChargedAsQuoted ==
    \A c \in Calls :
        charged[c] # None /\ ~ drifted[c] /\ dry_run[c].cost # None =>
          /\ charged[c].price = dry_run[c].cost
          /\ Ceiling # None => charged[c].price <= Ceiling

(* The clip paid for is as long as the call stated, or as the tier it      *)
(* pinned if it stated nothing, although the base id that a pinned tier is *)
(* rewritten to may have a shorter default (mcp_guard.py:21-24, 154-186).  *)
LengthKept ==
    \A c \in Calls :
        charged[c] # None =>
          LET length == Lengths[charged[c].tier]
          IN  IF asked[c].duration = None
              THEN length = Lengths[Delivered(asked[c])]
              ELSE \/ length >= asked[c].duration
                   \/ length >= Lengths[Delivered(asked[c])]

(* An answer, a refusal included, names whatever differs between what was  *)
(* asked and what was priced or sent, a charge, and a dry run that must    *)
(* not be trusted (mcp_proxy.py:64-81, 121-173).                           *)
NothingHidden ==
    \A c \in Calls : result[c] # None =>
        LET told == result[c].notes
        IN  /\ guarded[c].model # asked[c].model => "tier_rewritten" \in told
            /\ guarded[c].strict # asked[c].strict => "strict_added" \in told
            /\ charged[c] # None => "charged" \in told
            /\ /\ asked[c].tool = EstimateTool
               /\ dry_run[c] # None
               /\ dry_run[c].rejected # {}
               => "unsafe" \in told

(* With an unchanged tariff no charge exceeds the ceiling: "a spend        *)
(* ceiling is enforced before any charge" (mcp_proxy.py:45-49).            *)
ChargedWithinCeiling ==
    \A c \in Calls :
        charged[c] # None /\ ~ drifted[c] /\ Ceiling # None =>
          charged[c].price <= Ceiling

-----------------------------------------------------------------------------
(* Inductive invariant, proved in McpProxyProofs *)

(* These hold one value per call; which values is a matter of CallInv.     *)
ShapeInv ==
    /\ guarded = [c \in Calls |-> guarded[c]]
    /\ dry_run = [c \in Calls |-> dry_run[c]]
    /\ charged = [c \in Calls |-> charged[c]]

(* Where a call is, against what it was asked, guarded to and told.        *)
CallInv(c) ==
    /\ pc[c] = "idle" => charged[c] = None /\ result[c] = None
    /\ pc[c] # "idle" => guarded[c] = GuardCall(asked[c])
    /\ pc[c] # "idle" => notes[c] = GuardNotes(asked[c])
    /\ pc[c] \in {"forwarding", "probing", "charging"} =>
         charged[c] = None /\ result[c] = None
    /\ pc[c] = "forwarding" => asked[c].tool # ChargingTool
    /\ pc[c] \in {"probing", "charging"} => asked[c].tool = ChargingTool

(* A call about to be charged for has a dry run that allows it.            *)
QuoteInv(c) ==
    pc[c] = "charging" =>
      /\ MayCharge(guarded[c], dry_run[c])
      /\ ~ drifted[c] /\ dry_run[c].cost # None =>
           dry_run[c].cost = Price(guarded[c])
=============================================================================
