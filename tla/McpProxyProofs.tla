--------------------------- MODULE McpProxyProofs ---------------------------
(***************************************************************************)
(* What the guarding proxy promises for any catalog, tariff, ceiling, and  *)
(* set of calls.                                                           *)
(***************************************************************************)
EXTENDS McpProxy, WellFoundedInduction, TLAPS

Inv ==
    /\ TypeOK
    /\ ShapeInv
    /\ \A c \in Calls : CallInv(c) /\ QuoteInv(c)
    /\ TrapNeverCharged
    /\ ChargedAsQuoted
    /\ NothingHidden

-----------------------------------------------------------------------------
(* Guarding *)

(* Guarding leaves alone what the provider may drop from, and the tool; it *)
(* keeps strict a boolean and a known model known.                         *)
LEMMA GuardKeepsParts ==
    ASSUME NEW q \in Requests
    PROVE  /\ DropsFrom(GuardCall(q)) = DropsFrom(q)
           /\ GuardCall(q).tool = q.tool
           /\ GuardCall(q).strict \in BOOLEAN \cup {None, Other}
           /\ Find(q.model) # None => Find(GuardCall(q).model) # None
BY RequestsAssumption
   DEF GuardCall, RewritePinned, EnsureStrict, DropsFrom, IsPinned

(* A generation goes out with strict unless the client sent its own.       *)
LEMMA GuardSetsStrict ==
    ASSUME NEW q \in Requests, q.tool = ChargingTool
    PROVE  GuardCall(q).strict = IF q.strict = None THEN TRUE ELSE q.strict
BY RequestsAssumption
   DEF GuardCall, RewritePinned, EnsureStrict, GenerationTools

(* What guarding changes it has a note for.                                *)
LEMMA GuardTells ==
    ASSUME NEW q \in Requests
    PROVE  /\ GuardCall(q).model # q.model => "tier_rewritten" \in GuardNotes(q)
           /\ GuardCall(q).strict # q.strict => "strict_added" \in GuardNotes(q)
BY RequestsAssumption
   DEF GuardCall, GuardNotes, RewritePinned, EnsureStrict, TierNotes,
       StrictNotes, IsPinned

(* The dry run is priced like the call it is made for.                     *)
LEMMA EstimatePricedAlike ==
    ASSUME NEW q \in Requests
    PROVE  LET args == GuardCall(q)
           IN  Price(EstimateArguments(args)) = Price(args)
<1> DEFINE args == GuardCall(q)
<1>1. /\ EstimateArguments(args).model = args.model
      /\ EstimateArguments(args).duration = args.duration
  BY RequestsAssumption
     DEF EstimateArguments, GuardCall, RewritePinned, EnsureStrict
<1>2. Sufficient(EstimateArguments(args)) = Sufficient(args)
  BY <1>1 DEF Sufficient
<1>3. QED  BY <1>2 DEF Price, Delivered

-----------------------------------------------------------------------------
(* A charge *)

(* What a call is charged for obeys both properties about charges.         *)
LEMMA ChargeIsSound ==
    ASSUME Inv, NEW c \in Calls, pc[c] = "charging",
           NEW charge \in Charges(guarded[c]), charge # None
    PROVE  /\ DropsFrom(asked[c]) # {} =>
                \/ asked[c].strict = FALSE
                \/ asked[c].strict = Other /\ dry_run[c].rejected = {}
           /\ ~ drifted[c] /\ dry_run[c].cost # None =>
                /\ charge.price = dry_run[c].cost
                /\ Ceiling # None => charge.price <= Ceiling
<1>1. /\ asked[c] \in Requests
      /\ asked[c].tool = ChargingTool
      /\ guarded[c] = GuardCall(asked[c])
      /\ QuoteInv(c)
  BY DEF Inv, TypeOK, CallInv
<1>2. /\ ~ (guarded[c].strict = TRUE /\ DropsFrom(guarded[c]) # {})
      /\ charge.price = Price(guarded[c])
  BY DEF Charges
<1>3. DropsFrom(asked[c]) # {} =>
        \/ asked[c].strict = FALSE
        \/ asked[c].strict = Other /\ dry_run[c].rejected = {}
  <2>1. /\ asked[c].strict \in BOOLEAN \cup {None, Other}
        /\ guarded[c].strict =
             IF asked[c].strict = None THEN TRUE ELSE asked[c].strict
    BY <1>1, GuardSetsStrict, RequestsAssumption
  <2>2. DropsFrom(asked[c]) # {} => asked[c].strict \in {FALSE, Other}
    BY <1>1, <1>2, <2>1, GuardKeepsParts
  <2>3. asked[c].strict = Other => dry_run[c].rejected = {}
    BY <1>1, <2>1, OtherAssumption DEF QuoteInv, MayCharge, SafeToCharge
  <2> QED BY <2>2, <2>3
<1>4. ASSUME ~ drifted[c], dry_run[c].cost # None
      PROVE  /\ charge.price = dry_run[c].cost
             /\ Ceiling # None => charge.price <= Ceiling
  BY <1>1, <1>2, <1>4 DEF QuoteInv, MayCharge, WithinCeiling, CostOf
<1>5. QED  BY <1>3, <1>4

(* What a call is told as it returns is everything it should be.           *)
LEMMA ReturnTells ==
    ASSUME Inv, NEW c \in Calls, pc[c] # "idle",
           NEW refused, NEW more, Return(c, refused, more)
    PROVE  /\ result'[c].notes = GuardNotes(asked[c]) \cup more
           /\ guarded[c].model # asked[c].model =>
                "tier_rewritten" \in result'[c].notes
           /\ guarded[c].strict # asked[c].strict =>
                "strict_added" \in result'[c].notes
<1>1. /\ asked[c] \in Requests
      /\ guarded[c] = GuardCall(asked[c])
      /\ notes[c] = GuardNotes(asked[c])
  BY DEF Inv, TypeOK, CallInv
<1>2. result'[c].notes = notes[c] \cup more
  BY DEF Return, Inv, TypeOK
<1>3. QED  BY <1>1, <1>2, GuardTells

-----------------------------------------------------------------------------
(* Steps *)

LEMMA InitInv == ASSUME Init PROVE Inv
BY TariffsAssumption
   DEF Init, Inv, TypeOK, ShapeInv, CallInv, QuoteInv, TrapNeverCharged,
       ChargedAsQuoted, NothingHidden

(* What the properties say of call c.                                      *)
Sound(c) ==
    /\ CallInv(c)
    /\ QuoteInv(c)
    /\ charged[c] # None /\ DropsFrom(asked[c]) # {} =>
         \/ asked[c].strict = FALSE
         \/ asked[c].strict = Other /\ dry_run[c].rejected = {}
    /\ charged[c] # None /\ ~ drifted[c] /\ dry_run[c].cost # None =>
         /\ charged[c].price = dry_run[c].cost
         /\ Ceiling # None => charged[c].price <= Ceiling
    /\ result[c] # None =>
         /\ guarded[c].model # asked[c].model =>
              "tier_rewritten" \in result[c].notes
         /\ guarded[c].strict # asked[c].strict =>
              "strict_added" \in result[c].notes
         /\ charged[c] # None => "charged" \in result[c].notes
         /\ /\ asked[c].tool = EstimateTool
            /\ dry_run[c] # None
            /\ dry_run[c].rejected # {}
            => "unsafe" \in result[c].notes

LEMMA InvIsPerCall ==
    Inv <=> TypeOK /\ ShapeInv /\ \A c \in Calls : Sound(c)
BY DEF Inv, Sound, TrapNeverCharged, ChargedAsQuoted, NothingHidden

LEMMA SoundCallsAreInv ==
    ASSUME TypeOK', ShapeInv', \A c \in Calls : Sound(c)'
    PROVE  Inv'
BY DEF Inv, Sound, TrapNeverCharged, ChargedAsQuoted, NothingHidden

(* A call is as sound as before while none of its variables changes.       *)
LEMMA OthersStaySound ==
    ASSUME NEW d \in Calls, Sound(d),
           <<pc[d], asked[d], guarded[d], notes[d], dry_run[d], charged[d],
             result[d], drifted[d]>>' =
           <<pc[d], asked[d], guarded[d], notes[d], dry_run[d], charged[d],
             result[d], drifted[d]>>,
           tariff' = tariff
    PROVE  Sound(d)'
BY DEF Sound, CallInv, QuoteInv, MayCharge, SafeToCharge, WithinCeiling,
       CostOf, Price, Delivered, Sufficient, Tiers

LEMMA CallToolInv ==
    ASSUME Inv, NEW c \in Calls, NEW q \in Requests, CallTool(c, q)
    PROVE  Inv'
<1>1. TypeOK'
  BY GuardKeepsParts, RequestsAssumption
     DEF Inv, TypeOK, ShapeInv, CallTool, GuardNotes, StrictNotes, TierNotes,
         Notes
<1>2. ShapeInv'
  BY DEF Inv, ShapeInv, CallTool
<1>3. Sound(c)'
  BY DEF Inv, TypeOK, ShapeInv, CallTool, Sound, CallInv, QuoteInv
<1>4. ASSUME NEW d \in Calls, d # c  PROVE Sound(d)'
  BY <1>4, InvIsPerCall, OthersStaySound DEF Inv, TypeOK, ShapeInv, CallTool
<1>5. QED  BY <1>1, <1>2, <1>3, <1>4, SoundCallsAreInv

LEMMA ReturnKeepsTypes ==
    ASSUME TypeOK, NEW c \in Calls, pc[c] # "idle",
           NEW refused \in BOOLEAN, NEW more \in SUBSET Notes,
           Return(c, refused, more), UNCHANGED <<tariff, drifted>>
    PROVE  TypeOK'
<1>1. /\ pc' = [pc EXCEPT ![c] = "done"]
      /\ result' = [result EXCEPT ![c] =
                     [refused |-> refused, notes |-> notes[c] \cup more]]
      /\ UNCHANGED <<tariff, drifted, asked, guarded, notes>>
  BY DEF Return
<1>2. [refused |-> refused, notes |-> notes[c] \cup more]
        \in [refused : BOOLEAN, notes : SUBSET Notes]
  BY DEF TypeOK
<1>3. QED  BY <1>1, <1>2 DEF TypeOK

LEMMA ForwardAnsweredInv ==
    ASSUME Inv, NEW c \in Calls, ForwardAnswered(c)
    PROVE  Inv'
<1>1. PICK more \in {{}, {"unsafe"}} :
        /\ Return(c, FALSE, more)
        /\ /\ guarded[c].tool = EstimateTool
           /\ dry_run'[c] # None
           /\ dry_run'[c].rejected # {}
           => more = {"unsafe"}
  BY DEF ForwardAnswered, VerdictNotes, SafeToCharge, Inv, ShapeInv
<1>2. TypeOK'
  BY <1>1, ReturnKeepsTypes DEF ForwardAnswered, Inv, Notes
<1>3. ShapeInv'
  BY <1>1 DEF ForwardAnswered, Return, Inv, ShapeInv
<1>4. Sound(c)'
  <2>1. /\ pc[c] = "forwarding"
        /\ asked[c] \in Requests
        /\ guarded[c] = GuardCall(asked[c])
        /\ charged[c] = None
    BY DEF ForwardAnswered, Inv, TypeOK, CallInv
  <2>2. /\ result'[c].notes = GuardNotes(asked[c]) \cup more
        /\ guarded[c].model # asked[c].model =>
             "tier_rewritten" \in result'[c].notes
        /\ guarded[c].strict # asked[c].strict =>
             "strict_added" \in result'[c].notes
    BY <1>1, <2>1, ReturnTells
  <2>3. /\ pc'[c] = "done"
        /\ <<asked[c], guarded[c], notes[c], charged[c]>>' =
             <<asked[c], guarded[c], notes[c], charged[c]>>
    BY <1>1 DEF ForwardAnswered, Return, Inv, TypeOK
  <2>4. CallInv(c)'
    BY <2>1, <2>3 DEF CallInv, Inv
  <2>5. guarded[c].tool = asked[c].tool
    BY <2>1, GuardKeepsParts
  <2>6. QED  BY <1>1, <2>1, <2>2, <2>3, <2>4, <2>5 DEF Sound, QuoteInv
<1>5. ASSUME NEW d \in Calls, d # c  PROVE Sound(d)'
  BY <1>1, <1>5, InvIsPerCall, OthersStaySound
     DEF Inv, TypeOK, ShapeInv, ForwardAnswered, Return
<1>6. QED  BY <1>2, <1>3, <1>4, <1>5, SoundCallsAreInv

LEMMA ProbeAnsweredInv ==
    ASSUME Inv, NEW c \in Calls, ProbeAnswered(c)
    PROVE  Inv'
<1>1. PICK answer \in DryRuns(EstimateArguments(guarded[c])) :
        /\ dry_run' = [dry_run EXCEPT ![c] = answer]
        /\ \/ /\ MayCharge(guarded[c], answer)
              /\ pc' = [pc EXCEPT ![c] = "charging"]
              /\ UNCHANGED <<asked, guarded, notes, result>>
           \/ /\ ~ MayCharge(guarded[c], answer)
              /\ Return(c, TRUE, {})
  BY DEF ProbeAnswered
<1>2. /\ pc[c] = "probing"
      /\ UNCHANGED <<tariff, drifted, charged>>
  BY DEF ProbeAnswered
<1>3. /\ asked[c] \in Requests
      /\ asked[c].tool = ChargingTool
      /\ guarded[c] = GuardCall(asked[c])
      /\ charged[c] = None
      /\ result[c] = None
  BY <1>2 DEF Inv, TypeOK, CallInv
<1>4. TypeOK'
  <2>1. CASE MayCharge(guarded[c], answer)
    BY <1>1, <1>2, <2>1 DEF Return, Inv, TypeOK
  <2>2. CASE ~ MayCharge(guarded[c], answer)
    BY <1>1, <1>2, <2>2, ReturnKeepsTypes DEF Inv
  <2>3. QED  BY <2>1, <2>2
<1>5. ShapeInv'
  BY <1>1, <1>2 DEF Return, Inv, ShapeInv
<1>6. Sound(c)'
  <2>1. CASE MayCharge(guarded[c], answer)
    <3>1. answer # None /\ answer.cost # None =>
            answer.cost = Price(guarded[c])
      BY <1>3, EstimatePricedAlike DEF DryRuns
    <3>2. /\ pc'[c] = "charging"
          /\ dry_run'[c] = answer
          /\ UNCHANGED <<asked, guarded, notes, result, charged, tariff>>
      BY <1>1, <1>2, <2>1 DEF Return, Inv, TypeOK, ShapeInv
    <3>3. QuoteInv(c)'
      BY <2>1, <3>1, <3>2
         DEF QuoteInv, MayCharge, SafeToCharge, WithinCeiling, CostOf, Price,
             Delivered, Sufficient, Tiers
    <3>4. CallInv(c)'
      BY <1>2, <1>3, <3>2 DEF CallInv, Inv
    <3>5. QED  BY <1>3, <3>2, <3>3, <3>4 DEF Sound
  <2>2. CASE ~ MayCharge(guarded[c], answer)
    <3>1. Return(c, TRUE, {})
      BY <1>1, <2>2
    <3>2. /\ guarded[c].model # asked[c].model =>
               "tier_rewritten" \in result'[c].notes
          /\ guarded[c].strict # asked[c].strict =>
               "strict_added" \in result'[c].notes
      BY <1>2, <3>1, ReturnTells
    <3>3. /\ pc'[c] = "done"
          /\ UNCHANGED <<asked, guarded, notes, charged>>
      BY <1>2, <3>1 DEF Return, Inv, TypeOK
    <3>4. CallInv(c)'
      BY <1>2, <1>3, <3>3 DEF CallInv, Inv
    <3>5. QED
      BY <1>3, <3>2, <3>3, <3>4 DEF Sound, QuoteInv, EstimateTool, ChargingTool
  <2>3. QED  BY <2>1, <2>2
<1>7. ASSUME NEW d \in Calls, d # c  PROVE Sound(d)'
  BY <1>1, <1>2, <1>7, InvIsPerCall, OthersStaySound
     DEF Inv, TypeOK, ShapeInv, Return
<1>8. QED  BY <1>4, <1>5, <1>6, <1>7, SoundCallsAreInv

LEMMA ChargeAnsweredInv ==
    ASSUME Inv, NEW c \in Calls, ChargeAnswered(c)
    PROVE  Inv'
<1>1. PICK charge \in Charges(guarded[c]) :
        charged' = [charged EXCEPT ![c] = charge]
  BY DEF ChargeAnswered
<1>2. /\ pc[c] = "charging"
      /\ Return(c, FALSE, {"charged"})
      /\ UNCHANGED <<tariff, drifted, dry_run>>
  BY DEF ChargeAnswered
<1>3. TypeOK'
  BY <1>2, ReturnKeepsTypes DEF Inv, Notes
<1>4. ShapeInv'
  BY <1>1, <1>2 DEF Return, Inv, ShapeInv
<1>5. Sound(c)'
  <2>1. /\ pc'[c] = "done"
        /\ charged'[c] = charge
        /\ UNCHANGED <<asked, guarded, notes, tariff, drifted, dry_run>>
    BY <1>1, <1>2 DEF Return, Inv, TypeOK, ShapeInv
  <2>2. /\ result'[c].notes = GuardNotes(asked[c]) \cup {"charged"}
        /\ guarded[c].model # asked[c].model =>
             "tier_rewritten" \in result'[c].notes
        /\ guarded[c].strict # asked[c].strict =>
             "strict_added" \in result'[c].notes
    BY <1>2, ReturnTells
  <2>3. CallInv(c)' /\ asked[c].tool = ChargingTool
    BY <1>2, <2>1 DEF CallInv, Inv
  <2>4. QED
    BY <1>1, <1>2, <2>1, <2>2, <2>3, ChargeIsSound
       DEF Sound, QuoteInv, EstimateTool, ChargingTool
<1>6. ASSUME NEW d \in Calls, d # c  PROVE Sound(d)'
  BY <1>1, <1>2, <1>6, InvIsPerCall, OthersStaySound
     DEF Inv, TypeOK, ShapeInv, Return
<1>7. QED  BY <1>3, <1>4, <1>5, <1>6, SoundCallsAreInv

LEMMA UpstreamRaisesInv ==
    ASSUME Inv, NEW c \in Calls, UpstreamRaises(c)
    PROVE  Inv'
<1>1. /\ pc[c] \in {"forwarding", "probing", "charging"}
      /\ pc' = [pc EXCEPT ![c] = "done"]
      /\ UNCHANGED <<tariff, drifted, asked, guarded, notes, dry_run, result>>
  BY DEF UpstreamRaises
<1>2. \/ charged' = charged
      \/ /\ pc[c] = "charging"
         /\ \E charge \in Charges(guarded[c]) :
              charged' = [charged EXCEPT ![c] = charge]
  BY DEF UpstreamRaises
<1>3. /\ charged[c] = None
      /\ result[c] = None
      /\ CallInv(c)
  BY <1>1 DEF CallInv, Inv
<1>4. TypeOK'
  BY <1>1 DEF Inv, TypeOK
<1>5. ShapeInv'
  BY <1>1, <1>2 DEF Inv, ShapeInv
<1>6. Sound(c)'
  <2>1. CallInv(c)' /\ QuoteInv(c)' /\ result'[c] = None
    BY <1>1, <1>3 DEF CallInv, QuoteInv, Inv, TypeOK
  <2>2. CASE charged' = charged
    BY <1>1, <1>3, <2>1, <2>2 DEF Sound
  <2>3. ASSUME pc[c] = "charging", NEW charge \in Charges(guarded[c]),
               charged' = [charged EXCEPT ![c] = charge]
        PROVE  Sound(c)'
    <3>1. charged'[c] = charge
      BY <2>3 DEF Inv, ShapeInv
    <3>2. QED  BY <1>1, <2>1, <2>3, <3>1, ChargeIsSound DEF Sound
  <2>4. QED  BY <1>2, <2>2, <2>3
<1>7. ASSUME NEW d \in Calls, d # c  PROVE Sound(d)'
  BY <1>1, <1>2, <1>7, InvIsPerCall, OthersStaySound
     DEF Inv, TypeOK, ShapeInv
<1>8. QED  BY <1>4, <1>5, <1>6, <1>7, SoundCallsAreInv

LEMMA ChangeTariffInv ==
    ASSUME Inv, NEW t \in Tariffs, ChangeTariff(t)
    PROVE  Inv'
<1>1. TypeOK' /\ ShapeInv'
  BY DEF Inv, TypeOK, ShapeInv, ChangeTariff, proxyVars
<1>2. ASSUME NEW d \in Calls  PROVE Sound(d)'
  BY InvIsPerCall
     DEF Inv, TypeOK, ChangeTariff, proxyVars, Sound, CallInv, QuoteInv,
         MayCharge, SafeToCharge, WithinCeiling, CostOf
<1>3. QED  BY <1>1, <1>2, SoundCallsAreInv

-----------------------------------------------------------------------------
(* Theorems *)

LEMMA StepInv == Inv /\ [Next]_vars => Inv'
<1> SUFFICES ASSUME Inv, [Next]_vars  PROVE Inv'
  OBVIOUS
<1>1. ASSUME NEW c \in Calls, NEW q \in Requests, CallTool(c, q)
      PROVE  Inv'
  BY <1>1, CallToolInv
<1>2. ASSUME NEW c \in Calls, ForwardAnswered(c)  PROVE Inv'
  BY <1>2, ForwardAnsweredInv
<1>3. ASSUME NEW c \in Calls, ProbeAnswered(c)  PROVE Inv'
  BY <1>3, ProbeAnsweredInv
<1>4. ASSUME NEW c \in Calls, ChargeAnswered(c)  PROVE Inv'
  BY <1>4, ChargeAnsweredInv
<1>5. ASSUME NEW c \in Calls, UpstreamRaises(c)  PROVE Inv'
  BY <1>5, UpstreamRaisesInv
<1>6. ASSUME NEW t \in Tariffs, ChangeTariff(t)  PROVE Inv'
  BY <1>6, ChangeTariffInv
<1>7. CASE UNCHANGED vars
  <2>1. TypeOK' /\ ShapeInv'
    BY <1>7 DEF Inv, TypeOK, ShapeInv, vars, proxyVars
  <2>2. ASSUME NEW d \in Calls  PROVE Sound(d)'
    BY <1>7, InvIsPerCall, OthersStaySound DEF vars, proxyVars
  <2>3. QED  BY <2>1, <2>2, SoundCallsAreInv
<1>8. QED
  BY <1>1, <1>2, <1>3, <1>4, <1>5, <1>6, <1>7 DEF Next

LEMMA Invariance == Spec => []Inv
<1>1. Init => Inv
  BY InitInv
<1>2. QED  BY <1>1, StepInv, PTL DEF Spec

(* The variables keep their types, and a known model stays a known model   *)
(* when it is rewritten.                                                   *)
THEOREM ProxyTypeCorrect == Spec => []TypeOK
<1>1. Inv => TypeOK
  BY DEF Inv
<1>2. QED  BY <1>1, Invariance, PTL

(* No body is charged for of which the provider drops a part, unless the   *)
(* client sent a strict of its own that is not true; and if that is not    *)
(* false either, the dry run named no such part.                           *)
THEOREM TrapIsNeverCharged == Spec => []TrapNeverCharged
<1>1. Inv => TrapNeverCharged
  BY DEF Inv
<1>2. QED  BY <1>1, Invariance, PTL

(* A charge is what the dry run named, and within the ceiling, unless the  *)
(* tariff changed between the two or the dry run named no cost.            *)
THEOREM ChargesAsQuoted == Spec => []ChargedAsQuoted
<1>1. Inv => ChargedAsQuoted
  BY DEF Inv
<1>2. QED  BY <1>1, Invariance, PTL

(* What the guard changed, what was charged, and a dry run that must not   *)
(* be trusted are named in every answer.                                   *)
THEOREM NothingIsHidden == Spec => []NothingHidden
<1>1. Inv => NothingHidden
  BY DEF Inv
<1>2. QED  BY <1>1, Invariance, PTL
-----------------------------------------------------------------------------
(* The length of a clip *)

(* The tier that serves a call is one that can serve it.                   *)
LEMMA DeliveredSuffices ==
    ASSUME NEW args, Sufficient(args) # {},
           Sufficient(args) \subseteq DOMAIN Lengths
    PROVE  Delivered(args) \in Sufficient(args)
<1> DEFINE S == Sufficient(args)
           L == {Lengths[t] : t \in S}
<1>1. L \in SUBSET Nat /\ L # {}
  BY LengthsAssumption
<1>2. PICK n \in L : \A m \in L : n <= m
  <2>1. PICK n \in L : \A m \in L : <<m, n>> \notin OpToRel(<, Nat)
    BY <1>1, WFMin, NatLessThanWellFounded
  <2>2. \A m \in L : ~ (m < n)
    BY <1>1, <2>1 DEF OpToRel
  <2>3. QED  BY <1>1, <2>2
<1>3. PICK t \in S : Lengths[t] = n
  BY <1>2
<1>4. \A u \in S : Lengths[t] <= Lengths[u]
  BY <1>2, <1>3
<1>5. QED  BY <1>3, <1>4 DEF Delivered

(* A clip that is charged for is as long as it should be, also when the    *)
(* call went to the base of the tier it named.                             *)
LEMMA ChargeIsLongEnough ==
    ASSUME NEW q \in Requests, NEW charge \in Charges(GuardCall(q)),
           charge # None
    PROVE  LET length == Lengths[charge.tier]
           IN  IF q.duration = None
               THEN length = Lengths[Delivered(q)]
               ELSE \/ length >= q.duration
                    \/ length >= Lengths[Delivered(q)]
<1> DEFINE args == GuardCall(q)
<1>1. /\ Sufficient(args) # {}
      /\ charge.tier = Delivered(args)
  BY DEF Charges
<1>2. Sufficient(args) \subseteq DOMAIN Lengths
  BY DEF Sufficient, Tiers
<1>3. /\ Delivered(args) \in Sufficient(args)
      /\ Lengths[Delivered(args)] \in Nat
  BY <1>1, <1>2, DeliveredSuffices, LengthsAssumption
<1>4. args.duration = q.duration
  BY RequestsAssumption DEF GuardCall, RewritePinned, EnsureStrict
<1>5. CASE args.model = q.model
  <2>1. Delivered(args) = Delivered(q)
    BY <1>4, <1>5 DEF Delivered, Sufficient
  <2>2. QED  BY <1>1, <1>3, <2>1
<1>6. CASE args.model # q.model
  <2>1. /\ q.duration # None
        /\ IsPinned(q.model)
        /\ args.model = Find(q.model).is_tier_of
    BY <1>6, RequestsAssumption DEF GuardCall, RewritePinned, EnsureStrict
  <2>2. HasTiers(args.model)
    BY <2>1 DEF IsPinned, Find, HasTiers
  <2>3. Lengths[Delivered(args)] >= q.duration
    BY <1>3, <1>4, <2>1, <2>2 DEF Sufficient
  <2>4. QED  BY <1>1, <2>1, <2>3
<1>7. QED  BY <1>5, <1>6

(* A step charges for nothing, or for one call what its guarded arguments  *)
(* ask for, and no call that was charged for is asked again.               *)
LEMMA LengthStep == Inv /\ LengthKept /\ [Next]_vars => LengthKept'
<1> SUFFICES ASSUME Inv, LengthKept, [Next]_vars, NEW c \in Calls, charged'[c] # None
             PROVE  LET length == Lengths[charged'[c].tier]
                    IN  IF asked'[c].duration = None
                        THEN length = Lengths[Delivered(asked'[c])]
                        ELSE \/ length >= asked'[c].duration
                             \/ length >= Lengths[Delivered(asked'[c])]
  BY DEF LengthKept, Delivered, Sufficient, Tiers
<1>1. CASE charged'[c] = charged[c] /\ asked'[c] = asked[c]
  BY <1>1 DEF LengthKept
<1>2. ASSUME asked'[c] = asked[c], pc[c] = "charging",
             charged'[c] \in Charges(guarded[c])
      PROVE  LET length == Lengths[charged'[c].tier]
             IN  IF asked'[c].duration = None
                 THEN length = Lengths[Delivered(asked'[c])]
                 ELSE \/ length >= asked'[c].duration
                      \/ length >= Lengths[Delivered(asked'[c])]
  <2>1. asked[c] \in Requests /\ guarded[c] = GuardCall(asked[c])
    BY <1>2 DEF Inv, TypeOK, CallInv
  <2>2. QED  BY <1>2, <2>1, ChargeIsLongEnough
<1>3. ASSUME NEW d \in Calls, NEW q \in Requests, CallTool(d, q)
      PROVE  charged'[c] = charged[c] /\ asked'[c] = asked[c]
  BY <1>3 DEF CallTool, Inv, TypeOK, CallInv
<1>4. ASSUME NEW d \in Calls, ForwardAnswered(d) \/ ProbeAnswered(d)
      PROVE  charged'[c] = charged[c] /\ asked'[c] = asked[c]
  BY <1>4 DEF ForwardAnswered, ProbeAnswered, Return
<1>5. ASSUME NEW d \in Calls, ChargeAnswered(d) \/ UpstreamRaises(d)
      PROVE  /\ asked'[c] = asked[c]
             /\ \/ charged'[c] = charged[c]
                \/ pc[c] = "charging" /\ charged'[c] \in Charges(guarded[c])
  BY <1>5 DEF ChargeAnswered, UpstreamRaises, Return, Inv, ShapeInv
<1>6. ASSUME NEW t \in Tariffs, ChangeTariff(t)
      PROVE  charged'[c] = charged[c] /\ asked'[c] = asked[c]
  BY <1>6 DEF ChangeTariff, proxyVars
<1>7. CASE UNCHANGED vars
  BY <1>1, <1>7 DEF vars, proxyVars
<1>8. QED  BY <1>1, <1>2, <1>3, <1>4, <1>5, <1>6, <1>7 DEF Next

(* The clip paid for is as long as the call stated, or as the tier it      *)
(* pinned if it stated nothing, for any catalog and lengths, also those in *)
(* which the base id has a shorter default of its own.                     *)
THEOREM LengthIsKept == Spec => []LengthKept
<1>1. Init => LengthKept
  BY DEF Init, LengthKept
<1>2. QED  BY <1>1, LengthStep, Invariance, PTL DEF Spec
=============================================================================
