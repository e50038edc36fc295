----------------------------- MODULE Verification -----------------------------
(***************************************************************************)
(* `mainager verify' (mainager/verify.py, _verify of mainager/cli.py) over *)
(* Reconcile: ten claims about the provider are measured again, each by a  *)
(* check with a few free requests, and the exit code says whether all of   *)
(* those that were selected still hold.                                    *)
(*                                                                         *)
(* The catalog and the price list are fetched once, before the checks; what*)
(* the requests of the checks answer is the environment.                   *)
(***************************************************************************)
EXTENDS Reconcile

CONSTANTS
    Unanswered,     \* the answer to a request that raises
    Offers,         \* [catalog, prices, prose, documented, params]: what GET
                    \* /capabilities and GET /prices say; prose: the tiers
                    \* that getting_started names, or None
    Selections,     \* values of --only, a selector as the number it names
                    \* or one that is no check's; <<>> for all checks
    Listings,       \* tools/list: tool |-> [strict, params] of its schema
    Dryruns,        \* answers [cost, valid, rejected] of an estimate; cost
                    \* is None if there is none
    NoNumber,       \* a cost that is no number, the same one everywhere
    Pages,          \* the public page: [price, window]: the phrases found
    MaxOdd          \* bound: how many rows are no match

ASSUME SelectionsAssumption == None \notin Selections

ASSUME UnansweredAssumption == Unanswered # TRUE

ASSUME DryrunsAssumption ==
    /\ NoNumber \notin Int \cup {None}
    /\ \A e \in Dryruns : e.cost \in Int \cup {None, NoNumber}

VARIABLES
    only,           \* the selectors, or None
    checks,         \* the numbers of the checks to run, in order
    offer,          \* what ctx holds, or None
    results,        \* rows [n, outcome]
    lost,           \* the checks of which a request failed or that raised
    raised,         \* those that raised
    exit            \* the exit code, or None

verifyVars == <<only, checks, offer, results, lost, raised, exit>>

-----------------------------------------------------------------------------
(* The checks: "match", "differs" or "error"; "raised" is an exception     *)
(* that the check itself does not catch.                                   *)

Held(claim) == IF claim THEN "match" ELSE "differs"

GenerationTools == {"generate_content", "estimate_generation"}

Targets == <<"/me", "/health", "/generations", "/inbox">>

UnderstatementRatio == 5

TierPinRatio == 3

PriceIn(specs, id) == IF id \in DOMAIN specs THEN specs[id].price ELSE None

CheckMcpStrict(listing) ==
    IF listing = Unanswered THEN "error"
    ELSE Held(\A t \in GenerationTools :
                t \in DOMAIN listing /\ ~ listing[t].strict)

CheckValidTrueWithRejected(answer) ==
    IF answer = Unanswered THEN "error"
    ELSE Held(answer.valid /\ answer.rejected # {})

(* Without the model nothing is asked; a price of zero divides by zero.    *)
CheckPriceFieldUnderstates(specs, answer) ==
    LET price == PriceIn(specs, "grok-ttv")
    IN  IF price = None THEN "differs"
        ELSE IF answer = Unanswered THEN "error"
        ELSE IF answer.cost \in {None, NoNumber} THEN "differs"
        ELSE IF price = 0 THEN "raised"
        ELSE Held(answer.cost >= UnderstatementRatio * price)

CheckCatalogPriceDrift(specs, prices) == Held(~ IsClean(Drift(specs, prices)))

CheckCatalogSelfContradiction(specs, prose) ==
    IF prose = None THEN "error"
    ELSE Held(prose \ (IF "grok-itv" \in DOMAIN specs
                       THEN specs["grok-itv"].tiers ELSE {}) # {})

(* Free is infinitely cheaper, also than free.                             *)
CheckDurationMultiplier(base, pinned) ==
    IF Unanswered \in {base, pinned} THEN "error"
    ELSE IF {None, NoNumber} \cap {base.cost, pinned.cost} # {} THEN "differs"
    ELSE Held(base.cost = 0 \/ pinned.cost >= TierPinRatio * base.cost)

(* An endpoint that cannot be asked is a difference, not an error.         *)
CheckUndocumentedEndpoints(documented, live) ==
    Held(\A i \in DOMAIN Targets :
           live[i] = TRUE /\ Targets[i] \notin documented)

CheckInboxEconomics(page) ==
    IF page = Unanswered THEN "error" ELSE Held(page.price /\ page.window)

EditPairs == {<<"gpt-image-2", "gpt-image-2-edit">>,
              <<"seedream-5-pro", "seedream-5-pro-edit">>}

(* The two costs need not be numbers to be the same.                       *)
CheckEditPricing(specs, txt, img) ==
    IF Unanswered \in {txt, img} THEN "error"
    ELSE Held(/\ txt.cost # None /\ txt.cost = img.cost
              /\ \A p \in EditPairs :
                   /\ None \notin {PriceIn(specs, p[1]), PriceIn(specs, p[2])}
                   /\ PriceIn(specs, p[2]) > PriceIn(specs, p[1]))

CheckMcpParamCoverage(params, listing) ==
    IF listing = Unanswered THEN "error"
    ELSE Held(/\ params # {}
              /\ \A t \in GenerationTools :
                   t \in DOMAIN listing /\ listing[t].params \cap params = {})

Checks == 1 .. 10

(* What the requests of a check may answer, in the order they are made.    *)
Answerable(n) ==
    CASE n \in {1, 10} -> {<<l>> : l \in Listings \cup {Unanswered}}
      [] n \in {2, 3}  -> {<<e>> : e \in Dryruns \cup {Unanswered}}
      [] n \in {4, 5}  -> {<<>>}
      [] n \in {6, 9}  -> (Dryruns \cup {Unanswered}) \X (Dryruns \cup {Unanswered})
      [] n = 7         -> [DOMAIN Targets -> BOOLEAN \cup {Unanswered}]
      [] n = 8         -> {<<p>> : p \in Pages \cup {Unanswered}}

Measure(n, heard) ==
    LET specs  == SpecsOf(offer.catalog)
        prices == FlattenPrices(offer.prices)
    IN  CASE n = 1  -> CheckMcpStrict(heard[1])
          [] n = 2  -> CheckValidTrueWithRejected(heard[1])
          [] n = 3  -> CheckPriceFieldUnderstates(specs, heard[1])
          [] n = 4  -> CheckCatalogPriceDrift(specs, prices)
          [] n = 5  -> CheckCatalogSelfContradiction(specs, offer.prose)
          [] n = 6  -> CheckDurationMultiplier(heard[1], heard[2])
          [] n = 7  -> CheckUndocumentedEndpoints(offer.documented, heard)
          [] n = 8  -> CheckInboxEconomics(heard[1])
          [] n = 9  -> CheckEditPricing(specs, heard[1], heard[2])
          [] n = 10 -> CheckMcpParamCoverage(offer.params, heard[1])

-----------------------------------------------------------------------------
(* run_all and _verify *)

\* A fault: the checks run as they were named.
ResolvedAsNamed(selectors) == selectors

(* Named once or twice, by number or by slug, a check runs once, in its    *)
(* place.                                                                  *)
Resolved(selectors) == Among([n \in Checks |-> n], ToSet(selectors))

VerifyInit ==
    /\ only = None /\ checks = <<>> /\ offer = None
    /\ results = <<>> /\ lost = {} /\ raised = {} /\ exit = None

(* The balance is asked for before the selectors are looked at, and may    *)
(* not be had: then an unknown selector goes unnoticed.                    *)
Verify(selectors) ==
    /\ only = None
    /\ only' = selectors
    /\ \/ /\ ToSet(selectors) \subseteq Checks
          /\ checks' = IF selectors = <<>> THEN [n \in Checks |-> n]
                       ELSE Resolved(selectors)
          /\ UNCHANGED exit
       \/ /\ ~ ToSet(selectors) \subseteq Checks
          /\ exit' \in {1, 2}
          /\ UNCHANGED checks
    /\ UNCHANGED <<offer, results, lost, raised>>

Verifying == only # None /\ exit = None

FetchOffer(o) ==
    /\ Verifying
    /\ offer = None
    /\ offer' = o
    /\ UNCHANGED <<only, checks, results, lost, raised, exit>>

(* One of the balances, the catalog or the price list is not to be had.    *)
VerifyAborts ==
    /\ Verifying
    /\ offer = None \/ Len(results) = Len(checks)
    /\ exit' \in {1, 2}
    /\ UNCHANGED <<only, checks, offer, results, lost, raised>>

Checking == Verifying /\ offer # None /\ Len(results) < Len(checks)

(* The row of a check that raises is numbered by the rows before it.       *)
Row(n, outcome) ==
    IF outcome = "raised" THEN [n |-> Len(results) + 1, outcome |-> "error"]
    ELSE [n |-> n, outcome |-> outcome]

Odd == {i \in DOMAIN results : results[i].outcome # "match"}

RunCheck ==
    /\ Checking
    /\ LET n == checks[Len(results) + 1]
       IN  \E heard \in Answerable(n) :
             /\ results' = Append(results, Row(n, Measure(n, heard)))
             /\ lost' = IF Unanswered \in ToSet(heard) \/ Measure(n, heard) = "raised"
                        THEN lost \cup {n} ELSE lost
             /\ raised' = IF Measure(n, heard) = "raised"
                          THEN raised \cup {n} ELSE raised
    /\ Cardinality(Odd') <= MaxOdd
    /\ UNCHANGED <<only, checks, offer, exit>>

\* A fault: what could not be checked is let pass.
ExitCodeOfDiffering ==
    IF \E i \in DOMAIN results : results[i].outcome = "differs" THEN 1 ELSE 0

ExitCode == IF Odd = {} THEN 0 ELSE 1

VerifyEnds ==
    /\ Verifying
    /\ offer # None
    /\ Len(results) = Len(checks)
    /\ exit' = ExitCode
    /\ UNCHANGED <<only, checks, offer, results, lost, raised>>

VerifyNext ==
    \/ \E selectors \in Selections : Verify(selectors)
    \/ \E o \in Offers : FetchOffer(o)
    \/ RunCheck \/ VerifyAborts \/ VerifyEnds

-----------------------------------------------------------------------------
(* Properties *)

(* One dead endpoint does not hide the other answers: once the checks have *)
(* run there is a row for each one that was selected, once and in order,   *)
(* whatever failed, and the row says which check it is of; but for a check *)
(* that raised, of which the row is an error under the number of its place *)
(* among the selected (verify.py:537-583).                                 *)
RowsAnswerSelection ==
    exit # None /\ offer # None =>
      LET asked == IF only = <<>> THEN Checks ELSE ToSet(only)
      IN  /\ Len(results) = Cardinality(asked)
          /\ \A i \in DOMAIN results :
               LET n == CHOOSE c \in asked :
                          Cardinality({d \in asked : d < c}) = i - 1
               IN  IF n \in raised THEN results[i] = [n |-> i, outcome |-> "error"]
                   ELSE results[i].n = n

(* The exit code is 0 only if every selected claim was measured, by        *)
(* requests none of which failed, and found to hold today; not if some     *)
(* could not be measured (cli.py:154-188).                                 *)
ExitZeroMeansSound ==
    exit = 0 =>
      /\ lost = {}
      /\ ToSet(only) \subseteq Checks
      /\ {results[i].n : i \in DOMAIN results} =
           (IF only = <<>> THEN Checks ELSE ToSet(only))
      /\ \A i \in DOMAIN results : results[i].outcome = "match"
=============================================================================
