------------------------------- MODULE DriftLog -------------------------------
(***************************************************************************)
(* The daily job of .github/workflows/drift.yml: `mainager drift --json'   *)
(* (mainager/cli.py) over Reconcile, its line appended to the log in the   *)
(* checkout, and the log pushed if the reading is not the previous one.    *)
(*                                                                         *)
(* The provider changes what it offers when it likes, also between the two *)
(* requests of a reading.  Whatever fails ends the job, and the checkout   *)
(* is thrown away; one job runs at a time.                                 *)
(***************************************************************************)
EXTENDS Reconcile

CONSTANTS
    Markets,        \* records [catalog, sent]: what the provider may answer
                    \* to GET /capabilities and GET /prices, the latter
                    \* [prices, hidden] with its hidden_non_generation_keys
    MaxMarkets      \* bound: how many of them follow each other

(* What is offered is a finite list, and its prices are numbers.           *)
PriceTable(t) == IsFiniteSet(DOMAIN t) /\ t \in [DOMAIN t -> Int]

ASSUME MarketsAssumption ==
    \A m \in Markets :
      /\ m.catalog \in Seq(ToSet(m.catalog))
      /\ \A e \in ToSet(m.catalog) :
           IsFiniteSet(e.tiers) /\ PriceTable(e.tier_prices)
      /\ DOMAIN SpecsOf(m.catalog) \subseteq DOMAIN IdRank
      /\ m.sent.prices \in Seq(ToSet(m.sent.prices))
      /\ \A c \in ToSet(m.sent.prices) : PriceTable(c.entries)

VARIABLES
    markets,        \* what was offered so far; the last is on offer
    remote,         \* the log in the repository
    local,          \* the log in the checkout of the job
    jobpc,          \* where the job is
    seen,           \* the catalog the job fetched, or None
    since           \* what was on offer when the job began: an index

driftVars == <<markets, remote, local, jobpc, seen, since>>

Live == Last(markets)

(* Readings of a catalog with a price list, possibly of another moment.    *)
ReadingOf ==
    [catalog \in {m.catalog : m \in Markets} |->
       [sent \in {m.sent : m \in Markets} |->
          Reading(SpecsOf(catalog), sent)]]

-----------------------------------------------------------------------------

(* The log is a tracked file, so that a first row in it shows in git diff. *)
DriftInit ==
    /\ markets \in {<<m>> : m \in Markets}
    /\ remote \in {<<>>} \cup {<<ReadingOf[m.catalog][m.sent]>> : m \in Markets}
    /\ local = <<>>
    /\ jobpc = "off"
    /\ seen = None
    /\ since = 1

ProviderMoves(m) ==
    /\ Len(markets) < MaxMarkets
    /\ m # Live
    /\ markets' = Append(markets, m)
    /\ UNCHANGED <<remote, local, jobpc, seen, since>>

StartJob ==
    /\ jobpc = "off"
    /\ local' = remote
    /\ since' = Len(markets)
    /\ jobpc' = "catalog"
    /\ UNCHANGED <<markets, remote, seen>>

FetchCatalog ==
    /\ jobpc = "catalog"
    /\ seen' = Live.catalog
    /\ jobpc' = "prices"
    /\ UNCHANGED <<markets, remote, local, since>>

EndJob == jobpc' = "off" /\ local' = <<>> /\ seen' = None /\ UNCHANGED since

\* A fault: like the text report, the reading exits 1 on a finding.
TakeReadingFailing ==
    /\ jobpc = "prices"
    /\ IF IsClean(ReadingOf[seen][Live.sent].drift)
       THEN /\ local' = Append(local, ReadingOf[seen][Live.sent])
            /\ jobpc' = "compare"
            /\ UNCHANGED <<seen, since>>
       ELSE EndJob
    /\ UNCHANGED <<markets, remote>>

(* Always exits 0, whatever it found.                                      *)
TakeReading ==
    /\ jobpc = "prices"
    /\ local' = Append(local, ReadingOf[seen][Live.sent])
    /\ jobpc' = "compare"
    /\ UNCHANGED <<markets, remote, seen, since>>

\* A fault: every day is recorded.
RepeatsNone == FALSE

Repeats == Len(local) >= 2 /\ local[Len(local) - 1] = Last(local)

CompareRows ==
    /\ jobpc = "compare"
    /\ IF Repeats THEN EndJob
       ELSE jobpc' = "push" /\ UNCHANGED <<local, seen, since>>
    /\ UNCHANGED <<markets, remote>>

Push ==
    /\ jobpc = "push"
    /\ remote' = local
    /\ EndJob
    /\ UNCHANGED markets

(* A request or the push fails, or somebody pushed before the job did.     *)
JobFails ==
    /\ jobpc \in {"catalog", "prices", "push"}
    /\ EndJob
    /\ UNCHANGED <<markets, remote>>

DriftNext ==
    \/ StartJob \/ FetchCatalog \/ TakeReading \/ CompareRows \/ Push \/ JobFails
    \/ \E m \in Markets : ProviderMoves(m)

(* The job is started daily and runs to its end, and neither the requests  *)
(* nor the push fail on every day there will be.                           *)
DriftFairness ==
    /\ WF_driftVars(StartJob)
    /\ WF_driftVars(CompareRows)
    /\ SF_driftVars(FetchCatalog)
    /\ SF_driftVars(TakeReading)
    /\ SF_driftVars(Push)

-----------------------------------------------------------------------------
(* Properties *)

(* The log is history: no row is ever changed or removed, rows come one at *)
(* a time and never repeat the one before, and each is a reading of a      *)
(* catalog and a price list that were on offer in that order while the job *)
(* ran, be it of different moments (drift.yml:43-83, cli.py:58-90).        *)
LogGrowsByChanges ==
    [][remote' # remote =>
         /\ Len(remote') = Len(remote) + 1
         /\ remote' = Append(remote, Last(remote'))
         /\ remote # <<>> => Last(remote') # Last(remote)
         /\ \E i, j \in since .. Len(markets) :
              i <= j /\ Last(remote') =
                           ReadingOf[markets[i].catalog][markets[j].sent]]_remote

(* A disagreement that lasts is recorded, however often the job fails, and *)
(* nothing is recorded after it: once the provider stays as it is, the log *)
(* ends with the reading of it for good (cli.py:50-57, drift.yml:3-6).     *)
ChangesGetRecorded ==
    \A m \in Markets :
      <>[](Live = m) =>
        <>[](remote # <<>> /\ Last(remote) = ReadingOf[m.catalog][m.sent])

(* A ceiling built from the dearest tier the catalog prices and raised by  *)
(* the gap covers every tier of that model the catalog does not know, of   *)
(* whichever model, and no smaller gap would: not for the model that the   *)
(* reading names with it.  (Of a tier that the catalog knows the billed    *)
(* price is not looked at: reconcile.py:83-113.)                           *)
GapCoversUnlisted ==
    LET specs   == SpecsOf(Live.catalog)
        prices  == FlattenPrices(Live.sent.prices)
        reading == ReadingOf[Live.catalog][Live.sent]
        gap     == reading.ceiling_gap
        lacks(p, raise) ==
          \E id \in DOMAIN prices \ DOMAIN specs :
            /\ specs[p].tier_prices # <<>>
            /\ <<p, id>> \in NamedAfter
            /\ \A t \in DOMAIN specs[p].tier_prices :
                 specs[p].tier_prices[t] + raise < prices[id].price
    IN  /\ \A p \in DOMAIN specs : ~ lacks(p, gap)
        /\ gap > 0 => /\ reading.ceiling_gap_model \in DOMAIN specs
                      /\ lacks(reading.ceiling_gap_model, gap - 1)
=============================================================================
