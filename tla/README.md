# MAINAGER: specifications, model checking and proofs

MAINAGER stands between an agent and a provider that charges for every
generation. It prices a plan before anything is spent (preflight), decides
whether a call may go out (guard), sends it without paying twice (transport, MCP
proxy) and keeps a log that cannot be changed unnoticed (audit). This directory
holds TLA+ models of those parts, TLC configurations that check them on small
instances, and TLAPS proofs of what matters most for every instance. Source
paths below are relative to `src/mainager/`.

Contents: [inventory](#inventory), [modules](#modules-and-the-code),
[runs](#runs), [findings](#where-code-and-documentation-disagree),
[fairness](#fairness), [assumptions](#assumptions-about-the-surroundings),
[proofs](#proofs), [limits](#what-is-only-model-checked-and-what-is-left-out),
[plan](#plan).

## Inventory

| part | state it keeps | operations | interacts with | what is hard | what makes it correct |
|---|---|---|---|---|---|
| audit log (`guard/audit.py`, in-process sink in `guard/memory.py`) | the chain of records | `record`, `verify` | a sink | the hash commits to all before it | edits, resealed edits and removals are found |
| PostgreSQL sink (`guard/postgres.py`) | one table; per connection an open transaction | `last`, `append`, `all` | called by `AuditLog.record`; the database | three awaits per record, several workers, crashes, a shared or failed transaction | one chain, no fork; what was returned stays |
| key-value store (`guard/redis_store.py`, `guard/memory.py`) | values and counters with expiry | `get`, `set`, `delete`, `incr_in_window` | kill switch and loop detector | expiry, and increment with expiry as one step | a window closes whatever the traffic |
| guard plane (`guard/plane.py`) | none of its own | `evaluate`, `trip_kill_switch`, `reset_kill_switch`, `remember_generation` | store, audit log, index, embedder | up to four awaits between the look at the switch and the record; other workers and the operator in between; an await that raises after it took effect | a stop holds; every decision is logged; loops are bounded; reuse is earned; refusals come before effects |
| dedup index and embedder (`guard/postgres.py`, `guard/memory.py`) | vectors of generations | `add`, `nearest` | guard plane | what is remembered when, and under a key that is taken; an approximate search | only remembered and similar generations are handed out; an exact search overlooks none |
| transport (`transport.py`) | a token bucket per scope | `ResilientCaller.call` | `send()`, the provider | ambiguous failures, late charges, concurrent callers of a bucket, hints to wait | charged once; given up neither too early nor too late; paced |
| MCP guard and proxy (`mcp_proxy.py`, `guard/mcp_guard.py`) | none across calls | `call_tool`, `list_tools` | client and provider; registry | price asked for and charged in two requests, for rewritten arguments | no paid body that is partly dropped; the price quoted; everything told |
| model registry (`preflight/registry.py`) | the parsed catalog | `from_capabilities`, `find`, `by_type` | compiler, router, MCP guard | two fields of the catalog name tiers and disagree | tiers are callable and inherit the contract |
| compiler (`preflight/compiler.py`) | none | `compile_request` | router | the body is put together in parts that overwrite each other | nothing stated is lost, nothing unknown is sent |
| router (`preflight/router.py`) | none across calls | `route` | pricer, compiler | concurrent dry runs in any order, some raising, paired with their models by place | the cheapest usable model |
| planner (`preflight/planner.py`) | none across calls | `execution_order`, `estimate_plan` | router | recursion over dependencies; the sum against three limits | dependencies first; "go" only if the sum is covered |
| pricing port, provider's pricer (`preflight/pricing.py`, `providers/vibemarketolog/pricing.py`) | none | `estimate` | router | answers that lack a field | - |
| overspend report (`postflight/overspend.py`) | verdicts so far | `parse_generations`, `reconstruct_intent`, `overspend_report` | compiler, router | histories that lack parameters; sums over partial data | each saving is against the lowest answer for the intent put together again, and the sums are of the same generations |
| reconciliation (`preflight/reconcile.py`) | none | `reconcile`, `unlisted_tiers` | registry | a tier is recognised by the prefix of its name | the gap covers every unlisted tier, of whichever model |
| drift job (`.github/workflows/drift.yml`, `_report_drift` in `cli.py`) | the log in the repository; a checkout | one reading a day | reconciliation, provider, git | two requests of different moments; each step may fail and take the checkout with it | the log is history; what changed for good gets recorded |
| claim verification (`verify.py`, `_verify` in `cli.py`) | rows so far | `run_all`, ten checks, the exit code | reconciliation, provider | any request may fail, a check may raise, a subset is selected | a row for each selected check; exit 0 means measured and holding |
| settings, provider client, rest of the command line | none, or one file | - | everything | I/O | - |

A call of a guarded tool runs: client, MCP proxy (guard, dry run, ceiling),
provider. A call through the guard plane runs: caller, plane (kill switch,
autonomy, shadow mode, ceiling, loop, dedup, record), and then, if it was
allowed, whatever the caller does. Nothing in the repository connects the plane
with the proxy or the transport, so no module composes them.

## Modules and the code

Arrows point from a module to the one it uses.

    audit       AuditChain, PostgresAudit         -> AuditRecords
                AuditTampering                    -> AuditChain
                PostgresLog                       -> PostgresAudit, AuditTampering
                PostgresAuditMC                   -> PostgresLog
                  proofs: AuditTamperingProofs, PostgresLogProofs
    guard       GuardPlane                        -> KeyValueStore, AuditChain
                LoopDetector                      -> KeyValueStore
                GuardPlaneMC                      -> GuardPlane
                  proofs: GuardPlaneProofs, LoopDetectorProofs
    spending    TransportRate -> TransportMC      -> Transport
                McpProxyMC -> McpProxy            -> Registry
                  proofs: TransportProofs, McpProxyProofs
    free side   Router -> Compiler                -> Registry
                Planner, Overspend                -> Router
                DriftLog, Verification            -> Reconcile -> Registry
                FreeSide                          -> Planner, Overspend, DriftLog, Verification
                FreeSideMC                        -> FreeSide, PlannerMC
                  proofs: FreeSideProofs
    sums        SumProofs, used by the proof modules of LoopDetector, Transport,
                GuardPlane, PostgresLog and FreeSide

* **AuditRecords** - `audit.py`: sealing and `verify`. A hash is the sequence of
  everything it commits to, so two hashes are equal exactly if what they were
  computed over is: a collision-free SHA-256. Action, outcome, detail and time
  stamp are one opaque value, because they are only hashed and stored.
* **AuditChain** - the abstract log: one chain, extended at its end, one record
  at a time. It is also exactly `AuditLog` over `MemoryAuditSink`, whose
  coroutines never suspend. **AuditTampering** says what `verify` notices.
* **PostgresAudit** - `AuditLog.record` over `PostgresAuditSink`. Actions:
  `ReadLast`/`ReadLastFails` (the SELECT, and the record sealed on it),
  `Insert`/`InsertDuplicate`/`InsertFails`, `Commit`, `Crash`. `ConnOf` says
  which tasks share a connection; `pending` and `aborted` are the transaction
  of a connection. `returned` is a history variable for the properties.
  **PostgresLog** reads the table as the log it stands for (`AllRecords` is
  `all()`), which is what refines AuditChain and what `verify` walks over.
* **KeyValueStore** - the store, one atomic step per operation: a Redis command,
  its Lua script, or a coroutine without an await. Time is `Tick`; a key keeps
  the ticks left to it. **LoopDetector** uses it for `_check_loop` alone, with
  unbounded time, so that windows are seen to open and close forever.
* **GuardPlane** - `evaluate` await by await: `pc` names the await a worker is
  suspended at, and all code between two awaits belongs to the step that resumes
  the worker (`RefuseLocally` is checks 2 to 4 in one step). Raising awaits
  (`Raise`, `RecordSwitchRaises`, `SwitchRaises`) may or may not have had their
  effect. It composes KeyValueStore and AuditChain. `returned` and `clear` are
  history variables. A prompt is a model value with its normal form and its
  similarity to others. Whoever remembers a generation need not have asked
  `evaluate`, and may use a key again (`remembered` is the history of that): the
  in-process index then keeps both entries, the pgvector index replaces the row.
  The search of the one is exact; that of the other is an HNSW index, and may
  overlook what is nearer. `known` is a history of what an exact search would have
  found when the call looked at the switch.
* **Transport** - `call` with its loop, `TokenBucket`, `RetryPolicy`. Actions:
  `Begin`, `PaceOver`, `Answer`, `SendRaises`, `BackoffOver`, `Tick`, and
  `ChargeLate` for a charge that lands after the caller heard of a failure. A
  token is counted in parts of 1/`Window`. `TransportRate` adds a history of the
  requests sent.
* **Registry** - `from_capabilities`, `_expand_tiers`, `find`, `by_type` as
  operators over the constant `Catalog`. `Among` is a comprehension with a
  condition, for the modules that use Registry.
* **McpProxy** - `call_tool`: `CallTool` (guarding), `ForwardAnswered`,
  `ProbeAnswered`, `ChargeAnswered`, `UpstreamRaises`; the provider changes its
  prices with `ChangeTariff`. A `strict` that is there but neither true nor false
  (null, 0, a string) is `Other`. A base id may have a length of its own, and then
  prefers it to its tiers, as `grok-itv` in `data/capabilities.json` does.
* **Compiler** - `compile_request`: `Compiles` is "raises nothing" and `Body` the
  body; an extra parameter keeps its value. A prompt is its length.
* **Router** - `route`: `PriceAll` compiles an intent for every model that could
  serve it, `Estimated` is an answer to one of the dry runs in flight, at most
  `MaxConcurrent` of them (the semaphore), `Best` is the choice. `bodies` is the local of
  `route`, `gathered` the result of the `gather`, a place for each of its
  awaitables, and `Estimates` the `zip` that pairs it with the models again;
  `answers` is a history of what was answered about which model.
  `RoutingDecision.considered` is left out: it is put together from the same
  statuses and read by no caller in the package, which use that of
  `NoViableModelError` for the wording of a blocker only (`planner.py:142`).
* **Planner** - `execution_order` (`Sorted`, with the recursion as a recursive
  function) and `estimate_plan` over Router (`EstimatePlan`, `PriceStep`,
  `Answered`, `ChooseModel`, `BlockStep`, `Conclude`). `quotes` is a history
  of the dry runs a step was priced with.
* **Overspend** - `parse_generations` (`ReadHistory`), `reconstruct_intent`
  (`Unanalysable`, `ReconstructIntent`) and `overspend_report` over Router, one
  generation after the other. A generation is a function from the fields that it
  happens to have, since the provider promises none of them. `compared` is a
  history variable.
* **Reconcile** - `reconcile` and `unlisted_tiers` as operators. That one id
  starts with another and a dash is the constant relation `NamedAfter`.
* **DriftLog** - the daily job step by step: checkout, catalog, price list,
  comparison with the last row, push. A reading is every field of the record that the job
  compares, the count of hidden keys and the model of the gap included; only the
  time of day is left out of both. `markets` is everything the provider has offered so far; it moves at any step. Whatever fails ends the job and throws
  the checkout away.
* **Verification** - `run_all` and the exit code. `Answerable` says what the
  requests of a check may answer, `Measure` what the check concludes from it.
  `lost` is a history of the checks that had a request fail or raised.
* **FreeSide** - plan, overspend, drift and verify, each a process started for
  one `job`. They share operators and no state, so one module runs them all.

A definition introduced by "A fault:" is no part of a model. It is a variant of
the definition after it with a plausible mistake, by which each property is shown
to notice something.

## Runs

Sizes are distinct states with two TLC workers. All passing runs explore their
whole state space.

| run | instance | shows | states |
|---|---|---|---|
| `postgres_audit` | three tasks with a connection each, three records, two details, crashes at any time | the table is one chain, what `record` returned is in it, it implements AuditChain, each append ends, and `verify` finds every edit, resealed edit and removal before the last record | 46 299 |
| `shared_connection` | four tasks, three on one connection, two records | no fork even then, and `verify` tells broken tables from intact ones | 449 967 |
| `loop_detector` | two fingerprints, window of three ticks, threshold two | fewer than twice the threshold in any span of a window, no denial without that many requests in it, windows close | 1 117 |
| `guard_plane` | two workers, an operator, three calls, one raising await, one tick; two generations of one key; ADVISOR without an index, OPERATOR with loop detection and the exact index, AUTOPILOT with the approximate one | stops hold, decisions are logged, loops are bounded, reuse is earned, refusals come first, the log explains the switch, and every call ends | 586 306 |
| `transport` | two calls, three attempts, a bucket of one, a scope without one; success, 429 with a hint, 503, empty account | charged once, given up neither early nor late, only transient failures repeated, bucket within its rate, every call ends | 138 523 |
| `mcp_proxy` | two concurrent calls of each kind on a pinned tier, its base with a shorter default of its own, a plain and an unknown model, `strict` absent, true, false or something else, two tariffs | the trap is never charged for, the price is the one quoted, the clip is not shorter, everything is told | 662 596 |
| `preflight` | FreeSideMC: plans of three steps with all 512 dependency relations, of two clips on models of different contracts, a clip on three models with two dry runs at a time, misnamed and empty plans, three accounts; histories of two generations; four markets that follow each other, two of which differ in the hidden keys alone; all ten checks with two odd rows, and selections of them | order, bodies, choice and verdict, and every plan that can be ordered gets one; the overspend report adds up; the drift log is history and lasting changes get into it; rows answer the selection and exit 0 means sound | 123 449 |
| `poisoned_connection`, `lost_record`, `daily_ceiling`, `transport_rate`, `unpriced_charge` | see the next section | a statement of the repository that the code does not keep | - |

**Why the bounds are enough.** *Audit*: a fork needs two tasks and one sequence
number; the third task is there to append on either, the third record to hide a
removed one. With a connection per task the proofs show the same for any number.
*Shared connection*: a record is lost to two tasks of one connection and one
rival, four tasks give a second on the shared one; two records let a link be
missing. *Loop*: any span of a window overlaps two windows, and time is not
bounded. *Guard*: what goes wrong between two awaits takes one other actor; three
calls are two requests racing and a trip, or three requests against a threshold
of two; one tick ends a window of one. One failure suffices for "did it, but
raised". *Transport*: three attempts are a first, a repeat and a last one; the
hint of 3 exceeds `MaxDelay`, the back-off reaches it. *Proxy*: calls share only
the tariff. *Preflight*: three names have every cycle up to length three and
every partial order; costs lie on both sides of both ceilings, the balance and
what is left of a day, one of them after the day was overspent. `MaxConcurrent`
is 2 where the code has 4, so that three models exceed it. *Histories*: the sums
treat generations one by one, two are enough for one to make up for another; the
entries are of every kind the code distinguishes. *Drift*: a reading is of two
moments, the other markets are there to come before or after them. *Verification*: two odd rows are one that
raised and one that could not be measured.

**Bounds by name**: `MaxRecords` (audit), `MaxCalls`, `MaxFailures`, `MaxTicks`
(guard plane), `MaxLife`, `MaxCount` (store; counts saturate above the largest
threshold), `MaxMarkets` (drift), `MaxOdd` (verification). Transport, LoopDetector
and McpProxy are finite without a bound. Deadlock is not checked where a behaviour may end: all calls made, log full.
The type invariants are proved, so that no run has them.

## Where code and documentation disagree

* **`poisoned_connection`** (`guard/postgres.py:76`). An INSERT that loses the
  race leaves its connection in a failed transaction; `append` does not roll
  back. Every later `record` on that connection raises, until somebody commits
  or reconnects, although the module promises a uniqueness violation for the
  lost race only.
* **`lost_record`** (`guard/postgres.py:95`). Two tasks on one connection share
  its transaction. The duplicate INSERT of one aborts it, with the row of the
  other; the other's `commit()` ends the failed transaction with a silent
  rollback and `record` returns a record that is nowhere.
* **`daily_ceiling`** (`guard/plane.py:80`, `config.py:29`). The daily ceiling is
  configured and never read. Two calls below the per-call ceiling exceed it.
* **`transport_rate`** (`transport.py:131`). `take` returns a wait without
  spending a token for it. All callers that find the bucket empty wait equally
  long and go out together, and the tokens that arrived meanwhile are there for
  others: five requests in a window where the limit and a full bucket allow four.
* **`unpriced_charge`** (`guard/mcp_guard.py:200`). A dry run that answers with a
  JSON object without a cost counts as free and clean, so the ceiling is passed
  and the call is charged for at any price.

Worth knowing, without a contradiction that a run could show:

* Guard: the loop window is fixed and not sliding (`TwoWindowBound` is the exact
  promise). The kill switch lives in Redis only; the log says that it was
  tripped, and nothing reads it back after a Redis that lost its data.
* MCP guard: the answer of the charging tool says "charged" also when the
  provider refused (`mcp_proxy.py:155`). `strict=False` waives the refusal of an
  unaffordable or partly dropped body, but not the ceiling. A pinned tier with a
  duration is rewritten without comparing prices. A `strict` that is present is left as
  it is whatever its value (`mcp_guard.py:134`): null, 0 or "false" go to the
  provider without a note, and a part dropped beside `params`, which the dry run is
  not shown, can then be paid for. `TrapNeverCharged` says what is left of the
  promise for such calls. A pinned tier that the catalog
  names without a price ends the call in a TypeError (`mcp_guard.py:176`).
* Prices: a dry run without a cost is read as free (`pricing.py:27`), and is then
  the cheapest. The compiler holds a duration against the catalog's range and not
  against an enumeration of it (`compiler.py:166`), and a parameter given in
  `extra_params` replaces a stated one after it was checked (`compiler.py:169`), and
  of it only the name is checked, against what the model accepts.
  `BodiesHonest` takes the extra value for the one asked for.
  The account of a plan is a
  snapshot from before the pricing (`planner.py:120`).
* Overspend: `overspend.py:9-16` promises that a request that cannot be put
  together again is reported as unanalysable, never guessed, and compared with
  the same output. The code departs from it: a duration that is no int
  (`overspend.py:160`), reference images (`:170`) and parameters an intent has no
  field for are left out of the intent, and a generation made on a pinned tier is
  asked for with the duration of its record, which the tier ignored. The saving
  is then against another clip. A run could show this; the project keeps it here,
  and `SavingsAddUp` claims no more than what is true of the intent that is put
  together. An answer without a cost counts as 0 there too, so that all of the
  charge is called avoidable.
* Reconciliation: a tier the catalog names without a price is in the registry and
  hence not in the gap (`reconcile.py:85-108`). A reading holds no prices of
  listed models, so a move of those is no new row of the drift log.
* Verification: with a selection, a check that raises is numbered by its place
  and not its own number (`verify.py:582`); check 6 holds for any pinned price
  when the base is free, and check 7 calls an endpoint that cannot be asked a
  difference, not an error.

## Fairness

* PostgresAudit (`FairSpec`): weak fairness of a task's other steps, as an event
  loop resumes whoever has an answer; strong fairness of `Insert`, because an
  INSERT that waits for a transaction is woken when that one ends, and is not
  passed over by transactions that come and go.
* GuardPlane: weak fairness of a suspended worker's and operator's next step.
  Nobody is obliged to call.
* LoopDetector: weak fairness of `Tick` - time passes.
* Transport: the same, and of the next step of each call: sleepers are woken, and
  the HTTP client's timeout ends a request that stays unanswered
  (`http_timeout_s`), which is why `Answer` or `SendRaises` must come.
* Planner: weak fairness of `Proceed`, by the same timeout.
* DriftLog: weak fairness of `StartJob` and `CompareRows`, as the job is scheduled
  daily and compares without I/O; strong fairness of `FetchCatalog`,
  `TakeReading` and `Push`, which may fail, but not on every day there will be.
  Without the latter nothing could be promised: `JobFails` is always possible.
* Overspend and Verification have no liveness property: a provider that stops
  answering ends them, and their user sees it.
* McpProxy has no liveness property: how long a request to the provider may take
  is up to the MCP client library.

## Assumptions about the surroundings

PostgreSQL at READ COMMITTED with psycopg's autocommit off; the COMMIT of a failed
transaction rolls back and raises nothing; an INSERT whose key is inserted and
uncommitted elsewhere waits. Redis commands and scripts are atomic and keep what
they were given. SHA-256 does not collide. The provider charges for an
idempotency key once, and with `strict` charges for no body it would drop from;
its dry run sees the parameters within `params` only. A sleep ends no earlier
than asked. Definitions of this kind are marked external in `PROJECT.json`.

## Proofs

Checked by TLAPS, for every value of the constants that satisfies the `ASSUME`s.

* **AuditTamperingProofs** - `verify` accepts the log as written (`ChainInv` is
  inductive) and finds every edit, resealed edit and removal before the last
  record, for logs of any length. A hash tells what it was computed over
  (`HashTells`), and a log in which only one link changed cannot agree with the
  next record.
* **PostgresLogProofs**, the table - `TypeCorrect`, `NeverForks` for any sharing of
  connections; `ChainStaysIntact`, `ReturnedStaysDurable` with a connection per
  task. No property is inductive alone. `TableInv` says that also the rows not
  yet committed have distinct sequence numbers and are well sealed: the last
  record a hash commits to is the one numbered before. A fork then needs two
  rows of one number, which is what the primary key forbids. `ExclusiveInv` adds
  what holds when nobody shares: a transaction is the row of the one task about
  to commit it, drafts link to committed rows, and no two tasks are about to
  commit one number. `lost_record` shows that this premise cannot be dropped.
* **PostgresLogProofs**, the log - `TableImplementsLog`: with a connection per task every
  step of PostgresAudit is a step of AuditChain or a stutter. A chained table is
  numbered from 0 without a gap (`Contiguous`), so reading it in order puts row
  `i - 1` in place `i` (`RowsInOrder`), and a COMMIT extends the log at its end
  (`LogExtends`). `TableTamperingIsFound` carries the theorem about tampering over
  to the table, as an instance of AuditTamperingProofs. `VerifyIsExact`: the walk
  of `verify` accepts exactly the tables that are one chain, for any sharing of
  connections, broken tables included; a table of finite size is sortable
  (`TableSorts`).
* **SumProofs** - what a sum over a finite set is, although it is defined by
  recursion: the defining equation has a solution on the sets of each size, hence
  on all, and two solutions agree, by the least number, or the smallest set, that
  would refute it. From that follow the rules the other modules cite: take a
  summand out, compare and add term by term, shift by a place.
* **LoopDetectorProofs** - `TwoWindowBound` and `NoDenialWithoutLoop` for any
  fingerprints, window and threshold. The code only has a counter; `WindowInv`
  says what it tells: while a window is open, its count is the sum of the requests
  let through since it opened, and what is older and still within one window's
  length stayed below the threshold. A denial then has a full window behind it,
  and two windows cover any span.
* **GuardPlaneProofs** - `PlaneTypeCorrect` and the seven safety properties of
  the run, for any workers, operators, requests and configurations. `KillInv`
  ties the switch to the trips and resets that are on their way to the log,
  `LogInv` the decisions to their records, `PassedInv` says what a worker at each
  await has already passed. `LoopInv` counts windows: after `n` of them have
  opened and closed, which took `n * LoopWindow`, the calls of a fingerprint that
  came through are at most the threshold for each, and what the open window
  counts. `LoopLimitHolds` then follows by division. The plane also refines the
  abstract log: by `PlaneExtendsTheLog` each of its steps is a
  `Record` of **AuditChain** or leaves the log alone, so that
  `PlaneTamperingIsFound` carries the theorem on tampering over to the log the
  plane writes. `NoRecordIsKeptOut` shows that the bound `MaxCalls` on that log
  is no guard of its own: the records and whoever still has one to write carry
  different numbers, and there are as many numbers as calls. Assumed of the
  constants: autonomy levels 0 to 3, a largest loop threshold, similarities
  that are numbers (`SimilarityAssumption`), finitely many
  operators, and a `None` that is nothing else.
* **TransportProofs** - `TypeOK`, `ChargedOnce`, `GivesUpLate`,
  `OnlyTransientRepeated`, `GrantedWithinRate` for any calls, buckets, responses and attempts.
  `PaymentInv` counts the charges that may still land with those that have: a
  paid call without a key has never had more than one request out, and one with
  a key is charged under a key the provider remembers. `ProgressInv` says what
  is known of a call at each await. `RateInv` weighs, for every age, the tokens
  granted since against a full bucket and what flowed in: it holds when a tick
  shifts the ages, where the bound itself, for one age alone, would not.
* **McpProxyProofs** - `TypeOK`, `TrapNeverCharged`, `ChargedAsQuoted`,
  `LengthKept`, `NothingHidden` for any catalog, requests, tariffs and number
  of calls.
  `CallInv` ties what was asked to what is sent and told, `QuoteInv` the dry run
  to the charge that is under way. Each property speaks of one call, so a step
  of one call leaves the others as they are (`OthersStaySound`) unless it
  changes the tariff. `LengthKept` assumes that clip lengths are whole seconds
  (`LengthsAssumption`), and nothing of what length a base id has of its own: a
  rewritten call states its duration, and then goes by that.
* **FreeSideProofs** - everything that spends nothing, of FreeSpec itself.
  * *Choice*: `BodiesHonest`, `NothingCheaper` and Planner's types. A body that
    compiles is what the model takes (`Takes`) and carries the intent
    (`Carries`), whatever its parts overwrite (`BodyIsHonest`); once all have
    answered, the pairing by place gives each model its own answer
    (`EstimatesAreAnswers`); the sort by cost and id has a
    first element, which is least (`BestIsCheapest`, twice the least-number
    principle). `InFlightInv` says that what is in flight is what the intent at
    hand is priced with, so answers are never those of another step or
    generation. All this is the invariant `FreeInv`, on which the rest stands.
  * *Order of a plan*: `OrderIsTopological` for plans of any length. That the
    walk's recursion is defined at all is an induction over how many steps are
    not being visited (`VisitExists`), as is what a visit gives: the order so far
    continued (`InOrder`), or, if the walk ran into itself, some steps that wait
    for each other (`Circular`). A plan is refused for a cycle of the walk;
    the lemmas turn it into a set that no order can hold, and back.
  * *Verdict*: `GoIsCovered`. `CostsInv` says that the costs are those of the
    first steps of the order, `VerdictInv` that the verdict was made with all.
    The sum of the costs and the sum of the quotes that were chosen are then the
    same, and the three limits are about it.
  * *Report*: `SavingsAddUp`. `VerdictsInv` says of each verdict what it rests
    on (`Fair`), and the sums compare term by term.
  * *Claims*: `RowsAnswerSelection`, `ExitZeroMeansSound`. A selection comes out
    in ascending order (`Increasing`), so the place of a check is the number of
    selected ones below it (`PlaceInOrder`); `RowsInv` ties each row to its place
    and each request that failed to a row that does not say so.
  * *Drift*: `LogGrowsByChanges` for any markets and any schedule of jobs: the
    checkout is the log, with one reading of what was on offer since the job
    began appended once it was taken (`CheckoutHolds`). `GapCoversUnlisted`: what
    the folds over a catalog and a price list give (`CatalogGives`,
    `PriceListGives`), and that the gap of a parent is the difference of two
    maxima (`GapOfParent`); the model it names has it (`GapModelHasGap`).

**Assumed of the constants**, and why. *Catalog* (`CatalogAssumption`): a model has
its own id, no parameter is called `model` or `strict`, and who lists values of
`generation_type` accepts it. The code checks neither of the last two; a catalog
that broke them would get bodies that overwrite `strict`, or carry a parameter to be
dropped. *Numbers*: prices, charges,
limits and balances are whole numbers of a smallest unit (kopecks, say: `z-image`
costs 1.2 roubles, `nano-banana-pro` 14.4 or 16.5); sums and comparisons are all
the code does with them, and rounding of floats is left out. `None` is no number. A charge of the history is not
negative (`HistoriesAssumption`): with a refund booked as a negative charge,
`saving_rub` would be one that could not be had. *Shapes*: plans, histories, catalogs
and price lists are finite lists (`PlansAssumption`, `MarketsAssumption`), as what is
parsed from JSON is. The names of plans are free: two steps of a name, or a
dependency on a step that is not there, are part of the theorem. That a request was
not answered is no answer (`UnansweredAssumption`), and no selection was made is no
selection (`SelectionsAssumption`). TLC evaluates each of them on the instances.

The theorems are listed in `PROJECT.json`; each module's header gives its layout.

## What is only model-checked, and what is left out

Every invariant and every action property of the runs is proved. Liveness is checked
by TLC only, because fairness (`ENABLED`) is beyond the provers: `EveryAppendEnds`,
`EvaluateEnds`, `WindowCloses`, `CallEnds`, `PlanConcluded`, `ChangesGetRecorded`.
`EveryAppendEnds` is checked with exclusive connections; the instance with shared
ones is too large for liveness checking.

Where a model leaves the provers no way in, it is the model that was written
differently, to the same effect: they cannot unfold `SelectSeq`, `@@` and `:>`, so
comprehensions are folds (`Among`) and merged dictionaries are functions over the
union of their keys; the visit of `execution_order` takes what is open, the step
and the walk so far one at a time.

Not modelled:

* settings, which are read once and are constants here; the provider client (one
  GET, one file, the parsing of an error envelope): I/O without state;
* quality postflight and the fast path: described in `DESIGN.md`, not built;
* of the command line the parsing of arguments, what is printed and
  `mainager capabilities`, which rewrites its file in place
  (`providers/vibemarketolog/capabilities.py:58`); the exit codes of the jobs are modelled, the text
  report of `drift` is not;
* within modelled parts: wording of notes, reasons and blockers; listing of
  tools; `create_schema`; vectors and embeddings; the counters `attempts_made`
  and `waits_s`; pinned tiers in `route`, which no caller asks for; the regular
  expressions of the checks, abstracted to what they find.

## Plan

The order is that of importance: what spends money or proves what was spent comes
first. Done:

1. Audit: records, abstract chain, PostgreSQL sink, refinement; all proved.
2. Guard plane over store and log, all safety properties proved; loop detector in
   time.
3. Transport and MCP proxy, with proofs.
4. Preflight: registry, compiler, router, planner; bodies, choices, order and
   verdict proved.
5. What looks back: overspend report, reconciliation, drift log, claim
   verification; one run over the four jobs, all its safety properties proved.

What would come next:

6. Proofs beyond the runs: that a key-value store with separate `INCR` and `EXPIRE`
   would not refine the one modelled; that Transport paces to its documented rate
   once `take` books the token it makes a caller wait for.
7. Larger instances: two operators in GuardPlane; two planes of different levels
   over one store; a dearer rewrite of a pinned tier in McpProxy.
8. Once the repository connects the plane with the proxy: their composition, with
   the switch and the ceilings held against what was charged.
