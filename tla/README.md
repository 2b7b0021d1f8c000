# Formal models of szl-trust

TLA+ models of the code in this repository that decides something over time: the
x402 payment path (token validator, key resolvers, replay guard, usage ledger, the
two Workers), the publication and checking of run directories (chain verifier,
buyer script, trajectory compiler), the deployment readback and the estate
inventory. TLC checks the models on small instances; TLAPS proves the main
theorems for every value of the constants.

To check one run: `tlc -config MCUsageLedger.cfg MCUsageLedger`. To check the
proofs: `tlapm UsageLedgerProofs.tla`.

## 1. Inventory

| Component | Source | State | Operations | Module |
|---|---|---|---|---|
| Usage ledger | `scripts/x402_usage_ledger.py` | records by event, index by (tenant, request), admission digests | `authorize`, `transition`, `recognized_revenue_atomic`, `for_tenant` | `UsageLedger`, `Billing` |
| Payment key resolver (Python) | `scripts/x402_payment_context.py:254-424` | cached keys with expiry, current flight, lock | `current_keys`, `_retrieve` | `PaymentKeys`, `KeyFreshness` |
| Payment context validation, replay guard | same file, 48-213 and 427-597; JS twin in `ops/*/src/payment-context.mjs` | replay entries with expiries | `validate_payment_context`, `check_and_remember` | `PaymentContext`, `ReplayGuard` |
| Payment context vectors | `tools/x402_payment_context_vectors.py` | none | `build_vectors` | `ContextVectors` |
| Payment key resolver (JS) | `ops/*/src/payment-keys.mjs` | cached keys with expiry, pending promise, timer | the resolver closure, `retrieve` | `EvidenceSnapshot` (timed), `RevenueTracker` |
| Evidence snapshot Worker | `ops/evidence-snapshot-worker/src/index.mjs` | per request: when it came in, its answer | `handleRequest` | `EvidenceSnapshot` |
| Revenue tracker Worker | `ops/revenue-tracker-worker/src/` | per request: response, verification, rows written | `handleRequest`, `assessSettlement`, `record` | `RevenueTracker` |
| Delivery decision, charging gate | `scripts/x402_payment_context.py:600-657` | none | pure tables | not modelled |
| Run chain verifier | `scripts/verify_chain.py` | the files of a run | `verify_run` | `VerifyChain` |
| Buyer script | `verify.sh` | what it fetched, its verdicts | five steps and an exit | `BuyerCheck` |
| Trajectory compiler | `scripts/compile_evidence_trajectory.py` | what was verified, read, written | `compile_trajectory`, `write_trajectory` | `Trajectory` |
| Worker deployment and readback | `scripts/verify_worker_deployment.py`, `.github/workflows/revenue-tracker-worker.yml` | the account's deployment, attempts | deploy, `active_version`, `check_version` | `DeploymentReadback` |
| Estate inventory | `tools/estate_inventory.py` | URLs asked for, pages and rows of a walk, errors | `pages`, `next_target`, `collect` | `EstateInventory` |
| Source manifest check, other workflows, documents and data | `scripts/validate_source_manifest.py`, ... | none | one pass over a file | not modelled |

How they interact: the Workers and any Python service call the validator with a
clock reading; the validator asks the key resolver, which many callers share, and
then the replay guard. A verified context leads to a delivery and to events of the
usage ledger (there is no code between the two in this repository) or, in the
tracker, to rows of a dataset. Runs are published as four files that repeat each
other; `verify_chain.py` compares them, `compile_evidence_trajectory.py` calls it
and then reads them again, and `verify.sh` fetches one of them over the network.
The readback looks at what the deploy job of the same workflow left behind.

Where the behaviour is hard:

* threads that share one retrieval outside the lock, with timeouts and interrupts
  (resolver); awaits in place of threads (JS resolver, tracker);
* a clock that is read before a wait and used after it (validator and guard);
* sequences of legal calls (ledger: retries, disputes, re-pricing);
* several reads of something that changes meanwhile (compiler, readback, buyer);
* several writes that fail or stop half-way (tracker rows, compiler bundle);
* a list that changes while it is read page by page, along links the server chooses
  (inventory).

What makes each correct: the ledger bills a request once and within its quote; the
resolver never serves keys beyond their lifetime, fails closed and never wedges;
the guard forgets nothing it accepted while it matters; the tracker counts only
what was signed and served and always finishes recording; the verifier notices
every edit of what the files repeat; the script vouches for nothing flagged as
mocked; the compiler emits one connected path or nothing, and a bundle that
matches its receipt is of one graph; the readback passes only for what did serve;
a snapshot is served in time, for its price and by a key that was vouched for; the
inventory ends, and reports a list that stands still whole or with an error. The
hazards behind these are listed with their lines in `PROJECT.json`.

## 2. Modules and the code

Each definition that models code is mapped to its lines in `PROJECT.json` ("map").
Operators commented `Mutant:` are deliberately wrong variants; no specification
uses them, they document which bug each property would catch.

**UsageLedger / Billing.** The three dictionaries and the digest stored in each
record are variables; `AuthorizeVerdict` and `TransitionVerdict` are the checks in
the order of the code, and a call that raises `LedgerHold` is a stuttering step.
A digest is the content it was taken over (SHA-256 of canonical JSON, taken as
injective). Fields that are stored and never read are one opaque `body`. `Billing`
is the abstract promise (open, deliver, recognise, dispute, close one bill per
request) and `ImplementsBilling` the refinement. The file header calls the ledger
"append-only"; `transition` replaces the record of its event (line 155), so what
is kept from the admission is stated by `DigestsBindRecords` instead.

**PaymentKeys.** One program counter per thread in `current_keys`. `ReturnCached`,
`Join` and `Lead` are the first section under the lock; `Send`, `Receive` and `Fail`
the retrieval outside it; `Publish` the second section; `Signal` the release of
waiters; `Wake` and `GiveUp` a waiter's two returns. An interrupt (a
`BaseException`) inside the `try` is one of the ends of `Fail`; `Strand` is one that
meets the leader where no `finally` takes over, between the lock and the `try` or in
the `finally` itself, and marks the flight as `lost`. A key set is named by the
retrieval that brought it, so "old keys" are visible, and a call that raises has
none as its answer. `KeyFreshness` is the arithmetic of `freshness_seconds` with
Date, Age and delay, which both resolvers share. Parsing is the choice between
usable keys and a failure.

**PaymentContext, ContextVectors.** `Verdict` decides a token in the order of
`validate_payment_context`: configuration, header, key, signature, times, audience,
request, scheme, amount; `EarlyVerdict` and `LateVerdict` are its parts before and
after keys are asked for; keys that cannot be had are `None`, and the verdict is
then `KEYS_UNAVAILABLE`. A value that is missing, of the wrong type or not
canonical is `Invalid`, and a signature is the key that made it. `ContextVectors`
holds the contexts of `build_vectors`, with the results its authors wrote down, and
assumes that `Verdict` gives every one of them; vectors that differ only in how a
value is malformed are one row.

**ReplayGuard.** `Begin` is the caller's reading of the clock, `Refuse` and `Guard`
are the validator with that reading and the locked body of `check_and_remember`,
some time later. A validation that gets as far as its keys may be refused for want
of them. The verifiers that share a guard may have different leeways.

**EvidenceSnapshot.** One action per stretch between two awaits that wait for
something outside the Worker. `Arrive` is `handleRequest` up to its answer or to
`await pending`, with the clock read first; `Receive`, `Land` and `Abandon` are the
retrieval, its `then` and its `finally`. A retrieval ends in one step with what it
resumes: the continuations are microtasks that run before any other request or
timer. The key server may hang before its headers or in its body.

**RevenueTracker.** One action per stretch between two awaits. The JS resolver is
the shared pending retrieval with its two ends and a cache that goes stale at any
moment (`EvidenceSnapshot` has the same code with its times). `Record` may lose
any of its writes, all of them when the dataset is not bound or the isolate is
stopped before `waitUntil` is over.

**VerifyChain, BuyerCheck, Trajectory.** `VerifyChain` holds a run directory that
is recorded, published and edited (dropped, repeated, swapped, broken or rewritten
records), with `Verifies` for `verify_run`. The recorder is not in the repository
and is modelled by what `runs/` looks like. `BuyerCheck` adds the steps of
`verify.sh` beside it; jq's `//` is modelled by what it does with `false`, and a
health answer that is no JSON ends the script where jq fails on it. The
script takes a receipt id as argument and uses it in what it prints only.
`Trajectory` adds the compiler: four reads for `verify_run`, three more for the
graph, four writes, a crash between any two and a restart over what it left. The
structural completeness it reports is left out: both counters are incremented
together, so the ratio is always 1. `PublishedRun` puts script and compiler beside
one run; they write nothing the other reads, so a behaviour has one of them.

**DeploymentReadback.** The jobs of one concurrency group, the owner's changes of
the deployment at any moment, and per attempt the two API requests. Whether an
error is retried is the flag of `ReadbackError`. wrangler may fail before or after
its version took effect. The API is external: it fails, or answers with `shown`,
which is what it last noticed of the traffic (`Propagate`) and may be older than the
deployment a job has just made; the code retries for that reason. What a job can
have observed in an attempt is therefore what was shown when the attempt began and
the traffic from then on.

**EstateInventory.** `Begin` starts the walk of the next list, `Fetch` and `Cycle`
are one turn of the loop in `pages`, `Conclude` is what `collect` does with its
result, `Probe` the domains. The server is external: it answers with the page a URL
asks for and a link to the next one (GitHub rewrites the path of the first link), or
with any other link, or with something that is refused. `Create` and `Delete` change
the list during a walk. `Abort` is an exception that `real_fetch` or `real_head` does
not catch: the script ends and reports nothing.

## 3. Runs

| Run | Instance | What it shows |
|---|---|---|
| `UsageLedger` | 2 events, 2 tenants, 1 request id, amounts -1, 0, 2, 3 with cap 2 | one event per request, digests, amounts, retries, revenue, and the refinement of `Billing` |
| `PaymentKeys` | 3 threads, 2 retrievals, clock to 2, ages to 1, fair | one retrieval at a time, cache within its lifetime, no fallback, cache moves forward; retrievals end, but for a lost one, and waiters return |
| `PaymentKeysExpired` | 2 threads, 1 retrieval | violated: "expired keys are never reused" |
| `ReplayGuard` | 3 validations with leeways 1, 1 and 2, 4 tokens, 3 keys, room for 2 | accepted tokens are remembered, capacity, what a second acceptance needs; the vectors |
| `ReplayGuardOnce` | 2 validations of one leeway, the same tokens | violated: a token is never accepted twice |
| `RevenueTracker` | 2 requests, 5 tokens, statuses 200/400, reports 1/2/3, fair | only attested amounts count, failures count nothing, recording ends |
| `EvidenceSnapshot` | 2 requests, 4 tokens, 2 key sets, timeout 2, clock to 5, fair | a snapshot is served in time, and every request is answered |
| `PublishedRun` | runs of up to 3 steps, 2 states, 1 edit; the script, or 2 starts of the compiler | recorded runs verify, one edit keeps what is bound, nothing mocked is vouched for, the graph keeps what its checks repeat, and a matching bundle is one graph |
| `BuyerCheckEdits` | 2 steps, 1 edit | violated: "any edit to one record breaks a cross-referenced invariant" |
| `BuyerCheckMocked` | 1 step | violated: a receipt with `mocked:false` is confirmed |
| `DeploymentReadback` | 2 jobs, 3 older versions, 2 attempts, 2 changes, fair | a pass is for what served in that attempt or was still shown when it began, a mismatch likewise, and every job ends |
| `EstateInventory` | 2 lists of up to 7 items, 3 pages of 2, 2 changes per walk, fair | what a walk reports of a list that moves and of one that does not, and that the inventory ends |

Why the bounds are enough: two events for one request give every conflict between
admissions, and the amounts lie on both sides of every comparison. Three threads are
a leader, one that joined and one that comes late; two retrievals give an old and a
new key set. Two tokens with one key and different expiries, a third key and room
for two entries fill the guard and prune it in every order; the third leeway is
larger than the other two. Two requests share a retrieval, or the second finds its
keys fresh or stale; the timeout of two leaves a moment at which the headers are
there and the body is not, and the clock goes on for two timeouts and one second.
Lists of 0 to 7 items with pages of 2 and a limit of 3 pages are empty, end inside a
page, fill it, fill the last page and exceed it by one; two changes are a creation
and a deletion in either order, or two of a kind. Three steps have a first, an inner
and a last record. 400 is the lowest status that counts nothing, and the reports lie
below, at and above what was authorized. Two attempts with two changes let the
deployment change and change back before, between and after the two requests of an
attempt, and the API notice any, all or none of it; the older versions are one
without a label, one of a job's own commit, and one of the other's that is labelled
but lacks a binding. The owner routes to one version or splits the traffic between a
job's and an older one; since the readback only counts the versions of a split, one
kind of split stands for all. Bounds (`MaxClock`, `MaxFlights`, `MaxAge`,
`MaxEdits`, `MaxSteps`, `MaxStarts`, `MaxItems`, `MaxChanges`, `Routings`) are
guards of the actions they bound or limit what they choose from; since behaviours
stop there, the runs switch the deadlock check off. The symmetries are sound: no
action distinguishes state hashes, nor validations of one leeway, and no run with
symmetry checks liveness.

Fairness, where a run states it:

* `PaymentKeys`: a running thread goes on (`Send`, `Publish`, `Signal`, waiters).
  The fetch itself gets none, a transport may hang; `FlightsEnd` says what follows
  if fetches end. An interrupt is never forced. `WaitersReturn` needs no such premise,
  since the wait has a timeout (line 418).
* `RevenueTracker`: the event loop runs what is ready, and the key fetch is
  aborted after five seconds (`payment-keys.mjs`). The origin promises nothing.
* `EvidenceSnapshot`: time goes on, and a timer that is due fires before time moves
  on (`TimesOut`, and `Tick` waits for it). This is what `setTimeout` promises of an
  idle event loop, in whole seconds; the few milliseconds it may be late are not
  modelled. The key server promises nothing.
* `EstateInventory`: the script runs, and each request has a timeout
  (`tools/estate_inventory.py:109` and `153`). Lists may change and servers answer
  what they like.
* `DeploymentReadback`: API requests have timeouts and a job has one as well; neither
  the owner nor `Propagate` is fair, a job ends even if the API never notices.

### Disagreements between code and text

* `x402_payment_context.py:17-18` says expired keys are never reused; a thread that
  joins a flight after its response was received can get keys that expired before
  it called (`PaymentKeysExpired`). Only the cache path checks the expiry.
* `tests/test_x402_payment_context.py:255` says neither context can validate again
  once both entries are pruned; a validation that read the clock earlier can
  (`ReplayGuardOnce`). `SecondAcceptanceExplained` says that this, or a verifier with
  a larger leeway on the same guard, is the only way.
* `verify_chain.py:31-32` says any edit to one record breaks an invariant; the
  `mocked` flag of a span before the last is compared with nothing
  (`BuyerCheckEdits`). The first `state_prev_hash` is not bound either, as
  `tests/test_verify_chain.py:165` says.
* `README.md:139` says `verify.sh` confirms `mocked:false`; with the boolean it
  refuses every such receipt, because `false // "unknown"` is `"unknown"` in jq
  (`BuyerCheckMocked`).
* Without a run of its own: `tools/estate_inventory.py:7` says that `complete` means
  that both tokens were present and pagination finished. A domain that does not answer
  makes it false as well (line 219), and so does a list that fills its last page: its
  walk ends with `FullPageWithoutNext`, as `QuietWalkVerdict` states. Line 6 says that
  HTTP errors are recorded; an exception that is neither
  `HTTPError`, `URLError`, `ValueError` nor `TimeoutError` (an answer that is no HTTP, a
  connection that breaks while the body is read) is not, and leaves no report (`Abort`).
* Without a run of its own: an interrupt that meets a leader in
  `x402_payment_context.py` between line 404 and the `try` leaves `_flight` set, and
  every later caller that finds no fresh keys joins it and times out. It takes an
  exception in a few instructions and nothing in the repository says otherwise;
  `OneRetrieval`, `FlightsEnd` and `NobodyLeftWaiting` name it as the one exception.

## 4. Proofs

All theorems are listed in `PROJECT.json`. They hold for every value of the
constants that meets the named `ASSUME`s of the modules, which TLC evaluates in
the runs.

* `UsageLedgerProofs`: the inductive invariant `IInv` is type correctness with
  `OneEventPerRequest`, `DigestsBindRecords` and `AmountsWithinQuote`. They need
  each other: the index is only updated for events that are new, which needs the
  index to agree with the records; the digest comparison of a retry speaks about
  the admission only if no transition changed what the digest covers. From it
  follow `RetriesNeverCharge` and, with one lemma per action, that every step is a
  step of `Billing` or a stutter (`LedgerImplementsBilling`). `RevenueBounded` is
  about a sum: only finitely many events are ever admitted (`FinitelyAdmitted`), no
  two of them have one request, and each settled one has an amount of at most the
  cap. That a sum of n such amounts is at most n times the cap is shown by taking a
  smallest set of events for which it is not (inclusion of finite subsets is
  well-founded), since induction over sets is out of reach as such.
* `PaymentKeysProofs`: `LeaderInv` strengthens `OneRetrieval` by the order of
  flights (a thread's flight is the current one while it retrieves). `LedInv` says that every
  flight has one leader until its `done` is set or it is lost, which gives
  `WaitersAreLed`. `CacheInv`
  says that the cache is a successful retrieval and that its expiry is within the
  lifetime its server gave, from `FreshnessSound`; `NoFallback` needs in addition
  what each caller knows of the flight it is on. `FreshnessSound` is the age
  arithmetic: the time that is left is never counted beyond the lifetime the server
  gave, if a response has an Age that is right or a Date. Both resolvers' proofs
  rest on it, so it is repeated in `EvidenceSnapshotProofs`.
* `EvidenceSnapshotProofs`: the invariant says, beside the types, that a retrieval
  that is pending is at most the timeout old, that whoever waits has not waited
  longer than that, and that key sets, cached or landing, keep within their
  server's lifetime; `ServedInTime` follows with the time check of the validator.
* `ReplayGuardProofs`: `RemembersAccepted` is inductive with the types and gives
  `SecondAcceptanceExplained`, for verifiers of any leeways; `WithinCapacity`
  rests on the finiteness lemmas of the library (pruning removes, accepting adds
  one).
* `RevenueTrackerProofs`: `NobodyLeftWaiting` says that whoever waits for keys
  waits for a retrieval that is going on; it is what `RecordingEnds` rests on.
  `StageInv` says what each stage of a request implies: a verdict `ok` is that of
  the request's own token at its own resource, nothing is recorded before both
  parts have ended, and rows are among those of `EventsFor` for what they ended
  with. `CountsOnlyAttested` and `FailuresCountNothing` then follow from two
  lemmas about the rows, `VerifiedRows` and `UnverifiedRows`.
* `DeploymentReadbackProofs`: `ReadInv` says that no other job deploys while one
  reads back, and that the traffic, what the API shows of it and what the first request
  named are among what the attempt could observe. With it, `VerdictInv` (the three safety properties
  for one job) is inductive, since a verdict never changes again (`OthersRest`).

* `PublishedRunProofs`: verifier, script and compiler beside one run of any length.
  `FilesInv` says that a published run is a recorded one (records agree step by
  step, each state begins where the last one ended) and that after one edit three of
  its four files are still the published ones. `RecordedRunsVerify` and
  `BoundByTheOthers` follow, the second one file by file: a changed file that still
  passes has the published values wherever another record repeats them. For the
  compiler, `CopyInv` says what the first reading can have seen of each file (its
  published form, its present one, or a beginning from when the run was still
  recorded), and `VerifiedInv` what that reading leaves for the second one, which
  may see the edit that the first did not. `PathKept` is inductive with these.
  `OneGraphPerBundle` needs `BundleInv`, which orders the four writes: the receipt
  goes last and lists the digests of one graph. `MockedNeverVouched` rests on
  `ScriptInv`, what `verify.sh` has checked before each of its steps. The marks for
  what is missing, broken or torn are assumed to be no record, hash, flag or graph
  (`MarksAssumption`, `FilesAssumption`).
* `EstateInventoryProofs`: a walk that followed the links of the pages (`~strayed`)
  asks for the page its counter says and never did before (`StepInv`), so what it has
  read ends at the frontier (page - 1) * PageSize. For a list that stands still the
  rows are its prefix up to there (`QuietInv`), and `QuietWalkVerdict` follows from
  where that prefix ends. For a list that changes, `MovingInv` counts: items listed
  all along that are before the frontier and were not read are at most as many as were
  deleted, since only a deletion moves an unread item over the frontier, and
  only one; repeated rows, and rows that are still to come again, are at most as many
  as items were created.

One proof attempt failed because the model was wrong. The type invariant of
`Trajectory` bounded the steps of a verified run by `MaxSteps`; but records can be
repeated by edits, and five edits can give a run that verifies with one step more
than were recorded. The run, with one edit, could not show it. The bound is now that of
`Steps`, the numbers a record may carry after edits.

Each invariant of a passing run is stated by a theorem, and so are the action
properties `CacheMovesForward` and `SecondAcceptanceExplained` and the refinement
`ImplementsBilling`. Only model-checked are

* liveness (`FlightsEnd`, `WaitersReturn`, `RecordingEnds`, `EveryRequestAnswered`,
  `InventoryEnds`, `JobsEnd`): fairness needs `ENABLED`, which the provers used here do
  not handle. `NobodyLeftWaiting` is the invariant behind `RecordingEnds`,
  its namesake of the resolver the one behind `FlightsEnd`, and that of
  `EvidenceSnapshotProofs` the one behind `EveryRequestAnswered`;
* the vectors, whose evaluation is an assumption that TLC computes.

## 5. Not modelled

* Cryptography, JSON and HTTP parsing: a signature verifies or not, a value is
  well-formed or `Invalid`. Their tests and vectors are in `tests/`.
* `decide_delivery`, `settlement_value` and the charging gate: tables without state
  over a gate that is the constant `False`; only their tests call them.
* The body of the evidence snapshot: constants and their digest.
* The writing of the vectors: keys, encodings and one file; their cases are in
  `ContextVectors`.
* Evidence and validator nodes of the trajectory: there or missing.
* The source manifest check: conditions on the strings of one file, which a model
  could only repeat.
* The fields that the inventory copies into its report, and its redirect rule, which
  is one of the ways a fetch fails.

## 6. Plan

Done, in this order: ledger with its abstract billing, key resolver, replay guard,
tracker, chain verifier with the buyer's script, trajectory compiler, readback; then
the validator with its vectors behind the guard, the evidence snapshot Worker with
the timed JS resolver, the estate inventory, and verifier, script and compiler over
one published run.

Every safety property has its proof. What is left is to state more where the proofs
show that more is true: what two edits of different files can do to a verified run,
what an interrupted bundle may still contain, and, for the liveness properties, the
invariants that say which step is due in every state that is not final.
