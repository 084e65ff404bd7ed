# Soul Society: TLA+ models, checks and proofs

Soul Society lets a client publish a signed job on Nostr relays, lets a provider
run the job in a Cairo program and prove the run with STWO, and lets the client
check the proof in the browser before it shows the answer as verified. This
directory holds models of that system, the TLC configurations that check them,
and TLAPS proofs about all of its parts.

Contents: 1 inventory of the system; 2 modules and how they correspond to the
code; 3 runs; 4 bounds; 5 fairness; 6 proofs; 7 where the code and its
documents disagree; 8 what is not modelled; 9 plan.

## 1. Inventory

| Component | State it keeps | Operations | Correct when |
|---|---|---|---|
| Provider job pipeline (`apps/provider`: `nostr/handler.rs`, `dedupe.rs`, `processor.rs`, `main.rs`) | 64 dispatch slots; the bounded queue of claimed request ids; the bounded map of signed results; the semaphore of proving permits; the relay subscription | receive and dispatch an event, replay, claim, take a permit, prove, store, sign and remember, publish; restart | a request is proved once and answered with one event; permits and slots come back; a claim is always settled; a published success can be fetched and is about its own request |
| Soul Wire, Rust side (`crates/soul-core`) | none | parse and validate requests and results | the same events are accepted by both sides, inside the clock windows |
| Artifact store (`apps/provider/src/artifacts.rs`) | files under their SHA-256, temporary files, a process-wide sequence number | `put`, `get` | a visible artifact is whole; an acknowledged one is there; temporary files are owned |
| Artifact HTTP service (same file) | none | `GET` and `HEAD` of a proof | a proof a result names is served |
| Provider configuration (`config.rs`, head of `main.rs`) | the configuration and the key of one process | read the environment, choose the identity | a provider that starts signs results its clients can use |
| Proof engine (`crates/soul-prover`) | the path of the executable and the pinned program hash | `new`, `prove_job` | an artifact is a proof by the reviewed program, and its statement is the true answer |
| Cairo program (`crates/soul-cairo`) | none | `main` with three services | its answers are the ones the services promise, over the field it runs in |
| Browser verifier (`crates/soul-wasm`) | none | `verify_proof` | success means that the trusted program produced the declared statement |
| SDK job (`packages/soul-sdk/src/client.ts`) | the job snapshot, an abort controller, the result subscription and its timeout, the running promise | `start`, `retry`, `cancel`, `run`, listeners | ends verified or failed, leaves nothing open, verified only for a sound proof |
| SDK validation (`validation.ts`, `utils.ts`) | none | validate a request, a result | it agrees with the Rust parsers; a result that passes is bound to the request |
| SDK proof fetch (`proof.ts`) | an abort signal with a timeout and a listener, the bytes so far | download against a signed size and digest | ends with the signed bytes or a rightly classified error, soon after a timeout or a cancellation, and leaves nothing behind |
| SDK client, signer, transport, canonical JSON | the set of the client's jobs, connections of the relay library | `createJob`, `close`, publish, subscribe | a closed client is quiet |
| Web application (`apps/web`) | the loaded verifier, the signer, the client React derives from them, receipts | load, connect, submit, cancel, retry | becomes ready; replaces a client only for a reason; leaks no connections |

How they interact. The SDK publishes a request on the relays and only then
subscribes to results; a provider's subscription delivers the request, possibly
several times, to `NostrEventHandler::start`, which spawns one task per event.
The task shares two locks (claims, completed results) and one semaphore with the
other tasks, calls the proof engine on a blocking thread, puts the proof into
the store, and publishes a result event that names the proof's digest. The SDK
validates the result, fetches the proof from the provider's HTTP service and
hands it, with the statement of the result, to the WASM verifier.

Hard behaviours: tasks interleave between the two locks and around the
semaphore; both caches evict while their entries may still be needed; a restart
loses both but the relays deliver old requests again; a claim survives the
failure of the step after it; `put` is a sequence of file-system calls with
crashes in between; `cancel()`, `retry()`, timeouts and late answers meet at
every `await` of `run()` and of the download, and listeners re-enter the job in
the middle of it; client and provider have clocks of their own, and seconds are
coarse enough for a retry to sign the same event; every wire rule is written
twice, in Rust and in TypeScript, and the bounds on jobs three times; React
renders and cleans up later than its state changes; the executable on disk may
change after its digest was checked; felts wrap silently. `PROJECT.json` lists each
of these hazards at its line with the properties that cover it.

## 2. Modules

The theorems about a module are in a module of the same name with `Proofs` at its
end (section 6); `SoulCairoProofs` has those of `SoulCairo`, `ProofEngine`,
`ProofCheck` and `CairoFibonacci`.

### Provider

- **`SoulWire`** - the clock rules of `parse_request_event` and
  `JobRequestContent::validate` (age, future skew, expiry and lifetime) and of
  the two result parsers. The checks that look at no clock are the one attribute
  `valid` of an event here; `SoulWireEvents` has them.
- **`SignedJobs`** - the pipeline. Each action is what one task does between two
  points where another can run: a lock is released, a permit is taken, or an
  `await` returns. `pc[s]` says where the task in dispatch slot `s` is.

  | Action | Code |
  |---|---|
  | `Dispatch`, `DropEvent` | the notification loop of `start`, with `try_acquire_owned` |
  | `CheckCompleted` | `handle_event` up to the release of the lock on the completed results: parse, replay |
  | `Claim` | `RequestDeduplicator::claim` with its eviction |
  | `AcquireProver` | `try_acquire` of `proving_slots`, or `Busy` |
  | `ProverEnds` | the blocking worker returns, fails or panics; the permit is dropped; `statement_matches_request` |
  | `StoreProof` | `put`, then the checks on the descriptor and the result |
  | `SealResult`, `SealFails` | encoding, size, signing; `remember_result` with its eviction |
  | `Publish` | `send_event` in `dispatch` |
  | `Tick`, `Restart` | the host's clock; `run` of `main.rs` from the start |

  Three history variables are read by no action: `proofs` counts the proofs
  started per request, `forgotten` holds the requests whose claim was evicted or
  lost in a restart, `silenced` the claimed requests whose result was evicted or
  could not be signed.
- **`ProviderSpec`** - what the pipeline promises, without tasks, locks, queues
  and slots: a request is begun once, worked on and settled with at most one
  signed event, a success only over the stored proof of that request, and only
  signed events are sent; a request that was forgotten may start over. `SignedJobs`
  refines it with `begun` as the requests claimed or forgotten, `working` as those
  some task has claimed and not settled, and `results` as every event that is
  cached, on its way to a relay or on one.
- **`MCSignedJobs`** - requests for TLC, one of them ahead of the provider's
  clock and expiring.
- **`ArtifactStoreSpec`** - what the provider may rely on: what is acknowledged is
  available, and availability only shrinks when the host goes down, by at most
  what the disk did not hold.
- **`ArtifactStore`** - `FileProofArtifactStore::put` at the level of single
  file-system calls (`create_new`, `write_all`, `sync_all`, `hard_link`,
  re-check, `remove_file`), each of which may fail, with crashes of the process
  and of the host between any two. It refines `ArtifactStoreSpec` with
  `available` as the digests the HTTP service answers with 200, and `durable` as those
  whose link has been written back. The file system is external; it is modelled
  from what the code asks of it: content is on disk after `sync_all`, a
  directory entry at some later time. `GetArtifact` is what the HTTP service
  answers in a state of the store.

### The wire

- **`SoulWireEvents`** - operators only: `parse_request_event`,
  `parse_result_event` and `types.rs` on one side, `validateRequestEvent`,
  `validateResultEvent` and `utils.ts` on the other, check by check. JSON texts
  are records; `spelled` says whether a text is the canonical encoding of its
  record, and a number in a tag carries its spelling, since the two languages
  differ there. Inputs and statements are flags (`ok`, `valid`, `binds`), because
  `SoulCairo` has their rules and `BoundsAgree` their parity. URLs are records
  with what the two URL policies and `Url::join` look at.
- **`WirePath`**, `MCWirePath` - one request and one result on their way through
  both codecs. `FromEnv` is `Config::from_env` with `read_secret_key` and the URL
  rules; `Start` chooses the identity like the head of `run()`. The SDK signs what
  its options allow and the provider answers what it parses; other programs may
  sign any event in `ForeignRequests` and `ForeignResults`. `MCWirePath` fills
  these sets around every edge of the parsers.

### Proofs and answers

- **`SoulCairo`** - operators only: the bounds on jobs as the SDK
  (`validateJobInput`) and as Rust (`JobInput::validate`) state them,
  `encode_job`, `main` of the Cairo program with its assertions and three
  services, `decode_statement`, and the two checks that bind a statement to a
  request. Next to them stands an independent reference: Fibonacci numbers over
  the integers, and the Merkle root by position instead of by shifting bits.
  Poseidon is a constant operator.
- **`ProofEngine`**, `MCProofEngine` - `VerifiableJobEngine`: the digest check at
  construction, then for each job validation, execution, the loop over channel
  salts, serialization and self-verification, and the binding to the request in
  `ProofProcessor`. The executable may be replaced at any time. The VM and the
  prover are outcomes chosen freely.
- **`ProofCheck`**, `MCProofCheck` - the client's side: `validateResultEvent`, the
  comparison of program hashes in `run()`, and `verify_proof_impl` of
  `soul-wasm`, for any declared result and any proof that a sound verifier can
  accept at the required profile. At a weaker profile nothing is assumed.
- **`CairoFibonacci`** - `compute_fibonacci` with the real 252-bit modulus, as
  limbs of 24 bits, since the small field of the other modules says nothing about
  the real bound; for every n that `main` admits.

### SDK

- **`SoulJob`** - the class `SoulJob`. JavaScript switches only at an `await`, so
  the values of `pc` are the await points of `run()` plus one point for every
  `update()`, where the listeners run synchronously. Whether the listeners call
  back into the job is the variable `reentrant`, fixed for a behaviour.
  `RunStep` is what happens by itself; the other actions are what the application,
  its listeners, the signer and the relays do. `AssertActive` and `Throw` are
  `assertActive()` and the `catch` of `run()`.

- **`ProofFetch`** - extends `SoulJob` with `fetchProofArtifact`. `SoulJob` leaves
  the outcome of a download open; here it follows from a response, a stream of
  chunks and a digest. `Beside` is a step of the job while a download may be in
  progress: it forwards a cancellation if the download listens. The property
  `ImplementsJob` is `SoulJob`'s own fair specification, so the fairness that
  `SoulJob` assumes of a fetch is shown to follow from the timeout.

### Together

- **`SoulSociety`**, `MCSoulSociety` - `SignedJobs` and an instance of `SoulJob`,
  with relays and two clocks in between. Every step of the client is a step of
  `SoulJob` and every step of the provider one of `SignedJobs`; what is added is
  what passes between them: which event a run signs (`BeginRun`), when `publish`
  may return, which results a subscription yields and the callback accepts
  (`DeliverResult`), and that a download needs a stored proof. An event is named
  by the second it was signed in, since its id is a hash of its content. The
  provider's steps wait while `run()` is between two awaits (`Running`): they
  touch nothing it reads there, so each such behaviour equals one with the same
  steps in the other order.
- **`WebTerminal`** - `useSoulTerminal` with the parts of `App.tsx`,
  `wasmVerifier.ts` and the receipts that change state, and the set of jobs of a
  `SoulNostrClient`. `view`, `client` and `effect` say what the last render saw and
  which client the effect in place would close; `Render` and `RunEffects` come
  some time after the state has changed. `pendingVerifier` is the await `load()` is
  at (manifest, its body, the wasm module, its start) or what it settled with;
  `LoadAdvances` is an answer or a failure of that await, `LoadReported` the `then`
  or `catch` that tells React, and `shown` the verifier state on the page.

## 3. Runs

`tlc -workers 2 -config <run>.cfg <module>`; the module of each run is in
`PROJECT.json`. Sizes are distinct states.

| Run | Checks | Shows |
|---|---|---|
| `JobsRace` (858,000) | `TypeOK`, `PermitsConserved`, `SecondProofOnlyIfForgotten`, `OneResultUnlessForgotten`, `ClaimedIsAnswerable`, `PublishedSuccessIsStored`, `CachedResultImmutable`, `ImplementsProvider` | two tasks, two requests, three deliveries, caches of one entry, one permit and a restart anywhere: a second proof or a second result needs a forgotten claim; no claim goes silent; what is on a relay names a stored proof of its own request; refinement of `ProviderSpec` |
| `JobsProgress` (64,000) | `SlotReleased`, `ClaimIsSettled` | liveness across a restart: slots come back and claims are settled |
| `JobsEarlyResult` | `ResultNotBeforeRequest`, violated | a result can be stamped before its request |
| `JobLifecycle` (8,700) | `FetchTypeOK`, `VerifiedIsSound`, `SettledIsTerminal`, `NothingOutlives`, `CancelIsHeard`, `MonotonicUnlessReentrant`, `NoNewWorkAfterCancel`, `RunSettles`, `TerminalOnlyIfDeclined`, `ImplementsJob` | `cancel()`, `retry()`, timeouts and late answers at every await point of the job and of its download; listeners that look on, cancel, retry or throw; a server that is silent, breaks off, damages bytes or never stops; refinement of `SoulJob`'s fair specification |
| `StoreCrash` (455,000) | `StoreInv` (`TypeOK`, `VisibleIsWhole`, `TempsAreOwned`), `ImplementsStore` | concurrent puts, failing calls, reused process ids, crashes of process and host; refinement of `ArtifactStoreSpec` |
| `StoreDurability` | `AcknowledgedIsDurable`, violated | an acknowledged artifact can vanish with the power |
| `EngineJobs` (185,000) | `EngineInv` (`TypeOK`, `ArtifactIsTrusted`), `AnswerIsTrue`, `BoundsAgree`, `JobEnds` | every job around the bounds of a small field, an executable replaced at any moment, a prover that fails on any salt |
| `CheckProof` (37,000) | `VerifiedClaim` | true and false results, proofs of true and false outputs, other programs and weaker profiles |
| `FibonacciWidth` (66,000) | `BoundIsExact` (`NeverWraps`, `BoundIsTight`) | for every n up to 363 no sum wraps, and 363 is the last Fibonacci index below the Cairo modulus |
| `WireParity` (538,000) | `RequestParity`, `SdkRequestAccepted`, `ResultParity`, `ProviderResultUsable` (`ProviderResultAccepted`, `ArtifactBelowBase`, `ProductionIsTrusted`) | every configuration and every edge of the codec: the two request parsers agree, the two result parsers differ in three named places, and what one side makes the other accepts |
| `Society` (1,420,000) | `VerifiedWasProved`, `RefusedOnlyIfFarAhead`, `OldAnswerOnlySameSecond`, `AnswerIsReceived` | a job against a provider on two clocks, with retries, timeouts, duplicates and a restart |
| `WebTerminal` (24,000) | `TerminalInv` (`TypeOK`, `ClosedClientIsQuiet`, `ConnectionsAreOwned`), `ReplacedOnlyIfOverlapped`, `LoadOutcomeIsShown`, `TerminalBecomesReady` | three clicks on the signer button and two jobs, with renders and cleanups that lag, and a verifier that fails at any of its steps or never loads |

Deadlock is not checked in any run: a provider with no events left, a job that is
verified or whose signer never answers, a store with no put to do, a finished
check and a page nobody clicks on all rest legitimately. That they do not rest
too early is what `SlotReleased`, `ClaimIsSettled`, `RunSettles`, `JobEnds`,
`AnswerIsReceived`, `LoadOutcomeIsShown` and `TerminalBecomesReady` are for.

Each property of a passing run has a mutant in `PROJECT.json`: a changed form of
a mapped definition, kept next to the original under a comment that begins
"Mutant:", which makes TLC refute the property. Where a
property is a conjunction of named parts, its mutant breaks one of them. The mutants are used by no
specification.

## 4. Bounds

- **Provider.** Two requests and two slots give every race between two tasks,
  on the same or on different requests; three deliveries allow the longest
  interesting sequence (a request, another that evicts it, the first again)
  also across one restart. `Capacity = 1` makes every new claim and result evict.
  One permit makes
  the second task busy. Ages and skews of one second and a clock of up to two
  put a request before, inside and after its window. Slots are symmetric and
  appear in no liveness property of the run that uses the symmetry.
- **Store.** Two digests, two writers, three puts and one crash: two concurrent
  puts of one digest, and a third by a process that follows the crash and meets
  its temporary files. Process ids come from a set of two, so that they are
  sometimes reused.
- **SDK.** One retry of each kind reaches the first, a repeated and the last
  attempt; two calls of `retry()` reach the case of two that wait for the same
  run. A proof of three bytes in chunks of zero to two is read in several turns
  and met, missed and passed by its last chunk; chunks of zero make streams that
  never end.
- **Wire.** A largest safe integer of 6 and a largest `u64` of 7, with numbers up
  to 8 around them; ages, skews and lifetimes of one to three seconds. The
  checks of a parser are a conjunction, so `MCWirePath` varies the envelope of
  an event with the content fixed and the content with the envelope fixed, and
  not both at once. Two services tell a match from a mismatch.
- **Society.** The client's clock is two seconds behind to one ahead, with an
  allowed skew of one: level, inside and outside the window on one side, and
  ahead on the other. One retry gives two runs, in the same second or in
  different ones; two deliveries and one restart answer a run twice, or first
  with "busy". `ResultTimeout` is free, so a run may give up at any moment.
- **Web.** Three calls allow two that overlap and one after them; two jobs, one on
  each of two clients.
- **Engine and check.** A field of 11 elements, `u64` of 8 values, Fibonacci up
  to 6 (F(6) = 8 is the last one below 11, so the bound is as tight as the real
  one), Merkle depth up to 2. The jobs reach past each bound. Poseidon is
  replaced by a function that distinguishes its arguments' order and has
  collisions. Salts are two of the code's several.

Bounds are constants of the modules (`MaxDeliveries`, `MaxRestarts`, `MaxNow`,
`MaxRetries`, `MaxPuts`, `MaxCrashes`) and stand in guards. What is a theorem
(section 6) does not depend on them.

## 5. Fairness

- `SignedJobs!FairSpec`: weak fairness of the steps of each task. A spawned
  tokio task is polled until it returns; the blocking worker and the file system
  return; the relay client bounds `send_event` with its own timeout. Nothing is
  assumed of the relays, of the clock or of restarts.
- `SoulJob!FairSpec`: weak fairness of `RunStep`. Publishing is bounded by the
  relay library's timeout, a fetch by `proofTimeoutMs`, a delay and the wait for
  a result by `setTimeout`, and verification is a computation. A signer may wait
  for its user for ever, and no provider has to answer, so neither is fair.
- `ProofFetch!FairFetchSpec`: weak fairness of the browser's own steps and of
  the timeout. The server is not fair, and it may also send for ever.
- `SoulSociety!FairSociety`: weak fairness of `DeliverResult` alone, a relay that
  holds a matching event sends it to an open subscription. No timer, no signer
  and no delivery of requests is fair, so `AnswerIsReceived` is about answers
  that exist.
- `WebTerminal!FairSpec`: React renders and runs effects, and the reactions of
  a settled promise run. The server is not fair: no await of `load()` has a
  timeout, so `LoadOutcomeIsShown` is about a `load()` that has settled. The user
  and the extension are not fair either.
- `ProofEngine!FairSpec`: weak fairness of the worker thread; whether any
  attempt succeeds stays open.

## 6. Proofs

Every safety invariant and action property that a run checks is also a theorem,
for every value of the constants that satisfies the named assumptions. Each
assumption is evaluated by TLC in the run of its module. Eight modules hold the proofs, one for each part of the system.

| Module, theorem | Property | Says |
|---|---|---|
| **`SignedJobsProofs`** `TypeCorrect` | `TypeOK` | neither cache outgrows its capacity |
| `PermitsAlwaysConserved` | `PermitsConserved` | free permits and running proofs add up to `max_concurrent_proofs` |
| `ClaimsAlwaysHold` | | `ClaimInv`, the inductive invariant of the claim protocol |
| `AtMostOneProof` | `SecondProofOnlyIfForgotten` | a request is proved twice only if its claim was forgotten |
| `AtMostOneResult` | `OneResultUnlessForgotten` | until then, everything cached, replayed or published for it is one event |
| `ClaimedAlwaysAnswerable` | `ClaimedIsAnswerable` | a claim is worked on or answered, unless a result was evicted or a signature failed |
| `PublishedAlwaysStored` | `PublishedSuccessIsStored` | a success on a relay names a stored proof of its own request |
| `CacheNeverReplaces` | `CachedResultImmutable` | no step replaces a cached result |
| `ProviderImplements` | `ImplementsProvider` | the pipeline implements `ProviderSpec`, step by step |
| `PromiseSuffices` | | whatever implements `ProviderSpec` has one result per request that is not forgotten, and publishes no success without its stored proof |
| **`SoulJobProofs`** `VerifiedAlwaysSound` | `VerifiedIsSound` | verified only for a sound proof, and never after a cancellation |
| `SettledAlwaysTerminal` | `SettledIsTerminal` | a run that is over left the job verified or failed |
| `JobAlwaysClean` | | it left no subscription or timer behind |
| `JobIsMonotonic` | `MonotonicUnlessReentrant` | the lifecycle only moves forward, if listeners only look |
| `CancelledJobRests` | `NoNewWorkAfterCancel` | a cancelled job begins nothing new, if listeners only look |
| **`ProofFetchProofs`** `FetchTypeCorrect` | `FetchTypeOK` | bytes past the signed size are never kept |
| `NothingEverOutlives` | `NothingOutlives` | no timeout, listener or subscription outlives its run or download |
| `CancelAlwaysHeard` | `CancelIsHeard` | `cancel()` reaches a wait and a download at once |
| `OnlyServerIsTerminal` | `TerminalOnlyIfDeclined` | a download ends the job for good only because of what the server sent |
| `FetchImplementsJob` | | `FetchSpec => Spec`: the job with its chunks implements the job without; `FetchKeepsJobSafe` carries the results of `SoulJobProofs` over |
| **`ArtifactStoreProofs`** `StoreAlwaysSafe` | `StoreInv` | visible files are whole, temporary files are owned, through any crashes |
| `StoreImplements` | `ImplementsStore` | `put()` implements `ArtifactStoreSpec`, step by step |
| **`SoulCairoProofs`** `EngineAlwaysSafe` | `EngineInv` | an artifact is a verified run of the reviewed program |
| `AnswerAlwaysTrue` | `AnswerIsTrue` | its statement is the true answer to the job |
| `BoundAlwaysExact` | `BoundIsExact` | `compute_fibonacci` wraps at no step for any admitted n, at the real modulus, and 363 is the last such bound |
| `RealFieldFits` | | `FieldAssumption` holds of the real modulus and bound: F(363) < 2^251 + 17 * 2^192 + 1 < F(364) |
| `BoundsAlwaysAgree` | `BoundsAgree` | the bounds of the three languages agree |
| `VerifiedAlwaysClaims` | `VerifiedClaim` | what the browser verifies was produced by the trusted program for the client's own job |
| **`WirePathProofs`** `RequestsAlwaysAgree` | `RequestParity` | the two request parsers accept the same events |
| `SdkRequestsAreAccepted` | `SdkRequestAccepted` | only a clock can make the provider refuse what the SDK signs |
| `ResultsAlwaysUsable` | `ProviderResultUsable` | a provider that starts signs results its clients can use |
| `ResultsAlwaysAgree` | `ResultParity` | the two result parsers differ in three named places |
| **`SoulSocietyProofs`** `SocietyRunsProvider`, `SocietyRunsJob` | | each side of the composition runs its own specification |
| `VerifiedAlwaysProved` | `VerifiedWasProved` | what a client shows as verified, the provider proved for that very request |
| `RefusalNeedsSkew` | `RefusedOnlyIfFarAhead` | only a provider far ahead has its answers refused |
| `OldAnswerNeedsSameSecond` | `OldAnswerOnlySameSecond` | an old answer needs two runs in one second |
| **`WebTerminalProofs`** `TerminalAlwaysSafe` | `TerminalInv` | a closed client is quiet and its connections are accounted for |
| `ReplacedNeedsOverlap` | `ReplacedOnlyIfOverlapped` | a client is replaced only after overlapping clicks |

Hardly any of these properties is inductive as it stands. What each proof adds:

- **Provider.** Nothing in `SecondProofOnlyIfForgotten` says why a task that is
  about to start a proof is the first to do so. `ClaimInv` collects the reasons, for
  requests that are not forgotten: a task between claim and result has its
  request in `claims`; there is at most one such task; before it starts a proof
  none has been started; a request with a proof is claimed; and a request with a
  result event anywhere - cached, on its way to a relay, or on one - is claimed
  and worked on by nobody. `forgotten` makes it inductive in spite of the
  evictions: when `PushBounded` or a restart drops an id from `claims`, the id is
  forgotten in the same step and every conjunct about it becomes void. `SuccessInv`
  follows a proof from the prover through the store and the signature to the
  relays. `ClaimedIsAnswerable` and `PermitsConserved` are inductive with the types
  alone, with lemmas on how a step changes the set of tasks at work. Most actions
  change nothing an invariant reads; lemmas such as `QuietStep` do them at once.
  The refinement of `ProviderSpec` rests on both invariants: `Claim` begins a
  request that was not begun because begun means claimed or forgotten
  (`ClaimBegins`); a task that signs or gives up ends the work on its request
  because no second task has it, unless it is forgotten (`WorkEnds`, from
  `ClaimInv`); and what it signs as a success was stored before (`SealSigns`, from
  `SuccessInv`). `PromiseSuffices` goes the other way: from the steps of
  `ProviderSpec` alone, with the invariant that an event of a request that is not
  forgotten ends the work on it, follow the two properties a client relies on. The
  invariant `ClaimInv` is in no run of its own; two of its conjuncts, and the
  refinement that needs the others, are checked by `JobsRace`.
  Assumptions: `WireLimits`, `JobsAssumption`.
- **SDK job.** `JobInv` says, for each await point, what the snapshot can look
  like there: the attempts (`AttemptsInv`), how state, failure and the abort signal
  fit together (`FailureInv`, which spells out the one window in which an update
  overwrites a cancellation), what the result is past its arrival (`ResultInv`),
  when the subscription and the timer exist (`WaitInv`), and for listeners that
  only look the exact state for each place (`QuietInv`), from which the two action
  properties follow. Assumption: `JobAssumption`.
- **Download.** Every step is one beside the download, its beginning, its going on
  or its end (`FetchStepKinds`), and each of these is a step of `SoulJob` or none;
  that is the refinement. `FetchInv` adds that a download lives exactly at the
  await of its attempt. Assumption: `FetchAssumption`.
- **Store.** `VisibleIsWhole` survives a loss of power only because a file that is
  linked was synced before, and `TempsAreOwned` because a process never uses a
  sequence number twice: `LinksInv` and `PathsInv`. Each file-system call then maps
  to an abstract step or to none. Assumption: `StoreAssumption`.
- **Cairo program, engine and verifier.** The loops of the program are recursive
  functions, and what they compute for every input needs induction. The library's
  induction rules take an operator, which the provers cannot instantiate; but the
  library also says that `<` is well founded on `Nat`, and from it
  `SoulCairoProofs` derives an induction about sets (`LeastNatural`, `Induction`)
  and the existence of recursively defined functions (`RecursiveFunction`). With
  these: powers of two grow, `compute_fibonacci` is exact up to the bound
  (`ComputeFibonacciIsExact`), and `compute_root` with its shifted index is the
  Merkle root by position (`ComputeRootIsRoot`), for every field, hash and
  depth. Lemmas on words (`WordLayout`) show that `decode_statement` reads back
  what `main` writes. The invariant of the engine is that a trace of the reviewed program is
  the run of the job (`TraceInv`) and that any other trace, and any failure that
  blames the job, needs a replaced file (`FileInv`). Assumptions:
  `CairoAssumption`, `JobAssumption`, `EngineAssumption`, and `FieldAssumption`,
  which says that the largest admitted Fibonacci number is below the modulus. That
  the real modulus and the real bound satisfy it is itself proved (`RealFieldFits`).
- **Full width.** `Value` is the number that eleven limbs stand for. `LessByValue`
  says that `Less` compares numbers, `PlusValue` that the limbs and carries of
  `Plus` make up the sum, as long as the top limb has room (`TopLimb`). F(363) and F(364)
  are reached from F(0) in strides of forty (`FibonacciJump`, the addition formula), and the
  result is compared with the modulus (`FibonacciAtBound`). `WidthInv` then says that
  `a` and `b` stand for F(i - 2) and F(i - 1). tlapm folds arithmetic on literals
  in machine words, so the proofs multiply literals by variables only and pin a
  large value between two inequalities.
- **Wire.** `BidIsLast` says where `request_tags` puts the bid, so that a tag list
  that equals its own re-encoding has the bid in the one spelling both languages
  read (`SameBid`), although Rust alone would take others. `SameWindow` and
  `SameContent` are about saturating against plain subtraction and about safe
  integers; `JoinedUrl` is `Url::join` on bases with and without a slash. `WireInv`
  says where request, result and key come from. Assumption: `WireAssumption`,
  clocks that stay away from 2^53 and events whose numbers parse.
- **Composition.** Every step of `SoulSociety` is a step of `SignedJobs` or leaves
  it alone, and the same for `SoulJob`; so the theorems about both hold there.
  `OriginInv` ties what the provider works on and answers to what some run has
  signed, `AcceptedInv` ties what the run goes on with to a published answer.
  `VerifiedAlwaysProved` is then three facts of three modules put together.
  Assumption: `SocietyAssumption`.
- **Web.** `RenderInv`, `ClosedInv`, `JobsInv` and `OverlapInv` relate the signer, the
  client of the last render and the client the effect in place would close;
  `VerifierInv` says that React only hears what `load()` settled with.
  Assumption: `TerminalAssumption`.

Only model-checked:

- The liveness properties `SlotReleased`, `ClaimIsSettled`, `RunSettles`, `JobEnds`,
  `AnswerIsReceived`, `LoadOutcomeIsShown` and `TerminalBecomesReady`, and the fairness
  half of `ImplementsJob`: fairness and `ENABLED` are out of the prover's reach.
- The two properties the code violates (section 7).

## 7. Where the code and its documents disagree

Two disagreements have a run of their own:

1. `docs/protocol.md:201`: "Result timestamps MUST be at or after the request
   timestamp". A provider whose clock is behind accepts the request, within the
   allowed skew, and signs the result with its own clock (`JobsEarlyResult`);
   the SDK discards it. `AnswerIsReceived` says for which clocks no answer is
   lost.
2. `artifacts.rs:31`: "Metadata returned after an artifact is durably stored."
   The file is synced and its directory is not (`StoreDurability`). What does hold
   is `ImplementsStore`: an acknowledged proof is served until the host goes down,
   and after that if its link had been written back. `VisibleIsWhole` holds in
   any case.

Others are settled by the exact condition under which the sentence holds:

3. `handler.rs:42`: "Duplicate deliveries return `Ok(None)` and cannot trigger a
   second proof." They can, once newer claims have evicted the claim, even while
   its proof is still running. The theorem `AtMostOneProof` says that this, or a
   restart, is the only way.
4. `docs/architecture.md:190`: "completed duplicates replay the exact cached
   signed result". Claims leave in the order of arrival and results in the order
   of completion, so a request that is still claimed can have lost its result,
   and then its duplicates are neither replayed nor proved again. That needs an
   eviction or a failed signature (`ClaimedIsAnswerable`).
5. `docs/architecture.md:142`: "The lifecycle is monotonic". A listener that
   calls `cancel()` during `update()` makes the job fail and then go on, since
   `run()` does not look at the signal between two updates with no `await`.
   `MonotonicUnlessReentrant` is the claim for listeners that only look. The same
   re-entrance lets `waitForResult` open a subscription after the cancellation,
   which is closed when the timeout ends the run (`SettledIsClean`), and lets a
   download start that no longer hears of the cancellation and runs to its end or
   its timeout (`CancelStopsDownload` has the same condition). A cancelled job is
   never shown as verified in any case (`VerifiedIsSound`).
6. `ReceiptLedger.tsx:132`: the button says "Retry as a new signed request".
   Within the second of the failed run it signs the same event, and the provider
   replays the answer it has (`OldAnswerOnlySameSecond` says that this is the
   only way to meet an old answer).
7. A retried job of a client that was closed opens connections that nothing
   closes (`ConnectionsAreOwned` names exactly these).
8. The SDK takes any host below `localhost` for a loopback and refuses
   credentials and fragments in proof URLs; `soul-core` does neither. No provider
   that starts produces a URL in the difference (`ProviderResultAccepted`).
9. No document promises that the verifier loads. `load()` has no timeout and its
   promise is kept: a silent server leaves the page at "loading", and a failure
   lasts until the page is reloaded (`LoadOutcomeIsShown`).

## 8. Not modelled

- Signatures, the texts of canonical JSON, byte sizes of events and felt texts:
  one attribute each.
- The Cairo VM, STWO, Poseidon, SHA-256, Nostr relays, the browser's fetch, React
  and the file system: only what the code uses of them, as parameters or as free
  outcomes.
- Reconnection inside the relay libraries.
- The in-memory store, used by tests; the manifest generator, which runs the same
  engine without a pinned hash; the wrappers around the signer; the fields of the
  form, the static sections, scripts, containers and examples.
- The eviction of `seen` in `waitForResult` after `MAX_DEDUPE_ENTRIES` results: an
  evicted result would be looked at a second time.
- Two proofs with the same SHA-256 digest.

## 9. Plan

Order of work; all but the last item are done.

1. Provider pipeline with its claim protocol and permits; type correctness,
   permits and the claim invariant proved.
2. SDK job, artifact store with its abstract specification.
3. Cairo program, engine and verifier against a reference.
4. Both codecs of Soul Wire with their parity, and the provider's configuration.
5. The composition of client, relays and provider on two clocks.
6. The download inside the job, and the web application around it.
7. Proofs of the safety invariants, action properties and refinements of all
   parts.
8. The provider's promise as an abstract specification, refined by the pipeline;
   the Fibonacci bound proved at the width of the real field.
9. **Open**: `SoulSociety` over `ProofFetch` instead of `SoulJob`, which
   `FetchImplementsJob` now allows; and the safety arguments behind the liveness
   properties (for each waiting point, that some fair step can be taken) as
   invariants, so that TLC is needed only for the fairness itself.
