# executor-node in TLA+

`executor-node` is the gateway of the Entros protocol: a Rust/axum service that
authenticates integrators, issues challenges, charges attempts and quotas,
forwards captures to a private validator, scores the answers, issues
attestations (SAS) and relays proofs to Solana.  It keeps all of its own state
in memory, in concurrent maps shared by the tokio tasks of all requests and by
background sweeps; a restart forgets it.  This directory models that state and
the handlers that change it.

## Inventory

| Component | State | Operations | What makes it correct |
|---|---|---|---|
| Challenge registry (`challenge/registry.rs`) | per wallet: the nonces issued and unexpired, and a pointer to the newest | issue, peek (exact, legacy), consume (exact, legacy), sweep | a nonce is accepted at most once and only while fresh; a fresh one is never lost; the pointer is the newest held; abandoned nonces leave |
| Wallet attempts (`integrator/wallet_attempts.rs`) | per wallet: slots consumed, start of the window | check and record, refund, sweep | a counter equals the slots held; failures stay within the cap |
| Integrator quota (`integrator/tracker.rs`) | per API key: used, quota | check and deduct, auto-register, refund | a count equals the unreturned charges; no more verdicts than quota |
| Validation pipeline (`validation/handler.rs`, `authorization.rs`) | per request: progress, guard, nonce | look-up, screening, admission, identity, consumption, forwarding, settlement | each outcome leaves exactly the charges it calls for, on every error path and on cancellation |
| Paired sessions (`paired/`, `server.rs`, `timing.rs`) | a semaphore of finalize slots; the instant a request's body was read | open, commit, cue (relays), finalize behind its layers | a finalize is charged like a capture; a slot is always given back; no answer precedes the floor |
| Probing blocklist (`validation/handler.rs`) | per client IP: the end of its block | insert, check, sweep | a block lasts until it runs out (one that is read as it expires can take its successor away: see `probing`) |
| Attestation (`attestation/`) | the wallet's attestation account on chain | consume challenge, read identity, close, create, with retries | one creation per gap; what stands was fresh; an attested wallet stays attested; every request is answered |
| Verify relay (`relayer/`, `solana/client.rs`) | per key: the commitments seen; transactions on chain | record commitment, deduct, submit with retries, refund | an answer is charged as it should; a verification lands once; a commitment is new once |
| Rate limiters (`auth/rate_limit.rs`) | per key or IP: a GCRA limiter and when it was last seen | check, sweep | forgetting a limiter gives nobody a fresh burst; the table stays near its bound |
| Cross-wallet cooldown (`auth/cross_wallet_cooldown.rs`) | per footprint: the last wallet and when | check, sweep | another wallet waits for the cooldown |
| Composite score (`validation/composite.rs`, `config.rs`) | the policy resolved at startup | resolve, weigh risks, reject, friction | a worse capture never fares better; a served policy can reject |
| Projection intent (`validation/handler.rs` 39-160) | none | derive the write from the account and the request | only a session writes a baseline, and never over a later projection |
| Configuration and startup (`config.rs`, `main.rs`) | the configuration resolved, and how far `main` is | read the environment, ask the chain, check, bind | nothing that serves in production decides with what is unsigned or a stand-in |
| Routes and layers (`server.rs`, `auth/api_key.rs`) | per request: the layers it has not met | size, address, key, slot, body, key limit, in the order of each group | a caller without a key costs nothing but the budget of its address |
| Study relay (`study.rs`, `upstream.rs`) | a semaphore of requests in flight | take a permit, ask the limiter, forward, answer | a permit is given back once, however the request ends |
| Errors and padding (`error.rs`, `padding.rs`) | none | render a variant, pad it | refusals the service words are of one length |
| Status (`status/`) | the relayer's balance and when it was read | read through, expire | a balance told is recent, whoever writes last |
| Wallet reputation (`reputation/`, `validation/handler.rs`) | a semaphore of readings | four reads under a timeout, a risk of them | a risk is that of what was read, what failed is not held against the wallet, and no reading holds a verdict up |
| Event listener (`listener/event_monitor.rs`) | the back-off | subscribe, wait, come back | it comes back |
| Curve trace (`challenge/curve_trace.rs`) | none | proximity and alignment of a trace | the shortcut of the search loses nothing |
| Signed captures (`validation/authorization.rs`) | none | digest a request, verify its signature, forward it | what runs is what was signed |
| Foreign accounts (`attestation/sas.rs`, `validation/handler.rs`) | none | read an identity, a credential | what is read is what was written, or nothing |
| Setup scripts (`scripts/`), `local_http_fixture.rs` | none | one-shot commands of an operator | not modelled |

How they interact: a capture or session finalize goes through the pipeline,
which reads the registry and the blocklist, charges the attempt and quota
trackers, awaits the Solana RPC and then the validator, and settles the charges
by what came back.  `/challenge` and `/attest` use the registry at the same
time, `/verify` the quotas.  The sweeps of `main.rs` run beside all of it.  What is
served at all, and behind which layers, was settled at startup; the study and paired
rounds pass through to the validator with what it answers; each refusal, from a layer
or a handler, leaves through the same rendering and padding.

What is hard: the handlers interleave at every lock and await; a future may be
dropped at an await, and the drop of its budget guard, or of a granted permit,
has work to do; the trackers forget which window or entry a charge belongs to; a
look-up and its consumption lie seconds apart; checks are two or three accesses
and refunds two; transactions land after their senders gave up; memory must be
given back, and a sweep must not give anything else away; layers compose inside-out; checks at startup straddle
answers of the chain.  `PROJECT.json` lists each hazard at its line.

## Modules

| Module | Models |
|---|---|
| `ChallengeRegistry` | the registry, its sweep, time and a restart |
| `NonceLedger` | what the registry promises: single-use nonces, without entries or pointers |
| `WalletAttempts`, `IntegratorTracker` | the operations of the two trackers, for their callers to compose |
| `ValidationPipeline` | both capture handlers over the three stores and the blocklist |
| `CommitmentRegistry` | the commitments seen per key, for `VerifyRelay` to compose |
| `VerifyRelay` | `/verify`: registry, quota and the submission loop over the cluster |
| `Attestation` | `/attest`: the issuer and its transactions over the cluster, against the wallet's own account |
| `RateLimiter` | the two limiters of `rate_limit.rs`, for `SessionGate` to compose |
| `Allowance` | what a limiter promises: a debt per key, forgotten never |
| `SessionGate` | `POST /validate-session` in its layers: limiter, authentication, slot, body, key limit, handler, floor |
| `CrossWalletCooldown`, `RiskPolicy`, `ProjectionIntent` | the cooldown's operations; the score and the intent as operators |
| `CaptureScreening` | the start of the process, and what both capture handlers decide of a capture on its merits |
| `Startup` | from an environment to a served deployment: `Config::from_env` and the checks of `main` |
| `Responses` | the length of a refusal as it is sent, for `Service` to compose |
| `Service` | a deployment that starts, serves and stops: routes, layers, handlers that forward, study permits; extends `Startup` and `Responses` |
| `BalanceCache`, `WalletReputation`, `EventMonitor` | the status balance, the reputation of a wallet, the log listener |
| `CurveTrace`, `Authorization`, `ChainAccounts` | the score of a trace, the signed digest, the layouts of foreign accounts |
| `Readers` | composes the six above, of which one moves in a behaviour |
| `MC*` | the instances TLC checks; one cfg per run (`MCExecutor` is `MCService` and `MCReaders` in one) |
| `*Proofs` | theorems, for every value of the constants |

**ChallengeRegistry.**  `entries`, `byNonce` and `current` are the DashMap, its
`by_nonce` and `current_legacy_nonce`.  Age stands for the issue instant; it
stops one past the lifetime, where nothing changes any more.  `owner`, `newest`
and `accepts` are history.  A phrase and a curve never part from their nonce
and are not modelled apart.  `Issue`, `Consume` (both paths) and `EvictStale`
are whole critical sections of the code.  The sweep takes all wallets at once:
`retain` goes entry by entry, but wallets share nothing.

**ValidationPipeline.**  A request is a task with a program counter, and an
action is what a handler does between two points where another task may run:
`Arrive` (authorization and peek), `CheckBlock`/`ClearBlock` (the two accesses
of `check_probing_block`), `ScreenOut`, `TakeSlot`, the three accesses of
`check_and_deduct` (`FindKey`, `RegisterKey`, `TakeQuota`), `GiveBackSlot`,
`RejectIntent`/`ReadIdentity` (after the RPC await), `ConsumeNonce`, `Forward`,
`ReceiveAnswer`/`LoseAnswer` (after the validator await), the three settlements,
and the two accesses of a refund.  `guard` is the `refund_pending` flag of
`PreForwardBudgetGuard`; `Leave` ends the future and runs its drop.  `Cancel` is
the client going away at an await.  The paired finalize shares every step but
the challenge; it may write a baseline and be told to retry.  `quotaHeld`, `slot`
and `forwarded` are history: `slot` tells a slot of the current window (`held`)
from one whose window was replaced (`stale`) and a refund made from one of those
(`late`).  Answers of the RPC, the validator and the composite score are choices,
and so is the refusal of the cooldown or of the WebDriver flag: `CaptureScreening`
has those.

**VerifyRelay.**  The same style for `verify_handler`: `Record` (check_and_record),
the three accesses of `check_and_deduct`, `CheckShape`, and the submission loop of
`send_verification_tx` (`FetchBlockhash`, `Send`, `Confirm`, `FailAttempt`), then
`Refund`.  There is no guard here: a dropped future keeps its charge.  The cluster
is external: a transaction sent pends until it lands or is dropped, at any time,
and `Land` admits one transaction per nonce, because `create_challenge` creates
the account of that nonce.  `NonceOf` says where the code draws it: once per
submission, outside the loop.  `charged` and `novel` are history.

**Attestation.**  `attest_handler` and `issue_attestation`: a request consumes the
wallet's challenge (`Consume`), reads the identity and judges its age
(`ReadIdentity`, `Fresh`), looks for an attestation (`FindExisting`), builds a
create, or a close and a create in one transaction (`Instructions`), and submits it
like the relay.  A refusal is `forbidden` before the challenge is spent, `unfit` when the
identity is missing or old; what the loop and the reads answer is told apart as in the
code: `unavailable` is `SolanaRpcUnavailable`, of a read or of a last attempt that got no
blockhash, `failed` is `TransactionSubmissionFailed`.  The clock of the chain, the wallet's own verifications (`Verify`)
and the cluster are external.  `Land` executes a transaction against what stands
then: a create fails when something stands, a close when nothing does.

**RateLimiter and SessionGate.**  `check` is two accesses, `RoomFor` and `Enter`;
a tick is the time a limiter needs to regain one request, and `debt` is what it has
let through and not regained.  A client of the gate passes `LookUp` and `Enter` (the
limiter per address), `Acquire` or the bounded queue of the semaphore
(`TakeGranted`, `StopWaiting`), `ReadBody` or `FailBody`, `CheckKey`, and `Return`,
which gives the slot back, and then sleeps until `Respond` is due.  `CancelHolding`,
`CancelGranted` and `CancelAsleep` are the client going away with a slot, with one
granted but not taken, and with none.  The semaphore and `governor` are external:
`GiveBack` hands a slot to the first waiter.  At most `Workers` tasks are between
the two accesses at once, which is what the runtime's threads allow.

**CaptureScreening.**  The other half of `ValidationPipeline`, which takes as
choices what is decided here.  `Start` is `resolve_scoring_config`: it serves with
an accepted policy, with `Development`, or not at all.  A client presents captures
one after another: `FindFootprint`, `Measure` and `RecordWallet` are the three
accesses of `check_cooldown`, `Screen` the WebDriver flag, `ReadIdentity` the
intent and the checks after it, `Judge` the score made of the validator's answer,
the client's signals and the reputation read; whatever else ends a request is
`Leave`.  Weights are in parts of ten and risks in quarters.  `admitted` and
`since` are history.

**Startup and Service.**  `Startup` follows `main`: an environment is accepted by
`from_env` or not, and three answers of the chain (the cluster, the relayer's balance,
the credential's signers) stand between it and the listener, each a choice.  The two
dozen variables that decide what is served are kept by what their parsers tell apart:
some refuse what they cannot read (`Strict`), some take the default (`Lenient`,
`FlagDefault`).  In `Service` a client's request carries the layers it has yet to meet;
`Layers` gives them for each group of routes, outermost first, as `verify_group` and
`create_router` stack them, and each is one action.  `Work` stands for the handlers
that have modules of their own, down to the refusals they may give; the handlers that
forward are whole (`ForwardRound`, `ForwardStudy` and their answers).  `cost` and
`reply` are history: what a request has used of the service, and whether the service
worded the refusal it got and how long that came out.  `Cancel` drops a request
anywhere, `Stopping` all of them.

**Readers.**  `BalanceCache` has the two accesses of the cache apart, with the read of
the chain between them; `WalletReputation` has the gate, three joined reads and the
identity read after them, each to arrive, fail or hang, under one timeout;
`EventMonitor` is its loop.  `CurveTrace` scores an outline against its curve, with the
search that gives up a pass early next to one that does not; points lie on a line with
whole coordinates.  `Authorization` keeps the encoding as it is and takes the hash as
one-to-one: a wallet signs a capture, anyone presents that or another.
`ChainAccounts` writes an account in cells, to any base and widths, cuts it anywhere,
and reads it as the code does.  They share no state: in a behaviour one of them moves.

The quota tracker is one store in the program.  `ValidationPipeline` and
`VerifyRelay` each compose it with their own requests; neither reads more of it
than the lines modelled, so a request of the other is one more charge on the key.

## Runs

| Run | Question | Instance |
|---|---|---|
| `registry` | single use, pointer, freshness, eviction, refinement of the ledger | 2 wallets, 3 nonces, lifetime 1: an old, a current and a new nonce of one wallet meet both paths, the sweep and a restart |
| `captures` | are charges settled as each outcome calls for, is every request answered, and idle memory given back? | a capture and a session race for one wallet with cap 1 and one unknown key with quota 1, so that a second deduction is refused; window 1, so slots outlive their window; no integrator configured, every deployment |
| `nonces` | what reaches the validator as authorized, and is the quota exact? | 2 signed captures of 2 wallets, 2 challenges, lifetime 1, either may name either; `/attest`, sweep and clock interfere; live challenge required or not; both charged to one integrator |
| `relay` | are verifications charged as answered, landed once, new once, always answered? | 2 requests, quota 1, room for 1 commitment of 2, 2 attempts, no integrator configured: the same commitment races, or one displaces the other |
| `attestation` | is what stands fresh, created once, never lost, truly answered, and is everyone answered? | 2 requests of one wallet, 2 attempts each, age limit and skew 0, a clock of two instants and a cluster ahead by one: readings age between any two steps, creations and renewals race |
| `gateway` | are slots, bodies, floor and table kept, and is everyone answered? | 3 clients at 3 addresses, coming again, 1 slot, room for 1 address, 2 threads, burst 2 |
| `screening` | does the cooldown hold, is every accepted policy ordered and effective, are baselines safe? | a client with captures and one with sessions, 2 wallets, 2 footprints and room for 1, 5 bundles at the corners of acceptance, versions 0 to 2 |
| `service` | what serves, who pays, which permits, how long are refusals; and is each reader right? | 2 clients on every route of 3 deployments, one study permit; every environment one variable away from one of the three starts, or does not; 2 readers with a cache of two seconds over a clock of five, one reading at a time; all traces of up to 4 points and some of 6 over a curve of 6; captures that differ in two neighbouring fields; accounts to the base 4 |
| `probing` | finding: a block runs its course | 3 captures from one address, a quota of 3 |
| `cap` | finding: failures within the cap | 3 captures, cap 1 |
| `free_tier` | finding: exact quota of an unknown key | 2 captures of 2 wallets |
| `observe` | finding: the reputation read decides nothing | as `screening`, with one ordinary bundle |

`IdleWalletsEvicted`, in `captures`, is about wallets whose charge was refunded; one
that failed and stays away is kept (see "Other observations").  `NovelOnce`, in `relay`, is about commitments
while they are remembered; a registry at its capacity forgets them all, and what was
forgotten is new again.  `SwapWaits`, in `screening`, lets those pass who found
the map of footprints full, as the code does on purpose.

The bounds suffice because charges and slots are compared between two
requests of one wallet or key, with a limit of one that the second meets; a challenge is used by one request and lost to another; and every
age is compared with a single limit, so a limit of one shows "within", "at" and
"past" it.  The exceptions are the limiter, whose entry must outlive a debt of two to
tell a debt from a visit, and the cooldown, where a refresh in the middle of it
matters: two ticks each.  A verdict compares two captures, so two clients are
enough; the risks are at the ends of their range, where caps and thresholds bite.
In `screening` the wallets and the footprints are symmetric (the run has no liveness
property).  Deadlock is checked
in all runs but those of `CaptureScreening`, where a process that refuses its
configuration exits.  In `service` the deployments called are production, an alternate
program beside it, and a development build without a validator: between them every
route is served, closed and missing its upstream.  Two clients suffice for one permit
that is held and one refused; the layers have no shared state here (the limiters and
the slots have theirs in `gateway`).  A wallet's balance and signatures are read as
none, enough and more; a clock of five seconds shows a cache of two seconds twice
expired.  The longest traces are over `MaxPoints`, so that they are cut and
subsampled; the account cells have two digits where their order matters.
The gateway run has 123,000 states, the attestation run 167,000, the service run
213,000, the screening run 225,000 and the nonces run 1.2 million; the longest takes a
little over two minutes.  Two requests do not fill a window, and an unknown key is never
refused in the passing runs of the pipeline: what more of them do to the counters is in the
proofs of `QuotaConserved` and `SlotsConserved`.  A probing block lasts a day, so in every
run it outlasts the requests that were under way when it was set (`BlockRunsOut`).  Where the bounds might hide something, the theorems below do not depend
on them.

**Fairness.**  Weak fairness of each request's own handler, in the pipeline and the
relay also of each sweep and of the clock, in the gate also of the clock.  The RPC
and validator clients have timeouts and a body has a deadline, so every await ends;
tokio polls every ready task; the sweeps are loops on timers that never exit.  No
client need arrive, ask again, give up waiting or leave, and the cluster need not
land anything.  `screening` has no liveness property.
In `service` a request's own steps are fair but for a slow body: only a finalize has a
deadline for the whole of it, while other bodies need a frame in thirty seconds, so
`CallersAnswered` speaks of those once the body is there.  A validator that does not
answer is given up by the client's timeout.  The balance has the timeout of the RPC
client; the four reads of a reputation are not fair, only the timeout over them is; and
of the listener only its sleep: a connection may take for ever.  The wall clock is
taken not to go back.

**Findings.**  Four runs refute a sentence of the documentation.

* `cap`: `refund_on_success` does not know in which window its slot was taken.
  A capture admitted in one window that is refunded in the next gives back the
  slot of a failure there, and the wallet fails once more than its cap.
  `FailuresBounded` is what does hold: the excess is at most the late refunds.
* `free_tier`: two first requests of an unknown key can both register it; the
  second `insert` resets the first's deduction.  With configured integrators
  the count is exact.
* `observe`: the reputation read that "never affects the verification decision" is
  joined with the validator request and weighed into the score: a poor wallet is
  refused where the same capture passes with the flag off.  (It is not detached
  either: the verdict waits for it, up to 1.5 s.)
* `probing`: `check_probing_block` "clears an expired one" in an access of its own, which
  removes whatever is there.  Two requests that read one expired block both clear; if the
  first of them is validated and blocked before the second comes to it, the second removes
  the new block, meant to last a day.  The thread of the second must be held up between
  two lines for as long as the first takes.

**Other observations**, which no run states.

* `rate_limit.rs:25` says "Bounded to `MAX_TRACKED_KEYS`"; the table can exceed it by
  fewer keys than there are threads (`TableNearBound` is what holds).
* With the reputation read off, reputation risk is always one half, and an accepted
  policy may then have a rejection threshold that no capture reaches: `try_new` counts
  the full weight as reachable.
* `fetch_wallet_reputation` is documented to return "an error if RPC reads fail"
  (`reputation/mod.rs:43-45`), and does so for the balance and the activity.  A parent or a
  parent's identity that could not be read counts as none (lines 56 and 61), and the rest
  is weighed.  `RiskIsOfWhatWasRead` is what holds: the failure is not held against the
  wallet, nor does it make the reading none.
* `WalletAttempts::evict_expired` keeps a counter with a failure in it until its wallet
  returns (`wallet_attempts.rs:148`, where a test wants it), so wallets that fail and stay
  away stay in memory; the module's doc says that the sweep "prevents unbounded growth from
  many distinct wallets" (lines 28-31).
* `check_and_record` is said to "evict oldest entries if at capacity"
  (`commitment_registry.rs:51`); it clears all of the key's, the newest among them.
* `/attest` answers `SolanaRpcUnavailable` or `TransactionSubmissionFailed` from its last
  attempt alone (`client.rs:259` and `298`); an earlier one may still land, and the wallet
  be attested after it was told of a failure.  Whoever reads these answers as "nothing was
  sent" is wrong for both; `AnswersAreTrue` says what each leaves.
* A cooldown at its capacity lets new footprints pass (`cross_wallet_cooldown.rs:46`), by
  design.
* Comments at `validation/handler.rs:932` and `config.rs:1030` call the reputation read
  detached; it is joined with the validator request.  `get_funding_parent` looks at the
  oldest of the ten newest signatures, which of an active wallet is not the first.
* `.env.example:12` says production needs a validator key; nothing in `from_env` or
  `main` asks for `VALIDATION_API_KEY`.  `main.rs:108` says every key should have a
  name and a quota; what is checked is that some integrator is configured.
* `server.rs:365` says the duration layer wraps authentication; `Layers` has it inside,
  as the calls below that comment stack it.  `server.rs:441` says every group carries
  the limiter per address; the study routes have neither that nor the one per key.
* `error.rs:304` says everything else returns `{error}` only; many variants carry a
  reason (`ReasonLength`, `CarriesReason`).

## Proofs

Every safety invariant, action property and refinement that a passing run checks is also a
theorem; so are the type invariants, which no run repeats.  The `*Proofs` modules are
checked by TLAPS for every set of wallets, keys, addresses and nonces, every finite set of requests or clients, and every cap, quota, window,
lifetime, capacity, number of retries, slots, threads, floor and policy that the
named assumptions admit.  The assumptions are `RequestAssumption`,
`ConfigAssumption` and `StoreAssumption` (the cap is a `u8`; the lifetime is
positive, which `config.rs` enforces), `RelayAssumption` and
`AttestationAssumption` (capacity, time to live and retries are positive, as the
constants of the code are), `GateAssumption` (there is a slot and a thread, and
`Burst <= EntryTtl`: a limiter regains its burst in a minute and is forgotten after
five), `ScreeningAssumption` (the parts are tenths, and a half can be expressed; no
version of a projection is the mark of a missing or a foreign account, which in the code
are variants of an enum), `ServiceAssumption` (finitely many requests at a time; the
environments and the widths of numbers may be any) and `ReadersAssumption`, which joins
those of its parts: the time to live of the balance is positive, and so are the back-off
and the full mark; captures are of `RequestType`, the fields and types of the request
struct; the curve and the anchors are not empty, as the constants of `curve_trace.rs` are
not, and a distance is below `Infinity`, which the search starts from; and accounts fit
their layouts: a base of two at least, numbers within the width they are written in, the
timestamps behind the score, and a discriminator whose first byte is not the 0 of a
credential (it is 156).  TLC evaluates all of them on the instances.

*Registry.*  `SingleUse` and the pointer are not inductive: that a nonce held
was never accepted is needed to accept it once, that it is held by its owner
alone to know that no other wallet's entry still has it.  `IInv` adds
`HeldByOwner` and the type, and each operation preserves it in a lemma of its
own.  The action properties and the refinement follow from `IInv` and one lemma
per step that maps it to a step, or a stutter, of `NonceLedger`.  For
`FreshLeavesByAcceptance` it is that `Issue` and `EvictStale` keep what is within its
lifetime, also when they drop the entry of a wallet.  `DrawnIsFixed`, that a nonce once
drawn has one owner and one moment of issue, is what a caller relies on that looks a
challenge up and consumes it seconds later.

*Pipeline.*  `ChargesFit` says what a request holds at each place.  It is not
inductive for a request that is refunding, or about to drop an armed guard:
`Stage` adds that the guard is armed exactly from the deduction to the answer,
and what the outcome may be on the way to a refund.  `RequestFits` has one step
per action of the request itself, `OtherFits` shows that nobody else changes
what it holds, except that a window replaced turns `held` into `stale`.
Conservation of quota (`QuotaInv`) and of slots (`SlotsInv`) then count: every
step that changes a counter adds or removes one element of the set it counts.
The bounds on verdicts and failures are corollaries by set inclusion.
Every step of the pipeline is one of the registry or leaves it alone
(`PipelineRunsRegistry`), so that the registry's theorems, instantiated from
`ChallengeRegistryProofs`, hold here too, the refinement of the ledger among them.
`ForwardedAuthorization` takes more: it speaks of requests at the validator, and
`SignedFits` says of one from its arrival on what it named.  The look-up that chose the
phrase and the consumption that lets it pass are seconds apart; a request whose look-up
failed is not let pass later, since a nonce once drawn does not become acceptable again
(`Named`), and one that has passed is the only one its nonce was ever accepted for
(`Authorized`, `Fresh`).

*Relay.*  `ChargesInv` and the counting argument are as above.  `LandsOnce` needs
that an answered request takes no further attempt (`AnswerStays`), so that the
attempt it names stays the one that landed.  `NovelOnce` is inductive with the
fact that a request counted in it has presented its commitment.

*Attestation.*  `Stage` ties what a request knows to where it is: what it has sent, or
is about to send, claims a verification that was recent when it was read.  `Chain`
ties the account to the transactions: what stands for a wallet has landed for that
wallet, and once something has landed for it something stands, so that no second
create can land, and that what stands for it then is of this process.  What each answer
leaves in flight needs that only attempts up to the present one were sent (`Attempted`).
Freshness, single creation and true answers follow; that no step
leaves an attested wallet bare follows from `Land` alone, which closes and creates at
once.

*Gate.*  A limiter's debt and its idle time are `Burst` at most together (`Debts`),
so that one idle for `EntryTtl` owes nothing: the sweep maps to a stutter of
`Allowance`.  Slots are counted: `GateInv` adds to `SlotsAccounted` that the queue has
only waiting requests, each once (`QueueWaits`), without which a slot given back
could go to a request that has one, and that bodies in memory belong to holders
(`Buffers`).  The floor is `ClockInv`.  The table's bound follows from `RoomFor` and
the number of tasks between the two accesses.

*Screening.*  While an admission is remembered, its footprint's entry has the same
wallet and the same age, below `Cooldown`, so that neither the sweep nor another
wallet replaces it (`OwnEntry`).  That an accepted policy rejects the worst capture is
arithmetic: the weights that count add up to more than the rejection threshold, and
both are scaled by `One`; `PolicyResolved` carries it through the life of a process.
`RiskierNotFavoured` follows from the score being monotone in each risk (the products of
weights and risks bounded to the unit, the penalty of a Sybil funding in the reputation),
and from `CapturesInv`: whoever is judged was judged by the policy in force,
of the signals it sent.  The same invariant keeps with a forwarded capture the intent it
was derived with, from which `BaselinesNotRolledBack` follows by cases.  Beside the
finding of `observe` stands what does hold: where a policy gives reputation no weight, a
reading of it changes no verdict (`UnweighedReputationDecidesNothing`).

*Service.*  `ServingIsPinned` joins checks made before and after three answers of the
chain; `StartupInv` says at each stage which of them are behind, and that what they
judged no later stage changes.  `CostsAreEarned` is not inductive, since it does not say
what a request is still to meet: `RequestInv` adds that the layers left are an end of
its route's, and that each one passed has left its mark, so that authentication stands
before all that costs (`AuthComesFirst`) whichever route it is.  `PermitInv` counts
permits as above, and that nobody holds one while the process is not serving.
`RefusalsAlike` is a bound for each variant: no message, reason or wait of up to the
longest number comes to more than what is padded to.

*Readers.*  The cache is stamped no later than its balance was read, no question is
ahead of the clock, and a reader stores what it read after it asked: so whoever writes
last, what is within the stamp's time to live is within the balance's.  For the
reputation, only a handler that has its activity and knows a parent goes on to the
identity (`ReputationInv`), a balance that failed gives the middle whatever else was read, and
what is weighed is kept until the handler is done with it.

The other three are about operators, and their invariants only say what the state was
computed from (`SigningInv`, `TraceInv`, `AccountInv`).
`SignedIsWhatRuns` is that the encoding of a digest is injective, for texts and vectors of
any length.  Each part of it is a code no word of which begins another: lengths come first,
options carry a flag; and such codes, joined in a fixed order, are such a code again.
`AbandonIsExact` needs order statistics: what a median counts below and above itself,
that it grows when every element does, and that a pass abandoned with more than half of its
residuals over the best median so far could not have had a lower one.  Then the sweep of the
candidates ends with the least of all medians, the best anchor is beaten by none, and
an alignment, which charges each point its distance from some point of the curve, is never
less than the median distance from the nearest.
`AccountsReadBack` is arithmetic in any base: what is written in cells is read of them,
signs included (`WordReads`), each part stands where the offsets say
(`IdentityLaidOut`, `CredentialLaidOut`), and what is read of an account that was cut or
lengthened is a slice of what was written, or is not read at all.

These are inductions over data.  The library's induction theorems take an operator, which
no prover here instantiates; `Least`, `Recursion` and `Induction` of `ReadersProofs` state
what is needed of sets and functions instead (a set of naturals has a least member; a
recursion along `0 .. n` has a solution; a set with 0 in it and, with each number, the
next, is all of `0 .. n`), from the library's facts about finite sets.  For that, the
recursions of `CurveTrace` and `ChainAccounts` are recursive functions rather than the
folds of the community modules.

Only model-checked: the liveness properties, since fairness and `ENABLED` are out of
TLAPS's reach (`AbandonedAreEvicted`, `RequestsFinish`, `IdleWalletsEvicted`,
`VerifiesAnswered`, `AttestsAnswered`, `GateAnswers`, `CallersAnswered`, `ReadersFinish`), and the four
refutations.  Conversely, the type invariants, the quota of the relay,
`SupersededStaysInvalid`, `DrawnIsFixed`, `VerdictsWithinQuota`, `FailuresBounded`,
`BodiesWithinSlots` and the pipeline's refinement of the ledger are proved and no run
repeats them.

## Not modelled

* The contents of phrases, and how a curve and a phrase are drawn; audio; the kinematic
  scores of a trace, sums over the trace alone that nothing compares.
* The bytes of HTTP messages and headers, how a client's address is found behind a
  proxy, redaction, logging, and the counters `/metrics` adds up.
* Configuration that decides nothing: addresses, URLs and secrets that are only used.
  The signatures of bundles and of the validator's deployment hold or fail.
* The Solana programs, the RPC, the validator, the semaphore and the GCRA arithmetic
  of `governor`, the size check and the extractors of the web framework: external.
* f64 rounding: scores are exact in the models, so nothing is said of one that rounds
  across a threshold; `AbandonIsExact` is about whole distances on a line.
* Hashed footprints that collide, and collisions of the digest a wallet signs.
* A restart, but for the registry's (clients keep nonces) and the process of `Service`:
  elsewhere all stores and requests go together, so nothing relates the time before to
  the time after.
* Two hazards without a property: a commitment is recorded before quota and transaction,
  and transactions of a request that gave up may land after a later one's.  The models
  have both; no sentence of the repository promises anything of them.
* Setup scripts (`scripts/`), one command after another by an operator, and
  `local_http_fixture.rs`, for tests.

## Plan

Done: registry, trackers and pipeline; relay; attestation; session gate and limiters;
screening, score and intent; startup, routes, study relay and refusals; status balance,
reputation, listener, trace, digest and accounts; each with its runs and first theorems.

Every safety property of a run has its theorem.  Proofs that are left: the types of the
stores of `CaptureScreening` and of the listener as theorems of their own; that
`WalletAttempts` and `IntegratorTracker`, which two components compose, do what their
counters promise whoever calls them; that the relay's registry of commitments stays within
its capacity.
