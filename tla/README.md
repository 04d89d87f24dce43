# Verification of Silicon Browser

Silicon Browser rents remote browsers from a provider and gives them to people
and agents as *sessions*, optionally on a persistent *profile*. The service
keeps rows in one SQLite database that several processes may share, while the
things the rows stand for live at the provider. Most of what can go wrong is
the two disagreeing: an answer that is lost, a process that dies between two
statements, two processes that finish the same work.

This directory holds TLA+ modules of that system, TLC configurations for small
instances and TLAPS proofs for all instances. Paths below are relative to
`src/`; line ranges of every definition are in `PROJECT.json` under `map`.

## 1. The system

| Component | State | Operations |
| --- | --- | --- |
| Session lifecycle (`crates/backend/src/server.rs`, `store.rs`) | `sessions` rows: status, provider id, recording URL, stop lease; unique index on live sessions of a profile | create, late activation, recovery of a failed start, end |
| TTL reaper (`server.rs` 399-552, `store.rs` 1536-1685) | stop leases, in-process session gates | expire reservations, claim, check, stop, finalise, release |
| Recording resolution (`server.rs` 217-380, `store.rs` 2976-3418) | `recordings` rows, `outbox` events with attempts and due time | queue, claim, look up, complete, fail, reschedule, trash |
| Profile provisioning (`server.rs` 131-211, 838-994, `store.rs` 496-606, 734-782) | `profiles` rows | reserve, create at the provider, activate, fail, reconcile, end |
| Sharing and live links (`server.rs` 937-994, 1031-1268, `store.rs` 689-782, 862-960, 1336-1371, 1725-1751) | access lists, participants, sealed links | update a profile, see and join a session, issue and redeem a link |
| Listings (`store.rs` 966-1008, 1725-1751, 3349-3418, `shared/src/filter.rs`) | none of their own | list sessions, recordings and usage, show one session, filter |
| Browser provider adapter (`providers/browser.rs`, `providers/error.rs`) | none of its own | start, get, stop, find by metadata, profile create and find, limits |
| Usage metering (`store.rs` 3533-3660, `decimal.rs`) | `usage` rows | active and terminal samples; costs in millionths |
| Search and fetch pool (`providers/pool.rs`, `search.rs`) | per-actor queues, sliding window, provider blocks | acquire, refund, reject; fetch in batches |
| Authorization cache and webhooks (`auth_cache.rs`, `webhook.rs`) | snapshots, a generation, stripe mutexes, receipts | resolve, invalidate, receive a notice |
| Accounts client (`auth.rs`, `access.rs`) | none of its own | introspect, exchange, resolve handles |
| Login tokens (`server/login.rs`) | sign-in attempts, digests of submitted tokens | begin, claim, exchange, refresh |
| Usage limits cache (`server/usage_limits.rs`) | one entry behind a lock | get |
| Account id cut-over (`store/account_uuids.rs`) | every row that names an account | apply a map of ids |
| Database start (`main.rs`, `store.rs`, `migrations/`) | the schema of the file, whose records it holds | check, migrate, serve |
| CLI credentials (`crates/cli/src/state.rs`, `main.rs`) | state file, three file locks | open a partition, refresh, recover, sign in and out, setup |
| CLI commands (`crates/cli/src/runtime.rs`) | connection file and locks of a sign-in | `browser run`, `browser session end` |
| Client library (`crates/client`) | a retry after 401, temporary files, scripts in the page, a private directory | request, run a command, upload, download, install the controller |
| Website (`frontend/src/lib/session.ts`, `api.ts`) | a storage shared by the tabs, a lock | sign in and out, switch, renew, replay a call |
| Proxy locations, configuration, crypto, URL policy, wire types | - | pure functions |
| Screens of the frontend, deployment, retired code | - | - |

How they interact. HTTP handlers call the store, Accounts and the provider
adapter in turn, with an `await` between any two steps, and a handler's future is
dropped when its connection is. Each process also runs three independent loops
(`spawn_ttl_reaper`): the TTL loop, the profile loop and the recording loop.
Nothing but the database is shared between processes; inside a process the end
handler and the reaper worker of one session exclude each other by a gate
(`SessionLocks`). The store's statements that decide something are
compare-and-swaps: on a status, a lease id, an attempt number, or the row that
was read. Searches and fetches bypass the database: their handlers send messages
to one scheduler task per quota and process, and wait for its answer. Every
request first resolves its access token, from the cache of the process or from
Accounts, which tells the service of changes by webhooks. The command line
client is one process per command; commands share a state file and a connection
file under locks and hand one-time credentials to the service, which hands them
to Accounts. A command starts a local controller process, whose output passes
through two threads and a channel to the caller. Files go to and from a page of
the remote browser by scripts that the client library has helper processes
evaluate there. The tabs of the website share one storage, which they write
partly under a lock and partly without.

Hard behaviours, and the properties that answer them (`hazards` in
`PROJECT.json` lists each at its line):

* a provider call whose answer is lost, cut, garbled or about something else: may
  have been carried out or not;
* a step that comes late: activation after the TTL, a worker past its lease, a
  lookup past its claim, an answer after the owner trashed the recording, a
  refreshed credential after somebody else signed in, a snapshot after the
  change it does not show, a script after its transfer gave up;
* a chain of writes cut short: stop, remember the URL, bill, queue the
  recording, finalise; consume a refresh token, send it, store its answer; write
  a temporary file, sync it, rename it;
* two processes on one session, recording, profile, database or state file, two
  tabs on one storage;
* a one-time credential that must not reach Accounts twice, by whatever path;
* an overlap of read and write: access lists, usage counters, identities, lists
  that are read in several statements, pages whose rows move;
* messages of the search pool that arrive after later grants, callers that leave
  just before theirs, queues at their limit;
* something that must happen in the end: the slot is freed, the recording is
  decided, the profile is adopted, the queued request is granted, a waiter gets
  its stripe.

## 2. Modules

| Module | Contents |
| --- | --- |
| `ProfileSlot` | abstract specification: a session acquires the slot of its profile, may open one browser, and releases the slot only when it is closed |
| `SessionLifecycle` | the life of sessions: create handler, end handler, reaper workers, TTL loop, provider and clock |
| `SessionSafety`, `SessionSafety_proofs` | its properties, fairness, the refinement mapping to `ProfileSlot`, the inductive invariants `SlotInv`, `OutcomeInv`, `WorkerHoldsLease`; proofs, also about `ProviderCalls` (`CallsInv`) |
| `ProviderCalls` | one session over the provider's HTTP answers: what each is taken for, and what the client is told |
| `RecordingQueue` | one recording after the confirmed stop: settling tasks, resolve and store intents, lookups of several processes, trash |
| `RecordingSafety`, `RecordingSafety_proofs` | its properties and inductive invariants; proofs, also about the run's profiles (`RemoteInv`) and `ProviderSearch` (`SearchInv`) |
| `ProfileProvisioning`, `ProfileProvisioning_proofs` | profile rows, create handler, reconciliation loops, owner; properties and inductive invariant; proofs |
| `ProviderSearch` | one search through the provider's pages while rows move |
| `FairQuota` | the quota scheduler of search and fetch with its callers |
| `FairQuotaSafety`, `FairQuotaSafety_proofs` | its properties and inductive invariants; proofs, those of fetches and costs too |
| `FetchBatches` | a fetch of many pages: batches, order, budget, payment |
| `UsageCosts` | decimals, costs and their sums |
| `AuthorizationCache`, `AuthorizationCache_proofs` | the authorization cache of one process, its requests, Accounts and the webhook; properties; proofs, also about `UsageLimits` (`LimitsInv`) and `AccountsCalls` (`CallsInv`) |
| `AccountsCalls` | requests to Accounts with every kind of answer |
| `UsageLimits` | callers of the usage limits cache |
| `Sharing`, `UsageLedger`, `SignInAttempts`, `AccountCutover` | one specification in four layers, each extending the one before: who may see what; what is billed; hosted sign-in; the change of account ids over all of it |
| `SharingSafety`, `SharingSafety_proofs` | its properties; inductive invariant and proofs, also about `DatabaseStart` (`DatabaseInv`), `Listings` and `TextFilter` (`ListInv`, `FilterInv`) |
| `Listings` | one request that reads a list or a session while rows change |
| `TextFilter` | the matcher of text patterns, step by step, with what a pattern means |
| `DatabaseStart` | starts of a server on a file that other releases write to |
| `CliCredentials` | state files, locks and commands of the client, and the path of a one-time credential through the service |
| `CliSafety`, `CliSafety_proofs` | its properties and inductive invariants; proofs, also about `WebsiteSession` (`WebInv`) |
| `WebsiteSession` | the tabs of the website |
| `LocalCommands`, `LocalCommands_proofs` | commands of one session on the caller's machine; properties; inductive invariant and proofs, also about `ControllerSetup` (`SetupInv`), `FileTransfer` (`TransferInv`), `CommandArguments` (`ArgumentsInv`) and `CommandOutput` (`OutputInv`) |
| `FileTransfer` | uploads and downloads: the client's process, its helpers, the page |
| `CommandOutput` | what a command prints: pipes, threads, channel, redaction, capture |
| `CommandArguments` | how the arguments of a command are read |
| `ControllerSetup` | setups that install the controller |
| `MCSessionLifecycle`, `MCReconciliation`, `MCFairQuota`, `MCAuthorizationCache`, `MCCliCredentials`, `MCSharing`, `MCLocal` | instances for TLC |

An `MC` module is a *sum*: it extends the specification it is named after and
instantiates smaller ones beside it. Its variable `part` names the one that
moves in a behaviour; the initial state picks it from `Parts`, the others rest in
an initial state. So numbers of states add up and do not multiply, and each part
is checked as it would be by itself: no part reads or writes the variables of
another. Properties of an instantiated part are restated in the `MC` module. A
fairness condition is that of its own part; where the part rests, none of its
fair actions is enabled.

### From code to model

**SessionLifecycle.** `status`, `bound` (provider id not NULL), `source`
(recording URL not NULL), `lease` are columns of `sessions`; `recording` is the
recording's status; `resolve` and `store` are its outbox events, `billed` its
terminal usage sample. `browser` is the truth at the provider. A task is a
handler or a worker, identified by kind, process and session; `pc` is the next
store transaction or provider call it makes, `has` its local
`has_recording_source`. One action is one transaction, one call or one
provider event.

* create: `Reserve`, then `StartRejected`, `StartSucceeds` or `StartAmbiguous`
  (`provider_mutation_may_have_committed`); `FindBrowser` after the last;
  `Activate` is the first statement of `activate_session`, `ActivateMisses` and
  `KeepLateRuntime` the rest of it; `RetainRuntime` starts
  `recover_failed_session_start`. A row is reserved together with its request;
  a request that is never sent is one the provider never acts on.
* end: `BeginEnd`, `EndRuntime` are the two statements of `begin_end_session`.
* reap: `ClaimExpired` is the whole transaction of `claim_expired_sessions`,
  `CheckClaim` is `expired_claim_is_current` under the gate.
* all three then run `StopConfirmed`, `RememberSource`, `RecordTerminalUsage`,
  `EnqueueRecording` (not after a failed start) and one of `FinalizeEnd`,
  `FinalizeExpired`, `FinalizeFailed`.
* `Abandon` drops a task between any two actions: a crash, a cancelled
  request, the attempt budget, an error of the store. `ReapError` is a store
  error of a worker that lives on and gives its lease back.

Every reading of the clock is a comparison, so time is two sets: `elapsed`
(`expires_at <= now`) and `leased` (`stop_lease_until > now`). A lease id is
the process that drew it: the TTL loop of a process joins all its workers
before it claims again, so a process never holds two claims of one session.
What happens to the recording after the intents are queued is not here but in
`RecordingQueue`; the two overlap in the settling actions.

**RecordingQueue.** `settled` is the session's status being terminal, `due` is
`next_attempt_at <= now`, `mine` the attempt number in the
`RecordingSourceClaim` of a process. `Enders` are tasks that settle through
`mark_recording_pending` or `queue_recording_source_resolution`, `Creators`
those that do through `finalize_failed_session_after_stop`. `asked` is a
history variable. A loop has one claim for the recording at a time: it joins
its workers before it claims again. Expired reservations are not here: without a
provider id nothing is queued for them.

**ProfileProvisioning.** `row` is the status, `remote` the truth at the
provider ("alien": it answered with a profile of another user id). The
reconciliation loop lists all provisioning rows (`List`), looks each up
(`LookUp`), activates what it found (`Adopt`) and forgets the rest (`Skip`).
Sessions appear as `busy`; their own life is `SessionLifecycle`, which in turn
sees the end of a profile as `EndProfile`.

**FairQuota.** A request is one `acquire` with its retries: a search, or one
chunk of a fetch. `channel` is the bounded mpsc channel; `queue` and `order`
are `by_actor` and `actor_order`; `used` is `used_at`, each charge a pair of its
reservation and a number; `next` is `next_reservation`. `sched` says where the
scheduler loop stands: `drain` (the `try_recv` loop, then `Sweep`), `serve`
(`Grant`, `Stall` or `Rest`), `asleep` (`recv` or the timer `need`). A caller
acts between any two of these steps, so it can leave after the sweep and before
its grant. Reservations leave the window in their order, hence `stale` replaces
the clock; `blocked` holds the keys with a `blocked_until` in the future. A
dropped caller keeps its charge until the window passes, as in the code. An
attempt cut off by the retry deadline is reported like the last 429 and so
rejects its permit: the second alternative of `RateLimited`. `passed` is a
history variable. Not modelled: the wrap-around of reservations after 2^64
grants and the shutdown of the scheduler when the pool is dropped.

**AuthorizationCache.** `version` is what Accounts knows of the account behind a
token, `notices` the webhooks it has not been acknowledged for, `known` the last
change it was. `generation` and `entries` are the fields of the cache; an entry
keeps the generation it was fetched under. A webhook handler goes through
`Receive` (the generation), `Clear` (the entries), `Record` (the receipt) and
`Acknowledge`, and can fail after either statement. A request that misses waits
for its stripe (`flight`), looks again (`Enter`), asks (`Answer`), and inserts,
asks a second time or gives up. `Leave` drops it anywhere, and with it the
guard of the stripe. A process that restarts loses all of it; a notice that was
acknowledged is not sent again, which is safe since the cache is empty. The
signature of a notice and what a snapshot contains are abstracted: the model
tells snapshots apart by the last change they show.

**Sharing.** An id is a person and a spelling, before or after the cut-over.
Requests are accepted only from new ids, because introspection accepts only
canonical UUIDs. `BeginUpdate` is `update_profile` up to its last `await`;
`WriteUpdate` is the store's transaction. Sessions keep of their life what
visibility needs (`SessionLifecycle` has the rest). `Redeem` makes the bearer of
an unexpired link a viewer and, as in the code, participants keep what they see.

**UsageLedger.** A refresh of the counters is three steps: what the provider
said, the read and the update of one deferred transaction. SQLite refuses the
update with BUSY_SNAPSHOT when another transaction committed after the read:
that is the guard `usage[s] = handler[q].read`, and the mutant that drops it
breaks `UsageNeverShrinks`. One number stands for the counters, one for the cost.

**SignInAttempts.** Attempts and digests are the two tables of `login.rs`; a
digest is kept 901 days, longer than its token lives, so it is never forgotten
here.

**AccountCutover.** `Apply` is the one transaction of `migrate_pool`, with
writers stopped; `Complete` its check that the map has every reference and no
target that is in use. A person who signed in under the new id before the
cut-over makes it refuse.

**CliCredentials.** `file` is `state.json` as a process reads it, `disk` what a
power loss leaves. `State::update` is two steps, the rename and its `Sync`, under
`state.lock` (`Writing`). A command goes from `Open` through `Check`, the refresh
(`LockExpired`, `Claim`, `Send`, `Answered`, `Apply`) and its requests to the one
recovery of a rejected token (`Rejected`, `LockRejected`). `GiveUp` ends it
anywhere, `PowerLoss` ends all. Login generations are `generations`, drawn at
random in the code and never twice here. A post goes through `BackendClaim`
(`claim_token`) and `AccountsRedeems`; both survive the command that sent it, and
the service may stop between them (`BackendRefuses`).

**FileTransfer.** `client` is the transfer's process, `evals` the scripts its
helpers have handed over, which may be evaluated late or never but not twice,
`chain` the patches of `getAttribute` in the page. Transfers of one participant
exclude each other by the namespace lock; those in the model are of different
participants of one session. A write of the local file changes its modification
time. The page's timers fire; `Navigate` forgets everything. `wrapped` is a history
variable: the page has laid its own patch over the attribute since it was loaded, and
never takes it back.

**ProviderCalls.** One client creates and ends one session; `handler` is the
request being handled. `Answer` is status, size and body as the adapter sees
them; `Classified` is `json_response_with_limit`, `MayHaveCommitted` is
`provider_mutation_may_have_committed`. The provider may accept a request and
carry it out later (`late`, `CarryOut`). Assumed of the provider: when it
refuses with a status below 500 it has done nothing, it names the browser it
started, and a snapshot tells how the named browser is.

**ProviderSearch.** `Page` takes one page, with the total of the first page and the
exact matches as `providers/browser.rs` keeps them; `Detail` is the request that
follows a match; whatever is doubtful ends in `Fail`.
Rows are only added or only removed during one search: rows that are added and
removed can hide a row from any search by pages, and the comment of the code does
not claim otherwise.

**FetchBatches.** `Acquire`, then an answer, a 429 or a failure per batch;
`Placed` is `order_fetch_chunk`: the queue of places of an address is stated by
counting its occurrences on both sides (`For`). Sizes are those of the encoded items; what they
contain is left out.

**UsageCosts.** `Millionths` is the decimal parser with its exponent, `Split` the
division of the proxy's cost, `Plus` the checked sum. The places and the limit are
smaller than in the code, so that a few digits and exponents meet every branch of
the parser: leading zeros, fractions shifted out wholly or in part, ties, and both
refusals (too many digits, a value over the limit).

**AccountsCalls.** A request is a bearer token to introspect, a credential to
exchange, or a profile to share with a list of accounts and handles, resolved one
after the other; handles move and accounts close in between. Success answers of
Accounts are true when they are made. A 401 is also what Accounts answers if the
service's own secret is refused, and the service takes both for a refusal. What does
not have the shape of a token or of a credential (`Malformed`) is refused without a
question to Accounts (`Shapeless`), and a malformed token that Accounts gives for a
credential is a contract error. Accounts calls a token active by its own clock, the
service then looks at the time of the token by its own (`InTime`): `expired` tokens
are past it, for `early` ones it has not come; it comes and passes while requests
run, and `soon` remembers the requests that began before.

**UsageLimits.** `queue` are the waiters of the mutex; the first holds it. A
caller that goes away drops its check. `quiet` is a history variable.

**Listings.** Every statement of a request is a step; what is committed between
two of them is `session` and `shared`. A list of sessions reads one snapshot,
recordings and a single session do not, so a single read can answer 404 for a
session that was visible all the while: the code allows it, and no property
forbids it. A filter is a sequence of stages, accepted or refused as the parsers
do; the runs send filters to the list of sessions only.

**TextFilter.** A pattern is what is left after trimming and folding: characters,
stars, an anchor. The code's loop over the parts is one step per part (`used` is how
much of the pattern has been found); `Matches` is the reference definition.

**DatabaseStart.** `schema` is the newest migration, `rows` the tables that hold
records and whose they are. A start looks (`check_accounts_ownership`), migrates
and looks again. Other releases are modelled from their migrations: each refuses
a file with migrations it does not know; `sqlx` reads the applied migrations once
and runs each in a transaction.

**WebsiteSession.** What a tab does without awaiting is one step, storage
included. `saved` is the storage; `mark` the token that was marked as sent.
Requests end in the end: the browser gives up on them. The formats of older
storages are left out.

**LocalCommands.** A stored connection keeps when it was fetched (`fetched`, in
the file) and when the backend gave it (`answered`, a history variable). The
clock has no unit. `Crash` drops a process and its locks but not the controller
it started, so the next command may start beside it (section 6).

**CommandOutput.** Two bytes make the one wide character of the model. A reader
thread decodes nothing; the caller's thread keeps back what may begin the secret
(`Held`) or a character. `Decode`, `Size` and `Scan` are recursive functions from the
last element back, so that they can be proved about; they compute what the loops of
`push` do from the first. Captured text may skip a wide character that no longer
fits and go on behind it, as in the code. `OutputWhole` speaks of output that is
text. `OutputAssumption` says that the address of the browser and `[REDACTED]` do not
overlap, however one is laid over the other, and that the address is ASCII. The
addresses the client accepts (`controller.rs` 164-171) begin with `ws` or `http`, so
the assumption leaves out only one that contains `[REDACTED]` or ends in a beginning of
it; no address in the tests and docs does. For those, text before a marker and the
marker could together spell the address again, and the property would not hold.
Left out are a pipe that fails to be read, which ends its stream like the end of the
pipe (`controller.rs` 88), and a deadline that passes between the exit of the
controller and the next look at it: the code then reports 124 for a command that has
ended by itself (`controller.rs` 106).

**CommandArguments.** One token is read in a step by each of the loops of
`controller.rs`. `AsTyped` is the reference: how the controller itself takes a line,
token by token. The options that take a value are listed three times in
`controller.rs`; the lists are the same today and one set here. `upload` takes the
token behind it as its selector even if that looks like an option; `TransferAsTyped`
excludes this, and `download` does not have it.

**ControllerSetup.** `target` is the installed file, `durable` what a loss of
power may leave there: the directory is not synced after the rename, so it may be
the controller of before. Writing, checking and renaming the temporary file may each
fail, after which it is removed. A failing last check reports the setup as not ready. A
lock goes with its process.

Definitions that start with `Faulty`, or whose comment starts with "Faulty:", are not reached from `Next`. They are the bugs the properties are
tested against: `PROJECT.json` pairs each property with one, and the property
fails when the bug takes the place of the definition that follows it.

## 3. What is checked

Sizes are distinct states, over all parts of a run.

| Run | Parts | Shows | States |
| --- | --- | --- | --- |
| `SlotTwoSessions` | *slot*: 2 sessions on 1 profile, 1 process; *stalled*: 1 incognito session, 2 processes, leases that may run out under a worker, answers with and without URL; *calls*: 1 session, 4 requests of its client | slot and settlement, refinement of `ProfileSlot`; bill and recording are kept; nothing of a failed or ended session runs | 677 k |
| `Progress` | *slot*: 1 session, 1 process, fair | every reservation is settled | 1 k |
| `Reconciliation` | *recording*: 2 enders, 1 creator, 2 processes, 2 attempts, fair; *profile*: 2 profiles, 1 process, fair; *search*: 5 rows in pages of 2, 2 changes | no orphaned, doubled or undone outcome, every open lookup is decided; rows and remote profiles agree, what exists is adopted; no absence is proved of what was there | 222 k |
| `QuotaRace` | *quota*: 3 requests of 2 actors, 1 key of 2 units, 3 slots, 1 retry, fair; *fetch*: 5 addresses in batches of 2; *costs*: 2 sessions | charges, permits and window agree; turns; every request is granted; one item for each address; parts make up the whole | 454 k |
| `CacheRace` | *cache*: 2 tokens of 2 stripes, 2 requests, 1 webhook handler, 1 entry, 1 change, fair; *calls*: 1 request, to share a profile with 3 names or to sign in with 1 of 3 tokens or 2 credentials, some malformed, early or of another application, 2 changes; *limits*: 3 callers | no stale authority, no stripe left locked; Accounts is taken at its word, no more; limits are recent | 461 k |
| `SharingRace` | *sharing*: 2 people, 1 session on the profile or incognito, 2 handlers at a time, 4 requests, 2 attempts, 1 code; *listing*: 1 request, 2 changes; *filter*: patterns and texts of 3 characters; *database*: 2 starts | access, usage, sign-in, cut-over; lists, filters; whose database is served | 1.2 M |
| `CliRace` | *cli*: 2 commands, 1 short-lived token, 2 accounts, 3 credentials; *website*: 2 tabs, 2 accounts, 2 calls, 4 tokens | one-time credentials, identities and generations over commands and tabs | 1.8 M |
| `LocalRace` | *commands*: 2 commands, 1 end, 2 sign-ins, 4 ticks; *transfer*: 1 upload, 1 download, 2 parts, 2 writes; *output*: 5 bytes; *arguments*: 4 tokens; *setup*: 2 versions and a package, 1 loss of power | commands serialized unless one is killed, bounded staleness; whole files, patches kept; the secret is withheld; arguments; whole controllers | 1.7 M |
| `ProviderlessExpiry` | *slot*: 1 session, 1 process | *violated*, see section 6 | - |
| `ProfileAbsence` | 2 profiles, 1 process | *violated*, see section 6 | - |
| `FilterComplete` | *filter* | *violated*, see section 6 | - |
| `WebsiteSwitch` | 2 tabs, 2 accounts, 2 calls, 3 tokens | *violated*, see section 6 | - |

Bounds, and why they are enough to be of use.

* Two sessions on one profile are what a slot can be fought over by; the
  proofs cover any number. Two processes are what leases and attempt numbers
  separate. The stalled part uses an incognito session since the slot plays no
  part in it, and one end handler at a time beside the workers.
* `StopConcurrency` is 1 where the code has 8: with two sessions this makes a
  batch that leaves work for the next one.
* `MaxAttempts` is 2 where the code has 10; `AttemptCap` 3 bounds the claims of
  a behaviour, one more than the limit, so that a claim over the limit and
  crashes before it happen. `Crash` spares the worker of the last claim: after it
  the model, not the code, has no further claim.
* The profile part has one process because of its liveness property; its safety
  is proved for any number.
* The requests of `QuotaRace` are one of 1 and one of 2 units of one actor and
  one of 1 unit of another: with 2 units per key a grant must wait for a part of
  the window, and an actor can be passed over; an actor with two queued requests
  meets another.
* `MaxEntries` is 1 where the code has 4 096, so that the second token finds the
  cache full. `MaxGeneration` 2 lets a fetch be fenced twice.
* In the *cache* part the account of one token changes first, and that of the other
  when the notice of this is acknowledged or lost; the tokens mirror each other.
  Of the *calls*, a share runs with tokens that stay as they are, and a sign-in starts
  from one way to hold the handles, with one early token at most: who is let in, and
  the list that is shared, do not depend on one another. The proofs have none of
  these restrictions.
* `MaxRequests` 4 is what each hazard of the sharing part needs: two updates of
  the profile and two more, a refresh with a second one and a stop. `Spend` and
  the clock are not counted. A behaviour has one session, on the profile or not,
  and a second sign-in attempt only where it has none: sign-ins and sessions
  touch only through the cut-over, which each reaches alone.
* `MaxCredentials` 3 is the one found, one from a refresh and one from a sign-in,
  or two sign-ins over each other.
* Two parts of a file are what a write can come between; two writes make a version
  that was never read whole. The file is written a second time only when the
  download is over, which shares nothing with the file.
* Two pages of two rows are what a row can move between; pages beyond `MaxPages`
  are the doubt the code turns into an error. A budget of 11 is exceeded by the
  largest pages only, in the second batch at the earliest.
* The digits 0, 4 and 5, one before and one after the point, exponents from -2 to 2,
  one place and a limit of 48 are leading zeros, what is just under and at a tie,
  fractions that are shifted out, and both ways of refusal. Three characters of
  pattern and text meet a part that occurs twice.
* Output of five bytes in pieces of two splits the secret (three characters, the
  first of which repeats) and the wide character at every place.
* `MaxAge`, `Timeout` and `Expiry` of the commands are 2, 1 and 4 ticks, so that a
  connection can be answered, stored, outlive the end and lapse.
* A tab's session changes `MaxGenerations` times at most: after that nobody
  touches the tab. The two runs of the website differ in it because the
  disagreement of section 6 needs one change more.
* Symmetry is used only in runs without liveness properties, and over sets whose
  members no definition names.
* Deadlock is checked in the runs of the session lifecycle, which never rests
  (where a client has its answer, the action `Rest` of the *calls* part says so),
  and in `ProfileAbsence`. Elsewhere requests, commands, searches or settling tasks
  are finite and the system then rests for good.

### Fairness

Five properties speak of what happens in the end, each in a part whose code owes
it.

`SessionSafety!Fairness` assumes: time passes and leases run out (weak);
the TTL loop ticks (strong on `ClaimExpired`, which waits for its last batch);
a creation that is under way takes a step, even if only to fail (weak: every
provider request and the router have a timeout); and each *stage* of an end
handler or reaper worker that is reached again and again succeeds in the end
(strong): a provider that never confirms a stop, or a database that refuses
every write, does hold the slot, which the code intends. Crashes are never fair.

`RecordingQueue!Fairness`: delays pass, the loop ticks, claimed work is
finished unless its worker crashes (weak only; lookups may all be undecided,
the limit ends them). `ProfileProvisioning!Fairness`: the loop ticks and works
off its list; the lookup and the activation of a profile that is tried for ever
succeed in the end (strong). `FairQuota!Fairness`: the scheduler task runs and
time passes (weak: the window slides, blocks end); callers owe nothing.
`AuthorizationCache!Fairness`: a request under its stripe gets an answer or
its 20 s time-out (weak), and tokio's mutex serves its waiters in order (strong on
`Enter`). The other parts ask no liveness question: a command may be killed
anywhere, a user owes no request and a page no timer.

## 4. What is proved

All proofs are for any finite or infinite sets of sessions, profiles, processes,
people, codes and so on, and any values of the limits (`Procs` finite in
`RecordingQueue`; finite sets where a bound is a number of entries). The
assumptions (`ConstantsAssumption`, `QueueAssumption`, `QuotaAssumption`,
`CacheAssumption`, `CliAssumption`, `LocalAssumption`, `SharingAssumption`,
`UsageAssumption`; for the parts `PartsAssumption` and `PartAssumption`) say that the constants are of the
right kind, that a session is created by one task, and that a request asks for no
more than a quota. TLC evaluates each in a run. `PROJECT.json` lists the theorems.

Seven proof modules extend an `MC` module, because a run checks the smaller parts
there: the theorems about `UsageLimits`, `AccountsCalls`, `FetchBatches`,
`UsageCosts`, `WebsiteSession`, `ProviderCalls`, `Listings`, `TextFilter`,
`DatabaseStart`, `ControllerSetup`, `FileTransfer`, `CommandArguments`,
`CommandOutput`, `ProviderSearch` and the run's
profiles are of the sum's `MCSpec`. The constants of a part are those of the `MC`
module and left open as everywhere else; only the configuration gives them values.

**Slot** (`SessionSafety_proofs`: `SlotInvariant`, then `SlotHeldWhileRunning`,
`OneBrowserPerProfile`, `LiveProfileKept`, `NoneStuckInEnding`,
`SettledStaysSettled`, `LifecycleImplementsSlot`). `KnownBrowserHoldsSlot` is not
inductive: a finaliser at work could release the slot of a running browser.
`SlotInv` adds what each stage may rely on (`EachStage`: from `remember` on, the
browser is stopped; a creation past `starting` has a browser that started; only
bound sessions are stopped by others), that a stored runtime belongs to a browser
that started (`BoundStarted`), and that settled bound sessions are stopped. One
step per action, one substep per conjunct it disturbs. The refinement maps
live sessions to `held`, running known browsers to `open`, settled sessions to
`spent`, and needs the invariant for releases.

**Bills and recordings** (`OutcomeInvariant`, `FinalBillIsKept`,
`RecordingIsKept`, `StoreIntentsHaveSource`). On top of `SlotInv`: what a task
believes of the recording's source is true (`KnowledgeTrue`), which holds
because only a creation can overwrite the source with nothing and at that point
nobody else can know of one; what a task wrote before it reaches a stage
(`Prepared`). No assumption on leases is used: this holds for stalled processes.

**Exclusion** (`StopsExclusive`). Assumes `LeaseCoversAttempt`, which the
constants 180 s and 210 s of `server.rs` are chosen for. The invariant is that a
worker under way holds the running lease (`WorkerHoldsLease`).

**Recording** (`RecordingSafety_proofs`). `OutcomeInv` for the outcome;
`ClaimInv` for claims: attempt numbers of two working claims differ, and the
history of requests is bounded by the attempts. `RequestsBounded` holds for any
number of processes, crashes and expired leases.

**Profiles** (`ProfileProvisioning_proofs`). `ProfileInv`: a task that is about to
activate knows that the remote profile exists, and existence is stable
(`ActiveRowHasRemote`). `ActiveProfilesExist` (`RecordingSafety_proofs`) is the same
of the run's instance, whose loops are named otherwise, from what of `ProfileInv` it
needs (`RemoteInv`).

**Search** (`SearchesAnswerTruly`, in `RecordingSafety_proofs`). `AbsentWasAbsent`
speaks of the answer only. `SearchInv` of the pages read so far: as long as the
total is that of the first page, every row of ours that now stands on a page
already read has been seen (`PagesSeen`). This is kept because rows are only added
or only removed while a search runs, so that a total that is still the same means
that nothing was (`TotalTells`); without it a row could slip back unseen. The last
page then has nowhere to hide a row. The proof counts rows and matches with the
theorems on finite sets and sequences.

**Quota** (`FairQuotaSafety_proofs`). `QuotaInv`: the window limit follows from
`Fits` by counting the charges of a grant. That refunds take off their own
charges only (`PermitsCharged`) needs that nobody works with a reservation that
is being returned or that another caller has (`ReturnedOnce`), and that new
reservations are unknown (`ReservationsKnown`). `ChargesDelivered` names for
each charge the caller or the rejection that accounts for it. `QuotaAssumption`
says that requests ask for at least one unit and at most the quota of a key,
which `acquire` enforces.

**Turns** (`OrderAlways`, then `SchedulerFindsRequests` and `GrantsTakeTurns`).
`OrderInv`: the order holds each actor once and exactly those with a queue; a
request waits in one queue, once; and `PassedComeFirst`: an actor
whose waiting head request another actor's grant has passed over was passed over
only once, and stands in the order before that actor. `RoundRobin` alone is not inductive: it does not say
where the passed actor stands. The sweep drops requests from queues and actors
from the order, which is `Retain`, a recursive function on sequences; that it
keeps the order of what it keeps is proved by induction. The induction theorems of
the library take an operator as a parameter and cannot be used here; instead
`InductiveSet` derives, from well-foundedness of the naturals as a *set* fact, that
a set with 0 and successors holds every number. `SchedulerFindsRequests` is that
the two `expect` calls of `pool.rs` never fail.

**Bills** (`BillsAlwaysAddUp`, in `FairQuotaSafety_proofs`). A fetch: what was paid
beyond the pages delivered is the batch that is out (`Paid`), and the answer so far
has the addresses of the request in order, all delivered pages and a size within
the budget (`Answered`, `Sized`). That a page is never lost on its way to its place is
`AllPlaced`: the n-th outcome of an address belongs to its n-th place, which is a
bijection between the pages of a reply and the places that have one, so both are
as many. A cost: `AmountNearest` compares the digits of `decimal_to_millionths`, their
shift and the one digit looked at for rounding, with the nearest unit by division,
for any number of digits, any exponent and any limit. `StepsExist` gives every
recursive function over numbers that these modules define; `LeadingDigit` says
that a digit weighs more than all that follow it; `Magnitude` makes the early refusal
(more than 20 digits) agree with the limit; `SharesFit` that two shares rounded down
never exceed the whole.

**Cache** (`AuthorizationCache_proofs`). `UsableIsCurrent` is not inductive: it
says nothing of a fetch under way. `CacheInv` adds that an answer fetched under
the present generation covers every notice that was acknowledged *or has already
moved the generation* (`Current`, `Covers`); a bump makes it vacuous because all
generations in use are past ones (`PastGenerations`); and that notices tell of
changes that have happened. `FlightInv`: whoever asks holds its stripe.
`SizeInv`, for `EntriesAreBounded`: insertion looks at the size and evicts before
it adds, so however many stripes insert at once the cache keeps its bound; the
proof counts with the theorems on finite sets. No run checks `EntriesBounded`.

**Usage limits** (`LimitsAreRecent`, in `AuthorizationCache_proofs`). `ToldRecent`
speaks of who was told; the invariant `LimitsInv` of what may be told: the age of
a usable entry and the time it has left add up to the time to live of its kind.

**Credentials of the client** (`CliSafety_proofs`). `TypeOK` is inductive only
with what each step has at hand (`Prepared`: a bearer where a request follows, a
refresh token where one is sent) and with `Unopened`: nothing runs before the
partition exists. `SubmissionsAreSingle`: a token that is not claimed was never
submitted, and at most one request works with a claimed one (`OnceInv`).
`StoredTokensUnsent`: `StoredRefreshUnsent` says nothing of a token that is about
to be sent (`TakenOut`: it is in neither file) or of a credential that is still
on its way (`NewIsNew`: it was never sent and is in no file; `OneArrival`: one
answer brings it); the four together are inductive, power loss included
(`TokensInv`).

**Sign-ins of the client** (`GrantInvariant`, then `IdentitiesBound`,
`IntentsKept`, `GenerationsKeepGrants`, `SigningOutIsFinal`). `IdentityBound`
speaks of the file only, while what is written to it was read or asked for many
steps before. `GrantInv` says of every state that is stored, durable or remembered
by a command that its tokens are of one grant and its identity is that grant's
account (`OneSignIn`); that all states under one login generation are of one grant
(`SameGrant`), which holds because a generation is drawn before it is used; and
that each command knows whose tokens it refreshes, sends, receives and uses as a
bearer (`Faithful`, stage by stage). From it follow the two action properties:
what replaces a state under the same generation is of the same grant, so a late
answer never overwrites a newer sign-in, and after a sign-out only a sign-in, or
the loss of a sign-out that was not yet durable, stores credentials.

**Tabs of the website** (`TabsAlwaysAgree`, `LoginsSurvive`, in
`CliSafety_proofs`). `WebInv` has three parts. `Storage`: a session is saved under
its own account and descends from a sign-in nobody signed out of, and a token that
was sent is marked while it is saved. `Flights`: a renewal is of the account its
call was made for; the one that holds the lock has sent its token. `MadeCalls`: a
call under way was not handled, and as long as the generation of its tab is the
call's, the tab is signed in to no other account than the one that made it. From the marks follows
that no token is sent twice, from the descent that a sign-out is final, and from
the generation that a repeated call stays with its account.

**Store** (`SharingSafety_proofs`). `SharingInv`: types, the access list is what
was named last (`AccessAsGranted`), a request that is about to write counters read
smaller ones (`ReadsAreLower`, for `UsageNeverShrinks`), a logged command opens
for the actor it is stored under, and `SignInInv`: a claimed attempt and a
submitted code belong to one request, which has not presented them
(`AttemptsClaimed`, `OneHolder`, `Unpresented`); presented pairs are counted once.
`RightsKept` is about the one step of the cut-over and follows from what
`Complete` checked, whatever was in flight.

**Provider answers** (`NothingIsLeftRunning`, in `SessionSafety_proofs`).
`NothingLeftRunning` speaks of the row and the client; `CallsInv` of what the
handler has concluded by then. At each stage its conclusion is true of the
provider (`HandlerTruth`): what is taken for refused was not started, the browser
about to be stopped is the one that was started, and a stop taken for proven has
happened, whatever answer was cut, large, delayed or about another browser
(`StartTruth`, `StopTruth`, from `Conclusions` on how answers are classified).
That it stays true needs that the provider starts one browser at most and none
after a stop (`OneBrowser`), which rests on one reservation (`Reservation`): an
answer marked as refused before the handler is given only when nothing was
reserved.

**Commands on one machine** (`LocalCommands_proofs`). `LocalInv`:
whoever checks or runs a command holds the lock of its directory (`HoldsRunLock`),
so a crash frees no lock of another, and a controller that works belongs to a
command that waits for it or was killed (`Waited`): two that work beside each other
under one sign-in are what a killed command left, and nothing else
(`SerializedUnlessKilled`). What is in a file or on its way was answered
before the session ended and was on its way for no longer than a request may take
(`AnswersBeforeEnd`), which bounds the age of a connection picked later by
`MaxAge + Timeout`.

**Transfers** (`TransfersWhole`, in `LocalCommands_proofs`). Of a download
`TransferInv` says that while it has not failed there is one script for it at most,
the one it waits for (`InTurn`), and that what it has is what the page has read for it
(`DownloadRead`), so that a script which comes late finds a transfer that is over and
changes nothing that is kept; what is on the disk is of a download that is over
(`CommittedWhole`). Of an upload it says that the parts read are those of the file as
long as its modification time is the one seen at the start, so that the second look
proves them to be of one version, and that scripts carry such a version
(`UploadsRead`). `PatchesKept` says of the chain of patches that a transfer's own is
active while it looks for its element, that the page's own stays from the moment it
was laid until the page is left, whoever restores what above or below it, and that
the topmost is active; unused ones may remain below. It is inductive once each
transfer runs its own kind of scripts (`OwnScripts`).

**Setups of the controller** (`SetupsSettle`, in `LocalCommands_proofs`).
`TargetWhole` says nothing of a temporary file about to be renamed, nor of the file
that a power loss brings back. `SetupInv` adds both (`OwnTemporary`, `FilesWhole`) and
that who is past the lock holds it and looks at PATH only where nothing is
installed (`SetupLocked`), which keeps the answer "ready" true of the controller
that a command picks.

**Arguments and output** (`CommandsFaithful`, in `LocalCommands_proofs`).
`ArgumentsInv` says of the tokens before the next one what the controller makes of
them: the place is a `Boundary` (no option before it still takes a value), no word was
passed over, and what was split so far is what `AsTyped` gives for them
(`SplitSoFar`); each step of the code's loops is one or two steps of the reference.
`OutputInv` says of each stream where every byte is: what the redactor took, what the
channel has of it and the piece that is to be sent are, in this order, what was
printed (`Polled`). Of what the redactor took (`Follows`): the bytes held back are the
longest end that may begin the secret, so that what comes next completes the secret in
them if it does in all that was printed (`Same`), and scanning piece by piece finds
what scanning all would; what was shown does not contain the secret
(`Withheld`, which needs that secret and marker do not overlap) and is, if all is text,
the beginning of what is told in the end (`Honest`). Scanning, decoding and
joining are recursive functions on sequences; that they exist and what they do with
a piece more is proved by induction over a *set* of sequences (`InductiveSequences`,
`FoldExists`), and from there that text decodes piece by piece wherever it
is not cut inside a character (`DecodeConcat`).

**Database** (`FileKeepsOneOwner`, in `SharingSafety_proofs`). `DatabaseInv` says
what the file tells of its writers (`Ledgered`, `ShortRows`), what a start that has
listed the migrations may still rely on (`ReadsAgree`), and that releases which do
not overlap find nothing at work that would refuse the file (`UpAlone`).

**Lists** (`ListsTellTruly`, in `SharingSafety_proofs`). `ListInv` follows a request
from statement to statement: between the two of a list of sessions its snapshot is of
one moment of the request, and the rows it found keep owner, name and day
(`SnapshotKept`); a list of recordings has read, or has still to read, everything that
was listed all the while, and nothing that could not be seen at some moment
(`EachKept`); a session asked for by itself was seen before its parts are read
(`OneKept`); and a row that is shown contradicts no stage of the filter
(`AnswerKept`). `FilterInv` is about the text patterns: the part of a pattern
that was found is laid along the text used so far, and no way to lay the whole
pattern along the text has used less of it there (`WalkInv`). Taking each part where
it first occurs therefore loses nothing, unless something must end with the text.
This argument needs no recursion: `Matches` speaks of a way to lay the
pattern, and `LeastNumber` finds the first place of a part.

**Requests to Accounts** (`AccountsAlwaysBelieved`, in `AuthorizationCache_proofs`).
A 401 is told after a refusal by Accounts, to what is no token, with a token past its
time, or with one that was early when the request began. `CallsInv` says of each
request what its answer and its stage are worth: an answer
taken for a refusal is one (`RefusalKnown`), claims are true of the token
(`ClaimsTrue`), each entry resolved so far was named or held a named handle while
the share ran (`Resolved`), and an answer that will be believed is about an account
that does (`LookedUp`): `NameHeld` needs that the answer gives the present handle
and not only one the account had. The list that is stored is the fold of the code as a
recursive function; `OnceCollects` proves by induction over a *set* of numbers (as for
the turns) that it holds each account once.

What stays with TLC, and why.

* Liveness: `SlotEventuallyReleased`, `EventuallyDecided`, `ExistingIsAdopted`,
  `EventuallyServed`, `WaitersProceed`. The prover has no rule for fairness or
  ENABLED.
* The four violated properties. Every invariant of a passing run is a theorem.

## 5. What is not modelled

`PROJECT.json` gives the reason for each component. In short:

* Pure code without a decision worth checking: request validation, pagination,
  tags and notes, wire types (`shared`), HTTP encoding and decoding, URL policy,
  crypto, configuration, formatting, help and output of the CLI, proxy locations.
* The shutdown of the scheduler; the call of `search.rs` that is no fetch; the
  wrap-around of reservations.
* The older public identifiers (`store/public_identifiers.rs` is not compiled), the
  ledger of the cut-over and the 401 that a retired id is answered with; the
  projection of remembered identities (`remember_identity_projection`,
  `projected_identity`), which nothing calls.
* Installation of skills, updates, the Windows variants of the file operations,
  and commands with an access token in `SB_AUTHTOKEN`, which never touch the state
  file.
* Clock skew between processes, and the upload of recordings, which nothing in the
  repository performs (no code consumes `recording.store`, and
  `mark_recording_failed` has no caller). A `store` intent that is queued while a
  resolve intent is open leaves the latter open (`store.rs` 3308): no property
  speaks of it, since an open intent is claimed and then closed by its attempts.
* The screens of the frontend, packaging and the retired code under `legacy/`.

## 6. Where code and comments disagree

* `ProviderlessExpiry`: `store.rs` 1534 calls provider-less reservations safe to
  expire immediately. After a lost create answer such a row has a running
  browser, and its slot is freed at the TTL without a stop. The provider's own
  timeout is the TTL too, counted from the creation of the browser, so the
  overlap is short when both clocks keep their promise.
* `ProfileAbsence`: `server.rs` 879 takes an empty search after a lost create
  answer as proof that nothing was committed; a request in flight may commit
  later and leave a remote profile that no row adopts.
* `FilterComplete`: `filter.rs` 26-27 says that `*` stands for any text. The last
  part of a pattern is taken where it first occurs, and the text is rejected when
  it does not end there although the part occurs again at its end: `*a` rejects
  `aa`. Patterns that end in a star or are anchored are matched rightly
  (`ListedRightly`).
* `WebsiteSwitch`: a test of `session.test.ts` (201) says that switching accounts
  during a renewal keeps both sessions. A renewal that gets the lock marks its
  token as sent, finds that its tab has another session, and then removes from
  the storage a session whose token was never sent; when the tab has switched back,
  that is the selected one.

An observation without a run. `docs/COMMAND_EXECUTION_GAPS.md` 15 says "A local lock
serializes concurrent invocations in that namespace". The lock of the code does less,
in two ways. It is in a directory of the sign-in (`runtime.rs` 35, 52), while the
namespace is the principal's: two sign-ins of one principal do not wait for each
other. And it goes with the process of the command, which the controller it started
outlives: the command after a killed one may run beside what that has left.
`SerializedUnlessKilled` says what holds.

## 7. Plan

Done: the modules above, the proofs of every specification that an `MC` module
extends, and those of the parts that run beside it (section 4). What could follow:

1. Composition: `RecordingQueue` as the continuation of `SessionLifecycle`, by
   an abstract recording that both implement; `UsageLedger` under the real
   lifecycle instead of the short one of `Sharing`.
