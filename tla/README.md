# Formal models of envoy-web-bot-auth

TLA+ models of the Web Bot Auth filter for Envoy and of its key resolver, checked
with TLC and, for the main safety properties, proved with TLAPS. Paths are
relative to the repository; `crates/` is abbreviated where unambiguous.

## 1. Inventory of the system

| Part | State | Operations | Talks to |
|---|---|---|---|
| request filter (`module/filter.rs`) | one optional `PendingVerification` per stream | `on_request_headers`, `on_http_callout_done` | Envoy callbacks, resolver callout |
| signature candidate (`module/candidate.rs`) | none | `VerificationCandidate::parse` | request capture, web_bot_auth library |
| request capture (`module/request.rs`) | none | classify, capture, `lookup_component` | Envoy headers |
| policy and verification (`module/policy.rs`, `verify.rs`) | none | `admission`, `verify_resolver_response` | filter |
| configuration (`module/config.rs`) | immutable `Settings` | `Settings::parse` | filter, candidate |
| protocol (`protocol/lib.rs`) | none | `parse_discovery_target`, JSON types | module and resolver |
| resolver service, server (`resolver/service.rs`, `server.rs`) | handler semaphore | `resolve` under a deadline, CIMD then JWKS | loader |
| resource cache (`resolver/cache.rs`) | `representations`, `refreshes` (moka) | `load`, `publish` | loader |
| loader (`resolver/loader.rs`) | none of its own | `refresh`, `refresh_inner` | cache, controls, DNS, fetcher |
| work controls (`resolver/controls.rs`) | outbound semaphore, limiters, new-origins window, circuits | `check_circuit`, `success`, `failure_backoff`, `begin_fetch`, `check_ip` | loader |
| fetcher, DNS (`resolver/fetch.rs`) | none | `fetch` | origins |
| destination policy (`resolver/ssrf.rs`) | none | `validate_url`, `validate_all_addresses` | loader |
| resource parsing (`resolver/resource.rs`) | none | `parse_resource` | cache |
| process and listener (`resolver/bin`) | the Unix socket | set-up, serve, removal, probe | operating system |
| metrics, fixtures | counters | - | everything |

A client's request reaches the filter, which removes assertion headers, parses the
signature fields into a candidate, holds the request and calls the resolver. The
resolver loads the key set through the cache, which coalesces concurrent loads
into one refresh; the refresh passes the circuit breaker and the admission limits,
fetches, publishes and settles. The filter checks the answer against the
candidate, verifies the signature and forwards or denies the request.

Hard behaviours: many loads interleave at every await and may be dropped at any
of them by the resolution deadline or by a disconnect; a refresh that is dropped
takes its permit along and leaves waiters; what a load read at its start is used
after several awaits; caches and limiter tables evict at will; origins change, answer
with an unsolicited 304, fail or hang; DNS answers differently each time; the wall
clock is set; a request of client metadata takes two loads under one deadline; a
callout callback may be late, duplicated or for another id; header fields may repeat
labels and members, and two pieces of code select among them; a resolver is killed
and started again over what it left at its socket path. `PROJECT.json` lists
these as hazards, each with its line and the properties that would catch it going wrong.

What makes each part correct:

* cache and loader: one refresh per resource, no waiter without a leader, no step
  back to an older version, stale answers only within their window, every load
  ends; together, it looks like a directory that only moves forward;
* controls and fetcher: permits conserved, an open circuit honoured, quotas kept although
  limiters are forgotten, connections only to checked addresses;
* service: handler permits conserved, answers in time and from the right documents,
  no test key;
* process: reachable once it serves, starts over leftovers, removes its socket,
  finishes accepted requests;
* candidate and verification: an identity is asserted only if this request's
  signature proves it, and while it is fresh;
* filter: modes enforced, client assertions removed, a decision is final, a held
  request is decided;
* module and resolver together: what verifies a request is a key that the signed agent
  published, and both apply the same rules to URLs, key ids and test keys.

## 2. Modules

| Module | Models | Kind |
|---|---|---|
| `KeyDirectory` | what the cache promises to its callers | abstract specification |
| `ResourceCache` | cache, loader, circuits, permits, deadline, both clocks | specification |
| `MCResourceCache` | constants for TLC | model |
| `ResourceCacheProofs` | theorems about `ResourceCache` | proofs |
| `CacheRefinement` | `ResourceCache` implements `KeyDirectory`; stale answers | proofs |
| `Outbound` | `refresh_inner` after the circuit: permits, rate limiters, new origins, DNS and address checks, fetch | specification |
| `MCOutbound`, `OutboundProofs` | constants for TLC; theorems | model, proofs |
| `Discovery` | discovery URLs and identifiers, shared by module and resolver | operators |
| `ResolverService` | server, service and resource parsing, composed with `KeyDirectory` | specification |
| `MCResolverService`, `ResolverServiceProofs` | documents and requests for TLC; theorems | model, proofs |
| `ResolverProcess` | start-up checks, socket, signals, crashes, clients | specification |
| `MCResolverProcess`, `ResolverProcessProofs` | configurations for TLC; theorems | model, proofs |
| `Freshness` | `validate_freshness` in 64-bit arithmetic | operators |
| `Candidate` | `VerificationCandidate::parse` and what it calls | operators |
| `CandidateProofs` | theorems about `Freshness` and `Candidate` | proofs |
| `Filter` | the filter with policy and verification, on top of `Candidate` | specification |
| `MCFilter` | requests, responses and keys for TLC | model |
| `FilterProofs` | theorems about `Filter` | proofs |
| `EndToEnd` | `Filter` composed with `ResolverService` | specification |
| `MCEndToEnd`, `EndToEndProofs` | URLs, documents and requests for TLC; theorems | model, proofs |

`KeyDirectory` ties the resolver together: `ResourceCache` implements it (checked
by `cache`, proved in `CacheRefinement`) and `ResolverService` uses it in
place of the cache, so that its two loads need not repeat every await of the cache.
`Outbound` opens up the four actions `Admit`, `Refuse`, `Respond` and `FetchFails` of
`ResourceCache`. `EndToEnd` puts the module and the resolver together, so that a verified request can be
traced to a document of its agent.

Definitions marked *Mutant* are deliberate faults of the definition that follows.
Each property is shown to be violated when one of them takes the original's place
(`mutants` in `PROJECT.json`); nothing else uses them.

### ResourceCache and KeyDirectory

`pc[l]` says at which await the load `l` is. `lookup`, `outcome`, `invalidate` and
`join` are the four steps of `CacheStore::load`; `wait` is a load inside `get_with`
whose resource another load refreshes; `circuit`, `admit`, `fetch`, `reply`
and `settle` are the refresh that the leader's future runs. `reps`, `outcomes`,
`circuit` and `permits` are the shared state; `began` and `previous` are the
local `now` and `previous` that survive the awaits. `Cancel` is the drop of the
future; moka then lets each waiter retry with its own closure, which holds that
waiter's `previous`.

`now` is `Instant`, which deadlines, circuits and outcomes use; `wall` is `SystemTime`,
which ages representations and may be set to any of `WallClocks` (`AdjustClock`).

A 304 is matched by version: the validators of a document are assumed to identify it, as an origin's ETags should. The
library also accepts a 304 if neither side has a validator; with such an origin nothing could tell versions apart, and
the properties about versions do not speak of it.

Moka is external: `get_with` runs at most one initialiser per key and returns an
entry that is present; entries may be evicted (`EvictableKeys`). The outcome's
time to live is not an action of its own, since a load discards an outcome that
is no longer valid and validity never exceeds that time. A resource is
its version; a `Cache-Control` header is the record of the directives the
code reads, with `Expires` counted as a lifetime.

`newest`, `floor` and `sharedUntil` are history variables: the last version
obtained per key, its value when the load began, and the validity of an
outcome settled while the load was on its way to `get_with`.

`KeyDirectory` knows only versions: origins publish, the loader obtains one that is
not older, a load asks and ends once, with nothing or with a version between what was known
when it asked and what has been obtained since. The mapping takes `newest` for
what was obtained and a load's `pc` for its status.

### Outbound

A task is a refresh from its destination check to the end of the body. Time is kept as
ages (of stamps, limiters and tasks), so that behaviours need no horizon and no state is
a dead end. Governor's limiters are external: buckets of `Burst` cells that regain `Rate` per unit of
time. `idle` counts towards `time_to_idle`; `EvictLimiter` is the eviction beyond
`state_entries`. `now` of `begin_fetch` is read before the lock of `new_origins` is held, which
the stage `window` and the variable `stamped` keep apart. Address tables are sets; a DNS answer is any set
of addresses; `connected` is the peer of the connection. A timeout of the fetch is one of the transport failures,
since both are of one class. `drawn` and `joined` are history: a limiter that is never
forgotten, and when each origin was last admitted as new.

Two facts about the limits that the model brings out and the code does not state:

* `NewOriginsBounded` holds for a window shortened by one resolution timeout (58.2 s
  rather than a minute with the defaults); over the full minute one more origin may be
  admitted, because a stamp is as old as the wait for the lock (`NewOriginsPerMinute`, see the disagreements).
* `RateBounded` speaks of the quotas with `burst <= rate * 300` (`Refills`): only these are
  full again when their idle limiter is dropped after five minutes. `Limits::validate` asks only for
  `burst >= rate` (`QuotaAssumption`), so a configuration may have others, for which
  nothing is claimed; the defaults refill within two seconds. And an eviction beyond
  `state_entries` starts the history of that limiter afresh: the bound holds from one to the next.

### ResolverService

A caller makes one request at a time. `Accept` is the router and the handler
permit, `Validate` the synchronous start of `resolve_inner`, `Proceed` what follows a load: a second
one for metadata with a `jwks_uri`, or the search for the key. `LoadEnds` is the directory's answer;
every error of the loader is the answer `NoAnswer` and a 503. Documents are records with
the fields that `parse_resource` reads; `Content` gives each resource its documents in
order of version, and only those that parse are obtained, as in
`representation_from_response`. A key is named by its public part, `Thumbprint` gives its id.

### ResolverProcess

The path holds nothing, a file (or link) or a socket with its maker, mode and whether somebody
listens on it. Each system call of `prepare_socket_path`, `serve_unix` and `remove_own_socket` is a step, and
crashes, file-system errors and other programs act between any two. `ConfigError` is the first
error that `serve` meets, with the limits at their real values. At the signal axum closes the listener and waits for
what it has accepted. An accepted connection stands for a request that is being handled, or for a client that has yet to
complete one and will time out. A signal before `shutdown_signal` listens ends the
process like a kill. `Overlap` says whether a process may be started while another one runs;
where it may, the later one takes the socket away from the earlier one (see the
disagreements), and the earlier one's `remove_own_socket` may then remove the later one's.
`tampered` is history: an operator took a socket away, which `remove_file` cannot notice.

### Freshness, Candidate, Discovery

`ValidateFreshness` keeps `checked_sub`, `saturating_add` and `saturating_sub` over
an `I64Max` that is a parameter. `Candidate` keeps the order of the checks
and every error they report. A signature field is a sequence of members in the order
of the header values: the tag is counted over all of them, the covered member's key is
read from the first occurrence of the label, and the library sees the last one.
The result of parsing structured fields is given; a component that does not parse has the parameters `unparsable`. A path is a sequence of segments; escapes that make up a whole
segment are decoded as `normalize_percent_encoding` does. `ParsedPath` is what the url crate has already done to a path when
the code sees it: dot segments, escaped ones too, are gone from the URL that is fetched.

### Filter

One HTTP stream. `OnRequestHeaders` is the whole callback with all its early returns;
`OnHttpCalloutDone` begins with `pending.take()`. Envoy may deliver any response with
any callout id, again after the decision, and may reset the stream. The resolver
may answer anything: nothing is assumed of it. A signature verifies under exactly one key
(`signer`), and `Thumbprint` gives a key its id. The check that the resolver
request fits in 8 KiB cannot fail for a candidate (the URL has at most 2048 and the key
id at most 512 bytes, JSON at most doubles them), so it has no branch of its own.
Reasons are kept because metadata carries them; histograms and logs are left out.

### EndToEnd

One stream of `Filter`, its callout the caller `Mine` of an instance of `ResolverService`; the other callers are
callouts of other streams, which compete for the handler permits. `Ask` is the `ResolveRequest` that the filter sends, with
the URL as it was signed, and `Outcome` is how the callback reads an answer. Of Envoy it is assumed
that a callback with the id of this stream's callout carries the answer to it; callbacks with other ids may carry
any caller's answer, the connection may break, the stream may be reset and the callout may time out at any
time. The clocks of the two processes are unrelated (`now` and `uptime`), so that a resolution may outlive
the callout. `known` is history: what the resolver had obtained when the headers arrived.

## 3. Runs

| Run | Question | Distinct states |
|---|---|---|
| `cache` | Does any interleaving bring back an older version, start a second refresh, or one at an open circuit, strand a waiter or lose a permit? Does every load end, and is the cache a `KeyDirectory`? | 495 k |
| `cache_must_revalidate` | Does must-revalidate disable the stale fallback? (violated) | - |
| `cache_shared_refresh` | Do concurrent loads share one refresh? (violated) | - |
| `outbound` | Do permits come back, are quotas kept, which peers are contacted? | 1.1 M |
| `outbound_window` | Are new origins bounded in every rolling minute? (violated) | - |
| `service` | Are answers true and timely, and does every request end? | 489 k |
| `process` | Does a process that crashes and restarts at any step keep its promises about the path and its clients? | 152 k |
| `process_socket` | Does a start remove only a stale socket, never a live one or a file? (violated) | - |
| `filter` | Is every asserted identity proved and fresh, what goes upstream, is a decision final, is every held request decided? | 78 k |
| `end_to_end` | Does the resolver's answer carry a verified request back to a current document of the signed agent, never to a test key, and do both processes apply the same rules? | 282 k |
| `filter_coverage` | Is a covered component counted as covered? (violated) | - |
| `filter_expiry` | Is a signature refused once it has expired? (violated) | - |

Bounds of the cache runs. Two loads are enough for every pairwise race of a leader with a waiter, a
late comer or a successor, and one key suffices where resources do not interact; that more loads and keys change nothing is
proved, not checked. Resources interact only through the permits: contention for these is what `outbound` checks, with
three tasks for two permits, and `PermitsAreConserved` proves. In `cache` the origin changes once, its answers are fresh for one unit or must not be
stored, a circuit stays open to the end once it opens, a deadline takes one unit, and the clock runs from 0 to 1 while the wall clock may be set. The
two violation runs have the longer clocks and the headers that their questions need. `MaxTime` and `MaxVersion` stop the clock and the
origin; a load begins only if its deadline fits. Since the clock stops, the models
end in deadlocks of no meaning and the configurations switch that check off; that
nothing hangs is what the liveness properties show. Symmetry over loads is used where only safety is checked.

Bounds of `outbound`. Three tasks for two permits, two origins for one place in the window, one good and one bad
address, bursts of one and two cells, a window of 3 units against a deadline of 1, and a time to
idle of 2, the least that lets a limiter fill up again. Time has no bound and deadlock is checked.

Bounds of `service`. Two callers and one handler, three resources with up to two documents each: a
directory, a key set that first lists the test key under another kid, and client metadata that
moves from a `jwks_uri` to inline keys. Nine faulty documents are evaluated as assumptions of the model.

Bounds of `process`. Two processes, restarted without limit, and one client; ten configurations, one for each
kind of error. Deadlock is checked.

Bounds of the filter runs. `MCFilter` enumerates a plausible request and its
deviations one at a time (each fault of URL, type, algorithm, key id and header set),
and combines the ones that interact: covered components with agent fields, repeated
labels with two members, creation with expiry. `@method` is configured as required. The lifetime is 2, the skew 1, the callout takes
up to 2 units and the clock runs from 0 to 6, so that requests arrive before, during and
after validity.

Bounds of `end_to_end`. This stream and one other callout compete for one handler; both clocks run from 0 to 1, which covers a
timeout on either side. Three URLs have one identifier: client metadata at an escaped path, the key set it refers to, which withdraws
the key, and a URL with a query whose key set lists the test key, once under the id of the first key. The mode is `required`: modes and assertion headers are the business of `filter`.

Fairness. `FairSpec` of `ResourceCache` and of `ResolverService` assumes that the clock advances and that an
expired `tokio::time::timeout` drops the load; it assumes nothing of origins, of the
refresh or of the order in which futures are polled. `FairSpec` of `Filter` assumes the
clock and Envoy's callout timer. `FairSpec` of `ResolverProcess` assumes that a process that can take its next step
takes it, and that an accepted request is answered or given up by its client: the first is what `service` shows, the second covers
a client that never completes its request. The drain has no deadline of its own, so without the
client's timeout a shutdown could wait for ever. The models let time pass only up to a running deadline: timers are
prompt compared with the units of the clock.

### Disagreements with the documentation

* `must-revalidate` on a 304: `cache.rs:174` falls back to the stale window of the earlier
  representation, whereas `docs/architecture.md:97` says the directive disables it.
* Shared refresh: `cache.rs:106` may invalidate a valid outcome that has just been
  settled, so that a concurrent load refreshes again (`docs/architecture.md:91`).
* Stale socket: `listener/mod.rs:92` removes any socket at the path, that of a process which listens on it
  too, and by then perhaps a file that took the place of the socket it inspected, whereas `docs/architecture.md:136` says only a stale one is removed.
* `required_components`: `@scheme` and `@query` are accepted and documented
  (`docs/operations.md:57-64`) but never counted as covered (`candidate.rs:256`).
* Expiry: the clock skew is documented as future skew (`docs/operations.md:56`) and a signature as valid until its
  expiry (`docs/architecture.md:36`), but the skew is applied to the expiry too (`candidate.rs:208`), so that a request which
  arrives after the expiry is verified (`filter_expiry`). `FreshAtDecision` states the bound that the code does keep.
* New origins: `docs/architecture.md:112` says 256 per rolling minute, but a task reads `now` before it waits for the lock
  (`controls.rs:258`), so an origin may leave the map before it was in it for a minute and one more is
  admitted (`outbound_window`). `NewOriginsBounded` states the bound that the code does keep.

## 4. Proofs

All proofs hold for every value of the constants under the named assumptions of the modules: bounds are
naturals, sets that are counted are finite, placeholders differ from real values, and quotas are as `Limits::validate` accepts them
(`QuotaAssumption`).
TLC evaluates them in every run.

`ResourceCacheProofs`. Type correctness is proved first. `SingleFlight`,
`WaitersHaveLeader` and `CircuitHonoured` follow from `FlightInv`, which says that `leader[k]` is exactly the
load that is in a refresh stage for `k` and that each waiter's key has a leader: without this
correspondence a second load could not be excluded from leading. Permit conservation uses
it together with cardinalities of the set of permit holders. The version properties follow from
`VersionInv`: a load's floor never exceeds the newest version; what is cached
equals the newest version; and a leader's reply or result is at least as new as
everything obtained before it, which holds because there is one leader per key. The last
clause is what makes the invariant inductive, since an answer in transit could otherwise be overtaken.

`CacheRefinement`. `PreviousInv` adds that what a load remembers was obtained at some time, so that a stale answer is
one the directory may give. The proof then takes each action of the cache: `Begin` is a request,
`Publish` obtains a version, a return is an answer, `Settle` answers the leader and all waiters at once,
`Cancel` answers with nothing, everything else is invisible. `StaleWithinWindow` rests on `DeadlineInv`: no running load is past its
deadline, which no adjustment of the wall clock touches.

`OutboundProofs`. Permits follow from `IInv` by counting the active tasks. `NewOriginsBounded` rests on `OriginInv`: every origin
admitted lately is still in the map, with a stamp older than the entry by at most a deadline, and the map is within the limit. `RateBounded`
rests on `RateInv`: for a quota that refills in time, the level of a limiter plus what it regained while idle is within the burst, so that it is empty of
debts when it expires. `PeerInv` says that a selected address was checked and that there is a connection only while its answer is
awaited, from which also `RefusedBeforeContact` follows.

`ResolverServiceProofs`. The directory's part of the state and the service's are separate invariants (`DirectoryInv`,
`ServiceInv`) that are preserved separately. `ChainInv` carries the argument over two loads: a request that waits for its key set got the
URL from metadata that is current since the request arrived, and every response sent is truthful; published versions only grow, so it stays so.

`ResolverProcessProofs`, for processes that do not overlap. `IInv` says for every step of a process what it may rely on at the path (`PathOf`), that only a process between
`chmod` and the signal has a live listener (`ListenerInv`) and that accepted connections belong to a serving or draining process
(`ConnOf`). `OneUp` makes the path exclusive to the running process; `process_socket` shows that it is needed.

`CandidateProofs`. For freshness, saturation and overflow checks never accept what integers reject, and reject
nothing more if skew and lifetime fit in an `i64`. For the candidate, two places of the code read the Signature-Agent field: `select_agent` extends one dictionary
value by value, while the signature base takes the member of the last value that has the key. `MergedLastWins`
shows that they agree for any number of header values. `MergedMembers` is a fold, so the lemma needs an induction
along the values. The proof gives the closed form of the fold (the last holder of each key) as a witness that the recursive
function exists, and then takes the least prefix on which the two would differ. `OneTagged` shows that the member the library parses, the last
of its label, is the one that carries the tag although the label was chosen by the first. `CandidateIsBacked` combines
them.

`FilterProofs`. `FilterInv` adds to the stated properties that a held request
has clean assertion headers and a complete set of signature fields (`HeldClean`): the callback relies
on the sanitising done a callback earlier. Finality follows from "held iff pending". `ProofInv` adds that
nothing is asserted before the decision (`Undecided`) and that the pending candidate is that of the request being held, read
at a time that the callout has not outlived (`PendingBacked`); `VerifiedMeansProved` and `FreshAtDecision` follow with
`CandidateIsBacked` and `FreshnessSound`. `RequestsAssumption` says that the fields are sequences and that times are
64-bit integers or absent. The step lemmas are about `AnyStep`, in which a callout may end with any value at all, so that they also hold
when the resolver of `EndToEnd` is behind it.

`EndToEndProofs`. The theorems about the parts are used as they are. Every step of the system is a step of the filter or leaves it
alone (`StreamStep`), so `ProofInv` holds; every step is one of the service (`ServiceStep`), where only
`PendingIsAsk` is needed to see that what the module sends is a request of `Asks`; so the behaviours of the system are behaviours of
`ResolverService` (`ServiceRuns`) and its theorems apply through `INSTANCE`. What is new is `Correlated`: if a verification is pending
and its question has arrived, the question is that of the pending candidate and was accepted after `known` was recorded. It needs that a stream
whose headers have not arrived has asked nothing, and that the resolver forgets no question. `VerifiedByAnswer` then shows that a decision for
"verified" comes from the answer to this question, `CandidateIsBacked` that the question is that of a covered
entry, and `AnswerWidens` that the answer remains one from `known` on. `RulesAgree` follows from
`CandidateIsValid` (an accepted candidate has a valid URL and key id) and from the truth of the identifier in every answer.
`EndToEndAssumption` adds to those of the parts only that `Mine` is a caller.

Only model-checked: the five liveness properties (`LoadTerminates`, `HeldIsDecided`, `ResolutionEnds`,
`StartupSettles`, `ShutdownCompletes`), since liveness under fairness is beyond the prover.
Only proved: `StaleWithinWindow`, whose windows need a longer clock than `cache` has; and two steps on the way, that successive refreshes obtain versions in order (`NewestMonotone`, which `RefinesDirectory` also
implies) and that no answer of the resolver makes a test key usable (`TestKeysNeverUsable`, from which `TestKeysVerifyNothing` follows).

## 5. Not modelled

* Metrics and logs: written only.
* Fixtures and the commands that serve them: test support.
* JSON, TLS, Ed25519, structured-field syntax, the url crate: external; the models use what they return.
* Parsing of the module's configuration: pure, once, before any request. Its settings are constants.
* The ranges in the address tables and the parsing of a `Retry-After` date: data for unit tests.
* Crashes of the resolver as they concern caches: nothing is persisted but the socket, so a restart is `Init`.

## 6. Plan

1. Done: the cache core with circuit and permits, its proofs; freshness, candidate and filter with
   their first proofs.
2. Done: `KeyDirectory` and the refinement; `Outbound`; `ResolverService`; `ResolverProcess`; the wall clock; their proofs.
3. Done: proofs of `FreshAtDecision` and of `VerifiedMeansProved` with the member selection.
4. Done: `EndToEnd`, the composition of `Filter` with the service in place of an arbitrary resolver, and its proofs. The theorems
   about `Filter` alone still assume nothing of the resolver.
5. Left: `ResourceCache` in place of `KeyDirectory` within `EndToEnd` for TLC (its refinement is proved, which makes the step a
   matter of substitution).
