--------------------------- MODULE ResourceCache ---------------------------
(***************************************************************************)
(* The resolver's resource cache: concurrent loads of discovery resources  *)
(* (crates/resolver/src/cache.rs and loader.rs) together with the circuit  *)
(* and permit state they use (crates/resolver/src/controls.rs).            *)
(*                                                                         *)
(* A load is one execution of CacheStore::load.  Between two awaits of the *)
(* code any other load, the origin, the clock or an eviction may step, so  *)
(* every await is the boundary of an action.  Moka's get_with is external: *)
(* `leader' is its map of running initialisers, at most one per key; when  *)
(* the leader's future is dropped, each waiter retries get_with with the   *)
(* closure it brought along, which holds that waiter's own `previous'.     *)
(*                                                                         *)
(* There are two clocks: `now' is Instant, which validity, circuits and    *)
(* deadlines use, and `wall' is SystemTime, which ages are measured with;  *)
(* the wall clock may be adjusted.                                         *)
(***************************************************************************)
EXTENDS Integers, FiniteSets

CONSTANTS
    Keys,             \* resource keys (exact URL and kind)
    Loads,            \* concurrent executions of CacheStore::load
    CacheControls,    \* the Cache-Control headers origins send
    RetryAfters,      \* Retry-After delays origins send, 0 for none
    EvictableKeys,    \* keys that capacity pressure may evict at any time
    WallClocks,       \* times to which the wall clock may be set
    OutboundFetches,  \* Limits::outbound_fetches
    Deadline,         \* Limits::resolution_timeout
    MaxFreshness,     \* cache.rs MAX_FRESHNESS
    DefaultFreshness, \* the max-age=300 of apply_default_freshness
    CoalescedTtl,     \* COALESCED_FAILURE_TTL, also the life of a stored success
    MinBackoff,       \* MIN_FAILURE_BACKOFF
    MaxBackoff,       \* MAX_FAILURE_BACKOFF
    OpenFor,          \* the 30 s base of the circuit's open time
    MaxTime,          \* bound: the clock stops here
    MaxVersion,       \* bound: the origin changes a resource this often
    NoRep, NoOutcome, NoLoad

ASSUME CacheAssumption ==
    /\ OutboundFetches \in Nat
    /\ Deadline \in Nat
    /\ MaxFreshness \in Nat /\ DefaultFreshness \in Nat
    /\ CoalescedTtl \in Nat
    /\ MinBackoff \in Nat /\ MaxBackoff \in Nat /\ OpenFor \in Nat
    /\ RetryAfters \subseteq Nat
    /\ EvictableKeys \subseteq Keys
    /\ WallClocks \subseteq Nat
    /\ IsFiniteSet(Loads) /\ NoLoad \notin Loads

(* A directive that a header does not carry. *)
Absent == -1

CacheControl == [maxAge : Nat \cup {Absent}, staleIfError : Nat \cup {Absent},
                 mustRevalidate : BOOLEAN, storable : BOOLEAN]

ASSUME HeadersAssumption == CacheControls \subseteq CacheControl

(* A response without any Cache-Control header. *)
NoHeader == [maxAge |-> Absent, staleIfError |-> Absent,
             mustRevalidate |-> FALSE, storable |-> TRUE]

(* ver stands for the parsed resource and its validators; cc for the       *)
(* headers kept by the http_cache_semantics policy.                        *)
Representation == [ver : Nat, storedAt : Nat, cc : CacheControl,
                   staleFor : Nat \cup {Absent}]

(* FailureClass, and "ok" for a result that is not an error. *)
FailureClass == {"transient", "circuit_open", "permanent", "load_shed"}

RefreshResult == [err : FailureClass \cup {"ok"}, retryAfter : Nat,
                  rep : Representation \cup {NoRep}]

RefreshOutcome == [result : RefreshResult, validUntil : Nat]

(* Past seven failures and four openings failure_backoff no longer changes *)
(* its answer: the exponents stop at 6 and 4.  The counters, which the     *)
(* code lets saturate at u32::MAX, are kept up to these bounds only.       *)
FailureCap == 7
OpenCap == 4

(* openUntil 0 is None. *)
CircuitState == [failures : 0..FailureCap, openCount : 0..OpenCap, openUntil : Nat]

Reply == [status : {200, 304}, ver : Nat, cc : CacheControl]

ASSUME NoneAssumption == /\ NoRep \notin Representation
                         /\ NoOutcome \notin RefreshOutcome

(* How a load ended: from the cache, by a refresh, with a stale            *)
(* representation, with an error, or dropped with its future.              *)
Source == {"fresh", "refresh", "stale", "error", "cancelled", "none"}

VARIABLES
    now,        \* Instant::now()
    wall,       \* SystemTime::now()
    version,    \* origin: current version of each resource
    reps,       \* CacheStore::representations
    outcomes,   \* CacheStore::refreshes
    leader,     \* moka's running initialiser of refreshes, per key
    circuit,    \* WorkControls::circuits
    permits,    \* free permits of WorkControls::outbound
    pc,         \* where each load is
    target,     \* the key it loads
    started,    \* when its deadline was armed
    began,      \* its `now', read once from the wall clock at the start
    previous,   \* the representation it saw at the start
    reply,      \* the origin's response to its fetch, still in transit
    result,     \* the refresh result a leader carries to its outcome
    served,     \* how the load ended and with which representation
    newest,     \* history: the last version a refresh obtained, per key
    floor,      \* history: newest of the key when the load began
    sharedUntil \* history: validity of the outcome settled since the load read `outcomes'

clockVars  == <<now, wall, version>>
storeVars  == <<reps, outcomes, leader, circuit, permits>>
loadVars   == <<pc, target, started, began, previous, reply, result, served>>
ghostVars  == <<newest, floor, sharedUntil>>
vars == <<clockVars, storeVars, loadVars, ghostVars>>

Stages == {"idle", "lookup", "outcome", "invalidate", "join", "wait",
           "circuit", "admit", "fetch", "reply", "settle", "done"}

(* Stages of the future that get_with runs for a key: the refresh. *)
LeaderStages == {"circuit", "admit", "fetch", "reply", "settle"}

(* Stages in which refresh_inner holds its outbound permit. *)
PermitStages == {"fetch", "reply"}

Active(l) == pc[l] \notin {"idle", "done"}

---------------------------------------------------------------------------
(* Representations. *)

Min2(a, b) == IF a <= b THEN a ELSE b

Max2(a, b) == IF a >= b THEN a ELSE b

(* Heuristic freshness: a 200 that neither forbids storage nor states a    *)
(* lifetime gets the default one.                                          *)
ApplyDefaultFreshness(cc) ==
    IF cc.storable /\ cc.maxAge = Absent
    THEN [cc EXCEPT !.maxAge = DefaultFreshness] ELSE cc

ParseStaleIfError(cc) ==
    IF cc.mustRevalidate \/ cc.staleIfError = Absent THEN Absent
    ELSE Min2(cc.staleIfError, MaxFreshness)

(* The fresh_for of a representation: the policy's time to live, capped. *)
FreshFor(r) == IF r.cc.maxAge = Absent THEN 0 ELSE Min2(r.cc.maxAge, MaxFreshness)

(* fresh_request: a representation stored after `t' has age zero. *)
FreshRequest(r, t) ==
    (IF t < r.storedAt THEN 0 ELSE t - r.storedAt) < FreshFor(r)

(* stale_allowed_after_error: one stored after `t' is refused. *)
StaleAllowedAfterError(r, t) ==
    /\ r.staleFor # Absent
    /\ t >= r.storedAt
    /\ t - r.storedAt <= FreshFor(r) + r.staleFor

(* Mutant: a 304 is taken to confirm whatever is stored. *)
RevalidateBlindly(old, resp, t) ==
    IF resp.status = 200
    THEN [ver |-> resp.ver, storedAt |-> t,
          cc |-> ApplyDefaultFreshness(resp.cc),
          staleFor |-> ParseStaleIfError(resp.cc)]
    ELSE IF old = NoRep THEN NoRep
    ELSE [old EXCEPT !.storedAt = t]

(* representation_from_response; NoRep is its InvalidResource error.  A    *)
(* 304 without a Cache-Control header keeps the stored one.  Whether a 304 *)
(* is about the stored representation is decided by http_cache_semantics,  *)
(* which compares validators: they are assumed to identify versions, and   *)
(* an origin that sends none is assumed to send no 304 for another version *)
(* (without validators on either side the library takes any 304).          *)
RepresentationFromResponse(old, resp, t) ==
    IF resp.status = 200
    THEN [ver |-> resp.ver, storedAt |-> t,
          cc |-> ApplyDefaultFreshness(resp.cc),
          staleFor |-> ParseStaleIfError(resp.cc)]
    ELSE IF old = NoRep THEN NoRep
    ELSE IF old.ver # resp.ver THEN NoRep
    ELSE [ver |-> old.ver, storedAt |-> t,
          cc |-> IF resp.cc = NoHeader THEN old.cc ELSE resp.cc,
          staleFor |-> IF ParseStaleIfError(resp.cc) # Absent
                       THEN ParseStaleIfError(resp.cc) ELSE old.staleFor]

Success(r) == [err |-> "ok", retryAfter |-> 0, rep |-> r]

Failure(class, delay) == [err |-> class, retryAfter |-> delay, rep |-> NoRep]

NoResult == Failure("permanent", 0)

NoReply == [status |-> 200, ver |-> 0, cc |-> NoHeader]

AllowsStale(res) == res.err \in {"transient", "circuit_open"}

(* result_or_stale: what a load with this `previous' and this `now' returns *)
(* for a refresh result.                                                   *)
ResultOrStale(res, old, t) ==
    IF res.err = "ok" THEN [source |-> "refresh", rep |-> res.rep]
    ELSE IF AllowsStale(res) /\ old # NoRep
    THEN IF StaleAllowedAfterError(old, t)
         THEN [source |-> "stale", rep |-> old]
         ELSE [source |-> "error", rep |-> NoRep]
    ELSE [source |-> "error", rep |-> NoRep]

---------------------------------------------------------------------------
(* The circuit of a key. *)

ClosedCircuit == [failures |-> 0, openCount |-> 0, openUntil |-> 0]

(* 1u32 << e for the exponents that failure_backoff uses. *)
Doubling == <<1, 2, 4, 8, 16, 32, 64>>

(* The circuit after one more transient failure, at time t. *)
Failed(c, t) ==
    LET f == Min2(c.failures + 1, FailureCap)
    IN  IF f >= 3
        THEN [failures |-> f,
              openCount |-> Min2(c.openCount + 1, OpenCap),
              openUntil |-> t + Min2(OpenFor * Doubling[c.openCount + 1], MaxBackoff)]
        ELSE [c EXCEPT !.failures = f]

(* The backoff failure_backoff returns when it leaves the circuit at c. *)
Backoff(c, delay) ==
    Max2(Min2(MinBackoff * Doubling[c.failures], MaxBackoff), Min2(delay, MaxBackoff))

CircuitRemaining(c, t) == IF c.openUntil >= t /\ c.openUntil > 0
                          THEN c.openUntil - t ELSE CoalescedTtl

---------------------------------------------------------------------------
(* The steps of a load. *)

Init ==
    /\ now = 0
    /\ wall = 0
    /\ version = [k \in Keys |-> 0]
    /\ reps = [k \in Keys |-> NoRep]
    /\ outcomes = [k \in Keys |-> NoOutcome]
    /\ leader = [k \in Keys |-> NoLoad]
    /\ circuit = [k \in Keys |-> ClosedCircuit]
    /\ permits = OutboundFetches
    /\ pc = [l \in Loads |-> "idle"]
    /\ target \in [Loads -> Keys]
    /\ started = [l \in Loads |-> 0]
    /\ began = [l \in Loads |-> 0]
    /\ previous = [l \in Loads |-> NoRep]
    /\ reply = [l \in Loads |-> NoReply]
    /\ result = [l \in Loads |-> NoResult]
    /\ served = [l \in Loads |-> [source |-> "none", rep |-> NoRep]]
    /\ newest = [k \in Keys |-> 0]
    /\ floor = [l \in Loads |-> 0]
    /\ sharedUntil = [l \in Loads |-> 0]

(* The load returns before it has led or joined a refresh; what it         *)
(* remembered goes with it.                                                *)
Return(l, what) ==
    /\ pc' = [pc EXCEPT ![l] = "done"]
    /\ served' = [served EXCEPT ![l] = what]
    /\ previous' = [previous EXCEPT ![l] = NoRep]
    /\ began' = [began EXCEPT ![l] = 0]
    /\ sharedUntil' = [sharedUntil EXCEPT ![l] = 0]

Goto(l, stage) == pc' = [pc EXCEPT ![l] = stage]

(* A load starts and reads the wall clock.  It starts early enough for its *)
(* deadline to fall within the bound on the clock.                         *)
Begin(l, k) ==
    /\ ~Active(l)
    /\ now + Deadline <= MaxTime
    /\ Goto(l, "lookup")
    /\ target' = [target EXCEPT ![l] = k]
    /\ started' = [started EXCEPT ![l] = now]
    /\ began' = [began EXCEPT ![l] = wall]
    /\ served' = [served EXCEPT ![l] = [source |-> "none", rep |-> NoRep]]
    /\ floor' = [floor EXCEPT ![l] = newest[k]]
    /\ sharedUntil' = [sharedUntil EXCEPT ![l] = 0]
    /\ UNCHANGED <<clockVars, storeVars, previous, reply, result, newest>>

(* representations.get: a fresh hit ends the load. *)
LookupRepresentation(l) ==
    LET old == reps[target[l]]
        fresh == IF old = NoRep THEN FALSE ELSE FreshRequest(old, began[l])
    IN  /\ pc[l] = "lookup"
        /\ IF fresh
           THEN Return(l, [source |-> "fresh", rep |-> old])
           ELSE /\ Goto(l, "outcome")
                /\ previous' = [previous EXCEPT ![l] = old]
                /\ UNCHANGED <<served, began, sharedUntil>>
        /\ UNCHANGED <<clockVars, storeVars, target, started, reply, result, newest, floor>>

(* refreshes.get: a valid outcome ends the load, an expired one is to be   *)
(* invalidated in a later step.                                            *)
LookupOutcome(l) ==
    LET outcome == outcomes[target[l]]
    IN  /\ pc[l] = "outcome"
        /\ IF outcome # NoOutcome /\ outcome.validUntil > now
           THEN Return(l, ResultOrStale(outcome.result, previous[l], began[l]))
           ELSE /\ Goto(l, IF outcome = NoOutcome THEN "join" ELSE "invalidate")
                /\ UNCHANGED <<served, previous, began, sharedUntil>>
        /\ UNCHANGED <<clockVars, storeVars, target, started, reply, result, newest, floor>>

(* refreshes.invalidate: whatever outcome the key has by now goes. *)
Invalidate(l) ==
    /\ pc[l] = "invalidate"
    /\ outcomes' = [outcomes EXCEPT ![target[l]] = NoOutcome]
    /\ Goto(l, "join")
    /\ UNCHANGED <<clockVars, reps, leader, circuit, permits, target, started, began,
                   previous, reply, result, served, ghostVars>>

(* refreshes.get_with: take the outcome that is there, lead a refresh, or  *)
(* wait for the one that runs.                                             *)
JoinHit(l) ==
    /\ pc[l] = "join"
    /\ outcomes[target[l]] # NoOutcome
    /\ Return(l, ResultOrStale(outcomes[target[l]].result, previous[l], began[l]))
    /\ UNCHANGED <<clockVars, storeVars, target, started, reply, result, newest, floor>>

(* Mutant: each load refreshes for itself. *)
JoinLeadAlways(l) ==
    /\ pc[l] = "join"
    /\ outcomes[target[l]] = NoOutcome
    /\ leader' = [leader EXCEPT ![target[l]] = l]
    /\ Goto(l, "circuit")
    /\ UNCHANGED <<clockVars, reps, outcomes, circuit, permits, target, started, began,
                   previous, reply, result, served, ghostVars>>

JoinLead(l) ==
    /\ pc[l] = "join"
    /\ outcomes[target[l]] = NoOutcome
    /\ leader[target[l]] = NoLoad
    /\ leader' = [leader EXCEPT ![target[l]] = l]
    /\ Goto(l, "circuit")
    /\ UNCHANGED <<clockVars, reps, outcomes, circuit, permits, target, started, began,
                   previous, reply, result, served, ghostVars>>

JoinWait(l) ==
    /\ pc[l] = "join"
    /\ outcomes[target[l]] = NoOutcome
    /\ leader[target[l]] # NoLoad
    /\ Goto(l, "wait")
    /\ UNCHANGED <<clockVars, storeVars, target, started, began, previous, reply, result,
                   served, ghostVars>>

---------------------------------------------------------------------------
(* The steps of a refresh, taken by the leader's future. *)

(* Mutant: the permit of a failed fetch is not given back. *)
FailLeaks(l, class, delay) ==
    /\ Goto(l, "settle")
    /\ result' = [result EXCEPT ![l] = Failure(class, delay)]
    /\ reply' = [reply EXCEPT ![l] = NoReply]
    /\ permits' = permits

(* refresh_inner returns an error: its permit, if it has one, is dropped. *)
Fail(l, class, delay) ==
    /\ Goto(l, "settle")
    /\ result' = [result EXCEPT ![l] = Failure(class, delay)]
    /\ reply' = [reply EXCEPT ![l] = NoReply]
    /\ permits' = IF pc[l] \in PermitStages THEN permits + 1 ELSE permits

(* Mutant: an open circuit does not stop the refresh. *)
CheckCircuitSkipped(l) ==
    /\ pc[l] = "circuit"
    /\ Goto(l, "admit")
    /\ UNCHANGED <<clockVars, storeVars, target, started, began, previous, reply, result,
                   served, ghostVars>>

CheckCircuit(l) ==
    /\ pc[l] = "circuit"
    /\ IF circuit[target[l]].openUntil > now
       THEN Fail(l, "circuit_open", 0)
       ELSE Goto(l, "admit") /\ UNCHANGED <<result, reply, permits>>
    /\ UNCHANGED <<clockVars, reps, outcomes, leader, circuit, target, started, began,
                   previous, served, ghostVars>>

(* Mutant: the permit is taken twice, by begin_fetch and by its caller. *)
AdmitTwice(l) ==
    /\ pc[l] = "admit"
    /\ permits > 0
    /\ permits' = permits - 2
    /\ Goto(l, "fetch")
    /\ UNCHANGED <<clockVars, reps, outcomes, leader, circuit, target, started, began,
                   previous, reply, result, served, ghostVars>>

(* begin_fetch grants a permit ... *)
Admit(l) ==
    /\ pc[l] = "admit"
    /\ permits > 0
    /\ permits' = permits - 1
    /\ Goto(l, "fetch")
    /\ UNCHANGED <<clockVars, reps, outcomes, leader, circuit, target, started, began,
                   previous, reply, result, served, ghostVars>>

(* ... or the URL is refused, there is no permit, or a limiter refuses and *)
(* the permit is dropped at once.                                          *)
Refuse(l) ==
    /\ pc[l] = "admit"
    /\ \E class \in {"permanent", "load_shed"} : Fail(l, class, 0)
    /\ UNCHANGED <<clockVars, reps, outcomes, leader, circuit, target, started, began,
                   previous, served, ghostVars>>

(* External: the origin answers the fetch with what it has at that moment. *)
(* Nothing keeps it from sending a 304 that was not asked for.             *)
Respond(l) ==
    /\ pc[l] = "fetch"
    /\ \E status \in {200, 304}, cc \in CacheControls :
           reply' = [reply EXCEPT ![l] =
                        [status |-> status, ver |-> version[target[l]], cc |-> cc]]
    /\ Goto(l, "reply")
    /\ UNCHANGED <<clockVars, storeVars, target, started, began, previous, result, served,
                   ghostVars>>

(* DNS, the address checks, the address limiter, the transport, the status *)
(* or the body fails.                                                      *)
FetchFails(l) ==
    /\ pc[l] \in PermitStages
    /\ \/ \E delay \in RetryAfters : Fail(l, "transient", delay)
       \/ Fail(l, "permanent", 0)
       \/ pc[l] = "fetch" /\ Fail(l, "load_shed", 0)
    /\ UNCHANGED <<clockVars, reps, outcomes, leader, circuit, target, started, began,
                   previous, served, ghostVars>>

(* CacheStore::publish: a storable representation replaces the old one, an *)
(* unstorable one removes it.                                              *)
Published(r) == IF r.cc.storable THEN r ELSE NoRep

(* The response arrives: it becomes a representation, which is published   *)
(* before refresh_inner returns and drops the permit.                      *)
Publish(l) ==
    LET r == RepresentationFromResponse(previous[l], reply[l], wall)
    IN  /\ pc[l] = "reply"
        /\ IF r = NoRep
           THEN /\ Fail(l, "permanent", 0)
                /\ UNCHANGED <<reps, newest>>
           ELSE /\ Goto(l, "settle")
                /\ result' = [result EXCEPT ![l] = Success(r)]
                /\ reply' = [reply EXCEPT ![l] = NoReply]
                /\ permits' = permits + 1
                /\ reps' = [reps EXCEPT ![target[l]] = Published(r)]
                /\ newest' = [newest EXCEPT ![target[l]] = r.ver]
        /\ UNCHANGED <<clockVars, outcomes, leader, circuit, target, started, began, previous,
                       served, floor, sharedUntil>>

(* The circuit refresh leaves behind, given the result of refresh_inner. *)
SettledCircuit(res, c) ==
    CASE res.err = "ok" -> ClosedCircuit
      [] res.err = "transient" -> Failed(c, now)
      [] OTHER -> c

(* How long the outcome is valid. *)
ValidFor(res, c) ==
    CASE res.err = "ok" -> IF res.rep.cc.storable THEN CoalescedTtl ELSE 0
      [] res.err = "transient" -> Backoff(Failed(c, now), res.retryAfter)
      [] res.err = "circuit_open" -> CircuitRemaining(c, now)
      [] OTHER -> CoalescedTtl

(* refresh ends and get_with stores its outcome: the circuit is updated,   *)
(* the leader and every waiter return, each with its own `previous' and    *)
(* `now'.  refresh does not yield between updating the circuit under its   *)
(* lock and returning, so this is one step.                                *)
Settle(l) ==
    LET k == target[l]
        res == result[l]
        Ends(m) == m = l \/ (pc[m] = "wait" /\ target[m] = k)
    IN  /\ pc[l] = "settle"
        /\ circuit' = [circuit EXCEPT ![k] = SettledCircuit(res, circuit[k])]
        /\ outcomes' = [outcomes EXCEPT ![k] =
                [result |-> res, validUntil |-> now + ValidFor(res, circuit[k])]]
        /\ leader' = [leader EXCEPT ![k] = NoLoad]
        /\ pc' = [m \in Loads |-> IF Ends(m) THEN "done" ELSE pc[m]]
        /\ served' = [m \in Loads |-> IF Ends(m)
                          THEN ResultOrStale(res, previous[m], began[m]) ELSE served[m]]
        /\ previous' = [m \in Loads |-> IF Ends(m) THEN NoRep ELSE previous[m]]
        /\ result' = [result EXCEPT ![l] = NoResult]
        /\ began' = [m \in Loads |-> IF Ends(m) THEN 0 ELSE began[m]]
        /\ sharedUntil' = [m \in Loads |->
                 IF Ends(m) THEN 0
                 ELSE IF target[m] = k /\ pc[m] \in {"invalidate", "join"}
                 THEN outcomes'[k].validUntil ELSE sharedUntil[m]]
        /\ UNCHANGED <<clockVars, reps, permits, target, started, reply, newest, floor>>

---------------------------------------------------------------------------
(* Cancellation, evictions, the origin and the clock. *)

(* Mutant: dropping the leader leaves its waiters where they are. *)
StrandWaiter(m, k) == pc[m]

(* When the leader of k is dropped its waiters go back to get_with. *)
WakeWaiter(m, k) == IF pc[m] = "wait" /\ target[m] = k THEN "join" ELSE pc[m]

(* The load's future is dropped: the resolution deadline passed or the     *)
(* client went away.  A leader takes its refresh and its permit with it.   *)
Cancel(l) ==
    LET k == target[l]
        leads == pc[l] \in LeaderStages
    IN  /\ Active(l)
        /\ leader' = IF leads THEN [leader EXCEPT ![k] = NoLoad] ELSE leader
        /\ permits' = IF pc[l] \in PermitStages THEN permits + 1 ELSE permits
        /\ pc' = [m \in Loads |->
                     IF m = l THEN "done"
                     ELSE IF leads THEN WakeWaiter(m, k) ELSE pc[m]]
        /\ served' = [served EXCEPT ![l] = [source |-> "cancelled", rep |-> NoRep]]
        /\ previous' = [previous EXCEPT ![l] = NoRep]
        /\ reply' = [reply EXCEPT ![l] = NoReply]
        /\ result' = [result EXCEPT ![l] = NoResult]
        /\ began' = [began EXCEPT ![l] = 0]
        /\ sharedUntil' = [sharedUntil EXCEPT ![l] = 0]
        /\ UNCHANGED <<clockVars, reps, outcomes, circuit, target, started, newest, floor>>

(* Mutant: the deadline is measured with the wall clock. *)
DeadlineByWallClock(l) == wall >= began[l] + Deadline /\ Cancel(l)

(* tokio::time::timeout fires. *)
DeadlineExpires(l) == now >= started[l] + Deadline /\ Cancel(l)

EvictRepresentation(k) ==
    /\ reps[k] # NoRep
    /\ reps' = [reps EXCEPT ![k] = NoRep]
    /\ UNCHANGED <<clockVars, outcomes, leader, circuit, permits, loadVars, ghostVars>>

EvictOutcome(k) ==
    /\ outcomes[k] # NoOutcome
    /\ outcomes' = [outcomes EXCEPT ![k] = NoOutcome]
    /\ UNCHANGED <<clockVars, reps, leader, circuit, permits, loadVars, ghostVars>>

EvictCircuit(k) ==
    /\ circuit[k] # ClosedCircuit
    /\ circuit' = [circuit EXCEPT ![k] = ClosedCircuit]
    /\ UNCHANGED <<clockVars, reps, outcomes, leader, permits, loadVars, ghostVars>>

(* External: the origin replaces a resource. *)
OriginUpdate(k) ==
    /\ version[k] < MaxVersion
    /\ version' = [version EXCEPT ![k] = @ + 1]
    /\ UNCHANGED <<now, wall, storeVars, loadVars, ghostVars>>

(* Time passes, but not beyond the deadline of a running load: the timers  *)
(* of the runtime are prompt.                                              *)
Tick ==
    /\ now < MaxTime
    /\ \A l \in Loads : Active(l) => now < started[l] + Deadline
    /\ now' = now + 1
    /\ wall' = wall + 1
    /\ UNCHANGED <<version, storeVars, loadVars, ghostVars>>

(* External: the wall clock is set, forwards or backwards. *)
AdjustClock(t) ==
    /\ wall # t
    /\ wall' = t
    /\ UNCHANGED <<now, version, storeVars, loadVars, ghostVars>>

LoadStep(l) ==
    \/ \E k \in Keys : Begin(l, k)
    \/ LookupRepresentation(l)
    \/ LookupOutcome(l)
    \/ Invalidate(l)
    \/ JoinHit(l)
    \/ JoinLead(l)
    \/ JoinWait(l)
    \/ CheckCircuit(l)
    \/ Admit(l)
    \/ Refuse(l)
    \/ Respond(l)
    \/ FetchFails(l)
    \/ Publish(l)
    \/ Settle(l)
    \/ Cancel(l)

Evict(k) == EvictRepresentation(k) \/ EvictOutcome(k) \/ EvictCircuit(k)

Next ==
    \/ \E l \in Loads : LoadStep(l)
    \/ \E k \in EvictableKeys : Evict(k)
    \/ \E k \in Keys : OriginUpdate(k)
    \/ \E t \in WallClocks : AdjustClock(t)
    \/ Tick

Spec == Init /\ [][Next]_vars

(* Time goes on: the clock advances, or a deadline that has expired and    *)
(* holds it up is acted upon.  Nothing is assumed of the origin or of the  *)
(* scheduling of the refresh itself.                                       *)
Fairness == WF_vars(Tick \/ \E l \in Loads : DeadlineExpires(l))

FairSpec == Spec /\ Fairness

---------------------------------------------------------------------------
(* Properties. *)

TypeOK ==
    /\ now \in Nat
    /\ wall \in Nat
    /\ version \in [Keys -> Nat]
    /\ reps \in [Keys -> Representation \cup {NoRep}]
    /\ outcomes \in [Keys -> RefreshOutcome \cup {NoOutcome}]
    /\ leader \in [Keys -> Loads \cup {NoLoad}]
    /\ circuit \in [Keys -> CircuitState]
    /\ permits \in Nat
    /\ pc \in [Loads -> Stages]
    /\ target \in [Loads -> Keys]
    /\ started \in [Loads -> Nat]
    /\ began \in [Loads -> Nat]
    /\ previous \in [Loads -> Representation \cup {NoRep}]
    /\ reply \in [Loads -> Reply]
    /\ result \in [Loads -> RefreshResult]
    /\ served \in [Loads -> [source : Source, rep : Representation \cup {NoRep}]]
    /\ newest \in [Keys -> Nat]
    /\ floor \in [Loads -> Nat]
    /\ sharedUntil \in [Loads -> Nat]

(* Two futures never refresh the same resource at the same time, whatever  *)
(* was cancelled, evicted or invalidated before (cache.rs get_with).       *)
SingleFlight ==
    \A l, m \in Loads :
        pc[l] \in LeaderStages /\ pc[m] \in LeaderStages /\ target[l] = target[m]
            => l = m

(* A load waits only for a refresh that runs: a leader that is dropped     *)
(* never leaves its waiters behind.                                        *)
WaitersHaveLeader ==
    \A l \in Loads :
        pc[l] = "wait" => \E m \in Loads : /\ leader[target[l]] = m
                                           /\ target[m] = target[l]
                                           /\ pc[m] \in LeaderStages

(* While a refresh is past the circuit check the circuit stays closed:     *)
(* nothing but this refresh records a failure (controls.rs check_circuit). *)
CircuitHonoured ==
    \A l \in Loads :
        pc[l] \in {"admit", "fetch", "reply"} => circuit[target[l]].openUntil <= now

(* Permits are neither lost nor invented, also when a future is dropped in *)
(* the middle of its fetch (loader.rs _permit).                            *)
PermitsConserved ==
    permits + Cardinality({l \in Loads : pc[l] \in PermitStages}) = OutboundFetches

(* A load that returns a representation returns none older than what a     *)
(* refresh had already obtained when the load began, not even when it      *)
(* falls back to a stale one or shares an outcome.                         *)
NoRegression ==
    \A l \in Loads : served[l].rep # NoRep => served[l].rep.ver >= floor[l]

(* What the two caches hold is what the last refresh obtained: no step     *)
(* brings back an older version, and removing the stored representation    *)
(* for an unstorable answer is final.                                      *)
CachesHoldNewest ==
    \A k \in Keys :
        /\ reps[k] # NoRep => reps[k].ver = newest[k]
        /\ outcomes[k] # NoOutcome =>
              (outcomes[k].result.err = "ok" => outcomes[k].result.rep.ver = newest[k])

(* A representation is served stale only if it was within its              *)
(* stale-if-error window when the load began, by the wall clock of that    *)
(* moment (cache.rs:91), and at most one deadline later, whatever has been *)
(* published, evicted or adjusted since.                                   *)
StaleWithinWindow ==
    [][\A l \in Loads :
          pc[l] # "done" /\ pc'[l] = "done" /\ served'[l].source = "stale" =>
              LET r == served'[l].rep
              IN  /\ r.staleFor # Absent
                  /\ began[l] <= r.storedAt + FreshFor(r) + r.staleFor
                  /\ now <= started[l] + Deadline]_vars

(* What a caller of the cache can see of a load. *)
LoadStatus == [l \in Loads |-> IF Active(l) THEN "loading" ELSE pc[l]]

LoadAnswer == [l \in Loads |-> IF served[l].rep = NoRep THEN NoRep
                               ELSE served[l].rep.ver]

(* The abstract loader that the cache implements. *)
Directory == INSTANCE KeyDirectory WITH
    NoAnswer <- NoRep, published <- version, obtained <- newest,
    status <- LoadStatus, wanted <- target, answer <- LoadAnswer

(* Seen from its callers, the cache with its two stores, its coalescing,   *)
(* its fallback and its cancellations is that loader: every step of a load *)
(* (cache.rs load, loader.rs refresh) is a step of it or invisible.        *)
RefinesDirectory == Directory!Spec

(* Every load ends: by its deadline at the latest. *)
LoadTerminates == \A l \in Loads : Active(l) ~> ~Active(l)

(* architecture.md:97: must-revalidate disables the stale fallback.        *)
MustRevalidateDisablesStale ==
    [][\A l \in Loads :
          pc[l] # "done" /\ pc'[l] = "done" /\ served'[l].source = "stale" =>
              ~served'[l].rep.cc.mustRevalidate]_vars

(* architecture.md:91: concurrent requests share one refresh: a load that  *)
(* is about to refresh when a concurrent refresh of its resource settles   *)
(* shares that outcome and starts no other while it is valid.              *)
ConcurrentLoadsShareRefresh ==
    [][\A l \in Loads : JoinLead(l) => sharedUntil[l] <= now]_vars

============================================================================
