------------------------------ MODULE Outbound ------------------------------
(***************************************************************************)
(* What a refresh goes through between the circuit and the body of a       *)
(* response: the rest of refresh_inner in crates/resolver/src/loader.rs,   *)
(* the limits of controls.rs, the destination policy of ssrf.rs and the    *)
(* fetcher of fetch.rs.  ResourceCache has one action each for being       *)
(* admitted, being refused, an answer and a failure; here they are steps   *)
(* of concurrent tasks.                                                    *)
(*                                                                         *)
(* Time is kept as ages, so that behaviours need no horizon: the clock     *)
(* makes every age one larger, up to a cap beyond which nothing changes.   *)
(* A URL is [scheme, hosted, userinfo, port, origin, kind].  A response is *)
(* [status, media, encoding, size].                                        *)
(***************************************************************************)
EXTENDS Integers, FiniteSets

CONSTANTS
    Tasks,           \* refreshes that may run at once
    Urls,            \* what they may be asked to fetch
    Origins,         \* the origins of these URLs
    Addresses,       \* IP addresses, ordered as numbers are
    NotGlobal4,      \* addresses within IPV4_NOT_GLOBAL
    NotGlobal6,      \* addresses within IPV6_NOT_GLOBAL
    Exceptions6,     \* addresses within IPV6_GLOBAL_EXCEPTIONS
    Mapped,          \* the IPv4 address of each IPv4-mapped one
    Version4,        \* the IPv4 addresses
    AllowedPorts,    \* DestinationPolicy::allowed_ports
    Direct,          \* EgressMode::Direct
    Proxy,           \* the proxy's address
    Responses,       \* what servers may answer
    MaxResponse,     \* MAX_RESPONSE_BYTES
    OutboundFetches, \* Limits::outbound_fetches
    NewOrigins,      \* Limits::new_origins_per_minute
    StateEntries,    \* Limits::state_entries
    Burst, Rate,     \* of each limiter: cells, and cells regained in a unit of time
    Window,          \* the minute of the new origins
    IdleTtl,         \* time_to_idle of the limiter caches
    Deadline,        \* Limits::resolution_timeout, which drops a refresh
    Global,          \* the limiter of all fetches
    None

(* The limiters that are kept in moka caches. *)
Kept == Origins \cup Addresses
Limiters == Kept \cup {Global}

(* Ages in the map of new origins matter up to here. *)
AgeCap == Window + Deadline

(* A window that is this long however long a task waited for the lock. *)
SureWindow == Window - Deadline

ASSUME OutboundAssumption ==
    /\ OutboundFetches \in Nat /\ NewOrigins \in Nat /\ StateEntries \in Nat
    /\ Window \in Nat /\ IdleTtl \in Nat \ {0} /\ Deadline \in Nat
    /\ Deadline < Window
    /\ IsFiniteSet(Origins) /\ IsFiniteSet(Tasks)
    /\ Addresses \subseteq Nat
    /\ Origins \cap Addresses = {} /\ Global \notin Kept
    /\ None \notin Nat /\ Proxy \notin Addresses /\ Proxy # None
    /\ None \notin Urls /\ \A u \in Urls : u.origin \in Origins
    /\ Direct \in BOOLEAN

(* Addresses are sorted in a total order: every answer has a first one. *)
ASSUME OrderAssumption ==
    \A A \in SUBSET Addresses : A # {} => \E a \in A : \A b \in A : a <= b

(* Limits::validate. *)
ASSUME QuotaAssumption ==
    /\ Burst \in [Limiters -> Nat \ {0}]
    /\ Rate \in [Limiters -> Nat \ {0}]
    /\ \A l \in Limiters : Burst[l] >= Rate[l]

(* A quota that is regained before its idle limiter is forgotten, as the   *)
(* default ones are; Limits::validate does not ask for it.  The global     *)
(* limiter is never forgotten.                                             *)
Refills(l) == l = Global \/ Burst[l] <= Rate[l] * IdleTtl

VARIABLES
    permits,   \* free permits of WorkControls::outbound
    level,     \* cells taken from each limiter; None if it is not cached
    idle,      \* time since a cached limiter was used
    recent,    \* WorkControls::new_origins: age of each stamp, or None
    stage,     \* where each task is
    url,       \* what it fetches
    elapsed,   \* time since it was started
    stamped,   \* age of the `now' it read before it asked for the lock
    selected,  \* the address it selected
    connected, \* the peer it connected to
    outcome,   \* how it ended: the class of its error, "ok" or "cancelled"
    drawn,     \* history: cells taken from limiters that never expire
    joined     \* history: time since each origin was last admitted as new

taskVars == <<stage, url, elapsed, stamped, selected, connected, outcome>>
vars == <<permits, level, idle, recent, taskVars, drawn, joined>>

---------------------------------------------------------------------------
(* ssrf.rs *)

GloballyReachable4(a) == a \notin NotGlobal4

GloballyReachable(a) ==
    IF a \in Version4 THEN GloballyReachable4(a)
    ELSE IF a \in DOMAIN Mapped THEN GloballyReachable4(Mapped[a])
    ELSE a \in Exceptions6 \/ a \notin NotGlobal6

ValidateUrl(u) ==
    /\ u.scheme = "https" /\ u.hosted /\ ~u.userinfo
    /\ u.port \in AllowedPorts

(* validate_all_addresses: a DNS answer with one bad address is refused. *)
AddressesValid(answer) ==
    answer # {} /\ \A a \in answer : GloballyReachable(a)

(* The first of the sorted addresses. *)
Selected(answer) == CHOOSE a \in answer : \A b \in answer : a <= b

---------------------------------------------------------------------------
(* fetch.rs *)

(* FetchError::class; no error, and no result, are classes of their own. *)
Class(kind) ==
    CASE kind \in {"dns", "timeout", "transport", "transient_status"} -> "transient"
      [] kind \in {"rate_limited", "overloaded"} -> "load_shed"
      [] kind \in {"ok", "cancelled"} -> kind
      [] OTHER -> "permanent"

(* Mutant: an origin that asks for fewer requests is taken for one of the  *)
(* resolver's own limits.                                                  *)
StatusAsShed(status) == IF status \in {429, 503} THEN "rate_limited" ELSE "http_status"

(* 408, 425, 429 and server errors are transient. *)
StatusKind(status) ==
    IF status \in {408, 425, 429} \/ status >= 500 THEN "transient_status" ELSE "http_status"

AcceptsContentType(u, media) ==
    CASE u.kind = "directory" -> media = "directory"
      [] u.kind = "jwks" -> media \in {"jwk-set", "json"}
      [] u.kind = "cimd" -> media \in {"directory", "jwk-set", "json"}

(* ReqwestFetcher::fetch from the status line on.  Redirects are not       *)
(* followed: their status is an error.                                     *)
Received(u, r) ==
    IF r.status \notin {200, 304} THEN StatusKind(r.status)
    ELSE IF r.status = 200 /\ ~AcceptsContentType(u, r.media) THEN "media_type"
    ELSE IF r.encoding # "identity" THEN "content_encoding"
    ELSE IF r.size > MaxResponse THEN "body_too_large"
    ELSE "ok"

(* Mutant: the client resolves the host once more when it connects. *)
ConnectAgain(t) == Addresses \cup {Proxy}

(* ReqwestFetcher::client: direct connections are pinned to the checked    *)
(* address, the others go to the one proxy.                                *)
Connect(t) == IF Direct THEN {selected[t]} ELSE {Proxy}

---------------------------------------------------------------------------
(* Limiters: governor's, as buckets of Burst cells that regain Rate.       *)

Fills(l, taken) == taken >= Burst[l]

(* get_with makes an empty one if need be. *)
Taken(l) == IF level[l] = None THEN 0 ELSE level[l]

(* RateLimiter::check on a limiter taken from its cache. *)
Charge(l) ==
    /\ level' = [level EXCEPT ![l] = IF Fills(l, Taken(l)) THEN Taken(l) ELSE Taken(l) + 1]
    /\ idle' = [idle EXCEPT ![l] = 0]
    /\ drawn' = [drawn EXCEPT ![l] = IF Fills(l, Taken(l)) THEN @ ELSE @ + 1]

limiterVars == <<level, idle, drawn>>

---------------------------------------------------------------------------
Stages == {"idle", "window", "limiter", "dns", "fetch", "response", "done"}

(* The stages in which refresh_inner holds its permit. *)
Active(t) == stage[t] \in {"window", "limiter", "dns", "fetch", "response"}

Init ==
    /\ permits = OutboundFetches
    /\ level = [l \in Limiters |-> IF l = Global THEN 0 ELSE None]
    /\ idle = [l \in Limiters |-> 0]
    /\ recent = [o \in Origins |-> None]
    /\ stage = [t \in Tasks |-> "idle"]
    /\ url = [t \in Tasks |-> None]
    /\ elapsed = [t \in Tasks |-> 0]
    /\ stamped = [t \in Tasks |-> 0]
    /\ selected = [t \in Tasks |-> None]
    /\ connected = [t \in Tasks |-> None]
    /\ outcome = [t \in Tasks |-> None]
    /\ drawn = [l \in Limiters |-> 0]
    /\ joined = [o \in Origins |-> Window]

(* Mutant: a refused task gives back a permit it never had. *)
RefusedReturnsPermit(t, kind) ==
    /\ stage' = [stage EXCEPT ![t] = "done"]
    /\ outcome' = [outcome EXCEPT ![t] = Class(kind)]
    /\ permits' = permits + 1
    /\ UNCHANGED url

(* The task ends with a result before it had a permit. *)
Refused(t, kind) ==
    /\ stage' = [stage EXCEPT ![t] = "done"]
    /\ outcome' = [outcome EXCEPT ![t] = Class(kind)]
    /\ UNCHANGED <<permits, url>>

(* Mutant: the permit of a task that sheds load is forgotten. *)
FinishForgets(t, kind) ==
    /\ stage' = [stage EXCEPT ![t] = "done"]
    /\ outcome' = [outcome EXCEPT ![t] = Class(kind)]
    /\ permits' = IF Class(kind) = "load_shed" THEN permits ELSE permits + 1
    /\ url' = [url EXCEPT ![t] = None]
    /\ elapsed' = [elapsed EXCEPT ![t] = 0]
    /\ stamped' = [stamped EXCEPT ![t] = 0]
    /\ selected' = [selected EXCEPT ![t] = None]
    /\ connected' = [connected EXCEPT ![t] = None]

(* The task ends, and its permit and its connection are dropped.     *)
Finish(t, kind) ==
    /\ stage' = [stage EXCEPT ![t] = "done"]
    /\ outcome' = [outcome EXCEPT ![t] = Class(kind)]
    /\ permits' = permits + 1
    /\ url' = [url EXCEPT ![t] = None]
    /\ elapsed' = [elapsed EXCEPT ![t] = 0]
    /\ stamped' = [stamped EXCEPT ![t] = 0]
    /\ selected' = [selected EXCEPT ![t] = None]
    /\ connected' = [connected EXCEPT ![t] = None]

(* The task holds a permit and goes on. *)
Continue(t, next) ==
    /\ stage' = [stage EXCEPT ![t] = next]
    /\ UNCHANGED <<permits, url, outcome, elapsed, stamped>>

(* A refresh starts: the destination is checked, a permit is taken, the    *)
(* global limiter charged, and the origin looked up; what was looked up    *)
(* counts as used.  The permit of a refresh that is refused is dropped.    *)
Start(t, u) ==
    /\ ~Active(t)
    /\ IF ~ValidateUrl(u) THEN Refused(t, "unsafe_address") /\ UNCHANGED limiterVars
       ELSE IF permits = 0 THEN Refused(t, "overloaded") /\ UNCHANGED limiterVars
       ELSE IF Fills(Global, level[Global])
       THEN Refused(t, "rate_limited") /\ UNCHANGED limiterVars
       ELSE /\ permits' = permits - 1
            /\ url' = [url EXCEPT ![t] = u]
            /\ outcome' = [outcome EXCEPT ![t] = None]
            /\ stage' = [stage EXCEPT ![t] =
                            IF level[u.origin] = None THEN "window" ELSE "limiter"]
            /\ level' = [level EXCEPT ![Global] = @ + 1]
            /\ drawn' = [drawn EXCEPT ![Global] = @ + 1]
            /\ idle' = [idle EXCEPT ![u.origin] = 0]
    /\ UNCHANGED <<elapsed, stamped, selected, connected, recent, joined>>

(* What `retain' leaves in the map, seen from this task's `now'. *)
Retained(t) == {o \in Origins : recent[o] # None /\ recent[o] - stamped[t] < Window}

(* Mutant: one origin too many fits. *)
WindowOverfull(t) == Cardinality(Retained(t)) > NewOrigins

WindowFull(t) ==
    Cardinality(Retained(t)) >= NewOrigins \/ Cardinality(Retained(t)) >= StateEntries

(* The map is locked, old origins are dropped from it, and the origin is   *)
(* refused or stamped with a `now' that was read before the lock was held. *)
AdmitNewOrigin(t) ==
    LET o == url[t].origin
        kept == [p \in Origins |-> IF p \in Retained(t) THEN recent[p] ELSE None]
    IN  /\ stage[t] = "window"
        /\ IF o \notin Retained(t) /\ WindowFull(t)
           THEN /\ Finish(t, "rate_limited")
                /\ recent' = kept
                /\ UNCHANGED joined
           ELSE /\ Continue(t, "limiter") /\ UNCHANGED <<selected, connected>>
                /\ recent' = [kept EXCEPT ![o] = stamped[t]]
                /\ joined' = [joined EXCEPT ![o] = 0]
        /\ UNCHANGED limiterVars

(* The origin's limiter is taken from its cache or made, and charged. *)
CheckOrigin(t) ==
    LET o == url[t].origin
    IN  /\ stage[t] = "limiter"
        /\ Charge(o)
        /\ IF Fills(o, Taken(o)) THEN Finish(t, "rate_limited")
           ELSE Continue(t, "dns") /\ UNCHANGED <<selected, connected>>
        /\ UNCHANGED <<recent, joined>>

ResolveFails(t) ==
    /\ stage[t] = "dns"
    /\ Finish(t, "dns")
    /\ UNCHANGED <<limiterVars, recent, joined>>

(* DNS answers, every time as it likes; check_ip charges the selected      *)
(* address.                                                                *)
Resolve(t, answer) ==
    /\ stage[t] = "dns"
    /\ IF ~AddressesValid(answer)
       THEN Finish(t, "unsafe_address") /\ UNCHANGED limiterVars
       ELSE /\ Charge(Selected(answer))
            /\ IF Fills(Selected(answer), Taken(Selected(answer)))
               THEN Finish(t, "rate_limited")
               ELSE /\ Continue(t, "fetch")
                    /\ selected' = [selected EXCEPT ![t] = Selected(answer)]
                    /\ UNCHANGED connected
    /\ UNCHANGED <<recent, joined>>

(* The request is sent to a peer. *)
Send(t) ==
    /\ stage[t] = "fetch"
    /\ \E peer \in Connect(t) : connected' = [connected EXCEPT ![t] = peer]
    /\ Continue(t, "response")
    /\ UNCHANGED <<limiterVars, recent, joined, selected>>

Receive(t) ==
    /\ stage[t] = "response"
    /\ \E r \in Responses : Finish(t, Received(url[t], r))
    /\ UNCHANGED <<limiterVars, recent, joined>>

(* The connection, or the body after any number of chunks, fails; that it  *)
(* was a timeout makes no difference to anyone.                            *)
TransportFails(t) ==
    /\ stage[t] \in {"fetch", "response"}
    /\ Finish(t, "transport")
    /\ UNCHANGED <<limiterVars, recent, joined>>

(* The leader's future is dropped: the resolution deadline, or its caller. *)
Cancel(t) ==
    /\ Active(t)
    /\ Finish(t, "cancelled")
    /\ UNCHANGED <<limiterVars, recent, joined>>

(* External: moka evicts limiters beyond its capacity.  The next one made  *)
(* for this origin or address starts afresh, and so does the history.      *)
EvictLimiter(l) ==
    /\ level[l] # None
    /\ \E S \in {Origins, Addresses} :
           l \in S /\ Cardinality({k \in S : level[k] # None}) > StateEntries
    /\ level' = [level EXCEPT ![l] = None]
    /\ drawn' = [drawn EXCEPT ![l] = 0]
    /\ UNCHANGED <<permits, idle, recent, taskVars, joined>>

Older(age, cap) == IF age = cap THEN age ELSE age + 1

Drained(l, cells) == IF cells > Rate[l] THEN cells - Rate[l] ELSE 0

(* Mutant: an idle limiter expires before it is full again. *)
ExpiresEarly(l) == level[l] # None

(* time_to_idle: counted from the last use, not from when it was made. *)
Expires(l) == level[l] # None /\ idle[l] + 1 >= IdleTtl

(* A unit of time passes: the limiters regain cells, and cached ones that  *)
(* were idle for long enough expire.  The timers of deadlines are prompt.  *)
Tick ==
    /\ \A t \in Tasks : Active(t) => elapsed[t] < Deadline
    /\ LET expired == {l \in Kept : Expires(l)}
       IN  /\ level' = [l \in Limiters |->
                           IF l \in expired \/ level[l] = None THEN None
                           ELSE Drained(l, level[l])]
           /\ idle' = [l \in Limiters |->
                          IF l = Global \/ l \in expired \/ level[l] = None THEN 0
                          ELSE idle[l] + 1]
    /\ drawn' = [l \in Limiters |-> Drained(l, drawn[l])]
    /\ recent' = [o \in Origins |-> IF recent[o] = None THEN None ELSE Older(recent[o], AgeCap)]
    /\ joined' = [o \in Origins |-> Older(joined[o], Window)]
    /\ elapsed' = [t \in Tasks |-> IF Active(t) THEN elapsed[t] + 1 ELSE elapsed[t]]
    /\ stamped' = [t \in Tasks |-> IF stage[t] = "window" THEN stamped[t] + 1 ELSE stamped[t]]
    /\ UNCHANGED <<permits, stage, url, selected, connected, outcome>>

TaskStep(t) ==
    \/ \E u \in Urls : Start(t, u)
    \/ AdmitNewOrigin(t)
    \/ CheckOrigin(t)
    \/ ResolveFails(t)
    \/ \E answer \in SUBSET Addresses : Resolve(t, answer)
    \/ Send(t)
    \/ Receive(t)
    \/ TransportFails(t)
    \/ Cancel(t)

Next ==
    \/ \E t \in Tasks : TaskStep(t)
    \/ \E l \in Kept : EvictLimiter(l)
    \/ Tick

Spec == Init /\ [][Next]_vars

---------------------------------------------------------------------------
(* Properties. *)

Classes == {"ok", "cancelled", "transient", "load_shed", "permanent"}

TypeOK ==
    /\ permits \in 0..OutboundFetches
    /\ level \in [Limiters -> Nat \cup {None}]
    /\ idle \in [Limiters -> 0..IdleTtl]
    /\ recent \in [Origins -> 0..AgeCap \cup {None}]
    /\ stage \in [Tasks -> Stages]
    /\ url \in [Tasks -> Urls \cup {None}]
    /\ elapsed \in [Tasks -> 0..Deadline]
    /\ stamped \in [Tasks -> 0..Deadline]
    /\ selected \in [Tasks -> Addresses \cup {None}]
    /\ connected \in [Tasks -> Addresses \cup {Proxy, None}]
    /\ outcome \in [Tasks -> Classes \cup {None}]
    /\ drawn \in [Limiters -> Nat]
    /\ joined \in [Origins -> 0..Window]

(* Every permit of outbound comes back, whichever of nine returns, the     *)
(* deadline or a cancellation ends the refresh (loader.rs:112).            *)
PermitsReturned ==
    permits + Cardinality({t \in Tasks : Active(t)}) = OutboundFetches

(* In a minute, less the time a task may wait for the lock of new_origins, *)
(* no more than new_origins_per_minute origins are admitted as new: `now'  *)
(* is read before the lock is held (controls.rs:258), so stamps may be     *)
(* older than the entry and may go backwards, but never by more than the   *)
(* deadline of the task.                                                   *)
NewOriginsBounded ==
    Cardinality({o \in Origins : joined[o] < SureWindow}) <= NewOrigins

(* As long as its limiter is not evicted for capacity, no origin and no    *)
(* address is asked more often than a quota that refills within the time   *)
(* to idle allows, although limiters are forgotten when they are idle      *)
(* (controls.rs:165): the cells drawn from one that is kept since the last *)
(* such eviction stay within its burst.                                    *)
RateBounded == \A l \in Limiters : Refills(l) => drawn[l] <= Burst[l]

(* Whatever DNS says the next time, a direct connection is made only to    *)
(* the globally reachable address that was checked and charged             *)
(* (fetch.rs:257), and in proxy mode only to the proxy.                    *)
OnlyCheckedPeers ==
    \A t \in Tasks :
        connected[t] # None =>
            IF Direct
            THEN connected[t] = selected[t] /\ GloballyReachable(connected[t])
            ELSE connected[t] = Proxy

(* A refresh that sheds load, which does not count against the origin      *)
(* (fetch.rs:96), left no request with it: a 429 or 503 of the origin is   *)
(* never mistaken for one of the resolver's own limits.                    *)
RefusedBeforeContact ==
    [][\A t \in Tasks :
          Active(t) /\ ~Active(t)' =>
              (outcome'[t] = "load_shed" => connected[t] = None)]_vars

---------------------------------------------------------------------------
(* docs/architecture.md:112 says of new origins: "256 per rolling minute", *)
(* but check_origin reads `now' before it holds the lock                   *)
(* (controls.rs:258): an origin is stamped with a time from before it was  *)
(* admitted, and leaves the map before it was there for a minute.  Not so. *)
NewOriginsPerMinute ==
    Cardinality({o \in Origins : joined[o] < Window}) <= NewOrigins
=============================================================================
