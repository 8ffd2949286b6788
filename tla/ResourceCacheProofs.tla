------------------------ MODULE ResourceCacheProofs ------------------------
(***************************************************************************)
(* Theorems about ResourceCache for every set of keys and loads, every     *)
(* header set and every choice of durations and bounds.                    *)
(***************************************************************************)
EXTENDS ResourceCache, FiniteSetTheorems, TLAPS

USE CacheAssumption, HeadersAssumption, NoneAssumption

---------------------------------------------------------------------------
(* Lemmas about the operators. *)

(* An origin's headers stay well formed when the default lifetime is added *)
(* (cache.rs apply_default_freshness).                                     *)
LEMMA ApplyDefaultFreshnessType ==
    ASSUME NEW cc \in CacheControl
    PROVE  ApplyDefaultFreshness(cc) \in CacheControl
BY DEF ApplyDefaultFreshness, CacheControl

(* parse_stale_if_error yields a duration or nothing. *)
LEMMA ParseStaleIfErrorType ==
    ASSUME NEW cc \in CacheControl
    PROVE  ParseStaleIfError(cc) \in Nat \cup {Absent}
BY DEF ParseStaleIfError, CacheControl, Min2, Absent

(* representation_from_response yields a representation or its error. *)
LEMMA RepresentationType ==
    ASSUME NEW old \in Representation \cup {NoRep}, NEW resp \in Reply, NEW t \in Nat
    PROVE  RepresentationFromResponse(old, resp, t) \in Representation \cup {NoRep}
<1>1. resp.cc \in CacheControl /\ resp.ver \in Nat
  BY DEF Reply
<1>2. /\ ApplyDefaultFreshness(resp.cc) \in CacheControl
      /\ ParseStaleIfError(resp.cc) \in Nat \cup {Absent}
  BY <1>1, ApplyDefaultFreshnessType, ParseStaleIfErrorType
<1>3. CASE resp.status = 200
  BY <1>1, <1>2, <1>3 DEF RepresentationFromResponse, Representation
<1>4. CASE resp.status # 200
  BY <1>1, <1>2, <1>4 DEF RepresentationFromResponse, Representation
<1> QED
  BY <1>3, <1>4

(* A representation built from a response has the version the origin sent: *)
(* a 304 is accepted for that version only (cache.rs after_response).      *)
LEMMA RepresentationVersion ==
    ASSUME NEW old \in Representation \cup {NoRep}, NEW resp \in Reply, NEW t \in Nat,
           RepresentationFromResponse(old, resp, t) # NoRep
    PROVE  RepresentationFromResponse(old, resp, t).ver = resp.ver
BY DEF RepresentationFromResponse

(* result_or_stale yields the refreshed representation, the load's own     *)
(* previous one, or none.                                                  *)
LEMMA ResultOrStaleType ==
    ASSUME NEW res \in RefreshResult, NEW old \in Representation \cup {NoRep},
           NEW t \in Nat
    PROVE  /\ ResultOrStale(res, old, t)
                 \in [source : Source, rep : Representation \cup {NoRep}]
           /\ \/ res.err = "ok" /\ ResultOrStale(res, old, t).rep = res.rep
              \/ ResultOrStale(res, old, t).rep \in {old, NoRep}
<1> DEFINE S == StaleAllowedAfterError(old, t)
<1>1. CASE res.err = "ok"
  BY <1>1 DEF ResultOrStale, RefreshResult, Source
<1>2. CASE res.err # "ok"
  <2> HIDE DEF S
  <2>1. ResultOrStale(res, old, t) =
          IF AllowsStale(res) /\ old # NoRep
          THEN IF S THEN [source |-> "stale", rep |-> old]
                    ELSE [source |-> "error", rep |-> NoRep]
          ELSE [source |-> "error", rep |-> NoRep]
    BY <1>2 DEF ResultOrStale, S
  <2> QED
    BY <2>1 DEF Source
<1> QED
  BY <1>1, <1>2

(* One more failure keeps the circuit's counters within their bounds. *)
LEMMA FailedType ==
    ASSUME NEW c \in CircuitState, NEW t \in Nat
    PROVE  Failed(c, t) \in CircuitState /\ Failed(c, t).failures \in 1..FailureCap
<1> DEFINE f == Min2(c.failures + 1, FailureCap)
<1>1. f \in 1..FailureCap
  BY DEF Min2, FailureCap, CircuitState
<1>2. Doubling[c.openCount + 1] \in Nat
  BY DEF Doubling, CircuitState, OpenCap
<1>3. OpenFor * Doubling[c.openCount + 1] \in Nat
  BY <1>2
<1>4. t + Min2(OpenFor * Doubling[c.openCount + 1], MaxBackoff) \in Nat
  BY <1>3 DEF Min2
<1>5. Min2(c.openCount + 1, OpenCap) \in 0..OpenCap
  BY DEF Min2, OpenCap, CircuitState
<1>6. CASE f >= 3
  BY <1>1, <1>4, <1>5, <1>6 DEF Failed, CircuitState, FailureCap
<1>7. CASE ~(f >= 3)
  BY <1>1, <1>7 DEF Failed, CircuitState, FailureCap
<1> QED
  BY <1>6, <1>7

(* failure_backoff never asks for a negative or unbounded delay. *)
LEMMA BackoffType ==
    ASSUME NEW c \in CircuitState, c.failures \in 1..FailureCap, NEW d \in Nat
    PROVE  Backoff(c, d) \in Nat /\ Backoff(c, d) <= MaxBackoff
<1>1. Doubling[c.failures] \in Nat
  BY DEF Doubling, FailureCap
<1>2. MinBackoff * Doubling[c.failures] \in Nat
  BY <1>1
<1> QED
  BY <1>2 DEF Backoff, Min2, Max2

(* What a settled refresh stores is well formed. *)
LEMMA SettleType ==
    ASSUME NEW res \in RefreshResult, NEW c \in CircuitState, now \in Nat
    PROVE  /\ SettledCircuit(res, c) \in CircuitState
           /\ ValidFor(res, c) \in Nat
<1>1. ClosedCircuit \in CircuitState
  BY DEF ClosedCircuit, CircuitState, FailureCap, OpenCap
<1>2. Failed(c, now) \in CircuitState /\ Failed(c, now).failures \in 1..FailureCap
  BY FailedType
<1>3. Backoff(Failed(c, now), res.retryAfter) \in Nat
  BY <1>2, BackoffType DEF RefreshResult
<1>4. CircuitRemaining(c, now) \in Nat
  BY DEF CircuitRemaining, CircuitState
<1> QED
  BY <1>1, <1>2, <1>3, <1>4 DEF SettledCircuit, ValidFor, RefreshResult, FailureClass

---------------------------------------------------------------------------
(* Type correctness. *)

(* Every step of the model keeps the state well formed. *)
LEMMA TypeStep == TypeOK /\ [Next]_vars => TypeOK'
<1> SUFFICES ASSUME TypeOK, [Next]_vars
             PROVE  TypeOK'
  OBVIOUS
<1> USE DEF Stages
<1>1. NoResult \in RefreshResult
  BY DEF NoResult, Failure, RefreshResult, FailureClass
<1>2. NoReply \in Reply
  BY DEF NoReply, NoHeader, Reply, CacheControl, Absent
<1>3. ASSUME NEW l \in Loads, NEW class \in FailureClass, NEW delay \in Nat,
             pc[l] \in Stages, Fail(l, class, delay)
      PROVE  /\ pc' \in [Loads -> Stages]
             /\ result' \in [Loads -> RefreshResult]
             /\ reply' \in [Loads -> Reply]
             /\ permits' \in Nat
  <2>1. Failure(class, delay) \in RefreshResult
    BY <1>3 DEF Failure, RefreshResult
  <2> QED
    BY <1>2, <1>3, <2>1 DEF Fail, Goto, TypeOK
<1>4. ASSUME NEW l \in Loads, LoadStep(l)
      PROVE  TypeOK'
  <2> USE DEF Goto, clockVars, storeVars, ghostVars
  <2>1. ASSUME NEW k \in Keys, Begin(l, k)
        PROVE  TypeOK'
    BY <2>1 DEF TypeOK, Begin, Source
  <2>2. CASE LookupRepresentation(l)
    <3> DEFINE old == reps[target[l]]
    <3>1. [source |-> "fresh", rep |-> old]
             \in [source : Source, rep : Representation \cup {NoRep}]
      BY DEF TypeOK, Source
    <3>2. CASE Return(l, [source |-> "fresh", rep |-> old])
      BY <2>2, <3>1, <3>2 DEF TypeOK, LookupRepresentation, Return
    <3>3. CASE /\ Goto(l, "outcome")
               /\ previous' = [previous EXCEPT ![l] = old]
               /\ UNCHANGED <<served, began, sharedUntil>>
      BY <2>2, <3>3 DEF TypeOK, LookupRepresentation
    <3> QED
      BY <2>2, <3>2, <3>3 DEF LookupRepresentation
  <2>3. CASE LookupOutcome(l)
    <3>1. CASE outcomes[target[l]] = NoOutcome
      BY <2>3, <3>1 DEF TypeOK, LookupOutcome
    <3>2. CASE outcomes[target[l]] # NoOutcome /\ outcomes[target[l]].validUntil > now
      <4>1. outcomes[target[l]].result \in RefreshResult
        BY <3>2 DEF TypeOK, RefreshOutcome
      <4>2. ResultOrStale(outcomes[target[l]].result, previous[l], began[l])
              \in [source : Source, rep : Representation \cup {NoRep}]
        BY <4>1, ResultOrStaleType DEF TypeOK
      <4>3. Return(l, ResultOrStale(outcomes[target[l]].result, previous[l], began[l]))
        BY <2>3, <3>2 DEF LookupOutcome
      <4> QED
        BY <2>3, <4>2, <4>3 DEF TypeOK, LookupOutcome, Return
    <3>3. CASE outcomes[target[l]] # NoOutcome /\ ~(outcomes[target[l]].validUntil > now)
      BY <2>3, <3>3 DEF TypeOK, LookupOutcome
    <3> QED
      BY <3>1, <3>2, <3>3
  <2>4. CASE Invalidate(l)
    BY <2>4 DEF TypeOK, Invalidate
  <2>5. CASE JoinHit(l)
    <3>1. outcomes[target[l]].result \in RefreshResult
      BY <2>5 DEF TypeOK, JoinHit, RefreshOutcome
    <3>2. ResultOrStale(outcomes[target[l]].result, previous[l], began[l])
            \in [source : Source, rep : Representation \cup {NoRep}]
      BY <3>1, ResultOrStaleType DEF TypeOK
    <3> QED
      BY <2>5, <3>2 DEF TypeOK, JoinHit, Return
  <2>6. CASE JoinLead(l)
    BY <2>6 DEF TypeOK, JoinLead
  <2>7. CASE JoinWait(l)
    BY <2>7 DEF TypeOK, JoinWait
  <2>8. CASE CheckCircuit(l)
    BY <1>3, <2>8 DEF TypeOK, CheckCircuit, FailureClass
  <2>9. CASE Admit(l)
    BY <2>9 DEF TypeOK, Admit
  <2>10. CASE Refuse(l)
    BY <1>3, <2>10 DEF TypeOK, Refuse, FailureClass
  <2>11. CASE Respond(l)
    BY <2>11 DEF TypeOK, Respond, Reply
  <2>12. CASE FetchFails(l)
    BY <1>3, <2>12 DEF TypeOK, FetchFails, FailureClass
  <2>13. CASE Publish(l)
    <3> DEFINE r == RepresentationFromResponse(previous[l], reply[l], wall)
    <3>1. r \in Representation \cup {NoRep}
      BY RepresentationType DEF TypeOK
    <3>2. CASE r = NoRep
      BY <1>3, <2>13, <3>2 DEF TypeOK, Publish, FailureClass
    <3>3. CASE r # NoRep
      <4> HIDE DEF r
      <4>1. /\ Success(r) \in RefreshResult
            /\ Published(r) \in Representation \cup {NoRep}
            /\ r.ver \in Nat
        BY <3>1, <3>3 DEF Success, RefreshResult, Published, Representation
      <4>2. /\ pc' = [pc EXCEPT ![l] = "settle"]
            /\ result' = [result EXCEPT ![l] = Success(r)]
            /\ reply' = [reply EXCEPT ![l] = NoReply]
            /\ permits' = permits + 1
            /\ reps' = [reps EXCEPT ![target[l]] = Published(r)]
            /\ newest' = [newest EXCEPT ![target[l]] = r.ver]
            /\ UNCHANGED <<clockVars, outcomes, leader, circuit, target, started, began,
                           previous, served, floor, sharedUntil>>
        BY <2>13, <3>3 DEF Publish, r
      <4> QED
        BY <1>2, <4>1, <4>2 DEF TypeOK
    <3> QED
      BY <3>2, <3>3
  <2>14. CASE Settle(l)
    <3>1. \A m \in Loads : ResultOrStale(result[l], previous[m], began[m])
                              \in [source : Source, rep : Representation \cup {NoRep}]
      BY ResultOrStaleType DEF TypeOK
    <3>2. /\ SettledCircuit(result[l], circuit[target[l]]) \in CircuitState
          /\ ValidFor(result[l], circuit[target[l]]) \in Nat
      BY SettleType DEF TypeOK
    <3>3. [result |-> result[l],
           validUntil |-> now + ValidFor(result[l], circuit[target[l]])] \in RefreshOutcome
      BY <3>2 DEF TypeOK, RefreshOutcome
    <3>4. /\ circuit' \in [Keys -> CircuitState]
          /\ outcomes' \in [Keys -> RefreshOutcome \cup {NoOutcome}]
          /\ leader' \in [Keys -> Loads \cup {NoLoad}]
      BY <2>14, <3>2, <3>3 DEF TypeOK, Settle
    <3>5. /\ pc' \in [Loads -> Stages]
          /\ served' \in [Loads -> [source : Source, rep : Representation \cup {NoRep}]]
          /\ previous' \in [Loads -> Representation \cup {NoRep}]
          /\ result' \in [Loads -> RefreshResult]
      BY <1>1, <2>14, <3>1 DEF TypeOK, Settle
    <3>6. sharedUntil' \in [Loads -> Nat]
      <4>1. outcomes'[target[l]].validUntil \in Nat
        BY <2>14, <3>3 DEF TypeOK, Settle, RefreshOutcome
      <4> QED
        BY <2>14, <4>1 DEF TypeOK, Settle
    <3> QED
      BY <2>14, <3>4, <3>5, <3>6 DEF TypeOK, Settle
  <2>15. CASE Cancel(l)
    <3>1. pc' \in [Loads -> Stages]
      BY <2>15 DEF TypeOK, Cancel, WakeWaiter
    <3> QED
      BY <1>1, <1>2, <2>15, <3>1 DEF TypeOK, Cancel, WakeWaiter, Source
  <2> QED
    BY <1>4, <2>1, <2>2, <2>3, <2>4, <2>5, <2>6, <2>7, <2>8, <2>9, <2>10, <2>11, <2>12,
       <2>13, <2>14, <2>15 DEF LoadStep
<1>5. ASSUME NEW k \in EvictableKeys, Evict(k)
      PROVE  TypeOK'
  <2>1. ClosedCircuit \in CircuitState
    BY DEF ClosedCircuit, CircuitState, FailureCap, OpenCap
  <2> QED
    <3>1. CASE EvictRepresentation(k)
      BY <3>1 DEF TypeOK, EvictRepresentation, clockVars, loadVars, ghostVars
    <3>2. CASE EvictOutcome(k)
      BY <3>2 DEF TypeOK, EvictOutcome, clockVars, loadVars, ghostVars
    <3>3. CASE EvictCircuit(k)
      BY <2>1, <3>3 DEF TypeOK, EvictCircuit, clockVars, loadVars, ghostVars
    <3> QED
      BY <1>5, <3>1, <3>2, <3>3 DEF Evict
<1>6. ASSUME NEW k \in Keys, OriginUpdate(k)
      PROVE  TypeOK'
  BY <1>6 DEF TypeOK, OriginUpdate, storeVars, loadVars, ghostVars
<1>7. CASE Tick
  BY <1>7 DEF TypeOK, Tick, storeVars, loadVars, ghostVars
<1>8. ASSUME NEW t \in WallClocks, AdjustClock(t)
      PROVE  TypeOK'
  BY <1>8 DEF TypeOK, AdjustClock, storeVars, loadVars, ghostVars
<1>9. CASE UNCHANGED vars
  BY <1>9 DEF TypeOK, vars, clockVars, storeVars, loadVars, ghostVars
<1> QED
  BY <1>4, <1>5, <1>6, <1>7, <1>8, <1>9 DEF Next

(* The initial state is well formed. *)
LEMMA TypeInit == Init => TypeOK
<1>1. /\ NoResult \in RefreshResult
      /\ NoReply \in Reply
      /\ ClosedCircuit \in CircuitState
  BY DEF NoResult, Failure, RefreshResult, FailureClass, NoReply, NoHeader, Reply,
     CacheControl, Absent, ClosedCircuit, CircuitState, FailureCap, OpenCap
<1> QED
  BY <1>1 DEF Init, TypeOK, Stages, Source

(* The state of the cache, of its loads and of the controls they share is  *)
(* always well formed.                                                     *)
THEOREM TypeCorrect == Spec => []TypeOK
BY TypeInit, TypeStep, PTL DEF Spec

---------------------------------------------------------------------------
(* Single flight. *)

(* SingleFlight is not inductive: it needs that the running refresh of a   *)
(* key is the one registered with get_with, that a registered refresh      *)
(* really runs, that a key with a running refresh has no outcome for       *)
(* another load to expire, and that a waiter has someone to wait for.      *)
FlightInv ==
    /\ \A l \in Loads : pc[l] \in LeaderStages => leader[target[l]] = l
    /\ \A k \in Keys : leader[k] # NoLoad => /\ outcomes[k] = NoOutcome
                                            /\ target[leader[k]] = k
                                            /\ pc[leader[k]] \in LeaderStages
    /\ \A l \in Loads : pc[l] = "wait" => leader[target[l]] # NoLoad

(* Every step keeps the registration of running refreshes exact. *)
LEMMA FlightStep == TypeOK /\ FlightInv /\ [Next]_vars => FlightInv'
<1> SUFFICES ASSUME TypeOK, FlightInv, [Next]_vars
             PROVE  FlightInv'
  OBVIOUS
<1> USE DEF LeaderStages
(* A step that moves one load between stages of the same kind. *)
<1>1. ASSUME NEW l \in Loads, UNCHANGED <<leader, outcomes, target>>,
             NEW stage \in Stages \ {"wait"}, pc' = [pc EXCEPT ![l] = stage],
             (pc[l] \in LeaderStages) <=> (stage \in LeaderStages)
      PROVE  FlightInv'
  BY <1>1 DEF FlightInv, TypeOK, Stages
<1>2. ASSUME NEW l \in Loads, LoadStep(l)
      PROVE  FlightInv'
  <2> USE DEF Goto, storeVars, ghostVars, clockVars, Stages
  <2>1. ASSUME NEW k \in Keys, Begin(l, k)
        PROVE  FlightInv'
    BY <2>1 DEF FlightInv, TypeOK, Begin, Active
  <2>2. CASE LookupRepresentation(l)
    BY <1>1, <2>2 DEF LookupRepresentation, Return
  <2>3. CASE LookupOutcome(l)
    BY <1>1, <2>3 DEF LookupOutcome, Return
  <2>4. CASE Invalidate(l)
    BY <2>4 DEF FlightInv, TypeOK, Invalidate
  <2>5. CASE JoinHit(l)
    BY <1>1, <2>5 DEF JoinHit, Return
  <2>6. CASE JoinLead(l)
    BY <2>6 DEF FlightInv, TypeOK, JoinLead
  <2>7. CASE JoinWait(l)
    BY <2>7 DEF FlightInv, TypeOK, JoinWait
  <2>8. CASE CheckCircuit(l)
    BY <1>1, <2>8 DEF CheckCircuit, Fail
  <2>9. CASE Admit(l)
    BY <1>1, <2>9 DEF Admit
  <2>10. CASE Refuse(l)
    BY <1>1, <2>10 DEF Refuse, Fail
  <2>11. CASE Respond(l)
    <3>1. /\ pc[l] = "fetch" /\ pc' = [pc EXCEPT ![l] = "reply"]
          /\ UNCHANGED <<leader, outcomes, target>>
      BY <2>11 DEF Respond
    <3> QED
      BY <1>1, <3>1
  <2>12. CASE FetchFails(l)
    BY <1>1, <2>12 DEF FetchFails, Fail, PermitStages
  <2>13. CASE Publish(l)
    BY <1>1, <2>13 DEF Publish, Fail
  <2>14. CASE Settle(l)
    <3>1. leader[target[l]] = l
      BY <2>14 DEF Settle, FlightInv
    <3>2. /\ leader' = [leader EXCEPT ![target[l]] = NoLoad]
          /\ target' = target
          /\ \A k \in Keys : k # target[l] => outcomes'[k] = outcomes[k]
          /\ pc' = [m \in Loads |->
                      IF m = l \/ (pc[m] = "wait" /\ target[m] = target[l])
                      THEN "done" ELSE pc[m]]
      BY <2>14 DEF Settle, TypeOK
    <3> QED
      BY <3>1, <3>2 DEF FlightInv, TypeOK
  <2>15. CASE Cancel(l)
    <3>1. CASE pc[l] \in LeaderStages
      <4>1. leader[target[l]] = l
        BY <3>1 DEF FlightInv
      <4>2. /\ leader' = [leader EXCEPT ![target[l]] = NoLoad]
            /\ UNCHANGED <<target, outcomes>>
            /\ pc' = [m \in Loads |->
                        IF m = l THEN "done"
                        ELSE IF pc[m] = "wait" /\ target[m] = target[l] THEN "join"
                        ELSE pc[m]]
        BY <2>15, <3>1 DEF Cancel, WakeWaiter
      <4> QED
        BY <4>1, <4>2 DEF FlightInv, TypeOK
    <3>2. CASE pc[l] \notin LeaderStages
      <4>1. /\ UNCHANGED <<leader, target, outcomes>>
            /\ pc' = [pc EXCEPT ![l] = "done"]
        BY <2>15, <3>2 DEF Cancel, WakeWaiter, TypeOK
      <4> QED
        BY <1>1, <3>2, <4>1
    <3> QED
      BY <3>1, <3>2
  <2> QED
    BY <1>2, <2>1, <2>2, <2>3, <2>4, <2>5, <2>6, <2>7, <2>8, <2>9, <2>10, <2>11, <2>12,
       <2>13, <2>14, <2>15 DEF LoadStep
<1>3. ASSUME NEW k \in EvictableKeys, Evict(k)
      PROVE  FlightInv'
  BY <1>3 DEF FlightInv, TypeOK, Evict, EvictRepresentation, EvictOutcome, EvictCircuit,
     loadVars
<1>4. CASE \/ \E k \in Keys : OriginUpdate(k)
           \/ \E t \in WallClocks : AdjustClock(t)
           \/ Tick \/ UNCHANGED vars
  BY <1>4 DEF FlightInv, OriginUpdate, AdjustClock, Tick, vars, storeVars, loadVars
<1> QED
  BY <1>2, <1>3, <1>4 DEF Next

(* The invariant says what it was made for. *)
LEMMA FlightImplies == TypeOK /\ FlightInv => SingleFlight /\ WaitersHaveLeader
<1> SUFFICES ASSUME TypeOK, FlightInv
             PROVE  SingleFlight /\ WaitersHaveLeader
  OBVIOUS
<1>1. SingleFlight
  BY DEF FlightInv, SingleFlight
<1>2. WaitersHaveLeader
  BY DEF FlightInv, WaitersHaveLeader, TypeOK
<1> QED
  BY <1>1, <1>2

(* The invariant of single flight holds of every behaviour. *)
LEMMA FlightInvariant == Spec => []FlightInv
<1>1. Init => FlightInv
  BY DEF Init, FlightInv, LeaderStages
<1> QED
  BY <1>1, FlightStep, TypeCorrect, PTL DEF Spec

(* At most one refresh of a resource runs at any time, through             *)
(* cancellations, takeovers, evictions and expired outcomes.               *)
THEOREM OneRefreshPerResource == Spec => []SingleFlight
BY FlightInvariant, FlightImplies, TypeCorrect, PTL

(* No load waits for a refresh that is not running: dropping a leader's    *)
(* future never strands its waiters.                                       *)
THEOREM NoStrandedWaiter == Spec => []WaitersHaveLeader
BY FlightInvariant, FlightImplies, TypeCorrect, PTL

---------------------------------------------------------------------------
(* The circuit. *)

(* No refresh gets past the circuit check while the circuit is open, and   *)
(* none is caught by the circuit opening while it runs.                    *)
THEOREM OpenCircuitStopsRefresh == Spec => []CircuitHonoured
<1>1. Init => CircuitHonoured
  BY DEF Init, CircuitHonoured
<1>2. /\ TypeOK /\ FlightInv /\ CircuitHonoured /\ [Next]_vars
      => CircuitHonoured'
  <2> SUFFICES ASSUME TypeOK, FlightInv, CircuitHonoured, [Next]_vars
               PROVE  CircuitHonoured'
    OBVIOUS
  (* A step that lets no load past the check. *)
  <2>1. ASSUME UNCHANGED <<now, circuit>>,
               \A m \in Loads : pc'[m] \in {"admit", "fetch", "reply"} =>
                   /\ pc[m] \in {"admit", "fetch", "reply"}
                   /\ target'[m] = target[m]
        PROVE  CircuitHonoured'
    BY <2>1 DEF CircuitHonoured
  <2>2. ASSUME NEW l \in Loads, LoadStep(l)
        PROVE  CircuitHonoured'
    <3> USE DEF Goto, storeVars, ghostVars, clockVars, TypeOK
    <3>1. CASE CheckCircuit(l)
      BY <3>1 DEF CheckCircuit, CircuitHonoured, Fail, CircuitState
    <3>2. CASE Settle(l)
      <4>1. \A m \in Loads : /\ pc'[m] \in {"admit", "fetch", "reply"}
                              => pc[m] = pc'[m] /\ m # l
        BY <3>2 DEF Settle
      <4>2. \A m \in Loads : /\ pc'[m] \in {"admit", "fetch", "reply"}
                              => target[m] # target[l]
        BY <3>2, <4>1 DEF FlightInv, LeaderStages, Settle
      <4> QED
        BY <3>2, <4>1, <4>2 DEF Settle, CircuitHonoured
    <3>3. CASE Cancel(l)
      BY <2>1, <3>3 DEF Cancel, WakeWaiter
    <3>4. ASSUME NEW k \in Keys, Begin(l, k)
          PROVE  CircuitHonoured'
      BY <2>1, <3>4 DEF Begin
    <3>5. CASE LookupRepresentation(l) \/ LookupOutcome(l)
      BY <2>1, <3>5 DEF LookupRepresentation, LookupOutcome, Return
    <3>6. CASE Invalidate(l) \/ JoinHit(l) \/ JoinLead(l) \/ JoinWait(l)
      BY <2>1, <3>6 DEF Invalidate, JoinHit, JoinLead, JoinWait, Return
    <3>7. CASE Admit(l) \/ Refuse(l) \/ Respond(l)
      BY <2>1, <3>7 DEF Admit, Refuse, Respond, Fail
    <3>8. CASE FetchFails(l)
      BY <2>1, <3>8 DEF FetchFails, Fail
    <3>9. CASE Publish(l)
      BY <2>1, <3>9 DEF Publish, Fail
    <3> QED
      BY <2>2, <3>1, <3>2, <3>3, <3>4, <3>5, <3>6, <3>7, <3>8, <3>9 DEF LoadStep
  <2>3. ASSUME NEW k \in EvictableKeys, Evict(k)
        PROVE  CircuitHonoured'
    <3>1. CASE EvictRepresentation(k) \/ EvictOutcome(k)
      BY <2>1, <3>1 DEF EvictRepresentation, EvictOutcome, clockVars, loadVars
    <3>2. CASE EvictCircuit(k)
      BY <3>2 DEF EvictCircuit, CircuitHonoured, ClosedCircuit, clockVars, loadVars, TypeOK
    <3> QED
      BY <2>3, <3>1, <3>2 DEF Evict
  <2>4. CASE Tick
    BY <2>4 DEF Tick, CircuitHonoured, storeVars, loadVars, TypeOK, CircuitState
  <2>5. CASE \/ \E k \in Keys : OriginUpdate(k)
             \/ \E t \in WallClocks : AdjustClock(t)
             \/ UNCHANGED vars
    BY <2>1, <2>5 DEF OriginUpdate, AdjustClock, vars, clockVars, storeVars, loadVars
  <2> QED
    BY <2>2, <2>3, <2>4, <2>5 DEF Next
<1> QED
  BY <1>1, <1>2, FlightInvariant, TypeCorrect, PTL DEF Spec

---------------------------------------------------------------------------
(* Versions. *)

(* NoRegression and CachesHoldNewest rest on each other and on where       *)
(* versions are in transit: in an origin's reply, in the result a leader   *)
(* has published but not yet settled, and in the `previous' of a load.     *)
VersionInv ==
    /\ \A k \in Keys : newest[k] <= version[k]
    /\ CachesHoldNewest
    /\ \A l \in Loads : pc[l] = "reply" => /\ newest[target[l]] <= reply[l].ver
                                           /\ reply[l].ver <= version[target[l]]
    /\ \A l \in Loads : pc[l] = "settle" /\ result[l].err = "ok" =>
                             /\ result[l].rep # NoRep
                             /\ result[l].rep.ver = newest[target[l]]
    /\ \A l \in Loads : Active(l) => floor[l] <= newest[target[l]]
    /\ \A l \in Loads : previous[l] # NoRep => Active(l) /\ floor[l] <= previous[l].ver
    /\ NoRegression

(* A step that does not touch versions, caches or in-transit results       *)
(* keeps the version invariant.                                            *)
LEMMA VersionQuiet ==
    ASSUME TypeOK, VersionInv,
           UNCHANGED <<version, newest, reps, target, floor>>,
           \A k \in Keys : outcomes'[k] \in {outcomes[k], NoOutcome},
           \A m \in Loads :
               /\ pc'[m] = "reply" => pc[m] = "reply" /\ reply'[m] = reply[m]
               /\ pc'[m] = "settle" =>
                     \/ pc[m] = "settle" /\ result'[m] = result[m]
                     \/ result'[m].err # "ok"
               /\ Active(m)' => Active(m)
               /\ previous'[m] = NoRep \/ (previous'[m] = previous[m] /\ Active(m)')
               /\ \/ served'[m] = served[m]
                  \/ served'[m].rep = NoRep
                  \/ served'[m].rep.ver >= floor[m]
    PROVE  VersionInv'
<1>1. CachesHoldNewest'
  BY DEF VersionInv, CachesHoldNewest
<1>2. NoRegression'
  BY DEF VersionInv, NoRegression
<1>3. \A m \in Loads : previous'[m] # NoRep => Active(m)' /\ floor'[m] <= previous'[m].ver
  BY DEF VersionInv
<1>4. \A m \in Loads : Active(m)' => floor'[m] <= newest'[target'[m]]
  BY DEF VersionInv
<1> QED
  BY <1>1, <1>2, <1>3, <1>4 DEF VersionInv

(* What a load makes of a refresh result is no older than what had been    *)
(* obtained when it began.                                                 *)
LEMMA ResultNoRegression ==
    ASSUME TypeOK, VersionInv, NEW m \in Loads, NEW res \in RefreshResult, Active(m),
           res.err = "ok" => res.rep # NoRep /\ res.rep.ver = newest[target[m]]
    PROVE  LET s == ResultOrStale(res, previous[m], began[m])
           IN  s.rep = NoRep \/ s.rep.ver >= floor[m]
<1> DEFINE s == ResultOrStale(res, previous[m], began[m])
<1>0. began[m] \in Nat /\ previous[m] \in Representation \cup {NoRep} /\ floor[m] \in Nat
  BY DEF TypeOK
<1>1. \/ res.err = "ok" /\ s.rep = res.rep
      \/ s.rep \in {previous[m], NoRep}
  BY <1>0, ResultOrStaleType
<1>2. newest[target[m]] \in Nat /\ floor[m] <= newest[target[m]]
  BY DEF TypeOK, VersionInv
<1>3. previous[m] # NoRep => previous[m].ver \in Nat /\ floor[m] <= previous[m].ver
  BY <1>0 DEF VersionInv, Representation
<1> HIDE DEF s
<1>4. s.rep = NoRep \/ s.rep.ver >= floor[m]
  BY <1>0, <1>1, <1>2, <1>3
<1> QED
  BY <1>4 DEF s

(* Every step keeps the version invariant. *)
LEMMA VersionStep == TypeOK /\ FlightInv /\ VersionInv /\ [Next]_vars => VersionInv'
<1> SUFFICES ASSUME TypeOK, FlightInv, VersionInv, [Next]_vars
             PROVE  VersionInv'
  OBVIOUS
(* A load moves on without a reply or a result. *)
<1>move. ASSUME NEW l \in Loads, Active(l), NEW stage, pc' = [pc EXCEPT ![l] = stage],
             stage \in Stages \ {"idle", "done", "reply", "settle"},
             UNCHANGED <<version, newest, reps, target, floor, reply, result, previous,
                         served>>,
             \A k \in Keys : outcomes'[k] \in {outcomes[k], NoOutcome}
      PROVE  VersionInv'
  <2>1. \A m \in Loads : Active(m)' <=> Active(m)
    BY <1>move DEF Active, TypeOK
  <2>2. \A m \in Loads : pc'[m] \in {"reply", "settle"} => pc[m] = pc'[m]
    BY <1>move DEF TypeOK
  <2>3. \A m \in Loads : previous'[m] = NoRep \/ (previous'[m] = previous[m] /\ Active(m)')
    BY <1>move, <2>1 DEF VersionInv
  <2> QED
    BY <1>move, <2>1, <2>2, <2>3, VersionQuiet
(* A load returns something no older than its floor. *)
<1>return. ASSUME NEW l \in Loads, NEW what, Return(l, what),
             what.rep = NoRep \/ what.rep.ver >= floor[l],
             UNCHANGED <<version, newest, reps, outcomes, target, floor, reply, result>>
      PROVE  VersionInv'
  <2>1. /\ pc' = [pc EXCEPT ![l] = "done"]
        /\ served'[l] = what
        /\ \A m \in Loads : m # l => served'[m] = served[m] /\ previous'[m] = previous[m]
        /\ previous'[l] = NoRep
    BY <1>return DEF Return, TypeOK
  <2>2. \A m \in Loads : (Active(m)' => Active(m)) /\ (m # l /\ Active(m) => Active(m)')
    BY <2>1 DEF Active, TypeOK
  <2>3. \A m \in Loads : pc'[m] \in {"reply", "settle"} => pc[m] = pc'[m]
    BY <2>1 DEF TypeOK
  <2>4. \A m \in Loads : previous'[m] = NoRep \/ (previous'[m] = previous[m] /\ Active(m)')
    BY <2>1, <2>2 DEF VersionInv
  <2> QED
    BY <1>return, <2>1, <2>2, <2>3, <2>4, VersionQuiet
<1>1. ASSUME NEW l \in Loads, LoadStep(l)
      PROVE  VersionInv'
  <2> USE DEF Goto, storeVars, ghostVars, clockVars
  <2>1. ASSUME NEW k \in Keys, Begin(l, k)
        PROVE  VersionInv'
    <3>1. previous[l] = NoRep
      BY <2>1 DEF Begin, VersionInv
    <3>2. UNCHANGED <<version, newest, reps, outcomes, previous, reply, result>>
      BY <2>1 DEF Begin
    <3>3. \A m \in Loads : m # l => /\ pc'[m] = pc[m] /\ target'[m] = target[m]
                                    /\ floor'[m] = floor[m] /\ served'[m] = served[m]
      BY <2>1 DEF Begin, TypeOK
    <3>4. /\ pc'[l] = "lookup" /\ target'[l] = k /\ floor'[l] = newest[k]
          /\ served'[l].rep = NoRep /\ newest[k] \in Nat
      BY <2>1 DEF Begin, TypeOK
    <3>5. CachesHoldNewest'
      BY <3>2 DEF VersionInv, CachesHoldNewest
    <3>6. NoRegression'
      BY <3>3, <3>4 DEF VersionInv, NoRegression
    <3> QED
      BY <3>1, <3>2, <3>3, <3>4, <3>5, <3>6 DEF VersionInv, Active
  <2>2. CASE LookupRepresentation(l)
    <3> DEFINE old == reps[target[l]]
    <3>0. /\ pc[l] = "lookup" /\ Active(l)
          /\ UNCHANGED <<version, newest, reps, outcomes, target, floor, reply, result>>
      BY <2>2 DEF LookupRepresentation, Active
    <3>1. /\ old # NoRep => old.ver \in Nat /\ old.ver >= floor[l]
          /\ floor[l] \in Nat
      BY <3>0 DEF VersionInv, CachesHoldNewest, TypeOK, Representation
    <3>2. CASE Return(l, [source |-> "fresh", rep |-> old])
      BY <1>return, <3>0, <3>1, <3>2
    <3>3. CASE /\ Goto(l, "outcome")
               /\ previous' = [previous EXCEPT ![l] = old]
               /\ UNCHANGED served
      <4>1. CachesHoldNewest' /\ NoRegression'
        BY <3>0, <3>3 DEF VersionInv, CachesHoldNewest, NoRegression
      <4>2. \A m \in Loads : Active(m)' <=> Active(m)
        BY <3>0, <3>3 DEF Active, TypeOK
      <4>3. \A m \in Loads : previous'[m] # NoRep =>
                                 Active(m)' /\ floor'[m] <= previous'[m].ver
        <5>1. CASE old = NoRep
          BY <3>0, <3>3, <4>2, <5>1 DEF VersionInv, TypeOK
        <5>2. CASE old # NoRep
          <6>1. old.ver \in Nat /\ floor[l] <= old.ver
            BY <3>1, <5>2
          <6> QED
            BY <3>0, <3>3, <4>2, <6>1 DEF VersionInv, TypeOK
        <5> QED
          BY <5>1, <5>2
      <4>4. \A m \in Loads : Active(m)' => floor'[m] <= newest'[target'[m]]
        BY <3>0, <4>2 DEF VersionInv
      <4>5. \A m \in Loads : pc'[m] \in {"reply", "settle"} => pc[m] = pc'[m]
        BY <3>3 DEF TypeOK
      <4> QED
        BY <3>0, <4>1, <4>3, <4>4, <4>5 DEF VersionInv
    <3> QED
      BY <2>2, <3>2, <3>3 DEF LookupRepresentation
  <2> DEFINE share == ResultOrStale(outcomes[target[l]].result, previous[l], began[l])
  <2>3. ASSUME Active(l), outcomes[target[l]] # NoOutcome, Return(l, share),
               UNCHANGED <<version, newest, reps, outcomes, target, floor, reply, result>>
        PROVE  VersionInv'
    <3>1. outcomes[target[l]].result \in RefreshResult
      BY <2>3 DEF TypeOK, RefreshOutcome
    <3>2. outcomes[target[l]].result.err = "ok" =>
             outcomes[target[l]].result.rep.ver = newest[target[l]]
      BY <2>3 DEF VersionInv, CachesHoldNewest, TypeOK
    <3>3. share.rep = NoRep \/ share.rep.ver >= floor[l]
      <4>1. CASE outcomes[target[l]].result.rep = NoRep
        <5>1. \/ share.rep = NoRep
              \/ share.rep = previous[l]
          <6>1. previous[l] \in Representation \cup {NoRep} /\ began[l] \in Nat
            BY DEF TypeOK
          <6>2. \/ outcomes[target[l]].result.err = "ok"
                     /\ share.rep = outcomes[target[l]].result.rep
                \/ share.rep \in {previous[l], NoRep}
            BY <3>1, <6>1, ResultOrStaleType
          <6> HIDE DEF share
          <6> QED
            BY <4>1, <6>2
        <5>2. previous[l] # NoRep => previous[l].ver >= floor[l]
          BY DEF VersionInv, TypeOK, Representation
        <5> QED
          BY <5>1, <5>2
      <4>2. CASE outcomes[target[l]].result.rep # NoRep
        BY <2>3, <3>1, <3>2, <4>2, ResultNoRegression
      <4> QED
        BY <4>1, <4>2
    <3> QED
      BY <1>return, <2>3, <3>3
  <2>4. CASE LookupOutcome(l)
    <3>1. CASE Goto(l, "join") /\ UNCHANGED <<served, previous>>
      BY <1>move, <2>4, <3>1 DEF LookupOutcome, Active, Stages
    <3>2. CASE outcomes[target[l]] # NoOutcome /\ Return(l, share)
      BY <2>3, <2>4, <3>2 DEF LookupOutcome, Active
    <3>3. CASE Goto(l, "invalidate") /\ UNCHANGED <<served, previous>>
      BY <1>move, <2>4, <3>3 DEF LookupOutcome, Active, Stages
    <3> QED
      BY <2>4, <3>1, <3>2, <3>3 DEF LookupOutcome
  <2>5. CASE Invalidate(l)
    BY <1>move, <2>5 DEF Invalidate, Active, Stages, TypeOK
  <2>6. CASE JoinHit(l)
    BY <2>3, <2>6 DEF JoinHit, Active
  <2>7. CASE JoinLead(l) \/ JoinWait(l)
    BY <1>move, <2>7 DEF JoinLead, JoinWait, Active, Stages
  <2>8. ASSUME NEW class \in FailureClass, NEW delay \in Nat, Fail(l, class, delay),
               Active(l),
               UNCHANGED <<version, newest, reps, outcomes, target, floor, previous, served>>
        PROVE  VersionInv'
    <3>1. /\ pc' = [pc EXCEPT ![l] = "settle"]
          /\ result'[l].err # "ok"
          /\ \A m \in Loads : m # l => result'[m] = result[m] /\ reply'[m] = reply[m]
      BY <2>8 DEF Fail, Failure, FailureClass, TypeOK
    <3>2. \A m \in Loads : Active(m)' <=> Active(m)
      BY <2>8, <3>1 DEF Active, TypeOK
    <3>3. \A m \in Loads : previous'[m] = NoRep \/ (previous'[m] = previous[m] /\ Active(m)')
      BY <2>8, <3>2 DEF VersionInv
    <3> QED
      BY <2>8, <3>1, <3>2, <3>3, VersionQuiet DEF TypeOK
  <2>9. CASE CheckCircuit(l)
    <3>1. CASE Fail(l, "circuit_open", 0)
      BY <2>8, <2>9, <3>1 DEF CheckCircuit, Active, FailureClass
    <3>2. CASE Goto(l, "admit") /\ UNCHANGED <<result, reply, permits>>
      BY <1>move, <2>9, <3>2 DEF CheckCircuit, Active, Stages
    <3> QED
      BY <2>9, <3>1, <3>2 DEF CheckCircuit
  <2>10. CASE Admit(l)
    BY <1>move, <2>10 DEF Admit, Active, Stages
  <2>11. CASE Refuse(l)
    BY <2>8, <2>11 DEF Refuse, Active, FailureClass
  <2>12. CASE Respond(l)
    <3>1. /\ UNCHANGED <<version, newest, reps, outcomes, target, floor, previous, result,
                        served>>
          /\ pc[l] = "fetch"
          /\ pc' = [pc EXCEPT ![l] = "reply"]
          /\ reply'[l].ver = version[target[l]]
          /\ \A m \in Loads : m # l => reply'[m] = reply[m]
      BY <2>12 DEF Respond, TypeOK
    <3>2. CachesHoldNewest' /\ NoRegression'
      BY <3>1 DEF VersionInv, CachesHoldNewest, NoRegression
    <3>3. \A m \in Loads : Active(m)' <=> Active(m)
      BY <3>1 DEF Active, TypeOK
    <3>4. \A m \in Loads : pc'[m] = "reply" => /\ newest'[target'[m]] <= reply'[m].ver
                                              /\ reply'[m].ver <= version'[target'[m]]
      BY <3>1 DEF VersionInv, TypeOK
    <3>5. \A m \in Loads : pc'[m] = "settle" => pc[m] = "settle"
      BY <3>1 DEF TypeOK
    <3> QED
      BY <3>1, <3>2, <3>3, <3>4, <3>5 DEF VersionInv
  <2>13. CASE FetchFails(l)
    BY <2>8, <2>13 DEF FetchFails, Active, FailureClass, PermitStages
  <2>14. CASE Publish(l)
    <3> DEFINE r == RepresentationFromResponse(previous[l], reply[l], wall)
    <3>1. CASE r = NoRep
      BY <2>8, <2>14, <3>1 DEF Publish, Active, FailureClass
    <3>2. CASE r # NoRep
      <4>1. r.ver = reply[l].ver /\ r.ver \in Nat
        <5>1. previous[l] \in Representation \cup {NoRep} /\ reply[l] \in Reply /\ wall \in Nat
          BY DEF TypeOK
        <5>2. r.ver = reply[l].ver
          BY <3>2, <5>1, RepresentationVersion
        <5> QED
          BY <5>1, <5>2 DEF Reply
      <4> HIDE DEF r
      <4>2. /\ pc[l] = "reply"
            /\ pc' = [pc EXCEPT ![l] = "settle"]
            /\ result' = [result EXCEPT ![l] = Success(r)]
            /\ reply' = [reply EXCEPT ![l] = NoReply]
            /\ reps' = [reps EXCEPT ![target[l]] = Published(r)]
            /\ newest' = [newest EXCEPT ![target[l]] = r.ver]
            /\ UNCHANGED <<version, outcomes, target, previous, served, floor>>
        BY <2>14, <3>2 DEF Publish, r
      <4>3. leader[target[l]] = l /\ outcomes[target[l]] = NoOutcome
        BY <4>2 DEF FlightInv, LeaderStages, TypeOK
      <4>4. \A m \in Loads : pc[m] \in {"reply", "settle"} /\ target[m] = target[l] => m = l
        BY <4>2 DEF FlightInv, LeaderStages
      <4>5. newest[target[l]] <= r.ver /\ r.ver <= version[target[l]]
        BY <4>1, <4>2 DEF VersionInv
      <4>6. CachesHoldNewest'
        BY <4>2, <4>3 DEF VersionInv, CachesHoldNewest, Published, TypeOK
      <4>7. NoRegression'
        BY <4>2 DEF VersionInv, NoRegression
      <4>8. \A m \in Loads : Active(m)' <=> Active(m)
        BY <4>2 DEF Active, TypeOK
      <4>9. \A k \in Keys : newest[k] <= newest'[k] /\ newest'[k] <= version'[k]
                            /\ newest[k] \in Nat /\ newest'[k] \in Nat
        BY <4>1, <4>2, <4>5 DEF VersionInv, TypeOK
      <4>10. \A m \in Loads : Active(m)' => floor'[m] <= newest'[target'[m]]
        BY <4>2, <4>8, <4>9 DEF VersionInv, TypeOK
      <4>11. \A m \in Loads : pc'[m] = "reply" => /\ newest'[target'[m]] <= reply'[m].ver
                                                 /\ reply'[m].ver <= version'[target'[m]]
        BY <4>2, <4>4 DEF VersionInv, TypeOK
      <4>12. \A m \in Loads : pc'[m] = "settle" /\ result'[m].err = "ok" =>
                                 /\ result'[m].rep # NoRep
                                 /\ result'[m].rep.ver = newest'[target'[m]]
        BY <3>2, <4>2, <4>4 DEF VersionInv, TypeOK, Success
      <4> QED
        BY <4>2, <4>6, <4>7, <4>8, <4>9, <4>10, <4>11, <4>12 DEF VersionInv
    <3> QED
      BY <3>1, <3>2
  <2>15. CASE Settle(l)
    <3>1. leader[target[l]] = l
      BY <2>15 DEF Settle, FlightInv, LeaderStages
    <3> DEFINE Ends(m) == m = l \/ (pc[m] = "wait" /\ target[m] = target[l])
    <3>2. /\ pc[l] = "settle"
          /\ UNCHANGED <<version, newest, reps, target, floor, reply>>
          /\ \A k \in Keys : k # target[l] => outcomes'[k] = outcomes[k]
          /\ outcomes'[target[l]].result = result[l]
          /\ \A m \in Loads : Ends(m) =>
                 /\ pc'[m] = "done" /\ previous'[m] = NoRep
                 /\ served'[m] = ResultOrStale(result[l], previous[m], began[m])
          /\ \A m \in Loads : ~Ends(m) =>
                 /\ pc'[m] = pc[m] /\ previous'[m] = previous[m] /\ served'[m] = served[m]
                 /\ result'[m] = result[m]
      BY <2>15 DEF Settle, TypeOK
    <3>3. result[l].err = "ok" => result[l].rep # NoRep /\ result[l].rep.ver = newest[target[l]]
      BY <3>2 DEF VersionInv
    <3>4. \A m \in Loads : Ends(m) => Active(m) /\ target[m] = target[l]
      BY <3>2 DEF Active
    <3>5. \A m \in Loads : Ends(m) =>
             served'[m].rep = NoRep \/ served'[m].rep.ver >= floor[m]
      <4>1. SUFFICES ASSUME NEW m \in Loads, Ends(m)
                     PROVE  served'[m].rep = NoRep \/ served'[m].rep.ver >= floor[m]
        OBVIOUS
      <4>2. result[l] \in RefreshResult
        BY DEF TypeOK
      <4> QED
        BY <3>2, <3>3, <3>4, <4>1, <4>2, ResultNoRegression
    <3> HIDE DEF Ends
    <3>6. CachesHoldNewest'
      BY <3>2, <3>3 DEF VersionInv, CachesHoldNewest, TypeOK
    <3>7. NoRegression'
      BY <3>2, <3>5 DEF VersionInv, NoRegression
    <3>8. \A m \in Loads : Active(m)' <=> Active(m) /\ ~Ends(m)
      BY <3>2 DEF Active
    <3>9. \A m \in Loads : pc'[m] \in {"reply", "settle"} => ~Ends(m) /\ pc'[m] = pc[m]
      BY <3>2
    <3>10. \A m \in Loads : previous'[m] # NoRep => Active(m)' /\ floor'[m] <= previous'[m].ver
      BY <3>2, <3>8 DEF VersionInv
    <3>11. \A m \in Loads : Active(m)' => floor'[m] <= newest'[target'[m]]
      BY <3>2, <3>8 DEF VersionInv
    <3> QED
      BY <3>2, <3>6, <3>7, <3>9, <3>10, <3>11 DEF VersionInv
  <2>16. CASE Cancel(l)
    <3>1. \A m \in Loads : pc'[m] \in {"reply", "settle"} => m # l /\ pc'[m] = pc[m]
      BY <2>16 DEF Cancel, WakeWaiter, TypeOK
    <3>2. \A m \in Loads : (Active(m)' => Active(m)) /\ (m # l /\ Active(m) => Active(m)')
      BY <2>16 DEF Cancel, WakeWaiter, Active, TypeOK
    <3>3. /\ UNCHANGED <<version, newest, reps, outcomes, target, floor>>
          /\ \A m \in Loads : m # l => /\ reply'[m] = reply[m] /\ result'[m] = result[m]
                                       /\ previous'[m] = previous[m] /\ served'[m] = served[m]
          /\ previous'[l] = NoRep /\ served'[l].rep = NoRep
      BY <2>16 DEF Cancel, WakeWaiter, TypeOK
    <3>4. \A m \in Loads : previous'[m] = NoRep \/ (previous'[m] = previous[m] /\ Active(m)')
      BY <3>2, <3>3 DEF VersionInv
    <3> QED
      BY <3>1, <3>2, <3>3, <3>4, VersionQuiet
  <2> QED
    BY <1>1, <2>1, <2>2, <2>4, <2>5, <2>6, <2>7, <2>9, <2>10, <2>11, <2>12, <2>13, <2>14,
       <2>15, <2>16 DEF LoadStep
<1>2. ASSUME NEW k \in EvictableKeys, Evict(k)
      PROVE  VersionInv'
  BY <1>2 DEF VersionInv, CachesHoldNewest, NoRegression, Active, TypeOK, Evict,
     EvictRepresentation, EvictOutcome, EvictCircuit, clockVars, loadVars, ghostVars
<1>3. ASSUME NEW k \in Keys, OriginUpdate(k)
      PROVE  VersionInv'
  BY <1>3 DEF VersionInv, CachesHoldNewest, NoRegression, Active, TypeOK, Reply, OriginUpdate,
     storeVars, loadVars, ghostVars
<1>4. CASE (\E t \in WallClocks : AdjustClock(t)) \/ Tick \/ UNCHANGED vars
  BY <1>4 DEF VersionInv, CachesHoldNewest, NoRegression, Active, AdjustClock, Tick, vars,
     clockVars, storeVars, loadVars, ghostVars
<1> QED
  BY <1>1, <1>2, <1>3, <1>4 DEF Next

(* The version invariant holds of every behaviour. *)
LEMMA VersionInvariant == Spec => []VersionInv
<1>1. Init => VersionInv
  BY DEF Init, VersionInv, CachesHoldNewest, NoRegression, Active
<1> QED
  BY <1>1, VersionStep, TypeCorrect, FlightInvariant, PTL DEF Spec

(* No load is answered with a version older than one a refresh had already *)
(* obtained when it began.                                                 *)
THEOREM LoadsNeverRegress == Spec => []NoRegression
<1>1. VersionInv => NoRegression
  BY DEF VersionInv
<1> QED
  BY <1>1, VersionInvariant, PTL

(* Neither cache ever holds anything but the version obtained last. *)
THEOREM CachesNeverRegress == Spec => []CachesHoldNewest
<1>1. VersionInv => CachesHoldNewest
  BY DEF VersionInv
<1> QED
  BY <1>1, VersionInvariant, PTL

(* A version obtained from the origin is never followed by an older one.   *)
NewestMonotone == [][\A k \in Keys : newest'[k] >= newest[k]]_vars

(* What a refresh obtains is never older than what was obtained before. *)
THEOREM VersionsOnlyAdvance == Spec => NewestMonotone
<1>1. TypeOK /\ VersionInv /\ [Next]_vars => [\A k \in Keys : newest'[k] >= newest[k]]_vars
  <2> SUFFICES ASSUME TypeOK, VersionInv, Next
               PROVE  \A k \in Keys : newest'[k] >= newest[k]
    OBVIOUS
  <2>1. ASSUME UNCHANGED newest
        PROVE  \A k \in Keys : newest'[k] >= newest[k]
    BY <2>1 DEF TypeOK
  <2>2. ASSUME NEW l \in Loads, Publish(l)
        PROVE  \A k \in Keys : newest'[k] >= newest[k]
    <3> DEFINE r == RepresentationFromResponse(previous[l], reply[l], wall)
    <3>1. CASE r = NoRep
      BY <2>1, <2>2, <3>1 DEF Publish
    <3>2. CASE r # NoRep
      <4>1. previous[l] \in Representation \cup {NoRep} /\ reply[l] \in Reply /\ wall \in Nat
        BY DEF TypeOK
      <4>2. r.ver = reply[l].ver /\ r.ver \in Nat
        BY <3>2, <4>1, RepresentationVersion DEF Reply
      <4>3. newest' = [newest EXCEPT ![target[l]] = r.ver]
        BY <2>2, <3>2 DEF Publish
      <4>4. newest[target[l]] <= reply[l].ver
        BY <2>2 DEF Publish, VersionInv
      <4> HIDE DEF r
      <4> QED
        BY <4>2, <4>3, <4>4 DEF TypeOK
    <3> QED
      BY <3>1, <3>2
  <2>3. ASSUME NEW l \in Loads, LoadStep(l), ~Publish(l)
        PROVE  UNCHANGED newest
    BY <2>3 DEF LoadStep, Begin, LookupRepresentation, LookupOutcome, Invalidate, JoinHit,
       JoinLead, JoinWait, CheckCircuit, Admit, Refuse, Respond, FetchFails, Settle, Cancel,
       ghostVars
  <2>4. ASSUME ~(\E l \in Loads : LoadStep(l))
        PROVE  UNCHANGED newest
    BY <2>4 DEF Next, Evict, EvictRepresentation, EvictOutcome, EvictCircuit, OriginUpdate,
       AdjustClock, Tick, ghostVars
  <2> QED
    BY <2>1, <2>2, <2>3, <2>4
<1> QED
  BY <1>1, TypeCorrect, VersionInvariant, PTL DEF Spec, NewestMonotone

---------------------------------------------------------------------------
(* Permits. *)

Holders == {l \in Loads : pc[l] \in PermitStages}

(* A load that enters, leaves or stays out of the permit stages alone      *)
(* changes the number of holders by one or not at all.                     *)
LEMMA HoldersStep ==
    ASSUME TypeOK, NEW l \in Loads,
           \A m \in Loads \ {l} : pc'[m] \in PermitStages <=> pc[m] \in PermitStages
    PROVE  /\ Cardinality(Holders) \in Nat
           /\ (pc[l] \notin PermitStages /\ pc'[l] \in PermitStages)
                 => Cardinality(Holders') = Cardinality(Holders) + 1
           /\ (pc[l] \in PermitStages /\ pc'[l] \notin PermitStages)
                 => Cardinality(Holders) = Cardinality(Holders') + 1 /\ Cardinality(Holders') \in Nat
           /\ (pc[l] \in PermitStages <=> pc'[l] \in PermitStages)
                 => Cardinality(Holders') = Cardinality(Holders)
<1>1. IsFiniteSet(Holders) /\ IsFiniteSet(Holders')
  BY FS_Subset DEF Holders
<1>2. Cardinality(Holders) \in Nat /\ Cardinality(Holders') \in Nat
  BY <1>1, FS_CardinalityType
<1>3. CASE pc[l] \notin PermitStages /\ pc'[l] \in PermitStages
  <2>1. Holders' = Holders \cup {l} /\ l \notin Holders
    BY <1>3 DEF Holders
  <2> QED
    BY <1>1, <1>2, <1>3, <2>1, FS_AddElement
<1>4. CASE pc[l] \in PermitStages /\ pc'[l] \notin PermitStages
  <2>1. Holders = Holders' \cup {l} /\ l \notin Holders'
    BY <1>4 DEF Holders
  <2> QED
    BY <1>1, <1>2, <1>4, <2>1, FS_AddElement
<1>5. CASE pc[l] \in PermitStages <=> pc'[l] \in PermitStages
  <2>1. Holders' = Holders
    BY <1>5 DEF Holders
  <2> QED
    BY <1>2, <1>5, <2>1
<1> QED
  BY <1>3, <1>4, <1>5

(* The outbound permits are conserved: whatever ends a refresh, an answer, *)
(* an error or a dropped future, gives back what it took and no more.      *)
THEOREM PermitsAreConserved == Spec => []PermitsConserved
<1>1. Init => PermitsConserved
  <2> SUFFICES ASSUME Init
               PROVE  PermitsConserved
    OBVIOUS
  <2>1. {l \in Loads : pc[l] \in PermitStages} = {}
    BY DEF Init, PermitStages
  <2>2. Cardinality({l \in Loads : pc[l] \in PermitStages}) = 0
    BY <2>1, FS_EmptySet
  <2>3. permits = OutboundFetches
    BY DEF Init
  <2> QED
    BY <2>2, <2>3 DEF PermitsConserved
<1>2. TypeOK /\ PermitsConserved /\ [Next]_vars => PermitsConserved'
  <2> SUFFICES ASSUME TypeOK, PermitsConserved, [Next]_vars
               PROVE  PermitsConserved'
    OBVIOUS
  <2>0. permits + Cardinality(Holders) = OutboundFetches /\ permits \in Nat
    BY DEF PermitsConserved, Holders, TypeOK
  <2>1. ASSUME permits' + Cardinality(Holders') = OutboundFetches
        PROVE  PermitsConserved'
    BY <2>1 DEF PermitsConserved, Holders
  <2>2. ASSUME UNCHANGED <<pc, permits>>
        PROVE  PermitsConserved'
    BY <2>2 DEF PermitsConserved
  <2>3. ASSUME NEW l \in Loads, NEW stage, pc' = [pc EXCEPT ![l] = stage],
               pc[l] \notin PermitStages, stage \notin PermitStages, permits' = permits
        PROVE  PermitsConserved'
    BY <2>0, <2>1, <2>3, HoldersStep DEF TypeOK
  <2>4. ASSUME NEW l \in Loads, NEW class, NEW delay, Fail(l, class, delay)
        PROVE  PermitsConserved'
    <3>1. pc' = [pc EXCEPT ![l] = "settle"]
      BY <2>4 DEF Fail, Goto
    <3>2. "settle" \notin PermitStages
      BY DEF PermitStages
    <3>3. permits' = IF pc[l] \in PermitStages THEN permits + 1 ELSE permits
      BY <2>4 DEF Fail
    <3>4. /\ \A m \in Loads \ {l} : pc'[m] \in PermitStages <=> pc[m] \in PermitStages
          /\ pc'[l] \notin PermitStages
      BY <3>1, <3>2 DEF TypeOK
    <3>5. CASE pc[l] \in PermitStages
      <4>1. Cardinality(Holders) = Cardinality(Holders') + 1 /\ Cardinality(Holders') \in Nat
        BY <3>4, <3>5, HoldersStep
      <4> QED
        BY <2>0, <2>1, <3>3, <3>5, <4>1
    <3>6. CASE pc[l] \notin PermitStages
      <4>1. Cardinality(Holders') = Cardinality(Holders)
        BY <3>4, <3>6, HoldersStep
      <4> QED
        BY <2>0, <2>1, <3>3, <3>6, <4>1
    <3> QED
      BY <3>5, <3>6
  <2>5. ASSUME NEW l \in Loads, LoadStep(l)
        PROVE  PermitsConserved'
    <3> USE DEF Goto, storeVars
    <3>1. ASSUME NEW k \in Keys, Begin(l, k)
          PROVE  PermitsConserved'
      BY <2>3, <3>1 DEF Begin, Active, PermitStages
    <3>2. CASE LookupRepresentation(l)
      BY <2>3, <3>2 DEF LookupRepresentation, Return, PermitStages
    <3>3. CASE LookupOutcome(l)
      BY <2>3, <3>3 DEF LookupOutcome, Return, PermitStages
    <3>4. CASE Invalidate(l) \/ JoinHit(l) \/ JoinLead(l) \/ JoinWait(l)
      BY <2>3, <3>4 DEF Invalidate, JoinHit, JoinLead, JoinWait, Return, PermitStages
    <3>5. CASE CheckCircuit(l)
      BY <2>3, <2>4, <3>5 DEF CheckCircuit, PermitStages
    <3>6. CASE Admit(l)
      <4>1. /\ pc[l] = "admit" /\ pc' = [pc EXCEPT ![l] = "fetch"]
            /\ permits' = permits - 1
        BY <3>6 DEF Admit
      <4>2. /\ \A m \in Loads \ {l} : pc'[m] \in PermitStages <=> pc[m] \in PermitStages
            /\ pc[l] \notin PermitStages /\ pc'[l] \in PermitStages
        BY <4>1 DEF TypeOK, PermitStages
      <4>3. Cardinality(Holders') = Cardinality(Holders) + 1 /\ Cardinality(Holders) \in Nat
        BY <4>2, HoldersStep
      <4> QED
        BY <2>0, <2>1, <4>1, <4>3
    <3>7. CASE Refuse(l)
      BY <2>4, <3>7 DEF Refuse
    <3>8. CASE Respond(l)
      <4>1. /\ pc[l] = "fetch" /\ pc' = [pc EXCEPT ![l] = "reply"]
            /\ permits' = permits
        BY <3>8 DEF Respond
      <4> QED
        BY <2>0, <2>1, <4>1, HoldersStep DEF TypeOK, PermitStages
    <3>9. CASE FetchFails(l)
      BY <2>4, <3>9 DEF FetchFails
    <3>10. CASE Publish(l)
      <4>1. CASE Fail(l, "permanent", 0)
        BY <2>4, <4>1
      <4>2. CASE Goto(l, "settle") /\ permits' = permits + 1
        <5>1. pc[l] = "reply"
          BY <3>10 DEF Publish
        <5>2. /\ \A m \in Loads \ {l} : pc'[m] \in PermitStages <=> pc[m] \in PermitStages
              /\ pc[l] \in PermitStages /\ pc'[l] \notin PermitStages
          BY <4>2, <5>1 DEF TypeOK, PermitStages
        <5>3. Cardinality(Holders) = Cardinality(Holders') + 1 /\ Cardinality(Holders') \in Nat
          BY <5>2, HoldersStep
        <5> QED
          BY <2>0, <2>1, <4>2, <5>3
      <4> QED
        BY <3>10, <4>1, <4>2 DEF Publish
    <3>11. CASE Settle(l)
      <4>1. /\ pc[l] = "settle" /\ permits' = permits /\ pc'[l] = "done"
            /\ \A m \in Loads : pc'[m] = pc[m] \/ (pc[m] = "wait" /\ pc'[m] = "done") \/ m = l
        BY <3>11 DEF Settle
      <4> QED
        BY <2>0, <2>1, <4>1, HoldersStep DEF PermitStages
    <3>12. CASE Cancel(l)
      <4>1. /\ permits' = IF pc[l] \in PermitStages THEN permits + 1 ELSE permits
            /\ pc'[l] = "done"
            /\ \A m \in Loads : pc'[m] = pc[m] \/ (pc[m] = "wait" /\ pc'[m] = "join") \/ m = l
        BY <3>12 DEF Cancel, WakeWaiter
      <4> QED
        BY <2>0, <2>1, <4>1, HoldersStep DEF PermitStages
    <3> QED
      BY <2>5, <3>1, <3>2, <3>3, <3>4, <3>5, <3>6, <3>7, <3>8, <3>9, <3>10, <3>11, <3>12
      DEF LoadStep
  <2>6. ASSUME ~(\E l \in Loads : LoadStep(l))
        PROVE  PermitsConserved'
    BY <2>2, <2>6 DEF Next, Evict, EvictRepresentation, EvictOutcome, EvictCircuit,
       OriginUpdate, AdjustClock, Tick, vars, storeVars, loadVars
  <2> QED
    BY <2>5, <2>6
<1> QED
  BY <1>1, <1>2, TypeCorrect, PTL DEF Spec
============================================================================
