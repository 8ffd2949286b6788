-------------------------- MODULE CacheRefinement --------------------------
(***************************************************************************)
(* The resource cache implements the abstract loader of KeyDirectory, and  *)
(* what it serves stale is within its window: theorems that build on the   *)
(* invariants of ResourceCacheProofs.                                      *)
(***************************************************************************)
EXTENDS ResourceCacheProofs

USE CacheAssumption, HeadersAssumption, NoneAssumption

(* The version a load remembers as `previous' is one that was obtained. *)
PreviousInv ==
    \A l \in Loads : previous[l] # NoRep => previous[l].ver <= newest[target[l]]

(* Successive versions only grow, step by step. *)
LEMMA NewestStep ==
    ASSUME TypeOK, VersionInv, NEW l \in Loads, Publish(l)
    PROVE  \A k \in Keys : newest[k] <= newest'[k] /\ newest'[k] <= version[k]
<1> DEFINE r == RepresentationFromResponse(previous[l], reply[l], wall)
<1>0. \A k \in Keys : newest[k] \in Nat /\ newest[k] <= version[k] /\ version[k] \in Nat
  BY DEF TypeOK, VersionInv
<1>1. CASE r = NoRep
  BY <1>0, <1>1 DEF Publish
<1>2. CASE r # NoRep
  <2>1. previous[l] \in Representation \cup {NoRep} /\ reply[l] \in Reply /\ wall \in Nat
    BY DEF TypeOK
  <2>2. r.ver = reply[l].ver /\ r.ver \in Nat
    BY <1>2, <2>1, RepresentationVersion DEF Reply
  <2>3. newest' = [newest EXCEPT ![target[l]] = r.ver]
    BY <1>2 DEF Publish
  <2>4. newest[target[l]] <= reply[l].ver /\ reply[l].ver <= version[target[l]]
    BY DEF Publish, VersionInv
  <2> HIDE DEF r
  <2> QED
    BY <1>0, <2>2, <2>3, <2>4 DEF TypeOK
<1> QED
  BY <1>1, <1>2

(* A load step that neither starts a load, nor looks a representation up,  *)
(* nor publishes one keeps every `previous' or forgets it.                 *)
LEMMA PreviousKept ==
    ASSUME TypeOK, NEW l \in Loads, LoadStep(l),
           ~(\E k \in Keys : Begin(l, k)), ~LookupRepresentation(l), ~Publish(l)
    PROVE  /\ UNCHANGED <<newest, target, version, floor>>
           /\ \A m \in Loads : previous'[m] \in {previous[m], NoRep}
<1> USE DEF clockVars, ghostVars, TypeOK
<1>1. CASE Settle(l) \/ Cancel(l)
  BY <1>1 DEF Settle, Cancel
<1>2. CASE LookupOutcome(l) \/ JoinHit(l)
  BY <1>2 DEF LookupOutcome, JoinHit, Return
<1>3. CASE Invalidate(l) \/ JoinLead(l) \/ JoinWait(l) \/ CheckCircuit(l) \/ Admit(l)
  BY <1>3 DEF Invalidate, JoinLead, JoinWait, CheckCircuit, Admit
<1>4. CASE Refuse(l) \/ Respond(l) \/ FetchFails(l)
  BY <1>4 DEF Refuse, Respond, FetchFails
<1> QED
  BY <1>1, <1>2, <1>3, <1>4 DEF LoadStep

(* A step that is not a load's changes neither its state nor the versions  *)
(* obtained.                                                               *)
LEMMA EnvironmentStep ==
    ASSUME [Next]_vars, ~(\E l \in Loads : LoadStep(l))
    PROVE  /\ UNCHANGED <<loadVars, ghostVars>>
           /\ \/ UNCHANGED version
              \/ \E k \in Keys : version' = [version EXCEPT ![k] = @ + 1]
<1>1. CASE Next
  BY <1>1 DEF Next, Evict, EvictRepresentation, EvictOutcome, EvictCircuit, OriginUpdate,
     AdjustClock, Tick, clockVars
<1>2. CASE UNCHANGED vars
  BY <1>2 DEF vars, clockVars
<1> QED
  BY <1>1, <1>2

(* Every step keeps the remembered versions below the obtained ones. *)
LEMMA PreviousStep ==
    TypeOK /\ VersionInv /\ PreviousInv /\ [Next]_vars => PreviousInv'
<1> SUFFICES ASSUME TypeOK, VersionInv, PreviousInv, [Next]_vars
             PROVE  PreviousInv'
  OBVIOUS
<1>1. ASSUME NEW l \in Loads, LoadStep(l)
      PROVE  PreviousInv'
  <2>1. ASSUME NEW k \in Keys, Begin(l, k)
        PROVE  PreviousInv'
    <3>1. previous[l] = NoRep
      BY <2>1 DEF Begin, VersionInv
    <3>2. UNCHANGED <<previous, newest>> /\ \A m \in Loads : m # l => target'[m] = target[m]
      BY <2>1 DEF Begin, TypeOK
    <3> QED
      BY <3>1, <3>2 DEF PreviousInv
  <2>2. CASE LookupRepresentation(l)
    <3>1. /\ UNCHANGED <<newest, target>>
          /\ \A m \in Loads : m # l => previous'[m] = previous[m]
          /\ previous'[l] \in {NoRep, reps[target[l]]}
      BY <2>2 DEF LookupRepresentation, Return, ghostVars, TypeOK
    <3>2. reps[target[l]] # NoRep => reps[target[l]].ver = newest[target[l]]
      BY DEF VersionInv, CachesHoldNewest, TypeOK
    <3>3. newest[target[l]] \in Nat
      BY DEF TypeOK
    <3> QED
      BY <3>1, <3>2, <3>3 DEF PreviousInv
  <2>3. CASE Publish(l)
    <3>1. UNCHANGED <<previous, target>>
      BY <2>3 DEF Publish
    <3>2. \A m \in Loads : /\ newest[target[m]] \in Nat /\ newest'[target[m]] \in Int
                           /\ newest[target[m]] <= newest'[target[m]]
                           /\ previous[m] # NoRep => previous[m].ver \in Nat
      <4>1. TypeOK'
        BY TypeStep
      <4> QED
        BY <2>3, <4>1, NewestStep DEF TypeOK, Representation
    <3> QED
      BY <3>1, <3>2 DEF PreviousInv
  <2>4. CASE /\ ~(\E k \in Keys : Begin(l, k))
             /\ ~LookupRepresentation(l) /\ ~Publish(l)
    BY <1>1, <2>4, PreviousKept DEF PreviousInv
  <2> QED
    BY <2>1, <2>2, <2>3, <2>4
<1>2. CASE ~(\E l \in Loads : LoadStep(l))
  BY <1>2, EnvironmentStep DEF PreviousInv, loadVars, ghostVars
<1> QED
  BY <1>1, <1>2

(* The invariant of remembered versions holds of every behaviour. *)
LEMMA PreviousInvariant == Spec => []PreviousInv
<1>1. Init => PreviousInv
  BY DEF Init, PreviousInv
<1> QED
  BY <1>1, PreviousStep, TypeCorrect, VersionInvariant, PTL DEF Spec

(* What a load makes of a refresh result is no newer than what has been    *)
(* obtained.                                                               *)
LEMMA ResultObtained ==
    ASSUME TypeOK, PreviousInv, NEW m \in Loads, NEW res \in RefreshResult,
           res.err = "ok" => (res.rep = NoRep \/ res.rep.ver = newest[target[m]])
    PROVE  LET s == ResultOrStale(res, previous[m], began[m])
           IN  s.rep = NoRep \/ s.rep.ver <= newest[target[m]]
<1> DEFINE s == ResultOrStale(res, previous[m], began[m])
<1>0. /\ began[m] \in Nat /\ previous[m] \in Representation \cup {NoRep}
      /\ newest[target[m]] \in Nat
  BY DEF TypeOK
<1>1. \/ res.err = "ok" /\ s.rep = res.rep
      \/ s.rep \in {previous[m], NoRep}
  BY <1>0, ResultOrStaleType
<1> HIDE DEF s
<1>2. s.rep = NoRep \/ s.rep.ver <= newest[target[m]]
  BY <1>0, <1>1 DEF PreviousInv
<1> QED
  BY <1>2 DEF s

---------------------------------------------------------------------------
(* Refinement. *)

(* A step in which no load starts or ends and no version changes is        *)
(* invisible to the callers.                                               *)
LEMMA InvisibleStep ==
    ASSUME UNCHANGED <<version, newest, target, floor, served>>,
           \A m \in Loads : pc'[m] = pc[m] \/ (Active(m) /\ Active(m)')
    PROVE  UNCHANGED Directory!vars
<1>1. LoadStatus' = LoadStatus
  BY DEF LoadStatus, Active
<1>2. LoadAnswer' = LoadAnswer
  BY DEF LoadAnswer
<1> QED
  BY <1>1, <1>2 DEF Directory!vars, Directory!loadVars

(* A step in which the loads of S end, each with nothing or with a version *)
(* between its floor and what has been obtained, is an answer.             *)
LEMMA AnswerStep ==
    ASSUME TypeOK, TypeOK', VersionInv', NEW S \in SUBSET Loads,
           UNCHANGED <<version, newest, target, floor>>,
           \A m \in S : /\ Active(m) /\ pc'[m] = "done"
                        /\ \/ served'[m].rep = NoRep
                           \/ served'[m].rep.ver <= newest[target[m]],
           \A m \in Loads \ S : /\ pc'[m] = pc[m] \/ (Active(m) /\ Active(m)')
                                /\ served'[m] = served[m]
    PROVE  Directory!Next
<1>1. LoadStatus' = [l \in Loads |-> IF l \in S THEN "done" ELSE LoadStatus[l]]
  BY DEF LoadStatus, Active
<1>2. LoadAnswer' = [l \in Loads |-> IF l \in S THEN LoadAnswer'[l] ELSE LoadAnswer[l]]
  BY DEF LoadAnswer
<1>3. \A m \in S : LoadStatus[m] = "loading"
  BY DEF LoadStatus
<1>4. \A m \in S : LoadAnswer'[m] \in Directory!Acceptable(m)
  <2> SUFFICES ASSUME NEW m \in S
               PROVE  LoadAnswer'[m] \in Directory!Acceptable(m)
    OBVIOUS
  <2>1. CASE served'[m].rep = NoRep
    BY <2>1 DEF LoadAnswer, Directory!Acceptable
  <2>2. CASE served'[m].rep # NoRep
    <3>1. served'[m].rep.ver \in Nat /\ floor[m] \in Nat /\ newest[target[m]] \in Nat
      BY <2>2 DEF TypeOK, Representation
    <3>2. floor[m] <= served'[m].rep.ver
      BY <2>2, <3>1 DEF VersionInv, NoRegression
    <3>3. LoadAnswer'[m] = served'[m].rep.ver
      BY <2>2 DEF LoadAnswer
    <3> QED
      BY <2>2, <3>1, <3>2, <3>3 DEF Directory!Acceptable
  <2> QED
    BY <2>1, <2>2
<1>5. Directory!Answer(S, LoadAnswer')
  BY <1>1, <1>2, <1>3, <1>4 DEF Directory!Answer
<1> QED
  BY <1>5 DEF Directory!Next

(* Every step of the cache is a step of the abstract loader or invisible   *)
(* to its callers.                                                         *)
LEMMA RefinementStep ==
    /\ TypeOK /\ TypeOK' /\ VersionInv /\ VersionInv' /\ PreviousInv
    /\ [Next]_vars
    => [Directory!Next]_Directory!vars
<1> SUFFICES ASSUME TypeOK, TypeOK', VersionInv, VersionInv', PreviousInv, [Next]_vars
             PROVE  Directory!Next \/ UNCHANGED Directory!vars
  OBVIOUS
<1>1. ASSUME NEW l \in Loads, LoadStep(l)
      PROVE  Directory!Next \/ UNCHANGED Directory!vars
  <2> USE DEF Goto, clockVars, ghostVars
  (* One load ends. *)
  <2>end. ASSUME Active(l), NEW what, Return(l, what),
               what.rep = NoRep \/ what.rep.ver <= newest[target[l]],
               UNCHANGED <<version, newest, target, floor>>
          PROVE  Directory!Next
    <3>1. /\ {l} \in SUBSET Loads
          /\ \A m \in {l} : Active(m) /\ pc'[m] = "done" /\ served'[m] = what
          /\ \A m \in Loads \ {l} : pc'[m] = pc[m] /\ served'[m] = served[m]
      BY <2>end DEF Return, TypeOK
    <3> QED
      BY <2>end, <3>1, AnswerStep
  (* One load moves on. *)
  <2>move. ASSUME NEW stage \in Stages \ {"idle", "done"}, Active(l),
                  pc' = [pc EXCEPT ![l] = stage],
                  UNCHANGED <<version, newest, target, floor, served>>
           PROVE  UNCHANGED Directory!vars
    <3>1. \A m \in Loads : pc'[m] = pc[m] \/ (Active(m) /\ Active(m)')
      BY <2>move DEF Active, TypeOK
    <3> QED
      BY <2>move, <3>1, InvisibleStep
  (* An outcome ends the load. *)
  <2>share. ASSUME outcomes[target[l]] # NoOutcome
            PROVE  LET s == ResultOrStale(outcomes[target[l]].result, previous[l], began[l])
                   IN  s.rep = NoRep \/ s.rep.ver <= newest[target[l]]
    <3>1. outcomes[target[l]].result \in RefreshResult
      BY <2>share DEF TypeOK, RefreshOutcome
    <3>2. outcomes[target[l]].result.err = "ok" =>
             outcomes[target[l]].result.rep.ver = newest[target[l]]
      BY <2>share DEF VersionInv, CachesHoldNewest, TypeOK
    <3> QED
      BY <3>1, <3>2, ResultObtained
  <2>1. ASSUME NEW k \in Keys, Begin(l, k)
        PROVE  Directory!Next
    <3>1. /\ UNCHANGED <<version, newest>>
          /\ ~Active(l)
          /\ target' = [target EXCEPT ![l] = k]
          /\ floor' = [floor EXCEPT ![l] = newest[k]]
          /\ pc' = [pc EXCEPT ![l] = "lookup"]
          /\ served' = [served EXCEPT ![l] = [source |-> "none", rep |-> NoRep]]
      BY <2>1 DEF Begin
    <3>2. LoadStatus[l] # "loading" /\ LoadStatus' = [LoadStatus EXCEPT ![l] = "loading"]
      BY <3>1 DEF LoadStatus, Active, TypeOK
    <3>3. LoadAnswer' = [LoadAnswer EXCEPT ![l] = NoRep]
      BY <3>1 DEF LoadAnswer, TypeOK
    <3>4. Directory!Request(l, k)
      BY <3>1, <3>2, <3>3 DEF Directory!Request
    <3> QED
      BY <3>4 DEF Directory!Next
  <2>2. CASE LookupRepresentation(l)
    <3>0. pc[l] = "lookup" /\ Active(l) /\ UNCHANGED <<version, newest, target, floor>>
      BY <2>2 DEF LookupRepresentation, Active
    <3>1. CASE Return(l, [source |-> "fresh", rep |-> reps[target[l]]])
      <4>1. \/ reps[target[l]] = NoRep
            \/ reps[target[l]].ver <= newest[target[l]]
        BY DEF VersionInv, CachesHoldNewest, TypeOK
      <4> QED
        BY <2>end, <3>0, <3>1, <4>1
    <3>2. CASE Goto(l, "outcome") /\ UNCHANGED served
      BY <2>move, <3>0, <3>2 DEF Stages
    <3> QED
      BY <2>2, <3>1, <3>2 DEF LookupRepresentation
  <2>3. CASE LookupOutcome(l)
    <3>0. pc[l] = "outcome" /\ Active(l) /\ UNCHANGED <<version, newest, target, floor>>
      BY <2>3 DEF LookupOutcome, Active
    <3>1. CASE \E stage \in {"join", "invalidate"} : Goto(l, stage) /\ UNCHANGED served
      BY <2>move, <3>0, <3>1 DEF Stages
    <3>2. CASE /\ outcomes[target[l]] # NoOutcome
               /\ Return(l, ResultOrStale(outcomes[target[l]].result, previous[l], began[l]))
      BY <2>end, <2>share, <3>0, <3>2
    <3> QED
      BY <2>3, <3>1, <3>2 DEF LookupOutcome
  <2>4. CASE JoinHit(l)
    <3>0. /\ Active(l) /\ outcomes[target[l]] # NoOutcome
          /\ UNCHANGED <<version, newest, target, floor>>
          /\ Return(l, ResultOrStale(outcomes[target[l]].result, previous[l], began[l]))
      BY <2>4 DEF JoinHit, Active
    <3> QED
      BY <2>end, <2>share, <3>0
  <2>5. CASE Invalidate(l) \/ JoinLead(l) \/ JoinWait(l) \/ Admit(l)
    BY <2>move, <2>5 DEF Invalidate, JoinLead, JoinWait, Admit, Active, Stages
  <2>6. CASE CheckCircuit(l)
    <3>1. /\ Active(l) /\ UNCHANGED <<version, newest, target, floor, served>>
          /\ \E stage \in {"settle", "admit"} : pc' = [pc EXCEPT ![l] = stage]
      BY <2>6 DEF CheckCircuit, Fail, Active
    <3> QED
      BY <2>move, <3>1 DEF Stages
  <2>7. CASE Refuse(l) \/ FetchFails(l)
    <3>1. /\ Active(l) /\ UNCHANGED <<version, newest, target, floor, served>>
          /\ pc' = [pc EXCEPT ![l] = "settle"]
      BY <2>7 DEF Refuse, FetchFails, Fail, Active, PermitStages
    <3> QED
      BY <2>move, <3>1 DEF Stages
  <2>8. CASE Respond(l)
    <3>1. /\ Active(l) /\ UNCHANGED <<version, newest, target, floor, served>>
          /\ pc' = [pc EXCEPT ![l] = "reply"]
      BY <2>8 DEF Respond, Active
    <3> QED
      BY <2>move, <3>1 DEF Stages
  <2>9. CASE Publish(l)
    <3>1. /\ pc[l] = "reply" /\ pc' = [pc EXCEPT ![l] = "settle"]
          /\ UNCHANGED <<version, target, floor, served>>
          /\ \/ UNCHANGED newest
             \/ \E v : newest' = [newest EXCEPT ![target[l]] = v]
      BY <2>9 DEF Publish, Fail
    <3>2. \A m \in Loads : pc'[m] = pc[m] \/ (Active(m) /\ Active(m)')
      BY <3>1 DEF Active, TypeOK
    <3>3. LoadStatus' = LoadStatus /\ LoadAnswer' = LoadAnswer
      BY <3>1, <3>2 DEF LoadStatus, LoadAnswer, Active
    <3>4. CASE UNCHANGED newest
      BY <3>1, <3>2, <3>4, InvisibleStep
    <3>5. ASSUME NEW v, newest' = [newest EXCEPT ![target[l]] = v]
          PROVE  Directory!Next
      <4>1. target[l] \in Keys /\ newest'[target[l]] = v /\ v \in Nat
        BY <3>5 DEF TypeOK
      <4>2. v \in newest[target[l]] .. version[target[l]]
        BY <2>9, <4>1, NewestStep DEF TypeOK
      <4>3. Directory!Obtain(target[l], v)
        BY <3>1, <3>3, <3>5, <4>2 DEF Directory!Obtain, Directory!loadVars
      <4> QED
        BY <4>1, <4>2, <4>3 DEF Directory!Next
    <3> QED
      BY <3>1, <3>4, <3>5
  <2>10. CASE Settle(l)
    <3> DEFINE Ends(m) == m = l \/ (pc[m] = "wait" /\ target[m] = target[l])
               S == {m \in Loads : Ends(m)}
    <3>1. /\ pc[l] = "settle" /\ result[l] \in RefreshResult
          /\ UNCHANGED <<version, newest, target, floor>>
          /\ \A m \in Loads : m \in S =>
                 /\ pc'[m] = "done"
                 /\ served'[m] = ResultOrStale(result[l], previous[m], began[m])
          /\ \A m \in Loads : m \notin S => pc'[m] = pc[m] /\ served'[m] = served[m]
      BY <2>10 DEF Settle, TypeOK
    <3>2. \A m \in S : Active(m) /\ target[m] = target[l]
      BY <3>1 DEF Active
    <3>3. result[l].err = "ok" => result[l].rep.ver = newest[target[l]]
      BY <3>1 DEF VersionInv
    <3>4. \A m \in S : \/ served'[m].rep = NoRep
                       \/ served'[m].rep.ver <= newest[target[m]]
      BY <3>1, <3>2, <3>3, ResultObtained
    <3>5. S \in SUBSET Loads
      OBVIOUS
    <3> HIDE DEF S
    <3> QED
      BY <3>1, <3>2, <3>4, <3>5, AnswerStep
  <2>11. CASE Cancel(l)
    <3>1. /\ Active(l) /\ UNCHANGED <<version, newest, target, floor>>
          /\ pc'[l] = "done" /\ served'[l].rep = NoRep
          /\ \A m \in Loads \ {l} : /\ served'[m] = served[m]
                                    /\ pc'[m] = pc[m] \/ (pc[m] = "wait" /\ pc'[m] = "join")
      BY <2>11 DEF Cancel, WakeWaiter, TypeOK
    <3>2. \A m \in Loads \ {l} : pc'[m] = pc[m] \/ (Active(m) /\ Active(m)')
      BY <3>1 DEF Active
    <3>3. {l} \in SUBSET Loads
      OBVIOUS
    <3> QED
      BY <3>1, <3>2, <3>3, AnswerStep
  <2> QED
    BY <1>1, <2>1, <2>2, <2>3, <2>4, <2>5, <2>6, <2>7, <2>8, <2>9, <2>10, <2>11 DEF LoadStep
<1>2. CASE ~(\E l \in Loads : LoadStep(l))
  <2>1. UNCHANGED <<loadVars, ghostVars>>
    BY <1>2, EnvironmentStep
  <2>2. CASE UNCHANGED version
    BY <2>1, <2>2, InvisibleStep DEF loadVars, ghostVars
  <2>3. ASSUME NEW k \in Keys, version' = [version EXCEPT ![k] = @ + 1]
        PROVE  Directory!Next
    <3>1. LoadStatus' = LoadStatus /\ LoadAnswer' = LoadAnswer
      BY <2>1 DEF LoadStatus, LoadAnswer, Active, loadVars
    <3>2. Directory!Publish(k)
      BY <2>1, <2>3, <3>1 DEF Directory!Publish, Directory!loadVars, loadVars, ghostVars
    <3> QED
      BY <3>2 DEF Directory!Next
  <2> QED
    BY <1>2, <2>2, <2>3, EnvironmentStep
<1> QED
  BY <1>1, <1>2

(* The cache with its stores, its coalescing, its fallback to stale        *)
(* representations and its cancellations implements the abstract loader,   *)
(* for every number of resources and concurrent loads.                     *)
THEOREM CacheImplementsDirectory == Spec => RefinesDirectory
<1>1. Init => Directory!Init
  <2> SUFFICES ASSUME Init
               PROVE  Directory!Init
    OBVIOUS
  <2>1. LoadStatus = [l \in Loads |-> "idle"]
    BY DEF Init, LoadStatus, Active
  <2>2. LoadAnswer = [l \in Loads |-> NoRep]
    BY DEF Init, LoadAnswer
  <2> QED
    BY <2>1, <2>2 DEF Init, Directory!Init
<1> QED
  BY <1>1, RefinementStep, TypeCorrect, VersionInvariant, PreviousInvariant, PTL
  DEF Spec, RefinesDirectory, Directory!Spec

---------------------------------------------------------------------------
(* Stale answers. *)

(* No running load is past its deadline: it is measured with Instant, which *)
(* an adjustment of the wall clock does not touch.                          *)
DeadlineInv == \A l \in Loads : Active(l) => now <= started[l] + Deadline

(* Every step keeps running loads within their deadlines. *)
LEMMA DeadlineStep == TypeOK /\ DeadlineInv /\ [Next]_vars => DeadlineInv'
<1> SUFFICES ASSUME TypeOK, DeadlineInv, [Next]_vars
             PROVE  DeadlineInv'
  OBVIOUS
<1>1. ASSUME UNCHANGED <<now, started>>, \A m \in Loads : Active(m)' => Active(m)
      PROVE  DeadlineInv'
  BY <1>1 DEF DeadlineInv
<1>2. ASSUME NEW l \in Loads, LoadStep(l)
      PROVE  DeadlineInv'
  <2> USE DEF Goto, clockVars, storeVars
  <2>1. ASSUME NEW k \in Keys, Begin(l, k)
        PROVE  DeadlineInv'
    <3>1. /\ now' = now /\ started'[l] = now
          /\ \A m \in Loads \ {l} : pc'[m] = pc[m] /\ started'[m] = started[m]
      BY <2>1 DEF Begin, TypeOK
    <3>2. now <= now + Deadline
      BY DEF TypeOK
    <3>3. \A m \in Loads \ {l} : Active(m)' <=> Active(m)
      BY <3>1 DEF Active
    <3> QED
      BY <3>1, <3>2, <3>3 DEF DeadlineInv
  <2>2. CASE ~(\E k \in Keys : Begin(l, k))
    <3>1. UNCHANGED <<now, started>>
      BY <1>2, <2>2 DEF LoadStep, LookupRepresentation, LookupOutcome, Invalidate, JoinHit,
         JoinLead, JoinWait, CheckCircuit, Admit, Refuse, Respond, FetchFails, Publish,
         Settle, Cancel
    <3>2. \A m \in Loads \ {l} : Active(m)' => Active(m)
      <4>1. CASE Settle(l) \/ Cancel(l)
        BY <4>1 DEF Settle, Cancel, WakeWaiter, Active, TypeOK
      <4>2. CASE \E stage \in Stages : pc' = [pc EXCEPT ![l] = stage]
        BY <4>2 DEF Active, TypeOK
      <4> QED
        BY <1>2, <2>2, <4>1, <4>2 DEF LoadStep, LookupRepresentation, LookupOutcome,
           Invalidate, JoinHit, JoinLead, JoinWait, CheckCircuit, Admit, Refuse, Respond,
           FetchFails, Publish, Return, Fail, Stages
    <3>3. Active(l)
      BY <1>2, <2>2 DEF LoadStep, LookupRepresentation, LookupOutcome, Invalidate, JoinHit,
         JoinLead, JoinWait, CheckCircuit, Admit, Refuse, Respond, FetchFails, Publish,
         Settle, Cancel, Active, PermitStages
    <3> QED
      BY <1>1, <3>1, <3>2, <3>3
  <2> QED
    BY <2>1, <2>2
<1>3. CASE ~(\E l \in Loads : LoadStep(l))
  <2>1. UNCHANGED loadVars
    BY <1>3, EnvironmentStep
  <2>2. CASE Tick
    <3>1. /\ now' = now + 1 /\ started' = started
          /\ \A m \in Loads : Active(m) => now < started[m] + Deadline
          /\ \A m \in Loads : Active(m)' <=> Active(m)
      BY <2>1, <2>2 DEF Tick, Active, loadVars
    <3>2. now \in Nat /\ \A m \in Loads : started[m] + Deadline \in Nat
      BY DEF TypeOK
    <3> QED
      BY <3>1, <3>2 DEF DeadlineInv
  <2>3. CASE ~Tick
    <3>1. now' = now
      BY <1>3, <2>3 DEF Next, Evict, EvictRepresentation, EvictOutcome, EvictCircuit,
         OriginUpdate, AdjustClock, vars, clockVars
    <3> QED
      BY <1>1, <2>1, <3>1 DEF Active, loadVars
  <2> QED
    BY <2>2, <2>3
<1> QED
  BY <1>2, <1>3

(* result_or_stale falls back to the previous representation only within   *)
(* its window, as the wall clock of `t' sees it.                           *)
LEMMA StaleResult ==
    ASSUME NEW res \in RefreshResult, NEW old \in Representation \cup {NoRep}, NEW t \in Nat,
           ResultOrStale(res, old, t).source = "stale"
    PROVE  LET r == ResultOrStale(res, old, t).rep
           IN  r.staleFor # Absent /\ t <= r.storedAt + FreshFor(r) + r.staleFor
<1> DEFINE S == StaleAllowedAfterError(old, t)
<1>1. res.err # "ok"
  BY DEF ResultOrStale
<1>2. old # NoRep /\ S /\ ResultOrStale(res, old, t) = [source |-> "stale", rep |-> old]
  <2> HIDE DEF S
  <2>1. ResultOrStale(res, old, t) =
          IF AllowsStale(res) /\ old # NoRep
          THEN IF S THEN [source |-> "stale", rep |-> old]
                    ELSE [source |-> "error", rep |-> NoRep]
          ELSE [source |-> "error", rep |-> NoRep]
    BY <1>1 DEF ResultOrStale, S
  <2> QED
    BY <2>1
<1>3. old \in Representation /\ FreshFor(old) \in Nat
  <2>1. old \in Representation
    BY <1>2
  <2>2. old.cc.maxAge \in Nat \cup {Absent}
    BY <2>1 DEF Representation, CacheControl
  <2>3. old.cc.maxAge # Absent => old.cc.maxAge \in Nat
    BY <2>2
  <2> QED
    BY <2>1, <2>3 DEF FreshFor, Min2
<1>4. old.staleFor # Absent /\ t <= old.storedAt + FreshFor(old) + old.staleFor
  <2>1. /\ old.storedAt \in Nat /\ old.staleFor \in Nat \cup {Absent}
        /\ old.staleFor # Absent /\ t >= old.storedAt
        /\ t - old.storedAt <= FreshFor(old) + old.staleFor
    BY <1>2, <1>3 DEF StaleAllowedAfterError, Representation
  <2>2. old.staleFor \in Nat
    BY <2>1
  <2> QED
    BY <1>3, <2>1, <2>2
<1> QED
  BY <1>2, <1>4

(* A representation is served stale only within its stale-if-error window, *)
(* as of the moment the load read the wall clock, and no later than the    *)
(* load's deadline, whatever happens to the wall clock in between.         *)
THEOREM StaleAnswersWithinWindow == Spec => StaleWithinWindow
<1> DEFINE Stale == \A l \in Loads :
          pc[l] # "done" /\ pc'[l] = "done" /\ served'[l].source = "stale" =>
              LET r == served'[l].rep
              IN  /\ r.staleFor # Absent
                  /\ began[l] <= r.storedAt + FreshFor(r) + r.staleFor
                  /\ now <= started[l] + Deadline
<1>1. Init => DeadlineInv
  BY DEF Init, DeadlineInv, Active
<1>2. TypeOK /\ DeadlineInv /\ [Next]_vars => [Stale]_vars
  <2> SUFFICES ASSUME TypeOK, DeadlineInv, Next, NEW m \in Loads,
                      pc[m] # "done", pc'[m] = "done", served'[m].source = "stale"
               PROVE  LET r == served'[m].rep
                      IN  /\ r.staleFor # Absent
                          /\ began[m] <= r.storedAt + FreshFor(r) + r.staleFor
                          /\ now <= started[m] + Deadline
    BY DEF Stale
  (* An ended load got its answer from result_or_stale. *)
  <2>1. ASSUME Active(m), NEW res \in RefreshResult,
               served'[m] = ResultOrStale(res, previous[m], began[m])
        PROVE  LET r == served'[m].rep
               IN  /\ r.staleFor # Absent
                   /\ began[m] <= r.storedAt + FreshFor(r) + r.staleFor
                   /\ now <= started[m] + Deadline
    <3>1. previous[m] \in Representation \cup {NoRep} /\ began[m] \in Nat
      BY DEF TypeOK
    <3>2. now <= started[m] + Deadline
      BY <2>1 DEF DeadlineInv
    <3> QED
      BY <2>1, <3>1, <3>2, StaleResult
  <2>2. PICK l \in Loads : LoadStep(l)
    <3>1. ~(\E l \in Loads : LoadStep(l)) => UNCHANGED loadVars
      BY EnvironmentStep
    <3> QED
      BY <3>1 DEF loadVars
  <2> USE DEF Goto
  <2>3. CASE LookupRepresentation(l)
    BY <2>3 DEF LookupRepresentation, Return, TypeOK
  <2>4. CASE LookupOutcome(l)
    <3>1. /\ m = l /\ Active(m) /\ outcomes[target[l]] # NoOutcome
          /\ served'[m] = ResultOrStale(outcomes[target[l]].result, previous[m], began[m])
      BY <2>4 DEF LookupOutcome, Return, Active, TypeOK
    <3>2. outcomes[target[l]].result \in RefreshResult
      BY <3>1 DEF TypeOK, RefreshOutcome
    <3> QED
      BY <2>1, <3>1, <3>2
  <2>5. CASE JoinHit(l)
    <3>1. /\ m = l /\ Active(m) /\ outcomes[target[l]] # NoOutcome
          /\ served'[m] = ResultOrStale(outcomes[target[l]].result, previous[m], began[m])
      BY <2>5 DEF JoinHit, Return, Active, TypeOK
    <3>2. outcomes[target[l]].result \in RefreshResult
      BY <3>1 DEF TypeOK, RefreshOutcome
    <3> QED
      BY <2>1, <3>1, <3>2
  <2>6. CASE Settle(l)
    <3>1. /\ Active(m) /\ result[l] \in RefreshResult
          /\ served'[m] = ResultOrStale(result[l], previous[m], began[m])
      BY <2>6 DEF Settle, Active, TypeOK
    <3> QED
      BY <2>1, <3>1
  <2>7. CASE Cancel(l)
    BY <2>7 DEF Cancel, WakeWaiter, TypeOK
  <2>8. CASE \/ \E k \in Keys : Begin(l, k)
             \/ Invalidate(l) \/ JoinLead(l) \/ JoinWait(l) \/ CheckCircuit(l) \/ Admit(l)
             \/ Refuse(l) \/ Respond(l) \/ FetchFails(l) \/ Publish(l)
    BY <2>8 DEF Begin, Invalidate, JoinLead, JoinWait, CheckCircuit, Admit, Refuse, Respond,
       FetchFails, Publish, Fail, TypeOK
  <2> QED
    BY <2>2, <2>3, <2>4, <2>5, <2>6, <2>7, <2>8 DEF LoadStep
<1> QED
  BY <1>1, <1>2, DeadlineStep, TypeCorrect, PTL DEF Spec, StaleWithinWindow, Stale
============================================================================
