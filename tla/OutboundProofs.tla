--------------------------- MODULE OutboundProofs ---------------------------
(***************************************************************************)
(* Proofs about Outbound, for any number of tasks, origins and addresses,  *)
(* any quotas and any lengths of the windows.                              *)
(***************************************************************************)
EXTENDS Outbound, FiniteSetTheorems, TLAPS

USE OutboundAssumption, QuotaAssumption

Busy == {t \in Tasks : Active(t)}

(* The stages in which a permit is held. *)
Held == {"window", "limiter", "dns", "fetch", "response"}

(* A task that is not active has no time on it, and one that is has a URL; *)
(* its `now' is no older than the task itself.                             *)
TaskInv ==
    \A t \in Tasks :
        /\ Active(t) => url[t] \in Urls
        /\ stamped[t] <= elapsed[t]
        /\ ~Active(t) => elapsed[t] = 0
        /\ stage[t] = "fetch" => selected[t] \in Addresses

IInv ==
    /\ TypeOK
    /\ PermitsReturned
    /\ TaskInv
    /\ level[Global] # None

(* The number of active tasks follows the stage of the one that moves. *)
LEMMA BusyStep ==
    ASSUME NEW t \in Tasks, NEW x \in Stages,
           stage \in [Tasks -> Stages],
           stage' = [stage EXCEPT ![t] = x]
    PROVE  /\ Cardinality(Busy) \in Nat /\ Cardinality(Busy') \in Nat
           /\ ~Active(t) /\ x \in Held => Cardinality(Busy') = Cardinality(Busy) + 1
           /\ Active(t) /\ x \notin Held => Cardinality(Busy) = Cardinality(Busy') + 1
           /\ (Active(t) <=> x \in Held) => Cardinality(Busy') = Cardinality(Busy)
<1>1. IsFiniteSet(Busy) /\ IsFiniteSet(Busy')
  BY FS_Subset, Busy \subseteq Tasks, Busy' \subseteq Tasks DEF Busy
<1>2. Cardinality(Busy) \in Nat /\ Cardinality(Busy') \in Nat
  BY <1>1, FS_CardinalityType
<1>3. \A s \in Tasks \ {t} : Active(s)' <=> Active(s)
  BY DEF Active
<1>4. Active(t)' <=> x \in Held
  BY DEF Active, Held
<1>5. ASSUME ~Active(t), x \in Held
      PROVE  Cardinality(Busy') = Cardinality(Busy) + 1
  <2>1. Busy' = Busy \cup {t} /\ t \notin Busy
    BY <1>3, <1>4, <1>5 DEF Busy
  <2> QED BY <2>1, <1>1, FS_AddElement
<1>6. ASSUME Active(t), x \notin Held
      PROVE  Cardinality(Busy) = Cardinality(Busy') + 1
  <2>1. Busy = Busy' \cup {t} /\ t \notin Busy'
    BY <1>3, <1>4, <1>6 DEF Busy
  <2> QED BY <2>1, <1>1, FS_AddElement
<1>7. ASSUME Active(t) <=> x \in Held
      PROVE  Busy' = Busy
  BY <1>3, <1>4, <1>7 DEF Busy
<1> QED BY <1>2, <1>5, <1>6, <1>7

(* An answer that passes the check has a first, globally reachable one. *)
LEMMA SelectedReachable ==
    ASSUME NEW answer \in SUBSET Addresses, AddressesValid(answer)
    PROVE  Selected(answer) \in Addresses /\ GloballyReachable(Selected(answer))
<1>1. Selected(answer) \in answer
  BY OrderAssumption DEF AddressesValid, Selected
<1> QED BY <1>1 DEF AddressesValid

LEMMA ClassType == \A kind : Class(kind) \in Classes
  BY DEF Class, Classes

(* What charging a limiter does to the types. *)
LEMMA ChargeType ==
    ASSUME NEW l \in Limiters, Charge(l),
           level \in [Limiters -> Nat \cup {None}],
           idle \in [Limiters -> 0..IdleTtl],
           drawn \in [Limiters -> Nat]
    PROVE  /\ level' \in [Limiters -> Nat \cup {None}]
           /\ idle' \in [Limiters -> 0..IdleTtl]
           /\ drawn' \in [Limiters -> Nat]
           /\ level'[l] # None
           /\ \A k \in Limiters \ {l} : level'[k] = level[k]
  BY DEF Charge, Taken, Fills

(* The parts of the invariant that limiters and origins have, and the      *)
(* tasks' own part.                                                        *)
SharedType ==
    /\ level \in [Limiters -> Nat \cup {None}]
    /\ idle \in [Limiters -> 0..IdleTtl]
    /\ drawn \in [Limiters -> Nat]
    /\ recent \in [Origins -> 0..AgeCap \cup {None}]
    /\ joined \in [Origins -> 0..Window]
    /\ level[Global] # None

(* A task that ends keeps its part of the invariant. *)
LEMMA FinishStep ==
    ASSUME IInv, NEW t \in Tasks, NEW kind, Active(t), Finish(t, kind), SharedType'
    PROVE  IInv'
<1>1. "done" \in Stages /\ "done" \notin Held
  BY DEF Stages, Held
<1>2. Cardinality(Busy) = Cardinality(Busy') + 1 /\ Cardinality(Busy') \in Nat
  BY <1>1, BusyStep DEF Finish, IInv, TypeOK
<1>3. PermitsReturned' /\ permits' \in 0..OutboundFetches
  BY <1>2 DEF Finish, IInv, TypeOK, PermitsReturned, Busy
<1>4. TypeOK'
  BY <1>1, <1>3, ClassType DEF Finish, IInv, TypeOK, SharedType
<1>5. TaskInv'
  BY DEF TaskInv, IInv, TypeOK, Finish, Active
<1> QED BY <1>3, <1>4, <1>5 DEF IInv, SharedType

(* So does one that goes on to a later stage. *)
LEMMA ContinueStep ==
    ASSUME IInv, NEW t \in Tasks, NEW x \in Held, Active(t), Continue(t, x), SharedType',
           selected' \in [Tasks -> Addresses \cup {None}],
           connected' \in [Tasks -> Addresses \cup {Proxy, None}],
           x = "fetch" => selected'[t] \in Addresses,
           \A s \in Tasks \ {t} : selected'[s] = selected[s]
    PROVE  IInv'
<1>1. x \in Stages
  BY DEF Stages, Held
<1>2. Cardinality(Busy) = Cardinality(Busy')
  BY <1>1, BusyStep DEF Continue, IInv, TypeOK
<1>3. PermitsReturned'
  BY <1>2 DEF Continue, IInv, PermitsReturned, Busy
<1>4. TypeOK'
  BY <1>1 DEF Continue, IInv, TypeOK, SharedType
<1>5. TaskInv'
  BY DEF TaskInv, IInv, TypeOK, Continue, Active, Held
<1> QED BY <1>3, <1>4, <1>5 DEF IInv, SharedType

LEMMA SharedOf == IInv => SharedType
  BY DEF IInv, TypeOK, SharedType

LEMMA InitInv == Init => IInv
<1> SUFFICES ASSUME Init PROVE IInv
  OBVIOUS
<1>1. \A t \in Tasks : ~Active(t)
  BY DEF Init, Active
<1>2. Cardinality({t \in Tasks : Active(t)}) = 0
  BY <1>1, FS_EmptySet, {t \in Tasks : Active(t)} = {}
<1>3. TypeOK
  BY DEF Init, TypeOK, Stages, Limiters
<1> QED BY <1>1, <1>2, <1>3 DEF IInv, PermitsReturned, TaskInv, Init, Limiters

(* A refresh that starts, with a permit or without. *)
LEMMA StartStep ==
    ASSUME IInv, NEW t \in Tasks, NEW u \in Urls, Start(t, u)
    PROVE  IInv'
<1> USE DEF limiterVars
<1>1. /\ "done" \in Stages /\ "done" \notin Held
      /\ {"window", "limiter"} \subseteq Stages \cap Held
  BY DEF Stages, Held
<1>2. ~Active(t) /\ u.origin \in Limiters /\ Global \in Limiters
  BY DEF Start, Limiters, Kept
<1>3. CASE UNCHANGED limiterVars /\ \E kind : Refused(t, kind)
  <2>1. PICK kind : Refused(t, kind)
    BY <1>3
  <2>2. Cardinality(Busy') = Cardinality(Busy)
    BY <1>1, <1>2, <2>1, BusyStep DEF Refused, IInv, TypeOK
  <2>3. TypeOK'
    BY <1>1, <1>3, <2>1, ClassType DEF Start, Refused, IInv, TypeOK
  <2>4. PermitsReturned'
    BY <2>1, <2>2 DEF Refused, IInv, PermitsReturned, Busy
  <2>5. TaskInv'
    BY <1>2, <2>1 DEF Start, Refused, IInv, TypeOK, TaskInv, Active
  <2> QED BY <1>3, <2>3, <2>4, <2>5 DEF IInv
<1>4. CASE ~(UNCHANGED limiterVars /\ \E kind : Refused(t, kind))
  <2> DEFINE x == IF level[u.origin] = None THEN "window" ELSE "limiter"
  <2>1. /\ permits # 0 /\ permits' = permits - 1
        /\ url' = [url EXCEPT ![t] = u]
        /\ outcome' = [outcome EXCEPT ![t] = None]
        /\ stage' = [stage EXCEPT ![t] = x]
        /\ level' = [level EXCEPT ![Global] = @ + 1]
        /\ drawn' = [drawn EXCEPT ![Global] = @ + 1]
        /\ idle' = [idle EXCEPT ![u.origin] = 0]
        /\ UNCHANGED <<elapsed, stamped, selected, connected, recent, joined>>
    BY <1>4 DEF Start
  <2>2. x \in {"window", "limiter"}
    OBVIOUS
  <2> HIDE DEF x
  <2>3. Cardinality(Busy') = Cardinality(Busy) + 1 /\ Cardinality(Busy) \in Nat
    BY <1>1, <1>2, <2>1, <2>2, BusyStep DEF IInv, TypeOK
  <2>4. PermitsReturned' /\ permits' \in 0..OutboundFetches
    <3>1. permits + Cardinality(Busy) = OutboundFetches /\ permits \in Nat
      BY DEF IInv, TypeOK, PermitsReturned, Busy
    <3>2. permits' + Cardinality(Busy') = OutboundFetches /\ permits' \in 0..OutboundFetches
      BY <2>1, <2>3, <3>1
    <3> QED BY <3>2 DEF PermitsReturned, Busy
  <2>5. TypeOK' /\ level'[Global] # None
    BY <1>1, <1>2, <2>1, <2>2, <2>4 DEF IInv, TypeOK
  <2>6. TaskInv'
    BY <1>2, <2>1, <2>2 DEF IInv, TypeOK, TaskInv, Active
  <2> QED BY <2>4, <2>5, <2>6 DEF IInv
<1> QED BY <1>3, <1>4

LEMMA TickStep == IInv /\ Tick => IInv'
<1> SUFFICES ASSUME IInv, Tick PROVE IInv'
  OBVIOUS
<1>1. \A t \in Tasks : Active(t)' <=> Active(t)
  BY DEF Tick, Active
<1>2. PermitsReturned'
  <2>1. {t \in Tasks : Active(t)}' = {t \in Tasks : Active(t)}
    BY <1>1
  <2> QED BY <2>1 DEF Tick, IInv, PermitsReturned
<1>3. /\ elapsed' \in [Tasks -> 0..Deadline]
      /\ stamped' \in [Tasks -> 0..Deadline]
      /\ TaskInv'
  <2>1. ASSUME NEW t \in Tasks
        PROVE  /\ elapsed'[t] \in 0..Deadline /\ stamped'[t] \in 0..Deadline
               /\ stamped'[t] <= elapsed'[t]
               /\ ~Active(t) => elapsed'[t] = 0
    BY <2>1 DEF Tick, IInv, TypeOK, TaskInv, Active
  <2> QED BY <1>1, <2>1 DEF Tick, IInv, TypeOK, TaskInv
<1>4. SharedType'
  <2>1. ASSUME NEW l \in Limiters, NEW n \in Nat PROVE Drained(l, n) \in Nat
    BY DEF Drained
  <2>2. level' \in [Limiters -> Nat \cup {None}] /\ drawn' \in [Limiters -> Nat]
    BY <2>1 DEF Tick, IInv, TypeOK
  <2>3. idle' \in [Limiters -> 0..IdleTtl]
    <3>1. ASSUME NEW l \in Limiters PROVE idle'[l] \in 0..IdleTtl
      BY DEF Tick, IInv, TypeOK, Limiters, Expires
    <3> QED BY <3>1 DEF Tick
  <2>4. level'[Global] # None
    <3>1. Global \in Limiters /\ Global \notin Kept
      BY DEF Limiters
    <3>2. level'[Global] = Drained(Global, level[Global])
      BY <3>1 DEF Tick, IInv
    <3> QED BY <2>1, <3>1, <3>2 DEF IInv, TypeOK
  <2>5. recent' \in [Origins -> 0..AgeCap \cup {None}]
    <3>1. AgeCap \in Nat
      BY DEF AgeCap
    <3>2. \A age \in 0..AgeCap : Older(age, AgeCap) \in 0..AgeCap
      BY <3>1 DEF Older
    <3> QED BY <3>2 DEF Tick, IInv, TypeOK
  <2>6. joined' \in [Origins -> 0..Window]
    <3>1. \A age \in 0..Window : Older(age, Window) \in 0..Window
      BY DEF Older
    <3> QED BY <3>1 DEF Tick, IInv, TypeOK
  <2> QED BY <2>2, <2>3, <2>4, <2>5, <2>6 DEF SharedType
<1>5. TypeOK'
  BY <1>3, <1>4 DEF Tick, IInv, TypeOK, SharedType
<1> QED BY <1>2, <1>3, <1>4, <1>5 DEF IInv, SharedType

LEMMA AdmitStep ==
    ASSUME IInv, NEW t \in Tasks, AdmitNewOrigin(t)
    PROVE  IInv'
<1> DEFINE o == url[t].origin
           kept == [p \in Origins |-> IF p \in Retained(t) THEN recent[p] ELSE None]
<1>1. Active(t) /\ o \in Origins
  BY DEF AdmitNewOrigin, Active, IInv, TaskInv
<1>2. kept \in [Origins -> 0..AgeCap \cup {None}]
  BY DEF IInv, TypeOK
<1>3. stamped[t] \in 0..AgeCap
  BY DEF IInv, TypeOK, AgeCap
<1>4. SharedType'
  <2>1. UNCHANGED limiterVars
    BY DEF AdmitNewOrigin
  <2>2. recent' \in [Origins -> 0..AgeCap \cup {None}]
    <3>1. recent' = kept \/ recent' = [kept EXCEPT ![o] = stamped[t]]
      BY DEF AdmitNewOrigin
    <3> HIDE DEF kept, o
    <3> QED BY <1>2, <1>3, <3>1
  <2>3. joined' \in [Origins -> 0..Window]
    BY <1>1 DEF AdmitNewOrigin, IInv, TypeOK
  <2> QED BY <2>1, <2>2, <2>3 DEF SharedType, IInv, TypeOK, limiterVars
<1>5. CASE Finish(t, "rate_limited")
  BY <1>1, <1>4, <1>5, FinishStep
<1>6. CASE Continue(t, "limiter") /\ UNCHANGED <<selected, connected>>
  BY <1>1, <1>4, <1>6, ContinueStep DEF Held, IInv, TypeOK
<1> QED BY <1>5, <1>6 DEF AdmitNewOrigin

LEMMA StepInv == IInv /\ [Next]_vars => IInv'
<1> SUFFICES ASSUME IInv, [Next]_vars PROVE IInv'
  OBVIOUS
<1> USE DEF limiterVars
<1>0. Origins \subseteq Limiters /\ Addresses \subseteq Limiters /\ Global \in Limiters
  BY DEF Limiters, Kept
<1>1. ASSUME NEW t \in Tasks, NEW u \in Urls, Start(t, u) PROVE IInv'
  BY <1>1, StartStep
<1>2. ASSUME NEW t \in Tasks, AdmitNewOrigin(t) PROVE IInv'
  BY <1>2, AdmitStep
<1>3. ASSUME NEW t \in Tasks, CheckOrigin(t) PROVE IInv'
  <2>1. Active(t) /\ url[t].origin \in Origins /\ url[t].origin # Global
    BY <1>3 DEF CheckOrigin, Active, IInv, TaskInv, Kept
  <2>2. Charge(url[t].origin) /\ UNCHANGED <<recent, joined>>
    BY <1>3 DEF CheckOrigin
  <2>3. SharedType'
    BY <1>0, <2>1, <2>2, ChargeType DEF SharedType, IInv, TypeOK
  <2>4. CASE Finish(t, "rate_limited")
    BY <2>1, <2>3, <2>4, FinishStep
  <2>5. CASE Continue(t, "dns") /\ UNCHANGED <<selected, connected>>
    BY <2>1, <2>3, <2>5, ContinueStep DEF Held, IInv, TypeOK
  <2> QED BY <1>3, <2>4, <2>5 DEF CheckOrigin
<1>4. ASSUME NEW t \in Tasks, ResolveFails(t) \/ TransportFails(t) \/ Cancel(t)
      PROVE  IInv'
  <2>1. Active(t) /\ \E kind : Finish(t, kind)
    BY <1>4 DEF ResolveFails, TransportFails, Cancel, Active
  <2>2. SharedType'
    BY <1>4, SharedOf DEF ResolveFails, TransportFails, Cancel, SharedType
  <2> QED BY <2>1, <2>2, FinishStep
<1>5. ASSUME NEW t \in Tasks, NEW answer \in SUBSET Addresses, Resolve(t, answer)
      PROVE  IInv'
  <2>1. Active(t)
    BY <1>5 DEF Resolve, Active
  <2>2. CASE ~AddressesValid(answer)
    <3>1. Finish(t, "unsafe_address") /\ SharedType'
      BY <1>5, <2>2, SharedOf DEF Resolve, SharedType
    <3> QED BY <2>1, <3>1, FinishStep
  <2>3. CASE AddressesValid(answer)
    <3>1. Selected(answer) \in Addresses /\ Selected(answer) # Global
      BY <2>3, SelectedReachable DEF Kept
    <3>2. Charge(Selected(answer)) /\ UNCHANGED <<recent, joined>>
      BY <1>5, <2>3 DEF Resolve
    <3>3. SharedType'
      BY <1>0, <3>1, <3>2, ChargeType DEF SharedType, IInv, TypeOK
    <3>4. CASE Finish(t, "rate_limited")
      BY <2>1, <3>3, <3>4, FinishStep
    <3>5. CASE /\ Continue(t, "fetch")
               /\ selected' = [selected EXCEPT ![t] = Selected(answer)]
               /\ UNCHANGED connected
      BY <2>1, <3>1, <3>3, <3>5, ContinueStep DEF Held, IInv, TypeOK
    <3> QED BY <1>5, <2>3, <3>4, <3>5 DEF Resolve
  <2> QED BY <2>2, <2>3
<1>6. ASSUME NEW t \in Tasks, Send(t) PROVE IInv'
  <2>1. Active(t) /\ selected[t] \in Addresses
    BY <1>6 DEF Send, Active, IInv, TaskInv
  <2>2. connected' \in [Tasks -> Addresses \cup {Proxy, None}]
    BY <1>6, <2>1 DEF Send, Connect, IInv, TypeOK
  <2>3. SharedType' /\ Continue(t, "response") /\ UNCHANGED selected
    BY <1>6, SharedOf DEF Send, SharedType
  <2> QED BY <2>1, <2>2, <2>3, ContinueStep DEF Held, IInv, TypeOK
<1>7. ASSUME NEW t \in Tasks, Receive(t) PROVE IInv'
  <2>1. Active(t) /\ \E r \in Responses : Finish(t, Received(url[t], r))
    BY <1>7 DEF Receive, Active
  <2>2. SharedType'
    BY <1>7, SharedOf DEF Receive, SharedType
  <2> QED BY <2>1, <2>2, FinishStep
<1>8. ASSUME NEW l \in Kept, EvictLimiter(l) PROVE IInv'
  <2>1. l \in Limiters /\ l # Global
    BY DEF Limiters
  <2>2. TypeOK' /\ level'[Global] # None
    BY <1>8, <2>1 DEF EvictLimiter, IInv, TypeOK, taskVars
  <2>3. PermitsReturned' /\ TaskInv'
    BY <1>8 DEF EvictLimiter, IInv, PermitsReturned, TaskInv, taskVars, Active
  <2> QED BY <2>2, <2>3 DEF IInv
<1>9. ASSUME UNCHANGED vars PROVE IInv'
  BY <1>9 DEF vars, taskVars, IInv, TypeOK, PermitsReturned, TaskInv, Active
<1> QED BY <1>1, <1>2, <1>3, <1>4, <1>5, <1>6, <1>7, <1>8, <1>9, TickStep DEF Next, TaskStep

LEMMA Invariant == Spec => []IInv
  BY InitInv, StepInv, PTL DEF Spec

(* Every variable keeps its type; ages and elapsed times stay within their *)
(* caps, so that what is left out by capping them is never needed.         *)
THEOREM OutboundTypes == Spec => []TypeOK
<1>1. IInv => TypeOK
  BY DEF IInv
<1> QED BY <1>1, Invariant, PTL

(* No refresh keeps or returns twice its permit of outbound, whichever     *)
(* return, deadline or cancellation ends it (loader.rs:112).               *)
THEOREM PermitsComeBack == Spec => []PermitsReturned
<1>1. IInv => PermitsReturned
  BY DEF IInv
<1> QED BY <1>1, Invariant, PTL

---------------------------------------------------------------------------
(* New origins. *)

Listed == {o \in Origins : recent[o] # None}

(* Every origin that joined lately is in the map, with a stamp that is     *)
(* older than the entry by at most a deadline, and the map is never too    *)
(* large.                                                                  *)
OriginInv ==
    /\ \A o \in Origins : joined[o] < SureWindow =>
           recent[o] # None /\ recent[o] <= joined[o] + Deadline
    /\ Cardinality(Listed) <= NewOrigins

LEMMA OriginAdmit ==
    ASSUME IInv, OriginInv, NEW t \in Tasks, AdmitNewOrigin(t)
    PROVE  OriginInv'
<1> DEFINE o == url[t].origin
<1>1. o \in Origins /\ stamped[t] \in 0..Deadline
  BY DEF AdmitNewOrigin, Active, IInv, TaskInv, TypeOK
<1>2. \A p \in Origins : joined[p] < SureWindow => p \in Retained(t)
  <2>1. SUFFICES ASSUME NEW p \in Origins, joined[p] < SureWindow
                 PROVE  p \in Retained(t)
    OBVIOUS
  <2>2. recent[p] # None /\ recent[p] <= joined[p] + Deadline
    BY <2>1 DEF OriginInv
  <2>3. recent[p] \in Nat /\ joined[p] \in Nat
    BY <2>2 DEF IInv, TypeOK
  <2>4. recent[p] - stamped[t] < Window
    BY <1>1, <2>1, <2>2, <2>3 DEF SureWindow
  <2> QED BY <2>2, <2>4 DEF Retained
<1>3. Retained(t) \subseteq Listed /\ Listed \subseteq Origins
  BY DEF Retained, Listed
<1>4. /\ IsFiniteSet(Retained(t)) /\ IsFiniteSet(Listed)
      /\ Cardinality(Retained(t)) <= Cardinality(Listed)
      /\ Cardinality(Retained(t)) \in Nat /\ Cardinality(Listed) \in Nat
  BY <1>3, FS_Subset, FS_CardinalityType
<1>5. CASE o \notin Retained(t) /\ WindowFull(t)
  <2>1. /\ recent' = [p \in Origins |-> IF p \in Retained(t) THEN recent[p] ELSE None]
        /\ joined' = joined
    BY <1>5 DEF AdmitNewOrigin
  <2>2. Listed' = Retained(t)
    BY <2>1, <1>3 DEF Listed
  <2>3. Cardinality(Listed') <= NewOrigins
    BY <2>2, <1>4 DEF OriginInv
  <2>4. \A p \in Origins : joined'[p] < SureWindow =>
            recent'[p] # None /\ recent'[p] <= joined'[p] + Deadline
    BY <2>1, <1>2 DEF OriginInv
  <2> QED BY <2>3, <2>4 DEF OriginInv
<1>6. CASE ~(o \notin Retained(t) /\ WindowFull(t))
  <2>1. /\ recent' = [[p \in Origins |-> IF p \in Retained(t) THEN recent[p] ELSE None]
                         EXCEPT ![o] = stamped[t]]
        /\ joined' = [joined EXCEPT ![o] = 0]
    BY <1>6 DEF AdmitNewOrigin
  <2>2. \A p \in Origins : recent'[p] = IF p = o THEN stamped[t]
                                       ELSE IF p \in Retained(t) THEN recent[p] ELSE None
    BY <2>1, <1>1
  <2>3. \A p \in Origins : joined'[p] = IF p = o THEN 0 ELSE joined[p]
    BY <2>1, <1>1 DEF IInv, TypeOK
  <2>4. stamped[t] # None
    BY <1>1
  <2> HIDE DEF o
  <2>5. Listed' = Retained(t) \cup {o}
    BY <2>2, <2>4, <1>1, <1>3 DEF Listed
  <2>6. Cardinality(Listed') <= NewOrigins
    <3>1. CASE o \in Retained(t)
      <4>1. Listed' = Retained(t)
        BY <3>1, <2>5
      <4>2. Cardinality(Listed) <= NewOrigins
        BY DEF OriginInv
      <4>3. Cardinality(Retained(t)) <= NewOrigins
        BY <4>2, <1>4
      <4> QED BY <4>1, <4>3
    <3>2. CASE o \notin Retained(t)
      <4>1. Cardinality(Retained(t)) < NewOrigins
        BY <3>2, <1>4, <1>6 DEF WindowFull
      <4>2. Cardinality(Retained(t) \cup {o}) = Cardinality(Retained(t)) + 1
        BY <3>2, <1>4, FS_AddElement
      <4>3. Cardinality(Retained(t) \cup {o}) <= NewOrigins
        BY <4>1, <4>2, <1>4
      <4> QED BY <2>5, <4>3
    <3> QED BY <3>1, <3>2
  <2>7. \A p \in Origins : joined'[p] < SureWindow =>
            recent'[p] # None /\ recent'[p] <= joined'[p] + Deadline
    <3>1. SUFFICES ASSUME NEW p \in Origins, joined'[p] < SureWindow
                   PROVE  recent'[p] # None /\ recent'[p] <= joined'[p] + Deadline
      OBVIOUS
    <3>2. CASE p = o
      BY <3>2, <2>2, <2>3, <2>4, <1>1
    <3>3. CASE p # o
      BY <3>1, <3>3, <2>2, <2>3, <1>2 DEF OriginInv
    <3> QED BY <3>2, <3>3
  <2> QED BY <2>6, <2>7 DEF OriginInv
<1> QED BY <1>5, <1>6

LEMMA OriginTick == IInv /\ OriginInv /\ Tick => OriginInv'
<1> SUFFICES ASSUME IInv, OriginInv, Tick PROVE OriginInv'
  OBVIOUS
<1>0. AgeCap \in Nat /\ SureWindow \in Nat /\ SureWindow <= Window
  BY DEF AgeCap, SureWindow
<1>1. \A o \in Origins : recent'[o] = None <=> recent[o] = None
  <2>1. \A age \in Nat : Older(age, AgeCap) # None
    BY <1>0 DEF Older
  <2> QED BY <2>1 DEF Tick, IInv, TypeOK
<1>2. Listed' = Listed
  BY <1>1 DEF Listed
<1>3. ASSUME NEW o \in Origins, joined'[o] < SureWindow
      PROVE  recent'[o] # None /\ recent'[o] <= joined'[o] + Deadline
  <2>1. joined[o] \in Nat /\ joined[o] <= Window /\ joined'[o] = Older(joined[o], Window)
    BY <1>0 DEF IInv, TypeOK, Tick
  <2>2. joined'[o] = joined[o] + 1 /\ joined[o] < SureWindow
    BY <2>1, <1>0, <1>3 DEF Older
  <2>3. recent[o] # None /\ recent[o] <= joined[o] + Deadline
    BY <2>2 DEF OriginInv
  <2>4. recent[o] \in Nat /\ recent'[o] = Older(recent[o], AgeCap)
    BY <2>3 DEF IInv, TypeOK, Tick
  <2>5. recent'[o] \in Nat /\ recent'[o] <= recent[o] + 1
    BY <2>4, <1>0 DEF Older
  <2> QED BY <2>1, <2>2, <2>3, <2>4, <2>5
<1> QED BY <1>2, <1>3 DEF OriginInv

LEMMA OriginStep == IInv /\ OriginInv /\ [Next]_vars => OriginInv'
<1> SUFFICES ASSUME IInv, OriginInv, [Next]_vars PROVE OriginInv'
  OBVIOUS
<1>1. CASE UNCHANGED <<recent, joined>>
  BY <1>1 DEF OriginInv, Listed
<1>2. CASE ~UNCHANGED <<recent, joined>>
  <2>1. (\E t \in Tasks : AdmitNewOrigin(t)) \/ Tick
    BY <1>2 DEF Next, TaskStep, Start, CheckOrigin, ResolveFails, Resolve, Send, Receive,
                TransportFails, Cancel, EvictLimiter, vars
  <2> QED BY <2>1, OriginAdmit, OriginTick
<1> QED BY <1>1, <1>2

(* However the tasks that wait for the lock of new_origins are scheduled,  *)
(* and although they stamp origins with a time from before they had it,    *)
(* new_origins_per_minute bounds the new origins of every minute less a    *)
(* resolution timeout (controls.rs:256-269).                               *)
THEOREM NewOriginsAreBounded == Spec => []NewOriginsBounded
<1>1. Init => OriginInv
  <2> SUFFICES ASSUME Init PROVE OriginInv
    OBVIOUS
  <2>1. Listed = {} /\ \A o \in Origins : ~(joined[o] < SureWindow)
    BY DEF Init, Listed, SureWindow
  <2> QED BY <2>1, FS_EmptySet DEF OriginInv
<1>2. IInv /\ OriginInv => NewOriginsBounded
  <2> SUFFICES ASSUME IInv, OriginInv PROVE NewOriginsBounded
    OBVIOUS
  <2> DEFINE lately == {o \in Origins : joined[o] < SureWindow}
  <2>1. lately \subseteq Listed /\ Listed \subseteq Origins
    BY DEF OriginInv, Listed
  <2>2. IsFiniteSet(Listed)
    BY <2>1, FS_Subset
  <2>3. Cardinality(lately) <= Cardinality(Listed)
    BY <2>1, <2>2, FS_Subset
  <2>4. Cardinality(lately) \in Nat /\ Cardinality(Listed) \in Nat
    BY <2>1, <2>2, FS_Subset, FS_CardinalityType
  <2> QED BY <2>3, <2>4 DEF OriginInv, NewOriginsBounded
<1> QED BY <1>1, <1>2, Invariant, OriginStep, PTL DEF Spec

---------------------------------------------------------------------------
(* Rates. *)

(* A cached limiter has seen every draw, and the cells it lacks are ones   *)
(* it could not yet regain since its last use; one that is not cached      *)
(* would be full.                                                          *)
RateOf(l) ==
    IF level[l] = None THEN drawn[l] = 0
    ELSE /\ drawn[l] = level[l]
         /\ level[l] <= Burst[l]
         /\ level[l] = 0 \/ level[l] + Rate[l] * idle[l] <= Burst[l]

RateInv == idle[Global] = 0 /\ \A l \in Limiters : Refills(l) => RateOf(l)

LEMMA RateCharge ==
    ASSUME IInv, RateInv, NEW l \in Kept, Charge(l)
    PROVE  RateInv'
<1>1. l \in Limiters /\ l # Global
  BY DEF Limiters
<1>2. ASSUME Refills(l) PROVE RateOf(l)'
  <2>1. RateOf(l) /\ Burst[l] \in Nat \ {0} /\ Rate[l] \in Nat /\ Rate[l] * 0 = 0
    BY <1>1, <1>2 DEF RateInv
  <2>2. level[l] \in Nat \cup {None} /\ drawn[l] \in Nat
    BY <1>1 DEF IInv, TypeOK
  <2>3. /\ level'[l] = IF Fills(l, Taken(l)) THEN Taken(l) ELSE Taken(l) + 1
        /\ drawn'[l] = IF Fills(l, Taken(l)) THEN drawn[l] ELSE drawn[l] + 1
        /\ idle'[l] = 0
    BY <1>1 DEF Charge, IInv, TypeOK
  <2>4. Taken(l) \in Nat /\ drawn[l] = Taken(l) /\ Taken(l) <= Burst[l]
    BY <2>1, <2>2 DEF RateOf, Taken
  <2>5. level'[l] \in Nat /\ level'[l] <= Burst[l] /\ drawn'[l] = level'[l]
    BY <2>1, <2>3, <2>4 DEF Fills
  <2>6. level'[l] + Rate[l] * idle'[l] <= Burst[l]
    BY <2>1, <2>3, <2>5
  <2> QED BY <2>5, <2>6 DEF RateOf
<1>3. ASSUME NEW k \in Limiters, k # l, Refills(k) PROVE RateOf(k)'
  <2>1. level'[k] = level[k] /\ drawn'[k] = drawn[k] /\ idle'[k] = idle[k]
    BY <1>1, <1>3 DEF Charge, IInv, TypeOK
  <2> QED BY <2>1, <1>3 DEF RateInv, RateOf
<1>4. idle'[Global] = 0
  BY <1>1 DEF Charge, RateInv, IInv, TypeOK, Limiters
<1> QED BY <1>2, <1>3, <1>4 DEF RateInv

LEMMA RateStart ==
    ASSUME IInv, RateInv, NEW t \in Tasks, NEW u \in Urls, Start(t, u)
    PROVE  RateInv'
<1>1. CASE UNCHANGED limiterVars
  BY <1>1 DEF limiterVars, RateInv, RateOf
<1>2. CASE ~UNCHANGED limiterVars
  <2>1. /\ ~Fills(Global, level[Global])
        /\ level' = [level EXCEPT ![Global] = @ + 1]
        /\ drawn' = [drawn EXCEPT ![Global] = @ + 1]
        /\ idle' = [idle EXCEPT ![u.origin] = 0]
    BY <1>2 DEF Start
  <2>2. /\ u.origin \in Limiters /\ u.origin # Global /\ Global \in Limiters
        /\ level[Global] \in Nat
    BY DEF Limiters, Kept, IInv, TypeOK
  <2>3. RateOf(Global)' /\ idle'[Global] = 0
    <3>1. /\ level'[Global] = level[Global] + 1 /\ drawn'[Global] = drawn[Global] + 1
          /\ idle'[Global] = 0
      BY <2>1, <2>2 DEF IInv, TypeOK, RateInv
    <3>2. drawn[Global] = level[Global] /\ Burst[Global] \in Nat /\ Rate[Global] \in Nat
      BY <2>2 DEF RateInv, RateOf, Refills, IInv
    <3>3. level[Global] + 1 <= Burst[Global] /\ Rate[Global] * 0 = 0
      BY <2>1, <2>2, <3>2 DEF Fills
    <3>4. level'[Global] \in Nat /\ level'[Global] <= Burst[Global]
          /\ level'[Global] + Rate[Global] * idle'[Global] <= Burst[Global]
      BY <2>2, <3>1, <3>2, <3>3
    <3> QED BY <3>1, <3>2, <3>4 DEF RateOf
  <2>4. ASSUME NEW k \in Limiters, k # Global, Refills(k) PROVE RateOf(k)'
    <3>1. /\ level'[k] = level[k] /\ drawn'[k] = drawn[k]
          /\ idle'[k] = idle[k] \/ idle'[k] = 0
      BY <2>1, <2>2, <2>4 DEF IInv, TypeOK
    <3>2. RateOf(k) /\ Rate[k] \in Nat /\ Burst[k] \in Nat /\ Rate[k] * 0 = 0
          /\ level[k] \in Nat \cup {None}
      BY <2>4 DEF RateInv, IInv, TypeOK
    <3> QED BY <3>1, <3>2 DEF RateOf
  <2> QED BY <2>3, <2>4 DEF RateInv
<1> QED BY <1>1, <1>2

LEMMA RateTick == IInv /\ RateInv /\ Tick => RateInv'
<1> SUFFICES ASSUME IInv, RateInv, Tick PROVE RateInv'
  OBVIOUS
<1>1. idle'[Global] = 0
  BY DEF Tick, Limiters
<1>2. ASSUME NEW l \in Limiters, Refills(l) PROVE RateOf(l)'
  <2>1. /\ RateOf(l) /\ Rate[l] \in Nat \ {0} /\ Burst[l] \in Nat
        /\ level[l] \in Nat \cup {None} /\ idle[l] \in Nat /\ drawn[l] \in Nat
    BY <1>2 DEF RateInv, IInv, TypeOK
  <2>2. drawn'[l] = Drained(l, drawn[l])
    BY DEF Tick
  <2>3. CASE level[l] = None
    <3>1. level'[l] = None
      BY <2>3 DEF Tick
    <3> QED BY <2>1, <2>2, <2>3, <3>1 DEF RateOf, Drained
  <2>4. CASE level[l] # None /\ l \in Kept /\ Expires(l)
    <3>1. level'[l] = None
      BY <2>4 DEF Tick
    <3>2. level[l] <= Rate[l]
      <4>1. CASE level[l] = 0
        BY <4>1, <2>1
      <4>2. CASE level[l] # 0
        <5>1. level[l] + Rate[l] * idle[l] <= Rate[l] * IdleTtl
          <6>1. Rate[l] * idle[l] \in Nat /\ Rate[l] * IdleTtl \in Nat
            BY <2>1
          <6>2. level[l] + Rate[l] * idle[l] <= Burst[l] /\ Burst[l] <= Rate[l] * IdleTtl
            BY <1>2, <2>1, <2>4, <4>2 DEF RateOf, Refills
          <6> QED BY <2>1, <2>4, <6>1, <6>2
        <5>2. IdleTtl <= idle[l] + 1
          BY <2>1, <2>4 DEF Expires
        <5>3. Rate[l] * IdleTtl <= Rate[l] * idle[l] + Rate[l]
          <6>1. Rate[l] * IdleTtl <= Rate[l] * (idle[l] + 1)
            BY <2>1, <5>2
          <6> QED BY <2>1, <6>1
        <5> QED BY <2>1, <2>4, <5>1, <5>3
      <4> QED BY <4>1, <4>2
    <3>3. drawn'[l] = 0
      BY <2>1, <2>2, <2>4, <3>2 DEF RateOf, Drained
    <3> QED BY <3>1, <3>3 DEF RateOf
  <2>5. CASE level[l] # None /\ ~(l \in Kept /\ Expires(l))
    <3>1. level'[l] = Drained(l, level[l]) /\ drawn[l] = level[l] /\ level[l] \in Nat
      BY <2>1, <2>5 DEF Tick, RateOf
    <3>2. idle'[l] = 0 \/ idle'[l] = idle[l] + 1
      BY DEF Tick
    <3>3. level'[l] = 0 \/ level'[l] = level[l] - Rate[l]
      BY <3>1 DEF Drained
    <3>4. level'[l] \in Nat /\ level'[l] <= Burst[l]
      BY <2>1, <2>5, <3>1 DEF Drained, RateOf
    <3>5. level'[l] = 0 \/ level'[l] + Rate[l] * idle'[l] <= Burst[l]
      <4>1. SUFFICES ASSUME level'[l] # 0, level[l] # 0
                     PROVE  level'[l] + Rate[l] * idle'[l] <= Burst[l]
        BY <3>1, <2>1 DEF Drained
      <4>2. level'[l] + Rate[l] = level[l]
        BY <2>1, <3>1, <3>3, <4>1
      <4>3. level[l] + Rate[l] * idle[l] <= Burst[l] /\ level[l] <= Burst[l]
        BY <2>1, <2>5, <4>1 DEF RateOf
      <4>4. Rate[l] * (idle[l] + 1) = Rate[l] * idle[l] + Rate[l] /\ Rate[l] * 0 = 0
            /\ Rate[l] * idle[l] \in Nat
        BY <2>1
      <4> QED BY <2>1, <3>2, <3>4, <4>2, <4>3, <4>4
    <3> QED BY <2>2, <3>1, <3>4, <3>5 DEF RateOf
  <2> QED BY <2>3, <2>4, <2>5
<1> QED BY <1>1, <1>2 DEF RateInv

LEMMA RateStep == IInv /\ RateInv /\ [Next]_vars => RateInv'
<1> SUFFICES ASSUME IInv, RateInv, [Next]_vars PROVE RateInv'
  OBVIOUS
<1>1. CASE UNCHANGED limiterVars
  BY <1>1 DEF RateInv, RateOf, limiterVars
<1>2. ASSUME NEW t \in Tasks, CheckOrigin(t) PROVE RateInv'
  <2>1. url[t].origin \in Kept /\ Charge(url[t].origin)
    BY <1>2 DEF CheckOrigin, Active, IInv, TaskInv, Kept
  <2> QED BY <2>1, RateCharge
<1>3. ASSUME NEW t \in Tasks, NEW answer \in SUBSET Addresses, Resolve(t, answer),
             ~UNCHANGED limiterVars
      PROVE  RateInv'
  <2>1. AddressesValid(answer) /\ Charge(Selected(answer))
    BY <1>3 DEF Resolve
  <2>2. Selected(answer) \in Kept
    BY <2>1, SelectedReachable DEF Kept
  <2> QED BY <2>1, <2>2, RateCharge
<1>4. ASSUME NEW l \in Kept, EvictLimiter(l) PROVE RateInv'
  <2>1. l \in Limiters /\ l # Global
    BY DEF Limiters
  <2>2. \A k \in Limiters : /\ level'[k] = IF k = l THEN None ELSE level[k]
                            /\ drawn'[k] = IF k = l THEN 0 ELSE drawn[k]
                            /\ idle'[k] = idle[k]
    BY <1>4, <2>1 DEF EvictLimiter, IInv, TypeOK
  <2>3. \A k \in Limiters : Refills(k) => RateOf(k)'
    BY <2>2 DEF RateInv, RateOf
  <2>4. idle'[Global] = 0
    BY <1>4 DEF EvictLimiter, RateInv
  <2> QED BY <2>3, <2>4 DEF RateInv
<1>5. CASE UNCHANGED vars
  BY <1>5 DEF vars, RateInv, RateOf
<1> QED BY <1>1, <1>2, <1>3, <1>4, <1>5, RateStart, RateTick
        DEF Next, TaskStep, AdmitNewOrigin, ResolveFails, Send, Receive, TransportFails, Cancel

(* Whatever the quotas of the limiters: for each one that is regained      *)
(* within the time to idle, forgetting the idle limiter does not let its   *)
(* origin or address be asked more often than the quota allows, from one   *)
(* eviction for capacity to the next (controls.rs:162-169).                *)
THEOREM RatesAreBounded == Spec => []RateBounded
<1>1. Init => RateInv
  <2> SUFFICES ASSUME Init PROVE RateInv
    OBVIOUS
  <2>1. Global \in Limiters
    BY DEF Limiters
  <2> QED BY <2>1 DEF Init, RateInv, RateOf
<1>2. IInv /\ RateInv => RateBounded
  <2> SUFFICES ASSUME IInv, RateInv, NEW l \in Limiters, Refills(l)
               PROVE  drawn[l] <= Burst[l]
    BY DEF RateBounded
  <2> QED BY DEF RateInv, RateOf
<1> QED BY <1>1, <1>2, Invariant, RateStep, PTL DEF Spec

---------------------------------------------------------------------------
(* Peers. *)

(* A selected address was checked; there is a connection only while its    *)
(* answer is awaited.                                                      *)
PeerInv ==
    /\ \A t \in Tasks : selected[t] # None => GloballyReachable(selected[t])
    /\ \A t \in Tasks : stage[t] # "response" => connected[t] = None
    /\ OnlyCheckedPeers

LEMMA PeerFinish ==
    ASSUME IInv, PeerInv, NEW t \in Tasks, NEW kind, Finish(t, kind)
    PROVE  PeerInv'
  BY DEF Finish, PeerInv, OnlyCheckedPeers, IInv, TypeOK

LEMMA PeerStep == IInv /\ PeerInv /\ [Next]_vars => PeerInv'
<1> SUFFICES ASSUME IInv, PeerInv, [Next]_vars PROVE PeerInv'
  OBVIOUS
<1>1. ASSUME NEW t \in Tasks, NEW u \in Urls, Start(t, u) PROVE PeerInv'
  <2>1. /\ UNCHANGED <<selected, connected>> /\ stage[t] # "response"
        /\ \E x \in {"window", "limiter", "done"} : stage' = [stage EXCEPT ![t] = x]
    BY <1>1 DEF Start, Refused, Active
  <2> QED BY <2>1 DEF PeerInv, OnlyCheckedPeers, IInv, TypeOK
<1>2. ASSUME NEW t \in Tasks, AdmitNewOrigin(t) \/ CheckOrigin(t) PROVE PeerInv'
  <2>1. CASE Finish(t, "rate_limited")
    BY <2>1, PeerFinish
  <2>2. CASE /\ Continue(t, "limiter") \/ Continue(t, "dns")
             /\ UNCHANGED <<selected, connected>>
             /\ stage[t] # "response"
    BY <2>2 DEF Continue, PeerInv, OnlyCheckedPeers, IInv, TypeOK
  <2> QED BY <1>2, <2>1, <2>2 DEF AdmitNewOrigin, CheckOrigin
<1>3. ASSUME NEW t \in Tasks, ResolveFails(t) \/ Receive(t) \/ TransportFails(t) \/ Cancel(t)
      PROVE  PeerInv'
  BY <1>3, PeerFinish DEF ResolveFails, Receive, TransportFails, Cancel
<1>4. ASSUME NEW t \in Tasks, NEW answer \in SUBSET Addresses, Resolve(t, answer)
      PROVE  PeerInv'
  <2>1. CASE \E kind : Finish(t, kind)
    BY <2>1, PeerFinish
  <2>2. CASE ~\E kind : Finish(t, kind)
    <3>1. /\ stage[t] = "dns" /\ AddressesValid(answer)
          /\ Continue(t, "fetch") /\ UNCHANGED connected
          /\ selected' = [selected EXCEPT ![t] = Selected(answer)]
      BY <1>4, <2>2 DEF Resolve
    <3>2. GloballyReachable(Selected(answer))
      BY <3>1, SelectedReachable
    <3>3. \A s \in Tasks : selected'[s] = IF s = t THEN Selected(answer) ELSE selected[s]
      BY <3>1 DEF IInv, TypeOK
    <3>4. \A s \in Tasks : selected'[s] # None => GloballyReachable(selected'[s])
      BY <3>2, <3>3 DEF PeerInv
    <3>5. \A s \in Tasks : stage'[s] # "response" => connected'[s] = None
      BY <3>1 DEF PeerInv, Continue, IInv, TypeOK
    <3>6. connected[t] = None
      BY <3>1 DEF PeerInv
    <3>7. OnlyCheckedPeers'
      BY <3>1, <3>3, <3>6 DEF PeerInv, OnlyCheckedPeers
    <3> QED BY <3>4, <3>5, <3>7 DEF PeerInv
  <2> QED BY <2>1, <2>2
<1>5. ASSUME NEW t \in Tasks, Send(t) PROVE PeerInv'
  <2>1. selected[t] # None /\ selected[t] \in Addresses
    BY <1>5 DEF Send, IInv, TaskInv
  <2>2. GloballyReachable(selected[t])
    BY <2>1 DEF PeerInv
  <2>3. /\ UNCHANGED selected /\ stage' = [stage EXCEPT ![t] = "response"]
        /\ connected' = [connected EXCEPT ![t] = IF Direct THEN selected[t] ELSE Proxy]
    BY <1>5 DEF Send, Continue, Connect
  <2>4. \A s \in Tasks : connected'[s] =
            IF s = t THEN IF Direct THEN selected[t] ELSE Proxy ELSE connected[s]
    BY <2>3 DEF IInv, TypeOK
  <2>5. \A s \in Tasks : stage'[s] # "response" => connected'[s] = None
    BY <2>3, <2>4 DEF PeerInv, IInv, TypeOK
  <2>6. OnlyCheckedPeers'
    BY <2>2, <2>3, <2>4 DEF PeerInv, OnlyCheckedPeers
  <2> QED BY <2>3, <2>5, <2>6 DEF PeerInv
<1>6. CASE Tick \/ (\E l \in Kept : EvictLimiter(l)) \/ UNCHANGED vars
  <2>1. UNCHANGED <<stage, selected, connected>>
    BY <1>6 DEF Tick, EvictLimiter, vars, taskVars
  <2> QED BY <2>1 DEF PeerInv, OnlyCheckedPeers
<1> QED BY <1>1, <1>2, <1>3, <1>4, <1>5, <1>6 DEF Next, TaskStep

LEMMA PeerInvariant == Spec => []PeerInv
<1>1. Init => PeerInv
  BY DEF Init, PeerInv, OnlyCheckedPeers
<1> QED BY <1>1, Invariant, PeerStep, PTL DEF Spec

(* In direct mode a request is sent only to an address that passed         *)
(* validate_all_addresses and check_ip, whatever DNS says later, and in    *)
(* proxy mode only to the proxy (fetch.rs:246-267).                        *)
THEOREM PeersAreChecked == Spec => []OnlyCheckedPeers
<1>1. PeerInv => OnlyCheckedPeers
  BY DEF PeerInv
<1> QED BY <1>1, PeerInvariant, PTL

(* No answer of an origin is classified as the resolver's own load         *)
(* shedding (fetch.rs:83-105, 293-305): only refreshes that never          *)
(* connected end so.                                                       *)
THEOREM SheddingIsLocal == Spec => RefusedBeforeContact
<1>1. ASSUME IInv, PeerInv, [Next]_vars, NEW t \in Tasks,
             Active(t), ~Active(t)', outcome'[t] = "load_shed", connected[t] # None
      PROVE  FALSE
  <2>1. stage[t] = "response" /\ stage'[t] # stage[t]
    BY <1>1 DEF PeerInv, Active
  <2>2. ASSUME NEW kind, Finish(t, kind) PROVE outcome'[t] = Class(kind)
    <3>1. outcome' = [outcome EXCEPT ![t] = Class(kind)]
      BY <2>2 DEF Finish
    <3>2. outcome \in [Tasks -> Classes \cup {None}]
      BY <1>1 DEF IInv, TypeOK
    <3> QED BY <3>1, <3>2
  <2>3. \A r \in Responses : Class(Received(url[t], r)) # "load_shed"
    BY DEF Class, Received, StatusKind
  <2>4. Receive(t) \/ TransportFails(t) \/ Cancel(t)
    <3>1. \A s \in Tasks : \A x : stage' = [stage EXCEPT ![s] = x] => s = t
      BY <2>1 DEF IInv, TypeOK
    <3>2. Next
      BY <1>1, <2>1 DEF vars, taskVars
    <3>3. \E s \in Tasks : TaskStep(s)
      BY <3>2, <2>1 DEF Next, EvictLimiter, Tick, taskVars
    <3>4. \A s \in Tasks : TaskStep(s) => \E x : stage' = [stage EXCEPT ![s] = x]
      BY DEF TaskStep, Start, Refused, AdmitNewOrigin, CheckOrigin, ResolveFails, Resolve,
             Send, Receive, TransportFails, Cancel, Finish, Continue
    <3>5. TaskStep(t)
      BY <3>1, <3>3, <3>4
    <3> QED BY <1>1, <2>1, <3>5 DEF TaskStep, Start, AdmitNewOrigin, CheckOrigin, ResolveFails,
                                    Resolve, Send
  <2>5. Class("transport") # "load_shed" /\ Class("cancelled") # "load_shed"
    BY DEF Class
  <2> QED BY <1>1, <2>2, <2>3, <2>4, <2>5 DEF Receive, TransportFails, Cancel
<1>2. IInv /\ PeerInv /\ [Next]_vars =>
        [\A t \in Tasks : Active(t) /\ ~Active(t)' =>
            (outcome'[t] = "load_shed" => connected[t] = None)]_vars
  BY <1>1
<1> QED BY <1>2, Invariant, PeerInvariant, PTL DEF Spec, RefusedBeforeContact

=============================================================================
