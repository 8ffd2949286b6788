----------------------- MODULE ResolverServiceProofs -----------------------
(***************************************************************************)
(* Proofs about ResolverService, for any documents, any requests and any   *)
(* number of callers, over the loader that KeyDirectory promises.          *)
(***************************************************************************)
EXTENDS ResolverService, FiniteSetTheorems, TLAPS

USE ServiceAssumption

Busy == {c \in Callers : Active(c)}

Phases == {"idle", "validate", "metadata", "keys", "done"}

(* The phases in which a handler holds its permit. *)
Held == {"validate", "metadata", "keys"}

(* What was obtained was published, and has a document. *)
VersionInv ==
    \A k \in Keys : obtained[k] <= published[k] /\ published[k] < Len(Content[k])

(* A load is answered with what was obtained since it asked; a handler is  *)
(* never past its deadline.                                                *)
LoadOf(c) ==
    /\ Active(c) => request[c] \in Requests /\ now <= Deadline(c)
    /\ floor[c] <= obtained[wanted[c]]
    /\ answer[c] # NoAnswer =>
           /\ answer[c] \in floor[c] .. obtained[wanted[c]]
           /\ Parses(wanted[c], answer[c])

IInv ==
    /\ TypeOK
    /\ HandlersConserved
    /\ VersionInv
    /\ \A c \in Callers : LoadOf(c)

(* The number of active handlers follows the phase of the one that moves. *)
LEMMA BusyStep ==
    ASSUME NEW c \in Callers, NEW x \in Phases,
           phase \in [Callers -> Phases],
           phase' = [phase EXCEPT ![c] = x]
    PROVE  /\ Cardinality(Busy) \in Nat /\ Cardinality(Busy') \in Nat
           /\ ~Active(c) /\ x \in Held => Cardinality(Busy') = Cardinality(Busy) + 1
           /\ Active(c) /\ x \notin Held => Cardinality(Busy) = Cardinality(Busy') + 1
           /\ (Active(c) <=> x \in Held) => Cardinality(Busy') = Cardinality(Busy)
<1>1. IsFiniteSet(Busy) /\ IsFiniteSet(Busy')
  BY FS_Subset, Busy \subseteq Callers, Busy' \subseteq Callers DEF Busy
<1>2. Cardinality(Busy) \in Nat /\ Cardinality(Busy') \in Nat
  BY <1>1, FS_CardinalityType
<1>3. \A d \in Callers \ {c} : Active(d)' <=> Active(d)
  BY DEF Active
<1>4. Active(c)' <=> x \in Held
  BY DEF Active, Held
<1>5. ASSUME ~Active(c), x \in Held
      PROVE  Cardinality(Busy') = Cardinality(Busy) + 1
  <2>1. Busy' = Busy \cup {c} /\ c \notin Busy
    BY <1>3, <1>4, <1>5 DEF Busy
  <2> QED BY <2>1, <1>1, FS_AddElement
<1>6. ASSUME Active(c), x \notin Held
      PROVE  Cardinality(Busy) = Cardinality(Busy') + 1
  <2>1. Busy = Busy' \cup {c} /\ c \notin Busy'
    BY <1>3, <1>4, <1>6 DEF Busy
  <2> QED BY <2>1, <1>1, FS_AddElement
<1>7. ASSUME Active(c) <=> x \in Held
      PROVE  Busy' = Busy
  BY <1>3, <1>4, <1>7 DEF Busy
<1> QED BY <1>2, <1>5, <1>6, <1>7

(* The loader's part of the type invariant. *)
DirectoryType ==
    /\ published \in [Keys -> Nat]
    /\ obtained \in [Keys -> Nat]
    /\ status \in [Callers -> {"idle", "loading", "done"}]
    /\ wanted \in [Callers -> Keys]
    /\ floor \in [Callers -> Nat]
    /\ answer \in [Callers -> Nat \cup {NoAnswer}]

DirectoryInv == DirectoryType /\ VersionInv /\ \A c \in Callers :
    /\ floor[c] <= obtained[wanted[c]]
    /\ answer[c] # NoAnswer =>
           answer[c] \in floor[c] .. obtained[wanted[c]] /\ Parses(wanted[c], answer[c])

LEMMA DirectoryOf == IInv => DirectoryInv
  BY DEF IInv, DirectoryInv, DirectoryType, TypeOK, LoadOf

(* The steps of the loader preserve its part. *)
LEMMA RequestStep ==
    ASSUME DirectoryInv, NEW c \in Callers, NEW k \in Keys, Directory!Request(c, k)
    PROVE  DirectoryInv'
<1>1. DirectoryType'
  BY DEF DirectoryInv, DirectoryType, Directory!Request
<1>2. VersionInv'
  BY DEF DirectoryInv, VersionInv, Directory!Request
<1>3. ASSUME NEW d \in Callers
      PROVE  /\ floor'[d] <= obtained'[wanted'[d]]
             /\ answer'[d] # NoAnswer =>
                  /\ answer'[d] \in floor'[d] .. obtained'[wanted'[d]]
                  /\ Parses(wanted'[d], answer'[d])
  BY DEF DirectoryInv, DirectoryType, Directory!Request
<1> QED BY <1>1, <1>2, <1>3 DEF DirectoryInv, Parses, Parsed

LEMMA AnswerStep ==
    ASSUME DirectoryInv, NEW c \in Callers, NEW v,
           v # NoAnswer => Parses(wanted[c], v),
           Directory!Answer({c}, [answer EXCEPT ![c] = v])
    PROVE  DirectoryInv'
<1>1. v \in {NoAnswer} \cup (floor[c] .. obtained[wanted[c]])
  BY DEF DirectoryInv, DirectoryType, Directory!Answer, Directory!Acceptable
<1>2. /\ UNCHANGED <<published, obtained, wanted, floor>>
      /\ \A d \in Callers : answer'[d] = IF d = c THEN v ELSE answer[d]
      /\ status' \in [Callers -> {"idle", "loading", "done"}]
      /\ answer' = [d \in Callers |-> answer'[d]]
  BY DEF DirectoryInv, DirectoryType, Directory!Answer
<1>3. v \in Nat \cup {NoAnswer}
  BY <1>1 DEF DirectoryInv, DirectoryType
<1>4. answer' \in [Callers -> Nat \cup {NoAnswer}]
  BY <1>2, <1>3 DEF DirectoryInv, DirectoryType
<1>5. DirectoryType' /\ VersionInv'
  BY <1>2, <1>4 DEF DirectoryInv, DirectoryType, VersionInv
<1>6. \A d \in Callers :
         /\ floor'[d] <= obtained'[wanted'[d]]
         /\ answer'[d] # NoAnswer =>
              answer'[d] \in floor'[d] .. obtained'[wanted'[d]] /\ Parses(wanted'[d], answer'[d])
  BY <1>1, <1>2 DEF DirectoryInv
<1> QED BY <1>5, <1>6 DEF DirectoryInv, Parses, Parsed

LEMMA VersionsGrow ==
    ASSUME DirectoryInv, NEW k \in Keys,
           \/ published[k] + 1 < Len(Content[k]) /\ Directory!Publish(k)
           \/ \E v \in obtained[k] .. published[k] : Directory!Obtain(k, v)
    PROVE  /\ DirectoryInv'
           /\ \A j \in Keys : obtained[j] <= obtained'[j] /\ published[j] <= published'[j]
           /\ UNCHANGED <<status, wanted, floor, answer>>
<1>1. UNCHANGED <<status, wanted, floor, answer>>
  BY DEF Directory!Publish, Directory!Obtain, Directory!loadVars
<1>2. /\ DirectoryType' /\ VersionInv'
      /\ \A j \in Keys : obtained[j] <= obtained'[j] /\ published[j] <= published'[j]
  <2>1. CASE published[k] + 1 < Len(Content[k]) /\ Directory!Publish(k)
    BY <1>1, <2>1 DEF DirectoryInv, DirectoryType, VersionInv, Directory!Publish
  <2>2. CASE \E v \in obtained[k] .. published[k] : Directory!Obtain(k, v)
    <3>1. PICK v \in obtained[k] .. published[k] : Directory!Obtain(k, v)
      BY <2>2
    <3>2. v \in Nat /\ obtained[k] <= v /\ v <= published[k]
      BY DEF DirectoryInv, DirectoryType
    <3> QED BY <1>1, <3>1, <3>2 DEF DirectoryInv, DirectoryType, VersionInv, Directory!Obtain
  <2> QED BY <2>1, <2>2
<1>3. ASSUME NEW c \in Callers
      PROVE  /\ floor'[c] <= obtained'[wanted'[c]]
             /\ answer'[c] # NoAnswer =>
                  /\ answer'[c] \in floor'[c] .. obtained'[wanted'[c]]
                  /\ Parses(wanted'[c], answer'[c])
  <2>1. wanted[c] \in Keys /\ floor[c] \in Nat
    BY DEF DirectoryInv, DirectoryType
  <2>2. obtained[wanted[c]] \in Nat /\ obtained'[wanted[c]] \in Nat
        /\ obtained[wanted[c]] <= obtained'[wanted[c]]
    BY <1>2, <2>1 DEF DirectoryInv, DirectoryType
  <2>3. /\ floor[c] <= obtained[wanted[c]]
        /\ answer[c] # NoAnswer =>
             answer[c] \in floor[c] .. obtained[wanted[c]] /\ Parses(wanted[c], answer[c])
    BY DEF DirectoryInv
  <2> QED BY <1>1, <2>1, <2>2, <2>3
<1> QED BY <1>1, <1>2, <1>3 DEF DirectoryInv, Parses, Parsed

(* The service's part of the invariant. *)
ServiceInv ==
    /\ now \in 0..MaxTime
    /\ handlers \in 0..ActiveHandlers
    /\ phase \in [Callers -> Phases]
    /\ request \in [Callers -> Requests \cup {NoRequest}]
    /\ startedAt \in [Callers -> 0..MaxTime]
    /\ seen \in [Callers -> [Keys -> Nat]]
    /\ handlers + Cardinality(Busy) = ActiveHandlers
    /\ \A c \in Callers : Active(c) => request[c] \in Requests /\ now <= Deadline(c)

LEMMA Parts == IInv <=> ServiceInv /\ DirectoryInv
<1> USE DEF IInv, ServiceInv, DirectoryInv, DirectoryType, TypeOK, LoadOf, Phases
<1>1. HandlersConserved <=> handlers + Cardinality(Busy) = ActiveHandlers
  BY DEF HandlersConserved, Busy
<1> QED BY <1>1

LEMMA NextParts == IInv' <=> ServiceInv' /\ DirectoryInv'
<1> USE DEF IInv, ServiceInv, DirectoryInv, DirectoryType, TypeOK, LoadOf, Phases
<1>1. HandlersConserved' <=> handlers' + Cardinality(Busy') = ActiveHandlers
  BY DEF HandlersConserved, Busy
<1> QED BY <1>1

(* A handler that answers keeps the service's part. *)
LEMMA ReplyStep ==
    ASSUME ServiceInv, NEW c \in Callers, NEW what, Active(c), Reply(c, what),
           UNCHANGED <<now, request, startedAt, seen>>
    PROVE  ServiceInv'
<1>1. "done" \in Phases /\ "done" \notin Held
  BY DEF Phases, Held
<1>2. /\ Cardinality(Busy) = Cardinality(Busy') + 1 /\ Cardinality(Busy') \in Nat
      /\ handlers' = handlers + 1
  BY <1>1, BusyStep DEF Reply, ServiceInv
<1>3. handlers' + Cardinality(Busy') = ActiveHandlers /\ handlers' \in 0..ActiveHandlers
  BY <1>2 DEF ServiceInv
<1>4. \A d \in Callers : Active(d)' => Active(d)
  BY DEF Reply, Active, ServiceInv
<1> QED BY <1>1, <1>3, <1>4 DEF Reply, ServiceInv, Deadline

(* So does one that asks for a resource. *)
LEMMA LoadStep ==
    ASSUME ServiceInv, NEW c \in Callers, NEW k, NEW x \in {"metadata", "keys"},
           Active(c), Load(c, k, x), UNCHANGED <<now, request, startedAt, seen>>
    PROVE  ServiceInv'
<1>1. x \in Phases /\ x \in Held
  BY DEF Phases, Held
<1>2. Cardinality(Busy) = Cardinality(Busy')
  BY <1>1, BusyStep DEF Load, ServiceInv
<1>3. \A d \in Callers : Active(d)' => Active(d)
  BY DEF Load, Active, ServiceInv
<1> QED BY <1>1, <1>2, <1>3 DEF Load, ServiceInv, Deadline

LEMMA AcceptStep ==
    ASSUME ServiceInv, DirectoryInv, NEW c \in Callers, NEW req \in Requests, Accept(c, req)
    PROVE  ServiceInv' /\ DirectoryInv'
<1>1. DirectoryInv'
  BY DEF Accept, directoryVars, DirectoryInv, DirectoryType, VersionInv, Parses, Parsed
<1>2. {"done", "validate"} \subseteq Phases /\ "done" \notin Held /\ "validate" \in Held
  BY DEF Phases, Held
<1>3. /\ request' \in [Callers -> Requests \cup {NoRequest}] /\ request'[c] = req
      /\ startedAt' \in [Callers -> 0..MaxTime] /\ startedAt'[c] = now
      /\ seen' \in [Callers -> [Keys -> Nat]] /\ now' = now
      /\ \A d \in Callers \ {c} : request'[d] = request[d] /\ startedAt'[d] = startedAt[d]
  BY DEF Accept, ServiceInv, DirectoryInv, DirectoryType
<1>4. ~Active(c)
  BY DEF Accept, Active
<1>5. /\ phase' \in [Callers -> Phases]
      /\ handlers' + Cardinality(Busy') = ActiveHandlers /\ handlers' \in 0..ActiveHandlers
  <2>1. CASE ~req.decodable \/ handlers = 0
    <3>1. phase' = [phase EXCEPT ![c] = "done"] /\ handlers' = handlers
      BY <2>1 DEF Accept
    <3>2. Cardinality(Busy') = Cardinality(Busy)
      BY <1>2, <1>4, <3>1, BusyStep DEF ServiceInv
    <3> QED BY <1>2, <3>1, <3>2 DEF ServiceInv
  <2>2. CASE ~(~req.decodable \/ handlers = 0)
    <3>1. phase' = [phase EXCEPT ![c] = "validate"] /\ handlers' = handlers - 1 /\ handlers # 0
      BY <2>2 DEF Accept
    <3>2. Cardinality(Busy') = Cardinality(Busy) + 1 /\ Cardinality(Busy) \in Nat
      BY <1>2, <1>4, <3>1, BusyStep DEF ServiceInv
    <3>3. handlers' + Cardinality(Busy') = ActiveHandlers /\ handlers' \in 0..ActiveHandlers
      BY <3>1, <3>2 DEF ServiceInv
    <3> QED BY <1>2, <3>1, <3>3 DEF ServiceInv
  <2> QED BY <2>1, <2>2
<1>6. ASSUME NEW d \in Callers, Active(d)'
      PROVE  request'[d] \in Requests /\ now' <= Deadline(d)'
  <2>1. CASE d = c
    BY <1>3, <2>1 DEF Deadline, ServiceInv
  <2>2. CASE d # c
    <3>1. Active(d)
      BY <1>6, <2>2 DEF Accept, Active, ServiceInv
    <3> QED BY <1>3, <2>2, <3>1 DEF ServiceInv, Deadline
  <2> QED BY <2>1, <2>2
<1> QED BY <1>1, <1>3, <1>5, <1>6 DEF ServiceInv

LEMMA StepInv == IInv /\ [Next]_vars => IInv'
<1> SUFFICES ASSUME ServiceInv, DirectoryInv, [Next]_vars PROVE ServiceInv' /\ DirectoryInv'
  BY Parts, NextParts
<1>1. ASSUME NEW c \in Callers, NEW req \in Requests, Accept(c, req)
      PROVE  ServiceInv' /\ DirectoryInv'
  BY <1>1, AcceptStep
<1>2. ASSUME UNCHANGED directoryVars PROVE DirectoryInv'
  BY <1>2 DEF directoryVars, DirectoryInv, DirectoryType, VersionInv, Parses, Parsed
<1>3. ASSUME UNCHANGED <<now, serviceVars>> PROVE ServiceInv'
  BY <1>3 DEF serviceVars, ServiceInv, Busy, Active, Deadline
<1>4. ASSUME NEW c \in Callers, Validate(c) PROVE ServiceInv' /\ DirectoryInv'
  <2>1. Active(c) /\ UNCHANGED <<now, request, startedAt, seen>>
    BY <1>4 DEF Validate, Active
  <2>2. CASE (\E what : Reply(c, what)) /\ UNCHANGED directoryVars
    BY <1>2, <2>1, <2>2, ReplyStep
  <2>3. CASE ~((\E what : Reply(c, what)) /\ UNCHANGED directoryVars)
    <3>1. /\ ValidRequest(request[c])
          /\ \E x \in {"metadata", "keys"} : Load(c, FirstKey(request[c]), x)
      BY <1>4, <2>3 DEF Validate
    <3>2. FirstKey(request[c]) \in Keys
      BY <2>1, <3>1, ContentAssumption DEF ServiceInv
    <3>3. DirectoryInv'
      BY <3>1, <3>2, RequestStep DEF Load
    <3> QED BY <2>1, <3>1, <3>3, LoadStep
  <2> QED BY <2>2, <2>3
<1>5. ASSUME NEW c \in Callers, LoadEnds(c) PROVE ServiceInv' /\ DirectoryInv'
  BY <1>3, <1>5, AnswerStep DEF LoadEnds
<1>6. ASSUME NEW c \in Callers, Proceed(c) PROVE ServiceInv' /\ DirectoryInv'
  <2>1. Active(c) /\ UNCHANGED <<now, request, startedAt, seen>>
    BY <1>6 DEF Proceed, Active
  <2>2. CASE (\E what : Reply(c, what)) /\ UNCHANGED directoryVars
    BY <1>2, <2>1, <2>2, ReplyStep
  <2>3. CASE ~((\E what : Reply(c, what)) /\ UNCHANGED directoryVars)
    <3> DEFINE resource == Parsed(wanted[c], answer[c])
               next == [url |-> resource.url, kind |-> "jwks"]
    <3>1. answer[c] # NoAnswer /\ resource.form = "uri" /\ Load(c, next, "keys")
      BY <1>6, <2>3 DEF Proceed
    <3>2. wanted[c] \in Keys /\ answer[c] \in 0 .. Len(Content[wanted[c]]) - 1
      BY <3>1 DEF DirectoryInv, DirectoryType, VersionInv
    <3>3. next \in Keys
      BY <3>1, <3>2, ContentAssumption
    <3>4. DirectoryInv'
      BY <3>1, <3>3, RequestStep DEF Load
    <3> QED BY <2>1, <3>1, <3>4, LoadStep
  <2> QED BY <2>2, <2>3
<1>7. ASSUME NEW c \in Callers, NEW what, Drop(c, what) PROVE ServiceInv' /\ DirectoryInv'
  <2>1. ServiceInv'
    BY <1>7, ReplyStep DEF Drop
  <2>2. DirectoryInv'
    BY <1>2, <1>7, AnswerStep DEF Drop
  <2> QED BY <2>1, <2>2
<1>8. ASSUME NEW k \in Keys, OriginUpdate(k) \/ Refresh(k) PROVE ServiceInv' /\ DirectoryInv'
  BY <1>3, <1>8, VersionsGrow DEF OriginUpdate, Refresh
<1>9. CASE Tick
  <2>1. DirectoryInv'
    BY <1>2, <1>9 DEF Tick
  <2>2. \A c \in Callers : Active(c)' => Active(c) /\ now < Deadline(c)
    BY <1>9 DEF Tick, serviceVars, Active
  <2>3. UNCHANGED serviceVars /\ now' = now + 1 /\ now < MaxTime
    BY <1>9 DEF Tick
  <2>4. Busy' = Busy
    BY <2>3 DEF serviceVars, Busy, Active
  <2>5. \A c \in Callers : Deadline(c) \in Nat /\ Deadline(c)' = Deadline(c)
    BY <2>3 DEF Deadline, ServiceInv, serviceVars
  <2>6. ServiceInv'
    BY <2>2, <2>3, <2>4, <2>5 DEF ServiceInv, serviceVars
  <2> QED BY <2>1, <2>6
<1>10. CASE UNCHANGED vars
  BY <1>2, <1>3, <1>10 DEF vars
<1> QED BY <1>1, <1>4, <1>5, <1>6, <1>7, <1>8, <1>9, <1>10
        DEF Next, CallerStep, DeadlineExpires, Disconnect

LEMMA InitInv == Init => IInv
<1> SUFFICES ASSUME Init PROVE ServiceInv /\ DirectoryInv
  BY Parts
<1>1. \A c \in Callers : ~Active(c)
  BY DEF Init, Active
<1>2. Busy = {}
  BY <1>1 DEF Busy
<1>3. ServiceInv
  BY <1>1, <1>2, FS_EmptySet DEF Init, ServiceInv, Phases
<1>4. DirectoryType
  BY DEF Init, Directory!Init, DirectoryType
<1>5. VersionInv
  BY DEF Init, Directory!Init, VersionInv
<1>6. \A c \in Callers : floor[c] <= obtained[wanted[c]] /\ answer[c] = NoAnswer
  BY <1>4 DEF Init, Directory!Init, DirectoryType
<1> QED BY <1>3, <1>4, <1>5, <1>6 DEF DirectoryInv

LEMMA Invariant == Spec => []IInv
  BY InitInv, StepInv, PTL DEF Spec

(* Every variable keeps its type; the handlers' semaphore never goes       *)
(* below zero nor above active_handlers.                                   *)
THEOREM ServiceTypes == Spec => []TypeOK
<1>1. IInv => TypeOK
  BY DEF IInv
<1> QED BY <1>1, Invariant, PTL

(* Whatever ends a handler, its permit is given back exactly once          *)
(* (service.rs:69).                                                        *)
THEOREM HandlersAreConserved == Spec => []HandlersConserved
<1>1. IInv => HandlersConserved
  BY DEF IInv
<1> QED BY <1>1, Invariant, PTL

(* One resolution timeout covers validation and both loads                 *)
(* (service.rs:70).                                                        *)
THEOREM AnswersAreInTime == Spec => AnsweredInTime
<1>1. ASSUME IInv, [Next]_vars, NEW c \in Callers, phase[c] \in {"metadata", "keys"}
      PROVE  now <= startedAt[c] + ResolutionTimeout
  BY <1>1, Parts DEF ServiceInv, Active, Deadline
<1>2. IInv /\ [Next]_vars =>
        [\A c \in Callers : phase[c] \in {"metadata", "keys"} /\ phase'[c] = "done" =>
              now <= startedAt[c] + ResolutionTimeout]_vars
  BY <1>1
<1> QED BY <1>2, Invariant, PTL DEF Spec, AnsweredInTime

---------------------------------------------------------------------------
(* What the answers are made of. *)

(* The versions that the request of c may be answered from. *)
Current(c, k) == Versions(seen[c], published, k)

(* The resource that is loaded is the request's own, or the key set that a *)
(* current version of the request's metadata names.                        *)
Reached(c) ==
    \/ wanted[c] = FirstKey(request[c])
    \/ \E v \in Current(c, FirstKey(request[c])) :
           /\ Parsed(FirstKey(request[c]), v).form = "uri"
           /\ wanted[c] = [url |-> Parsed(FirstKey(request[c]), v).url, kind |-> "jwks"]

Truthful(c) ==
    response[c].code = 200 =>
        /\ response[c].identifier =
             ParseDiscoveryTarget(request[c].url, request[c].discovery).identifier
        /\ \/ RefusedTestKey(request[c]) /\ response[c].jwk = NoKey
           \/ IsAnswer(c, response[c].jwk)

ChainOf(c) ==
    /\ \A k \in Keys : seen[c][k] <= obtained[k]
    /\ phase[c] \in {"metadata", "keys"} =>
           /\ seen[c][wanted[c]] <= floor[c]
           /\ ~RefusedTestKey(request[c])
           /\ Reached(c)
    /\ response[c] # NoResponse =>
           /\ Truthful(c)
           /\ response[c].jwk # NoKey => ~RefusedTestKey(request[c])

ChainInv ==
    /\ response = [c \in Callers |-> response[c]]
    /\ \A c \in Callers : ChainOf(c)

(* A key set is never mistaken for metadata. *)
LEMMA KeySetForm ==
    ASSUME NEW k, NEW v, k.kind = "jwks"
    PROVE  Parsed(k, v).form # "uri"
  BY DEF Parsed, ParseResource, ParseKeys, InvalidResource

(* Newer versions take nothing back, and neither does an earlier start.    *)
LEMMA VersionsWiden ==
    ASSUME NEW since \in [Keys -> Nat], NEW upto \in [Keys -> Nat],
           NEW earlier \in [Keys -> Nat], NEW later \in [Keys -> Nat], NEW k,
           \A j \in Keys : earlier[j] <= since[j] /\ upto[j] <= later[j]
    PROVE  Versions(since, upto, k) \subseteq Versions(earlier, later, k)
<1>1. CASE k \in Keys
  <2>1. {since[k], upto[k], earlier[k], later[k]} \subseteq Nat
    BY <1>1
  <2> QED BY <1>1, <2>1 DEF Versions
<1>2. CASE k \notin Keys
  BY <1>2 DEF Versions
<1> QED BY <1>1, <1>2

LEMMA AnswerWidens ==
    ASSUME NEW since \in [Keys -> Nat], NEW upto \in [Keys -> Nat],
           NEW earlier \in [Keys -> Nat], NEW later \in [Keys -> Nat],
           \A j \in Keys : earlier[j] <= since[j] /\ upto[j] <= later[j],
           NEW req, NEW jwk, AnswerFrom(since, upto, req, jwk)
    PROVE  AnswerFrom(earlier, later, req, jwk)
<1> DEFINE first == FirstKey(req)
           uri(v) == [url |-> Parsed(first, v).url, kind |-> "jwks"]
<1>1. PICK v \in Versions(since, upto, first) :
         IF Parsed(first, v).form = "uri"
         THEN \E w \in Versions(since, upto, uri(v)) :
                  /\ Parses(uri(v), w)
                  /\ jwk = SelectKey(Parsed(uri(v), w).keys, req.keyId)
         ELSE /\ Parsed(first, v).form = "keys"
              /\ jwk = SelectKey(Parsed(first, v).keys, req.keyId)
  BY DEF AnswerFrom
<1>2. v \in Versions(earlier, later, first)
  BY VersionsWiden
<1>3. Versions(since, upto, uri(v)) \subseteq Versions(earlier, later, uri(v))
  <2> HIDE DEF uri
  <2> QED BY VersionsWiden
<1> QED BY <1>1, <1>2, <1>3 DEF AnswerFrom

LEMMA CurrentGrows ==
    ASSUME NEW c \in Callers, NEW k, ServiceInv, DirectoryInv, DirectoryInv',
           seen'[c] = seen[c],
           \A j \in Keys : published[j] <= published'[j]
    PROVE  Current(c, k) \subseteq Versions(seen'[c], published', k)
<1>1. published \in [Keys -> Nat] /\ published' \in [Keys -> Nat] /\ seen[c] \in [Keys -> Nat]
  BY DEF DirectoryInv, DirectoryType, ServiceInv
<1>2. \A j \in Keys : seen[c][j] <= seen[c][j]
  BY <1>1
<1> QED BY <1>1, <1>2, VersionsWiden DEF Current

LEMMA AnswerStays ==
    ASSUME NEW c \in Callers, NEW jwk, ServiceInv, DirectoryInv, DirectoryInv',
           seen'[c] = seen[c], request'[c] = request[c],
           \A j \in Keys : published[j] <= published'[j],
           IsAnswer(c, jwk)
    PROVE  IsAnswer(c, jwk)'
<1>1. published \in [Keys -> Nat] /\ published' \in [Keys -> Nat] /\ seen[c] \in [Keys -> Nat]
  BY DEF DirectoryInv, DirectoryType, ServiceInv
<1>2. AnswerFrom(seen[c], published, request[c], jwk)
  BY DEF IsAnswer
<1>3. \A j \in Keys : seen[c][j] <= seen[c][j]
  BY <1>1
<1>4. AnswerFrom(seen[c], published', request[c], jwk)
  BY <1>1, <1>2, <1>3, AnswerWidens
<1> QED BY <1>4 DEF IsAnswer

(* A caller whose own state does not change keeps its part. *)
LEMMA ChainStays ==
    ASSUME NEW c \in Callers, ServiceInv, DirectoryInv, DirectoryInv', ChainOf(c),
           \A j \in Keys : obtained[j] <= obtained'[j] /\ published[j] <= published'[j],
           phase'[c] = phase[c], request'[c] = request[c], response'[c] = response[c],
           seen'[c] = seen[c], wanted'[c] = wanted[c], floor'[c] = floor[c]
    PROVE  ChainOf(c)'
<1>1. \A k \in Keys : seen'[c][k] <= obtained'[k]
  <2>1. SUFFICES ASSUME NEW k \in Keys PROVE seen'[c][k] <= obtained'[k]
    OBVIOUS
  <2>2. seen[c][k] \in Nat /\ obtained[k] \in Nat /\ obtained'[k] \in Nat
    BY DEF ServiceInv, DirectoryInv, DirectoryType
  <2>3. seen[c][k] <= obtained[k] /\ obtained[k] <= obtained'[k]
    BY DEF ChainOf
  <2> QED BY <2>2, <2>3
<1>2. Reached(c) => Reached(c)'
  <2>1. Current(c, FirstKey(request[c])) \subseteq Current(c, FirstKey(request[c]))'
    <3>1. \A k : Current(c, k) \subseteq Versions(seen'[c], published', k)
      BY CurrentGrows
    <3> QED BY <3>1 DEF Current, FirstKey
  <2> QED BY <2>1 DEF Reached, FirstKey, Parsed
<1>3. Truthful(c) => Truthful(c)'
  BY AnswerStays DEF Truthful, RefusedTestKey
<1> QED BY <1>1, <1>2, <1>3 DEF ChainOf, RefusedTestKey

(* A caller that is sent something true, or nothing, keeps its part. *)
LEMMA ChainReply ==
    ASSUME NEW c \in Callers, NEW what, ServiceInv, ChainInv, Reply(c, what),
           DirectoryInv, DirectoryInv',
           UNCHANGED <<now, request, startedAt, seen, published, obtained, wanted, floor>>,
           \/ what = NoResponse
           \/ what.code # 200 /\ what.jwk = NoKey
           \/ /\ what.identifier =
                   ParseDiscoveryTarget(request[c].url, request[c].discovery).identifier
              /\ \/ RefusedTestKey(request[c]) /\ what.jwk = NoKey
                 \/ ~RefusedTestKey(request[c]) /\ IsAnswer(c, what.jwk)
    PROVE  ChainInv'
<1>0. \A j \in Keys : obtained[j] <= obtained'[j] /\ published[j] <= published'[j]
  BY DEF DirectoryInv, DirectoryType
<1>1. ASSUME NEW d \in Callers, d # c PROVE ChainOf(d)'
  <2>1. phase'[d] = phase[d] /\ response'[d] = response[d]
    BY <1>1 DEF Reply, ServiceInv
  <2> QED BY <1>0, <1>1, <2>1, ChainStays DEF ChainInv
<1>2. ChainOf(c)'
  <2>1. phase'[c] = "done" /\ request'[c] = request[c] /\ seen'[c] = seen[c]
    BY DEF Reply, ServiceInv
  <2>2. response'[c] = what
    BY DEF Reply, ChainInv
  <2>3. \A k \in Keys : seen'[c][k] <= obtained'[k]
    BY DEF ChainInv, ChainOf
  <2>4. CASE what = NoResponse
    BY <2>1, <2>2, <2>3, <2>4 DEF ChainOf
  <2>5. CASE what.code # 200 /\ what.jwk = NoKey
    BY <2>1, <2>2, <2>3, <2>5 DEF ChainOf, Truthful
  <2>6. CASE /\ what.identifier =
                  ParseDiscoveryTarget(request[c].url, request[c].discovery).identifier
             /\ \/ RefusedTestKey(request[c]) /\ what.jwk = NoKey
                \/ ~RefusedTestKey(request[c]) /\ IsAnswer(c, what.jwk)
    <3>1. IsAnswer(c, what.jwk) => IsAnswer(c, what.jwk)'
      BY <1>0, <2>1, AnswerStays
    <3>2. IsAnswer(c, response[c].jwk)' <=> IsAnswer(c, what.jwk)'
      BY <2>2 DEF IsAnswer
    <3>3. Truthful(c)'
      BY <2>1, <2>2, <2>6, <3>1, <3>2 DEF Truthful, RefusedTestKey
    <3>4. response'[c].jwk # NoKey => ~RefusedTestKey(request'[c])
      BY <2>1, <2>2, <2>6
    <3> QED BY <2>1, <2>3, <3>3, <3>4 DEF ChainOf, RefusedTestKey
  <2> QED BY <2>4, <2>5, <2>6
<1>3. response' = [d \in Callers |-> response'[d]]
  BY DEF Reply, ChainInv
<1> QED BY <1>1, <1>2, <1>3 DEF ChainInv

(* A caller that asks for a resource it was led to keeps its part. *)
LEMMA ChainLoad ==
    ASSUME NEW c \in Callers, NEW k \in Keys, NEW x \in {"metadata", "keys"},
           ServiceInv, ChainInv, DirectoryInv, DirectoryInv', Load(c, k, x),
           UNCHANGED <<now, request, startedAt, seen>>,
           ~RefusedTestKey(request[c]),
           \/ k = FirstKey(request[c])
           \/ \E v \in Current(c, FirstKey(request[c])) :
                  /\ Parsed(FirstKey(request[c]), v).form = "uri"
                  /\ k = [url |-> Parsed(FirstKey(request[c]), v).url, kind |-> "jwks"]
    PROVE  ChainInv'
<1>1. /\ UNCHANGED <<published, obtained, response>>
      /\ \A d \in Callers \ {c} : /\ phase'[d] = phase[d] /\ wanted'[d] = wanted[d]
                                  /\ floor'[d] = floor[d]
      /\ wanted'[c] = k /\ floor'[c] = obtained[k] /\ phase'[c] = x
  BY DEF Load, Directory!Request, ServiceInv, DirectoryInv, DirectoryType
<1>0. \A j \in Keys : obtained[j] <= obtained'[j] /\ published[j] <= published'[j]
  BY <1>1 DEF DirectoryInv, DirectoryType
<1>2. ASSUME NEW d \in Callers, d # c PROVE ChainOf(d)'
  BY <1>0, <1>1, <1>2, ChainStays DEF ChainInv
<1>3. ChainOf(c)'
  <2>1. \A j \in Keys : seen'[c][j] <= obtained'[j]
    BY <1>1 DEF ChainInv, ChainOf
  <2>2. Reached(c)'
    BY <1>1 DEF Reached, Current, FirstKey, Parsed
  <2>3. Truthful(c) => Truthful(c)'
    BY <1>0, <1>1, AnswerStays DEF Truthful, RefusedTestKey
  <2>4. ChainOf(c)
    BY DEF ChainInv
  <2> QED BY <1>1, <2>1, <2>2, <2>3, <2>4 DEF ChainOf, RefusedTestKey
<1> QED BY <1>1, <1>2, <1>3 DEF ChainInv

(* What Proceed finds in keys is an answer. *)
LEMMA FoundIsAnswer ==
    ASSUME NEW c \in Callers, ServiceInv, DirectoryInv, ChainOf(c),
           phase[c] \in {"metadata", "keys"}, answer[c] # NoAnswer,
           Parsed(wanted[c], answer[c]).form # "uri"
    PROVE  IsAnswer(c, SelectKey(Parsed(wanted[c], answer[c]).keys, request[c].keyId))
<1> DEFINE resource == Parsed(wanted[c], answer[c])
           first == FirstKey(request[c])
<1>1. wanted[c] \in Keys /\ Parses(wanted[c], answer[c])
  BY DEF DirectoryInv, DirectoryType
<1>2. answer[c] \in Current(c, wanted[c])
  <2>1. answer[c] \in floor[c] .. obtained[wanted[c]] /\ obtained[wanted[c]] <= published[wanted[c]]
    BY <1>1 DEF DirectoryInv, VersionInv
  <2>2. seen[c][wanted[c]] <= floor[c]
    BY DEF ChainOf
  <2>3. /\ floor[c] \in Nat /\ obtained[wanted[c]] \in Nat /\ published[wanted[c]] \in Nat
        /\ seen[c][wanted[c]] \in Nat
    BY <1>1 DEF DirectoryInv, DirectoryType, ServiceInv
  <2> QED BY <1>1, <2>1, <2>2, <2>3 DEF Current, Versions
<1>3. resource.form = "keys"
  BY <1>1 DEF Parses, Parsed, ParseResource, ParseKeys, InvalidResource
<1>4. CASE wanted[c] = first
  BY <1>2, <1>3, <1>4 DEF IsAnswer, AnswerFrom, Current
<1>5. CASE \E v \in Current(c, first) :
              /\ Parsed(first, v).form = "uri"
              /\ wanted[c] = [url |-> Parsed(first, v).url, kind |-> "jwks"]
  BY <1>1, <1>2, <1>5 DEF IsAnswer, AnswerFrom, Current
<1> QED BY <1>4, <1>5 DEF ChainOf, Reached

(* A request that arrives has seen what is obtained by now. *)
LEMMA ChainAccept ==
    ASSUME NEW c \in Callers, NEW req \in Requests, ServiceInv, ChainInv, DirectoryInv,
           DirectoryInv', Accept(c, req)
    PROVE  ChainInv'
<1>1. /\ UNCHANGED <<published, obtained, wanted, floor>>
      /\ \A d \in Callers \ {c} : /\ phase'[d] = phase[d] /\ request'[d] = request[d]
                                  /\ seen'[d] = seen[d] /\ response'[d] = response[d]
      /\ seen'[c] = obtained
      /\ phase'[c] \in {"done", "validate"}
      /\ response' = [d \in Callers |-> response'[d]]
  BY DEF Accept, ServiceInv, directoryVars, ChainInv
<1>2. \A j \in Keys : obtained[j] <= obtained'[j] /\ published[j] <= published'[j]
  BY <1>1 DEF DirectoryInv, DirectoryType
<1>3. ASSUME NEW d \in Callers, d # c PROVE ChainOf(d)'
  BY <1>1, <1>2, <1>3, ChainStays DEF ChainInv
<1>4. response'[c] = NoResponse \/ response'[c] \in {Error(503), Error(422)}
  BY DEF Accept, ChainInv
<1>5. response'[c] # NoResponse => response'[c].code # 200 /\ response'[c].jwk = NoKey
  BY <1>4 DEF Error
<1>6. ChainOf(c)'
  BY <1>1, <1>2, <1>5 DEF ChainOf, Truthful
<1> QED BY <1>1, <1>3, <1>6 DEF ChainInv

LEMMA ChainValidate ==
    ASSUME NEW c \in Callers, ServiceInv, ChainInv, DirectoryInv, DirectoryInv', Validate(c)
    PROVE  ChainInv'
<1> DEFINE req == request[c]
<1>1. UNCHANGED <<now, request, startedAt, seen>> /\ req \in Requests
  BY DEF Validate, ServiceInv, Active
<1>2. CASE ~ValidRequest(req)
  <2>1. Reply(c, Error(400)) /\ UNCHANGED <<published, obtained, wanted, floor>>
    BY <1>2 DEF Validate, directoryVars
  <2>2. Error(400).code # 200 /\ Error(400).jwk = NoKey
    BY DEF Error
  <2> QED BY <1>1, <2>1, <2>2, ChainReply
<1>3. CASE ValidRequest(req) /\ RefusedTestKey(req)
  <2>1. Reply(c, Found(req, NoKey)) /\ UNCHANGED <<published, obtained, wanted, floor>>
    BY <1>3 DEF Validate, directoryVars
  <2>2. /\ Found(req, NoKey).jwk = NoKey
        /\ Found(req, NoKey).identifier = ParseDiscoveryTarget(req.url, req.discovery).identifier
    BY DEF Found
  <2> QED BY <1>1, <1>3, <2>1, <2>2, ChainReply
<1>4. CASE ValidRequest(req) /\ ~RefusedTestKey(req)
  <2>1. \E x \in {"metadata", "keys"} : Load(c, FirstKey(req), x)
    BY <1>4 DEF Validate
  <2>2. FirstKey(req) \in Keys
    BY <1>1, <1>4, ContentAssumption
  <2> QED BY <1>1, <1>4, <2>1, <2>2, ChainLoad
<1> QED BY <1>2, <1>3, <1>4

LEMMA ChainProceed ==
    ASSUME NEW c \in Callers, ServiceInv, ChainInv, DirectoryInv, DirectoryInv', Proceed(c)
    PROVE  ChainInv'
<1> DEFINE resource == Parsed(wanted[c], answer[c])
           next == [url |-> resource.url, kind |-> "jwks"]
           jwk == SelectKey(resource.keys, request[c].keyId)
<1>1. /\ UNCHANGED <<now, request, startedAt, seen>>
      /\ phase[c] \in {"metadata", "keys"}
      /\ ChainOf(c)
  BY DEF Proceed, ChainInv
<1>2. CASE answer[c] = NoAnswer
  <2>1. Reply(c, Error(503)) /\ UNCHANGED <<published, obtained, wanted, floor>>
    BY <1>2 DEF Proceed, directoryVars
  <2>2. Error(503).code # 200 /\ Error(503).jwk = NoKey
    BY DEF Error
  <2> QED BY <1>1, <2>1, <2>2, ChainReply
<1>3. CASE answer[c] # NoAnswer /\ resource.form # "uri"
  <2>1. Reply(c, Found(request[c], jwk)) /\ UNCHANGED <<published, obtained, wanted, floor>>
    BY <1>3 DEF Proceed, directoryVars
  <2>2. /\ Found(request[c], jwk).jwk = jwk
        /\ Found(request[c], jwk).identifier =
             ParseDiscoveryTarget(request[c].url, request[c].discovery).identifier
    BY DEF Found
  <2>3. IsAnswer(c, jwk) /\ ~RefusedTestKey(request[c])
    BY <1>1, <1>3, FoundIsAnswer DEF ChainOf
  <2> HIDE DEF jwk
  <2> QED BY <1>1, <2>1, <2>2, <2>3, ChainReply
<1>4. CASE answer[c] # NoAnswer /\ resource.form = "uri"
  <2>1. Load(c, next, "keys")
    BY <1>4 DEF Proceed
  <2>2. wanted[c] \in Keys /\ answer[c] \in 0 .. Len(Content[wanted[c]]) - 1
    <3>1. wanted[c] \in Keys /\ obtained[wanted[c]] \in Nat /\ floor[c] \in Nat
      BY DEF DirectoryInv, DirectoryType
    <3>2. answer[c] \in floor[c] .. obtained[wanted[c]]
      BY <1>4 DEF DirectoryInv
    <3>3. /\ obtained[wanted[c]] <= published[wanted[c]]
          /\ published[wanted[c]] < Len(Content[wanted[c]])
      BY <3>1 DEF DirectoryInv, VersionInv
    <3>4. published[wanted[c]] \in Nat /\ Len(Content[wanted[c]]) \in Nat
      BY <3>1 DEF DirectoryInv, DirectoryType
    <3> QED BY <3>1, <3>2, <3>3, <3>4
  <2>3. next \in Keys
    BY <1>4, <2>2, ContentAssumption
  <2>4. wanted[c].kind # "jwks"
    BY <1>4, KeySetForm
  <2>5. wanted[c] = FirstKey(request[c])
    <3>1. Reached(c)
      BY <1>1 DEF ChainOf
    <3>2. \A v : [url |-> Parsed(FirstKey(request[c]), v).url, kind |-> "jwks"].kind = "jwks"
      OBVIOUS
    <3> QED BY <2>4, <3>1, <3>2 DEF Reached
  <2>6. answer[c] \in Current(c, wanted[c])
    <3>1. /\ answer[c] \in floor[c] .. obtained[wanted[c]]
          /\ obtained[wanted[c]] <= published[wanted[c]]
      BY <1>4, <2>2 DEF DirectoryInv, VersionInv
    <3>2. seen[c][wanted[c]] <= floor[c]
      BY <1>1 DEF ChainOf
    <3>3. /\ floor[c] \in Nat /\ obtained[wanted[c]] \in Nat
          /\ published[wanted[c]] \in Nat /\ seen[c][wanted[c]] \in Nat
      BY <2>2 DEF DirectoryInv, DirectoryType, ServiceInv
    <3> QED BY <2>2, <3>1, <3>2, <3>3 DEF Current, Versions
  <2>7. ~RefusedTestKey(request[c])
    BY <1>1 DEF ChainOf
  <2> QED BY <1>1, <1>4, <2>1, <2>3, <2>5, <2>6, <2>7, ChainLoad
<1> QED BY <1>2, <1>3, <1>4

LEMMA ChainStep == IInv /\ ChainInv /\ [Next]_vars => ChainInv'
<1> SUFFICES ASSUME IInv, ChainInv, [Next]_vars PROVE ChainInv'
  OBVIOUS
<1>1. ServiceInv /\ DirectoryInv /\ DirectoryInv'
  BY Parts, NextParts, StepInv
<1>2. ASSUME UNCHANGED serviceVars, UNCHANGED <<wanted, floor>>,
             \A j \in Keys : obtained[j] <= obtained'[j] /\ published[j] <= published'[j]
      PROVE  ChainInv'
  <2>1. \A c \in Callers : ChainOf(c)'
    BY <1>1, <1>2, ChainStays DEF ChainInv, serviceVars
  <2> QED BY <1>2, <2>1 DEF ChainInv, serviceVars
<1>3. ASSUME UNCHANGED <<obtained, published>>
      PROVE  \A j \in Keys : obtained[j] <= obtained'[j] /\ published[j] <= published'[j]
  BY <1>1, <1>3 DEF DirectoryInv, DirectoryType
<1>4. ASSUME NEW c \in Callers, LoadEnds(c) PROVE ChainInv'
  <2>1. UNCHANGED serviceVars /\ UNCHANGED <<published, obtained, wanted, floor>>
    BY <1>4 DEF LoadEnds, Directory!Answer
  <2> QED BY <1>2, <1>3, <2>1
<1>5. ASSUME NEW c \in Callers, NEW what \in {Error(503), NoResponse}, Drop(c, what)
      PROVE  ChainInv'
  <2>1. /\ Reply(c, what) /\ UNCHANGED <<published, obtained, wanted, floor>>
        /\ UNCHANGED <<now, request, startedAt, seen>>
    BY <1>5 DEF Drop, Directory!Answer, directoryVars
  <2>2. what = NoResponse \/ (what.code # 200 /\ what.jwk = NoKey)
    BY DEF Error
  <2> QED BY <1>1, <2>1, <2>2, ChainReply
<1>6. ASSUME NEW k \in Keys, OriginUpdate(k) \/ Refresh(k) PROVE ChainInv'
  <2>1. UNCHANGED serviceVars
    BY <1>6 DEF OriginUpdate, Refresh
  <2>2. /\ \A j \in Keys : obtained[j] <= obtained'[j] /\ published[j] <= published'[j]
        /\ UNCHANGED <<wanted, floor>>
    BY <1>1, <1>6, VersionsGrow DEF OriginUpdate, Refresh
  <2> QED BY <1>2, <2>1, <2>2
<1>7. CASE Tick
  BY <1>2, <1>3, <1>7 DEF Tick, directoryVars
<1>8. CASE UNCHANGED vars
  BY <1>2, <1>3, <1>8 DEF vars, directoryVars
<1> QED BY <1>1, <1>4, <1>5, <1>6, <1>7, <1>8, ChainAccept, ChainValidate, ChainProceed
        DEF Next, CallerStep, DeadlineExpires, Disconnect

LEMMA ChainStart == Init => ChainInv
<1> SUFFICES ASSUME Init PROVE ChainInv
  OBVIOUS
<1>1. ASSUME NEW c \in Callers PROVE ChainOf(c)
  <2>1. /\ phase[c] = "idle" /\ response[c] = NoResponse
        /\ \A k \in Keys : seen[c][k] = 0 /\ obtained[k] = 0
    BY DEF Init, Directory!Init
  <2> QED BY <2>1 DEF ChainOf
<1>2. response = [c \in Callers |-> response[c]]
  BY DEF Init
<1> QED BY <1>1, <1>2 DEF ChainInv

LEMMA ChainHolds == Spec => []ChainInv
  BY ChainStart, ChainStep, Invariant, PTL DEF Spec

(* Every 200 is the truth about documents the origins have published, none *)
(* older than what the resolver knew when the request arrived, for any     *)
(* documents and any interleaving of refreshes with the one or two loads   *)
(* of load_keys (service.rs:102).                                          *)
THEOREM AnswersAreAuthoritative == Spec => []AnswerIsAuthoritative
<1>1. ChainInv => AnswerIsAuthoritative
  BY DEF ChainInv, ChainOf, Truthful, AnswerIsAuthoritative
<1> QED BY <1>1, ChainHolds, PTL

(* Unless --allow-test-keys is set no answer makes a known test key        *)
(* usable, under whatever kid a key set lists it (architecture.md:34): the *)
(* module accepts a key only if its thumbprint is the key id it asked for  *)
(* (verify.rs:78).                                                         *)
TestKeysNeverUsable ==
    ~AllowTestKeys =>
        \A c \in Callers :
            response[c] # NoResponse =>
                (response[c].jwk # NoKey =>
                    ~ /\ Thumbprint[response[c].jwk] = request[c].keyId
                      /\ Thumbprint[response[c].jwk] \in TestKeys)

(* Without --allow-test-keys no answer makes a known test key usable by    *)
(* the module (service.rs:84), whatever the documents call their keys.     *)
THEOREM TestKeysStayUnusable == Spec => []TestKeysNeverUsable
<1>1. ChainInv => TestKeysNeverUsable
  BY DEF ChainInv, ChainOf, TestKeysNeverUsable, RefusedTestKey
<1> QED BY <1>1, ChainHolds, PTL
============================================================================
