--------------------------- MODULE EndToEndProofs ---------------------------
(***************************************************************************)
(* Proofs about EndToEnd, from what is proved of the filter and of the     *)
(* service alone: every step of the system is a step of each of the two,   *)
(* or changes nothing of it.                                               *)
(***************************************************************************)
EXTENDS EndToEnd, FilterProofs

(* The theorems about the service, for the service of this system. *)
Proved == INSTANCE ResolverServiceProofs WITH Requests <- Asks, now <- uptime, request <- asked

LEMMA SamePaths ==
    ASSUME NEW path
    PROVE  /\ Service!NormalizePath(path) = Proved!NormalizePath(path)
           /\ Service!ParsedPath(path) = Proved!ParsedPath(path)
           /\ Service!NormalizePath(path) = NormalizePath(path)
           /\ Service!ParsedPath(path) = ParsedPath(path)
  BY DEF Service!NormalizePath, Proved!NormalizePath, NormalizePath,
         Service!ParsedPath, Proved!ParsedPath, ParsedPath,
         Service!RemoveDotSegments, Proved!RemoveDotSegments, RemoveDotSegments,
         Service!NormalizePercentEncoding, Proved!NormalizePercentEncoding, NormalizePercentEncoding,
         Service!FoldLeft, Proved!FoldLeft, FoldLeft,
         Service!MapThenFoldSet, Proved!MapThenFoldSet, MapThenFoldSet,
         Service!Front, Proved!Front, Front, Service!Last, Proved!Last, Last,
         Service!Max, Proved!Max, Max

LEMMA SameTargets ==
    ASSUME NEW url, NEW discovery
    PROVE  /\ Service!ParseDiscoveryTarget(url, discovery) = Proved!ParseDiscoveryTarget(url, discovery)
           /\ Service!ParseDiscoveryTarget(url, discovery) = ParseDiscoveryTarget(url, discovery)
           /\ Service!FetchUrl(url, discovery) = Proved!FetchUrl(url, discovery)
  BY SamePaths
     DEF Service!ParseDiscoveryTarget, Proved!ParseDiscoveryTarget, ParseDiscoveryTarget,
         Service!FetchUrl, Proved!FetchUrl, Service!WellKnown, Proved!WellKnown, WellKnown

LEMMA SameRequests ==
    ASSUME NEW req, NEW jwk
    PROVE  /\ Service!ValidRequest(req) <=> Proved!ValidRequest(req)
           /\ Service!RefusedTestKey(req) <=> Proved!RefusedTestKey(req)
           /\ Service!FirstKey(req) = Proved!FirstKey(req)
           /\ Service!Found(req, jwk) = Proved!Found(req, jwk)
  BY SameTargets
     DEF Service!ValidRequest, Proved!ValidRequest, Service!RefusedTestKey, Proved!RefusedTestKey,
         Service!FirstKey, Proved!FirstKey, Service!Found, Proved!Found

LEMMA SameDocuments ==
    ASSUME NEW k, NEW v, NEW keys, NEW id
    PROVE  /\ Service!Parsed(k, v) = Proved!Parsed(k, v)
           /\ Service!Parses(k, v) <=> Proved!Parses(k, v)
           /\ Service!SelectKey(keys, id) = Proved!SelectKey(keys, id)
  BY SameTargets
     DEF Service!Parsed, Proved!Parsed, Service!Parses, Proved!Parses,
         Service!SelectKey, Proved!SelectKey, Service!InvalidResource, Proved!InvalidResource,
         Service!ParseResource, Proved!ParseResource, Service!ParseKeys, Proved!ParseKeys,
         Service!IsDirectoryUrl, Proved!IsDirectoryUrl, Service!WellKnown, Proved!WellKnown,
         Service!IsEd25519, Proved!IsEd25519, Service!BadKey, Proved!BadKey

LEMMA SameAnswers ==
    ASSUME NEW since, NEW upto, NEW req, NEW jwk
    PROVE  Service!AnswerFrom(since, upto, req, jwk) <=> Proved!AnswerFrom(since, upto, req, jwk)
<1>1. Service!FirstKey(req) = Proved!FirstKey(req)
  BY SameRequests
<1>2. \A k : Service!Versions(since, upto, k) = Proved!Versions(since, upto, k)
  BY DEF Service!Versions, Proved!Versions, Service!Keys, Proved!Keys
<1>3. \A k, v : Service!Parsed(k, v) = Proved!Parsed(k, v)
  BY SameDocuments
<1>4. \A k, v : Service!Parses(k, v) <=> Proved!Parses(k, v)
  BY SameDocuments
<1>5. \A keys : Service!SelectKey(keys, req.keyId) = Proved!SelectKey(keys, req.keyId)
  BY SameDocuments
<1> QED BY <1>1, <1>2, <1>3, <1>4, <1>5 DEF Service!AnswerFrom, Proved!AnswerFrom

LEMMA SameDirectory ==
    /\ Service!Directory!Init <=> Proved!Directory!Init
    /\ \A c, k : Service!Directory!Request(c, k) <=> Proved!Directory!Request(c, k)
    /\ \A S, a : Service!Directory!Answer(S, a) <=> Proved!Directory!Answer(S, a)
    /\ \A c : Service!Directory!Acceptable(c) = Proved!Directory!Acceptable(c)
    /\ \A k : Service!Directory!Publish(k) <=> Proved!Directory!Publish(k)
    /\ \A k, v : Service!Directory!Obtain(k, v) <=> Proved!Directory!Obtain(k, v)
  BY DEF Service!Directory!Init, Proved!Directory!Init, Service!Keys, Proved!Keys,
         Service!Directory!Request, Proved!Directory!Request,
         Service!Directory!Answer, Proved!Directory!Answer,
         Service!Directory!Acceptable, Proved!Directory!Acceptable,
         Service!Directory!Publish, Proved!Directory!Publish,
         Service!Directory!Obtain, Proved!Directory!Obtain,
         Service!Directory!loadVars, Proved!Directory!loadVars

(* Each step of the service. *)
LEMMA SameSteps ==
    ASSUME NEW c, NEW req, NEW k
    PROVE  /\ Service!Accept(c, req) => Proved!Accept(c, req)
           /\ Service!Validate(c) => Proved!Validate(c)
           /\ Service!LoadEnds(c) => Proved!LoadEnds(c)
           /\ Service!Proceed(c) => Proved!Proceed(c)
           /\ Service!DeadlineExpires(c) => Proved!DeadlineExpires(c)
           /\ Service!Disconnect(c) => Proved!Disconnect(c)
           /\ Service!OriginUpdate(k) => Proved!OriginUpdate(k)
           /\ Service!Refresh(k) => Proved!Refresh(k)
           /\ Service!Tick => Proved!Tick
<1> USE SameDirectory
        DEF Service!directoryVars, Proved!directoryVars, Service!serviceVars, Proved!serviceVars,
            Service!Error, Proved!Error, Service!Reply, Proved!Reply, Service!Load, Proved!Load,
            Service!Active, Proved!Active, Service!Deadline, Proved!Deadline,
            Service!Drop, Proved!Drop
<1>1. Service!Accept(c, req) => Proved!Accept(c, req)
  BY DEF Service!Accept, Proved!Accept
<1>2. Service!Validate(c) => Proved!Validate(c)
  BY SameRequests DEF Service!Validate, Proved!Validate
<1>3. Service!LoadEnds(c) => Proved!LoadEnds(c)
  BY SameDocuments DEF Service!LoadEnds, Proved!LoadEnds
<1>4. Service!Proceed(c) => Proved!Proceed(c)
  BY SameRequests, SameDocuments DEF Service!Proceed, Proved!Proceed
<1>5. Service!DeadlineExpires(c) => Proved!DeadlineExpires(c)
  BY DEF Service!DeadlineExpires, Proved!DeadlineExpires
<1>6. Service!Disconnect(c) => Proved!Disconnect(c)
  BY DEF Service!Disconnect, Proved!Disconnect
<1>7. Service!OriginUpdate(k) => Proved!OriginUpdate(k)
  BY DEF Service!OriginUpdate, Proved!OriginUpdate
<1>8. Service!Refresh(k) => Proved!Refresh(k)
  BY SameDocuments DEF Service!Refresh, Proved!Refresh
<1>9. Service!Tick => Proved!Tick
  BY DEF Service!Tick, Proved!Tick
<1> QED BY <1>1, <1>2, <1>3, <1>4, <1>5, <1>6, <1>7, <1>8, <1>9

---------------------------------------------------------------------------
(* The filter's part: its invariant needs nothing of the resolver. *)

LEMMA StreamStep == [SystemNext]_systemVars => [AnyStep]_vars
  BY DEF SystemNext, HeadersArrive, StreamAlone, AskArrives, AnswerArrives, ResolverAlone,
         systemVars, streamVars, AnyStep

LEMMA ProofInvStep == ProofInv /\ [AnyStep]_vars => ProofInv'
  BY FilterInvPreserved, UndecidedPreserved, PendingBackedPreserved, VerifiedPreserved DEF ProofInv

LEMMA StreamHolds == System => []ProofInv
<1>1. SystemInit => ProofInv
  BY ProofInvInitial DEF SystemInit
<1> QED BY <1>1, StreamStep, ProofInvStep, PTL DEF System

---------------------------------------------------------------------------
(* The service's part: what the module sends is a request like any other.  *)

LEMMA PendingIsAsk ==
    ASSUME ProofInv, pending # NoPending
    PROVE  Ask(pending.candidate) \in Asks
<1>1. /\ request \in Requests /\ pending.since \in 0..MaxTime
      /\ pending.candidate = ParseCandidate(request.inputs, request.agent, pending.since)
      /\ pending.candidate.error = "none"
  BY DEF ProofInv, FilterInv, TypeOK, PendingBacked
<1>2. pending.candidate \in Candidates
  BY <1>1 DEF Candidates
<1> QED BY <1>1, <1>2 DEF Asks

LEMMA ResolverSteps ==
    ASSUME ResolverAlone
    PROVE  \/ \E c \in Callers :
                 \/ Proved!Validate(c) \/ Proved!LoadEnds(c) \/ Proved!Proceed(c)
                 \/ Proved!DeadlineExpires(c) \/ Proved!Disconnect(c)
           \/ \E c \in Callers \ {Mine}, ask \in Asks : Proved!Accept(c, ask)
           \/ \E k \in Proved!Keys : Proved!OriginUpdate(k) \/ Proved!Refresh(k)
           \/ Proved!Tick
  BY SameSteps DEF ResolverAlone, Service!Keys, Proved!Keys

LEMMA ServiceStep ==
    ProofInv /\ [SystemNext]_systemVars => [Proved!Next]_(Proved!vars)
<1> SUFFICES ASSUME ProofInv, [SystemNext]_systemVars PROVE [Proved!Next]_(Proved!vars)
  OBVIOUS
<1>1. UNCHANGED resolverVars => UNCHANGED Proved!vars
  BY DEF resolverVars, Proved!vars, Proved!serviceVars, Proved!directoryVars
<1>2. CASE AskArrives
  <2>1. Proved!Accept(Mine, Ask(pending.candidate)) /\ Ask(pending.candidate) \in Asks
    BY <1>2, PendingIsAsk, SameSteps DEF AskArrives
  <2> QED BY <2>1, EndToEndAssumption DEF Proved!Next, Proved!CallerStep
<1>3. CASE ResolverAlone
  BY <1>3, ResolverSteps DEF Proved!Next, Proved!CallerStep
<1>4. CASE UNCHANGED resolverVars
  BY <1>1, <1>4
<1> QED BY <1>2, <1>3, <1>4
        DEF SystemNext, HeadersArrive, StreamAlone, AnswerArrives, systemVars

LEMMA ServiceInitial == SystemInit => Proved!Init
  BY DEF SystemInit, Service!Init, Proved!Init, Service!Directory!Init, Proved!Directory!Init,
         Service!Keys, Proved!Keys

LEMMA ServiceRuns == System => Proved!Spec
  BY ServiceInitial, ServiceStep, StreamHolds, PTL DEF System, Proved!Spec

LEMMA ServiceAssumptions == Proved!ServiceAssumption /\ Proved!ContentAssumption
<1>1. Proved!ServiceAssumption
  BY EndToEndAssumption DEF Service!ServiceAssumption, Proved!ServiceAssumption, Service!Keys, Proved!Keys,
                            Service!IsFiniteSet, Proved!IsFiniteSet
<1>2. Proved!ContentAssumption
  BY EndToEndAssumption, SameRequests, SameDocuments
     DEF Service!ContentAssumption, Proved!ContentAssumption, Service!Keys, Proved!Keys
<1> QED BY <1>1, <1>2

LEMMA ServiceHolds ==
    System => [](Proved!IInv /\ Proved!ChainInv /\ Proved!TestKeysNeverUsable)
<1>1. Proved!Spec => []Proved!IInv
  BY Proved!Invariant, ServiceAssumptions, PTL DEF Proved!ServiceAssumption, Proved!ContentAssumption
<1>2. Proved!Spec => []Proved!ChainInv
  BY Proved!ChainHolds, ServiceAssumptions, PTL DEF Proved!ServiceAssumption, Proved!ContentAssumption
<1>3. Proved!Spec => []Proved!TestKeysNeverUsable
  BY Proved!TestKeysStayUnusable, ServiceAssumptions, PTL DEF Proved!ServiceAssumption, Proved!ContentAssumption
<1> QED BY <1>1, <1>2, <1>3, ServiceRuns, PTL

---------------------------------------------------------------------------
(* The two parts together. *)

ServiceInvs == Proved!IInv /\ Proved!ChainInv /\ Proved!TestKeysNeverUsable

(* The service answers the question of the pending candidate, with what it *)
(* knew after the headers had arrived.                                     *)
Correlated ==
    /\ known \in [Proved!Keys -> Nat]
    /\ \A k \in Proved!Keys : known[k] <= obtained[k]
    /\ stage = "new" => phase[Mine] = "idle"
    /\ response[Mine] # NoResponse => phase[Mine] # "idle"
    /\ pending # NoPending /\ phase[Mine] # "idle" =>
           /\ asked[Mine] = Ask(pending.candidate)
           /\ \A k \in Proved!Keys : known[k] <= seen[Mine][k]

LEMMA ServiceTypesHere ==
    ASSUME ServiceInvs
    PROVE  /\ published \in [Proved!Keys -> Nat]
           /\ obtained \in [Proved!Keys -> Nat]
           /\ seen \in [Callers -> [Proved!Keys -> Nat]]
           /\ phase \in [Callers -> {"idle", "validate", "metadata", "keys", "done"}]
           /\ asked \in [Callers -> Asks \cup {NoRequest}]
           /\ response = [c \in Callers |-> response[c]]
           /\ \A c \in Callers : Proved!Active(c) => asked[c] \in Asks
  BY DEF ServiceInvs, Proved!IInv, Proved!TypeOK, Proved!ChainInv, Proved!LoadOf

LEMMA VersionsOnlyGrow ==
    ASSUME ServiceInvs, [Proved!Next]_(Proved!vars)
    PROVE  \A k \in Proved!Keys : obtained[k] <= obtained'[k] /\ published[k] <= published'[k]
<1>1. ASSUME UNCHANGED <<published, obtained>>
      PROVE  \A k \in Proved!Keys : obtained[k] <= obtained'[k] /\ published[k] <= published'[k]
  BY <1>1, ServiceTypesHere
<1>2. ASSUME NEW k \in Proved!Keys, Proved!OriginUpdate(k) \/ Proved!Refresh(k)
      PROVE  \A j \in Proved!Keys : obtained[j] <= obtained'[j] /\ published[j] <= published'[j]
  <2>1. Proved!DirectoryInv
    BY ServiceAssumptions, Proved!DirectoryOf DEF ServiceInvs
  <2>2. \/ published[k] + 1 < Len(Content[k]) /\ Proved!Directory!Publish(k)
        \/ \E v \in obtained[k] .. published[k] : Proved!Directory!Obtain(k, v)
    BY <1>2 DEF Proved!OriginUpdate, Proved!Refresh
  <2> QED BY <2>1, <2>2, ServiceAssumptions, Proved!VersionsGrow
<1>3. ASSUME NEW c \in Callers, Proved!CallerStep(c)
      PROVE  UNCHANGED <<published, obtained>>
  BY <1>3 DEF Proved!CallerStep, Proved!Accept, Proved!Validate, Proved!LoadEnds, Proved!Proceed,
              Proved!DeadlineExpires, Proved!Disconnect, Proved!Drop, Proved!Load,
              Proved!Directory!Request, Proved!Directory!Answer, Proved!directoryVars
<1>4. CASE Proved!Tick \/ UNCHANGED Proved!vars
  BY <1>1, <1>4 DEF Proved!Tick, Proved!vars, Proved!directoryVars
<1> QED BY <1>1, <1>2, <1>3, <1>4 DEF Proved!Next

(* The resolver alone neither asks nor forgets the question of the stream. *)
LEMMA MineStays ==
    ASSUME ServiceInvs, ResolverAlone
    PROVE  /\ asked'[Mine] = asked[Mine]
           /\ seen'[Mine] = seen[Mine]
           /\ phase'[Mine] = "idle" <=> phase[Mine] = "idle"
           /\ phase[Mine] = "idle" => response'[Mine] = response[Mine]
<1> DEFINE Stays == /\ asked'[Mine] = asked[Mine]
                    /\ seen'[Mine] = seen[Mine]
                    /\ phase'[Mine] = "idle" <=> phase[Mine] = "idle"
                    /\ phase[Mine] = "idle" => response'[Mine] = response[Mine]
<1>1. /\ Mine \in Callers
      /\ phase \in [Callers -> {"idle", "validate", "metadata", "keys", "done"}]
      /\ response = [c \in Callers |-> response[c]]
      /\ asked \in [Callers -> Asks \cup {NoRequest}]
      /\ seen \in [Callers -> [Proved!Keys -> Nat]]
  BY ServiceTypesHere, EndToEndAssumption
<1>2. ASSUME NEW c \in Callers, NEW what, Proved!Reply(c, what), phase[c] # "idle",
             UNCHANGED <<asked, seen>>
      PROVE  Stays
  BY <1>1, <1>2 DEF Proved!Reply
<1>3. ASSUME NEW c \in Callers, NEW key, NEW x \in {"metadata", "keys"}, Proved!Load(c, key, x),
             phase[c] # "idle", UNCHANGED <<asked, seen>>
      PROVE  Stays
  BY <1>1, <1>3 DEF Proved!Load
<1>4. ASSUME NEW c \in Callers, Proved!Validate(c) PROVE Stays
  BY <1>2, <1>3, <1>4 DEF Proved!Validate
<1>5. ASSUME NEW c \in Callers, Proved!Proceed(c) PROVE Stays
  BY <1>2, <1>3, <1>5 DEF Proved!Proceed
<1>6. ASSUME NEW c \in Callers, NEW what, Proved!Drop(c, what) PROVE Stays
  BY <1>2, <1>6 DEF Proved!Drop, Proved!Active
<1>7. ASSUME NEW c \in Callers \ {Mine}, NEW ask \in Asks, Proved!Accept(c, ask) PROVE Stays
  <2>1. /\ asked'[Mine] = asked[Mine] /\ seen'[Mine] = seen[Mine]
        /\ phase'[Mine] = phase[Mine] /\ response'[Mine] = response[Mine]
    BY <1>1, <1>7 DEF Proved!Accept
  <2> QED BY <2>1
<1>8. ASSUME UNCHANGED Proved!serviceVars PROVE Stays
  BY <1>8 DEF Proved!serviceVars
<1> QED
  BY <1>4, <1>5, <1>6, <1>7, <1>8, ResolverSteps
     DEF Proved!LoadEnds, Proved!DeadlineExpires, Proved!Disconnect, Proved!OriginUpdate,
         Proved!Refresh, Proved!Tick

(* Every request of the module is valid for the resolver. *)
LEMMA AsksAreValid ==
    ASSUME NEW ask \in Asks
    PROVE  /\ Proved!ValidRequest(ask)
           /\ ask.decodable
<1>1. PICK r \in Requests, t \in 0..MaxTime :
         LET candidate == ParseCandidate(r.inputs, r.agent, t)
         IN  candidate.error = "none" /\ ask = Ask(candidate)
  BY DEF Asks, Candidates
<1> DEFINE candidate == ParseCandidate(r.inputs, r.agent, t)
<1>2. /\ ParseDiscoveryTarget(candidate.url, candidate.discovery).error = "none"
      /\ candidate.keyId \notin {"empty", "too_long"}
  BY <1>1, CandidateIsValid, RequestsAssumption
<1>3. /\ ask.url = candidate.url /\ ask.discovery = candidate.discovery
      /\ ask.keyId = candidate.keyId /\ ask.decodable
  BY <1>1 DEF Ask
<1>4. Proved!ParseDiscoveryTarget(ask.url, ask.discovery).error = "none"
  BY <1>2, <1>3, SameTargets
<1> QED BY <1>2, <1>3, <1>4 DEF Proved!ValidRequest

NoneBad == \A c \in Callers : response[c] # NoResponse => response[c].code # 400

LEMMA NoneBadStep ==
    ASSUME ServiceInvs, NoneBad, [Proved!Next]_(Proved!vars)
    PROVE  NoneBad'
<1> USE DEF NoneBad
<1>1. response = [c \in Callers |-> response[c]]
  BY ServiceTypesHere
<1>2. ASSUME NEW c \in Callers, NEW what, response' = [response EXCEPT ![c] = what],
             what # NoResponse => what.code # 400
      PROVE  NoneBad'
  <2>1. \A d \in Callers : response'[d] = IF d = c THEN what ELSE response[d]
    BY <1>1, <1>2
  <2> QED BY <1>2, <2>1
<1>3. ASSUME UNCHANGED response PROVE NoneBad'
  BY <1>3
<1>4. \A code : Proved!Error(code).code = code
  BY DEF Proved!Error
<1>5. \A req, jwk : Proved!Found(req, jwk).code = 200
  BY DEF Proved!Found
<1>6. ASSUME NEW c \in Callers, NEW ask \in Asks, Proved!Accept(c, ask) PROVE NoneBad'
  <2>1. CASE handlers = 0
    BY <1>2, <1>4, <1>6, <2>1, AsksAreValid DEF Proved!Accept
  <2>2. CASE handlers # 0
    BY <1>2, <1>6, <2>2, AsksAreValid DEF Proved!Accept
  <2> QED BY <2>1, <2>2
<1>7. ASSUME NEW c \in Callers, Proved!Validate(c) PROVE NoneBad'
  <2>1. asked[c] \in Asks
    BY <1>7, ServiceTypesHere DEF Proved!Validate, Proved!Active
  <2>2. \/ Proved!Reply(c, Proved!Found(asked[c], NoKey))
        \/ UNCHANGED response
    BY <1>7, <2>1, AsksAreValid DEF Proved!Validate, Proved!Load
  <2> QED BY <1>2, <1>3, <1>5, <2>2 DEF Proved!Reply
<1>8. ASSUME NEW c \in Callers, Proved!Proceed(c) PROVE NoneBad'
  <2>1. \/ Proved!Reply(c, Proved!Error(503))
        \/ \E jwk : Proved!Reply(c, Proved!Found(asked[c], jwk))
        \/ UNCHANGED response
    BY <1>8 DEF Proved!Proceed, Proved!Load
  <2> QED BY <1>2, <1>3, <1>4, <1>5, <2>1 DEF Proved!Reply
<1>9. ASSUME NEW c \in Callers, Proved!DeadlineExpires(c) \/ Proved!Disconnect(c) PROVE NoneBad'
  <2>1. Proved!Reply(c, Proved!Error(503)) \/ Proved!Reply(c, NoResponse)
    BY <1>9 DEF Proved!DeadlineExpires, Proved!Disconnect, Proved!Drop
  <2> QED BY <1>2, <1>4, <2>1 DEF Proved!Reply
<1>10. ASSUME NEW c \in Callers, Proved!CallerStep(c) PROVE NoneBad'
  <2>1. CASE Proved!LoadEnds(c)
    BY <1>3, <2>1 DEF Proved!LoadEnds, Proved!serviceVars
  <2> QED BY <1>6, <1>7, <1>8, <1>9, <1>10, <2>1 DEF Proved!CallerStep
<1>11. ASSUME NEW k, Proved!OriginUpdate(k) \/ Proved!Refresh(k) PROVE NoneBad'
  BY <1>3, <1>11 DEF Proved!OriginUpdate, Proved!Refresh, Proved!serviceVars
<1>12. CASE Proved!Tick \/ UNCHANGED Proved!vars
  BY <1>3, <1>12 DEF Proved!Tick, Proved!vars, Proved!serviceVars
<1> QED BY <1>10, <1>11, <1>12 DEF Proved!Next

LEMMA CorrelatedInitial == SystemInit => Correlated
<1> SUFFICES ASSUME SystemInit PROVE Correlated
  OBVIOUS
<1>1. /\ pending = NoPending /\ phase[Mine] = "idle" /\ response[Mine] = NoResponse
      /\ known = [k \in Proved!Keys |-> 0] /\ obtained = [k \in Proved!Keys |-> 0]
  BY EndToEndAssumption DEF SystemInit, Init, Service!Init, Service!Directory!Init,
                            Service!Keys, Proved!Keys
<1> QED BY <1>1 DEF Correlated

(* A step of the filter after the headers ends the pending verification or *)
(* leaves it as it is.                                                     *)
LEMMA PendingOnlyEnds ==
    ASSUME CalloutTimesOut \/ Reset \/ Tick \/ \E id, reply : OnHttpCalloutDone(id, reply)
    PROVE  /\ pending' = NoPending \/ pending' = pending
           /\ stage' = "new" => stage = "new"
           /\ request' = request
<1>1. ASSUME NEW id, NEW reply, OnHttpCalloutDone(id, reply)
      PROVE  /\ pending' = NoPending \/ pending' = pending
             /\ stage' # "new"
             /\ request' = request
  BY <1>1 DEF OnHttpCalloutDone, ApplyResult
<1> QED BY <1>1 DEF CalloutTimesOut, Reset, Tick

LEMMA CorrelatedStep ==
    ASSUME ProofInv, ServiceInvs, ServiceInvs', Correlated, [SystemNext]_systemVars,
           [Proved!Next]_(Proved!vars)
    PROVE  Correlated'
<1> DEFINE K == Proved!Keys
<1>0. /\ known \in [K -> Nat] /\ obtained \in [K -> Nat] /\ obtained' \in [K -> Nat]
      /\ seen \in [Callers -> [K -> Nat]] /\ Mine \in Callers
      /\ \A k \in K : known[k] <= obtained[k] /\ obtained[k] <= obtained'[k]
  <2>1. (obtained \in [K -> Nat])'
    BY DEF ServiceInvs, Proved!IInv, Proved!TypeOK, Proved!Keys
  <2> QED BY <2>1, ServiceTypesHere, VersionsOnlyGrow, EndToEndAssumption DEF Correlated, Proved!Keys
<1>1. \A k \in K : known[k] <= obtained'[k]
  <2>1. SUFFICES ASSUME NEW k \in K PROVE known[k] <= obtained'[k]
    OBVIOUS
  <2>2. known[k] \in Nat /\ obtained[k] \in Nat /\ obtained'[k] \in Nat
    BY <1>0
  <2> QED BY <1>0, <2>2
<1>2. ASSUME NEW r \in Requests, HeadersArrive(r) PROVE Correlated'
  <2>1. stage = "new" /\ stage' # "new" /\ known' = obtained /\ UNCHANGED resolverVars
    BY <1>2 DEF HeadersArrive, OnRequestHeaders, ApplyResult
  <2>2. phase'[Mine] = "idle" /\ response'[Mine] = NoResponse /\ obtained' = obtained
    BY <2>1 DEF Correlated, resolverVars
  <2> QED BY <1>0, <2>1, <2>2 DEF Correlated, Proved!Keys
<1>3. ASSUME UNCHANGED <<known, resolverVars>>,
             CalloutTimesOut \/ Reset \/ Tick \/ \E id, reply : OnHttpCalloutDone(id, reply)
      PROVE  Correlated'
  BY <1>3, PendingOnlyEnds DEF Correlated, resolverVars, Proved!Keys
<1>4. CASE AskArrives
  <2>1. /\ pending # NoPending /\ stage # "new" /\ UNCHANGED streamVars
        /\ Proved!Accept(Mine, Ask(pending.candidate))
    BY <1>4, SameSteps DEF AskArrives, ProofInv, FilterInv, HeldIffPending
  <2>2. /\ asked'[Mine] = Ask(pending.candidate)
        /\ seen'[Mine] = obtained
        /\ phase'[Mine] # "idle"
    BY <1>0, <2>1, ServiceTypesHere DEF Proved!Accept
  <2>3. known' = known /\ pending' = pending /\ stage' = stage
    BY <2>1 DEF streamVars, vars
  <2> QED BY <1>0, <1>1, <2>1, <2>2, <2>3 DEF Correlated, Proved!Keys
<1>5. CASE ResolverAlone
  <2>1. known' = known /\ pending' = pending /\ stage' = stage
    BY <1>5 DEF ResolverAlone, streamVars, vars
  <2> QED BY <1>0, <1>1, <1>5, <2>1, MineStays DEF Correlated, Proved!Keys
<1>6. CASE UNCHANGED systemVars
  BY <1>6 DEF systemVars, streamVars, resolverVars, vars, Correlated, Proved!Keys
<1>7. CASE StreamAlone
  BY <1>3, <1>7 DEF StreamAlone
<1>8. ASSUME NEW id, NEW c, AnswerArrives(id, c) PROVE Correlated'
  BY <1>3, <1>8 DEF AnswerArrives
<1> QED BY <1>2, <1>4, <1>5, <1>6, <1>7, <1>8 DEF SystemNext

---------------------------------------------------------------------------
(* A verified request. *)

(* A request is verified by the resolver's answer to its own question. *)
LEMMA VerifiedByAnswer ==
    ASSUME ProofInv, Correlated, SystemNext,
           metadata.status # "verified", metadata'.status = "verified"
    PROVE  /\ pending # NoPending
           /\ metadata'.keyId = pending.candidate.keyId
           /\ Thumbprint[pending.candidate.signer] = pending.candidate.keyId
           /\ UNCHANGED <<request, known, resolverVars>>
           /\ response[Mine] # NoResponse
           /\ response[Mine].code = 200
           /\ response[Mine].jwk = pending.candidate.signer
           /\ response[Mine].jwk # NoKey
           /\ asked[Mine] = Ask(pending.candidate)
           /\ \A k \in Proved!Keys : known[k] <= seen[Mine][k]
<1>1. AnyStep
  <2>1. ~UNCHANGED vars
    BY DEF vars
  <2> QED BY <2>1, StreamStep
<1>2. /\ pending # NoPending /\ request' = request
      /\ metadata'.keyId = pending.candidate.keyId
      /\ Thumbprint[pending.candidate.signer] = pending.candidate.keyId
  BY <1>1, VerifiedByCallout
<1>3. ASSUME NEW id, NEW reply, OnHttpCalloutDone(id, reply)
      PROVE  /\ id = pending.calloutId
             /\ reply.kind \notin {"failed", "garbled", "key_not_found"}
             /\ reply.jwk = pending.candidate.signer
  <2>1. /\ id = pending.calloutId
        /\ VerifyResolverResponse(pending.candidate, reply).status = "verified"
    BY <1>2, <1>3 DEF OnHttpCalloutDone, ApplyResult, Unverified, Result
  <2> QED BY <2>1, VerifiedResponse
<1>4. Failed.kind = "failed"
  BY DEF Failed
<1>5. \E id \in CalloutIds, c \in Callers : AnswerArrives(id, c)
  <2>1. ASSUME NEW r \in Requests, HeadersArrive(r) PROVE FALSE
    BY <1>2, <2>1 DEF HeadersArrive, OnRequestHeaders, ProofInv, FilterInv, HeldIffPending
  <2>2. ASSUME StreamAlone PROVE FALSE
    BY <1>3, <1>4, <2>2 DEF StreamAlone, CalloutTimesOut, Reset, Tick
  <2>3. ~AskArrives /\ ~ResolverAlone
    BY DEF AskArrives, ResolverAlone, streamVars, vars
  <2> QED BY <2>1, <2>2, <2>3 DEF SystemNext
<1>6. PICK id \in CalloutIds, c \in Callers : AnswerArrives(id, c)
  BY <1>5
<1>7. id = pending.calloutId /\ c = Mine
  BY <1>2, <1>3, <1>6 DEF AnswerArrives
<1>8. /\ Outcome(response[Mine]).kind \notin {"failed", "key_not_found"}
      /\ Outcome(response[Mine]).jwk = pending.candidate.signer
      /\ response[Mine] # NoResponse
      /\ UNCHANGED <<known, resolverVars>>
  BY <1>3, <1>6, <1>7 DEF AnswerArrives
<1>9. /\ response[Mine].code = 200 /\ response[Mine].jwk # NoKey
      /\ response[Mine].jwk = pending.candidate.signer
  BY <1>4, <1>8 DEF Outcome
<1> QED BY <1>2, <1>8, <1>9 DEF Correlated

(* Nothing that is said of a verified request changes afterwards. *)
LEMMA VerifiedStays ==
    ASSUME ProofInv, [SystemNext]_systemVars, metadata.status = "verified"
    PROVE  UNCHANGED <<metadata, request, known>>
<1>1. stage \notin {"new", "held"} /\ pending = NoPending
  BY DEF ProofInv, Undecided, NoMetadata, Absent, FilterInv, HeldIffPending
<1>2. CASE StreamAlone
  BY <1>1, <1>2 DEF StreamAlone, CalloutTimesOut, Reset, Tick, OnHttpCalloutDone
<1>3. ASSUME NEW id, NEW c, AnswerArrives(id, c) PROVE UNCHANGED <<metadata, request, known>>
  BY <1>1, <1>3 DEF AnswerArrives, OnHttpCalloutDone
<1>4. ASSUME NEW r, HeadersArrive(r) PROVE FALSE
  BY <1>1, <1>4 DEF HeadersArrive, OnRequestHeaders
<1>5. CASE AskArrives \/ ResolverAlone \/ UNCHANGED systemVars
  BY <1>5 DEF AskArrives, ResolverAlone, systemVars, streamVars, vars
<1> QED BY <1>2, <1>3, <1>4, <1>5 DEF SystemNext

(* What an answer rests on, of all that is in a question. *)
LEMMA AnswerDependsOn ==
    ASSUME NEW since, NEW upto, NEW req, NEW other, NEW jwk,
           req.url = other.url, req.discovery = other.discovery, req.keyId = other.keyId
    PROVE  Service!AnswerFrom(since, upto, req, jwk) <=> Service!AnswerFrom(since, upto, other, jwk)
<1>1. Service!FirstKey(req) = Service!FirstKey(other)
  BY DEF Service!FirstKey
<1> QED BY <1>1 DEF Service!AnswerFrom

(* The pending question is that of an entry which the signature covers. *)
LEMMA PendingEntry ==
    ASSUME ProofInv, pending # NoPending
    PROVE  \E sig \in Profile : \E entry \in SignedEntries(sig) :
               /\ sig.signer = pending.candidate.signer
               /\ entry.url = pending.candidate.url
               /\ ParseAgentType(entry.type) = pending.candidate.discovery
<1>1. PICK sig : Profile = {sig} /\ Backs(sig, pending.candidate, request.agent, pending.since)
  BY PendingSignature DEF ProofInv, FilterInv
<1>2. PICK i \in AgentComponents(sig.components) :
         LET entry == SignedEntry(request.agent, sig.components[i])
         IN  /\ pending.candidate.url = entry.url
             /\ pending.candidate.discovery = ParseAgentType(entry.type)
  BY <1>1 DEF Backs
<1>3. SignedEntry(request.agent, sig.components[i]) \in SignedEntries(sig)
  BY DEF SignedEntries, SignedEntry
<1>4. sig.signer = pending.candidate.signer
  BY <1>1 DEF Backs
<1> QED BY <1>1, <1>2, <1>3, <1>4

LEMMA PublishedStep ==
    ASSUME ProofInv, ServiceInvs, ServiceInvs', Correlated, SignerIsPublished,
           [SystemNext]_systemVars, [Proved!Next]_(Proved!vars)
    PROVE  SignerIsPublished'
<1> SUFFICES ASSUME metadata'.status = "verified" PROVE SignerIsPublished'
  BY DEF SignerIsPublished
<1> DEFINE Question(entry, id) ==
             [discovery |-> ParseAgentType(entry.type), url |-> entry.url, keyId |-> id]
<1>0. /\ known \in [Proved!Keys -> Nat]
      /\ published \in [Proved!Keys -> Nat] /\ published' \in [Proved!Keys -> Nat]
      /\ seen[Mine] \in [Proved!Keys -> Nat]
  <2>1. (published \in [Proved!Keys -> Nat])'
    BY DEF ServiceInvs, Proved!IInv, Proved!TypeOK, Proved!Keys
  <2> QED BY <2>1, ServiceTypesHere, EndToEndAssumption DEF Correlated, Proved!Keys
<1>1. CASE metadata.status = "verified"
  <2>1. metadata' = metadata /\ request' = request /\ known' = known
    BY <1>1, VerifiedStays
  <2>2. PICK sig \in Profile : \E entry \in SignedEntries(sig) :
           Service!AnswerFrom(known, published, Question(entry, metadata.keyId), sig.signer)
    BY <1>1 DEF SignerIsPublished
  <2>3. PICK entry \in SignedEntries(sig) :
           Service!AnswerFrom(known, published, Question(entry, metadata.keyId), sig.signer)
    BY <2>2
  <2>4. Proved!AnswerFrom(known, published, Question(entry, metadata.keyId), sig.signer)
    BY <2>3, SameAnswers
  <2>5. \A k \in Proved!Keys : known[k] <= known[k] /\ published[k] <= published'[k]
    BY <1>0, VersionsOnlyGrow
  <2>6. Proved!AnswerFrom(known, published', Question(entry, metadata.keyId), sig.signer)
    <3> HIDE DEF Question
    <3> QED BY <1>0, <2>4, <2>5, ServiceAssumptions, Proved!AnswerWidens
  <2>7. Service!AnswerFrom(known, published', Question(entry, metadata.keyId), sig.signer)
    BY <2>6, SameAnswers
  <2>8. Profile' = Profile /\ SignedEntries(sig)' = SignedEntries(sig)
    BY <2>1 DEF Profile, SignedEntries
  <2> QED BY <2>1, <2>7, <2>8, <2>2, <2>3 DEF SignerIsPublished
<1>2. CASE metadata.status # "verified"
  <2>1. SystemNext
    BY <1>2 DEF systemVars, streamVars, vars
  <2>2. /\ pending # NoPending
        /\ metadata'.keyId = pending.candidate.keyId
        /\ UNCHANGED <<request, known, resolverVars>>
        /\ response[Mine] # NoResponse
        /\ response[Mine].code = 200
        /\ response[Mine].jwk = pending.candidate.signer
        /\ response[Mine].jwk # NoKey
        /\ asked[Mine] = Ask(pending.candidate)
        /\ \A k \in Proved!Keys : known[k] <= seen[Mine][k]
    BY <1>2, <2>1, VerifiedByAnswer
  <2>3. Proved!AnswerFrom(seen[Mine], published, Ask(pending.candidate), pending.candidate.signer)
    BY <2>2, EndToEndAssumption
       DEF ServiceInvs, Proved!ChainInv, Proved!ChainOf, Proved!Truthful, Proved!IsAnswer
  <2>4. \A k \in Proved!Keys : known[k] <= seen[Mine][k] /\ published[k] <= published[k]
    BY <1>0, <2>2
  <2>5. Proved!AnswerFrom(known, published, Ask(pending.candidate), pending.candidate.signer)
    <3> DEFINE ask == Ask(pending.candidate)
               jwk == pending.candidate.signer
               since == seen[Mine]
    <3>1. /\ since \in [Proved!Keys -> Nat] /\ Proved!AnswerFrom(since, published, ask, jwk)
          /\ \A k \in Proved!Keys : known[k] <= since[k] /\ published[k] <= published[k]
      BY <1>0, <2>3, <2>4
    <3> HIDE DEF ask, jwk, since
    <3>2. Proved!AnswerFrom(known, published, ask, jwk)
      BY <1>0, <3>1, ServiceAssumptions, Proved!AnswerWidens
    <3> QED BY <3>2 DEF ask, jwk
  <2>6. PICK sig \in Profile : \E entry \in SignedEntries(sig) :
               /\ sig.signer = pending.candidate.signer
               /\ entry.url = pending.candidate.url
               /\ ParseAgentType(entry.type) = pending.candidate.discovery
    BY <2>2, PendingEntry
  <2>7. PICK entry \in SignedEntries(sig) :
               /\ sig.signer = pending.candidate.signer
               /\ entry.url = pending.candidate.url
               /\ ParseAgentType(entry.type) = pending.candidate.discovery
    BY <2>6
  <2>8. /\ Ask(pending.candidate).url = Question(entry, metadata'.keyId).url
        /\ Ask(pending.candidate).discovery = Question(entry, metadata'.keyId).discovery
        /\ Ask(pending.candidate).keyId = Question(entry, metadata'.keyId).keyId
    BY <2>2, <2>7 DEF Ask
  <2>9. Service!AnswerFrom(known, published, Question(entry, metadata'.keyId), sig.signer)
    <3> HIDE DEF Question
    <3> QED BY <2>5, <2>7, <2>8, SameAnswers, AnswerDependsOn
  <2>10. /\ Profile' = Profile /\ SignedEntries(sig)' = SignedEntries(sig)
         /\ known' = known /\ published' = published
    BY <2>2 DEF Profile, SignedEntries, resolverVars
  <2> QED BY <2>9, <2>10, <2>6, <2>7 DEF SignerIsPublished
<1> QED BY <1>1, <1>2

(* The id of a verified key, which VerifiedMeansProved ties to the signer. *)
NoTestKeyId ==
    ~AllowTestKeys /\ metadata.status = "verified" => metadata.keyId \notin TestKeys

LEMMA TestKeysStep ==
    ASSUME ProofInv, ServiceInvs, Correlated, NoTestKeyId, [SystemNext]_systemVars
    PROVE  NoTestKeyId'
<1> SUFFICES ASSUME metadata'.status = "verified", ~AllowTestKeys PROVE metadata'.keyId \notin TestKeys
  BY DEF NoTestKeyId
<1>1. CASE metadata.status = "verified"
  BY <1>1, VerifiedStays DEF NoTestKeyId
<1>2. CASE metadata.status # "verified"
  <2>1. SystemNext
    BY <1>2 DEF systemVars, streamVars, vars
  <2>2. /\ metadata'.keyId = pending.candidate.keyId
        /\ Thumbprint[pending.candidate.signer] = pending.candidate.keyId
        /\ response[Mine] # NoResponse
        /\ response[Mine].jwk = pending.candidate.signer
        /\ response[Mine].jwk # NoKey
        /\ asked[Mine] = Ask(pending.candidate)
    BY <1>2, <2>1, VerifiedByAnswer
  <2>3. asked[Mine].keyId = pending.candidate.keyId
    BY <2>2 DEF Ask
  <2>4. ~ /\ Thumbprint[response[Mine].jwk] = asked[Mine].keyId
          /\ Thumbprint[response[Mine].jwk] \in TestKeys
    BY <2>2, EndToEndAssumption DEF ServiceInvs, Proved!TestKeysNeverUsable
  <2> QED BY <2>2, <2>3, <2>4
<1> QED BY <1>1, <1>2

---------------------------------------------------------------------------
(* The rules of the two processes. *)

SameIdentifier == metadata.reason # "resolver_identifier"

LEMMA HeadersReason ==
    ASSUME NEW r \in Requests, OnRequestHeaders(r), SameIdentifier
    PROVE  SameIdentifier'
<1> DEFINE error == ParseCandidate(r.inputs, r.agent, now).error
<1>1. error # "resolver_identifier"
  BY CandidateErrors
<1>2. ErrorResult(error).reason = error
  BY DEF ErrorResult, Unverified, Invalid, Result
<1>3. \/ UNCHANGED metadata
      \/ metadata'.reason \in {NotPresent.reason, "incomplete_fields", "request_body_unsupported",
                               "request_capture", ErrorResult(error).reason, "resolver_unavailable"}
  BY DEF OnRequestHeaders, ApplyResult, Unverified, Invalid, Result
<1> QED BY <1>1, <1>2, <1>3 DEF SameIdentifier, NotPresent, Result

(* The only way to that reason. *)
LEMMA MismatchReason ==
    ASSUME NEW candidate, NEW reply,
           VerifyResolverResponse(candidate, reply).reason = "resolver_identifier"
    PROVE  reply.kind # "failed" /\ reply.identifier # candidate.identifier
  BY DEF VerifyResolverResponse, Unverified, Invalid, Verified, Result

LEMMA IdentifierStep ==
    ASSUME ProofInv, ServiceInvs, Correlated, SameIdentifier, [SystemNext]_systemVars
    PROVE  SameIdentifier'
<1>1. ASSUME NEW id, NEW reply, OnHttpCalloutDone(id, reply),
             pending # NoPending /\ id = pending.calloutId =>
                 reply.kind = "failed" \/ reply.identifier = pending.candidate.identifier
      PROVE  SameIdentifier'
  <2>1. CASE pending = NoPending
    BY <1>1, <2>1 DEF OnHttpCalloutDone, SameIdentifier
  <2>2. CASE pending # NoPending
    <3>1. \/ metadata'.reason = "resolver_callout_mismatch"
          \/ /\ id = pending.calloutId
             /\ metadata'.reason = VerifyResolverResponse(pending.candidate, reply).reason
      BY <1>1, <2>2 DEF OnHttpCalloutDone, ApplyResult, Unverified, Result
    <3> QED BY <1>1, <2>2, <3>1, MismatchReason DEF SameIdentifier
  <2> QED BY <2>1, <2>2
<1>2. Failed.kind = "failed"
  BY DEF Failed
<1>3. CASE StreamAlone
  <2>1. CASE \E id : OnHttpCalloutDone(id, Failed)
    BY <1>1, <1>2, <2>1
  <2> QED BY <1>3, <2>1 DEF StreamAlone, CalloutTimesOut, Reset, Tick, SameIdentifier
<1>4. ASSUME NEW id \in CalloutIds, NEW c \in Callers, AnswerArrives(id, c) PROVE SameIdentifier'
  <2>1. ASSUME pending # NoPending, id = pending.calloutId
        PROVE  \/ Outcome(response[c]).kind = "failed"
               \/ Outcome(response[c]).identifier = pending.candidate.identifier
    <3>1. /\ c = Mine /\ Mine \in Callers /\ response[Mine] # NoResponse
          /\ asked[Mine] = Ask(pending.candidate)
      BY <1>4, <2>1, EndToEndAssumption DEF AnswerArrives, Correlated
    <3>2. CASE response[Mine].code # 200
      BY <1>2, <3>1, <3>2 DEF Outcome
    <3>3. CASE response[Mine].code = 200
      <4>1. response[Mine].identifier =
              Proved!ParseDiscoveryTarget(asked[Mine].url, asked[Mine].discovery).identifier
        BY <3>1, <3>3 DEF ServiceInvs, Proved!ChainInv, Proved!ChainOf, Proved!Truthful
      <4>2. asked[Mine].url = pending.candidate.url /\ asked[Mine].discovery = pending.candidate.discovery
        BY <3>1 DEF Ask
      <4>3. /\ request \in Requests
            /\ pending.candidate = ParseCandidate(request.inputs, request.agent, pending.since)
            /\ pending.candidate.error = "none"
        BY <2>1 DEF ProofInv, FilterInv, TypeOK, PendingBacked
      <4>4. pending.candidate.identifier =
              ParseDiscoveryTarget(pending.candidate.url, pending.candidate.discovery).identifier
        BY <4>3, CandidateIsValid, RequestsAssumption
      <4>5. Outcome(response[Mine]).identifier = response[Mine].identifier
        BY <3>3 DEF Outcome
      <4> QED BY <3>1, <4>1, <4>2, <4>4, <4>5, SameTargets
    <3> QED BY <3>2, <3>3
  <2> QED BY <1>1, <1>4, <2>1 DEF AnswerArrives
<1>5. ASSUME NEW r \in Requests, HeadersArrive(r) PROVE SameIdentifier'
  BY <1>5, HeadersReason DEF HeadersArrive
<1>6. CASE AskArrives \/ ResolverAlone \/ UNCHANGED systemVars
  BY <1>6 DEF AskArrives, ResolverAlone, systemVars, streamVars, vars, SameIdentifier
<1> QED BY <1>3, <1>4, <1>5, <1>6 DEF SystemNext

---------------------------------------------------------------------------
(* The theorems. *)

SystemInv == ProofInv /\ ServiceInvs /\ Correlated

LEMMA SystemInvHolds == System => []SystemInv
<1>1. /\ ProofInv /\ ServiceInvs /\ ServiceInvs' /\ [SystemNext]_systemVars /\ Correlated
      => Correlated'
  BY CorrelatedStep, ServiceStep
<1>2. System => []ServiceInvs
  BY ServiceHolds, PTL DEF ServiceInvs
<1> QED BY <1>1, <1>2, StreamHolds, CorrelatedInitial, PTL DEF System, SystemInv

(* A request is verified only by a key that the signed agent published at  *)
(* the signed URL, in no version older than what the resolver knew when    *)
(* the headers arrived: from the filter's pending.take() (filter.rs:350)   *)
(* and the two loads of load_keys (service.rs:102-158), whatever other     *)
(* streams, timeouts, refreshes and publications come in between.          *)
THEOREM VerifiedSignerIsPublished == System => []SignerIsPublished
<1>1. SystemInit => SignerIsPublished
  BY DEF SystemInit, Init, SignerIsPublished, NoMetadata, Absent
<1>2. SystemInv /\ SystemInv' /\ SignerIsPublished /\ [SystemNext]_systemVars => SignerIsPublished'
  BY PublishedStep, ServiceStep DEF SystemInv
<1> QED BY <1>1, <1>2, SystemInvHolds, PTL DEF System

(* A test key that is not allowed verifies no request: the resolver's      *)
(* refusal by key id (service.rs:84) and the module's comparison of        *)
(* thumbprints (verify.rs:78) are enough together.                         *)
THEOREM TestKeysNeverVerify == System => []TestKeysVerifyNothing
<1>1. SystemInit => NoTestKeyId
  BY DEF SystemInit, Init, NoTestKeyId, NoMetadata, Absent
<1>2. SystemInv /\ NoTestKeyId /\ [SystemNext]_systemVars => NoTestKeyId'
  BY TestKeysStep DEF SystemInv
<1>3. SystemInv /\ NoTestKeyId => TestKeysVerifyNothing
  BY DEF SystemInv, ProofInv, VerifiedMeansProved, NoTestKeyId, TestKeysVerifyNothing
<1> QED BY <1>1, <1>2, <1>3, SystemInvHolds, PTL DEF System

(* The resolver never finds fault with what the module accepted, and never *)
(* names another identifier, for any URL and whatever the normalisation:   *)
(* both apply parse_discovery_target to the same signed URL                *)
(* (candidate.rs:147, service.rs:171).                                     *)
THEOREM TheRulesAgree == System => []RulesAgree
<1>1. SystemInit => NoneBad /\ SameIdentifier
  BY DEF SystemInit, Init, Service!Init, NoneBad, SameIdentifier, NoMetadata, Absent
<1>2. /\ SystemInv /\ NoneBad /\ SameIdentifier /\ [SystemNext]_systemVars
      => NoneBad' /\ SameIdentifier'
  BY NoneBadStep, IdentifierStep, ServiceStep DEF SystemInv
<1>3. NoneBad /\ SameIdentifier => RulesAgree
  BY DEF NoneBad, SameIdentifier, RulesAgree
<1> QED BY <1>1, <1>2, <1>3, SystemInvHolds, PTL DEF System
=============================================================================
