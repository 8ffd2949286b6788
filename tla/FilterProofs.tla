---------------------------- MODULE FilterProofs ----------------------------
(***************************************************************************)
(* Proofs about Filter: which requests go upstream, with which assertions, *)
(* and that a decision is final.                                           *)
(***************************************************************************)
EXTENDS Filter, CandidateProofs, TLAPS

Kinds == {"unsigned", "malformed", "rejected", "unsupported", "key_not_found",
          "unavailable", "verified"}

(* What the policy relies on in a VerificationResult. *)
IsResult(res) ==
    /\ res.kind \in Kinds
    /\ res.kind = "verified" <=> res.status = "verified"
    /\ res.kind = "unsigned" <=> res = NotPresent

(* A request that is held has had its assertion headers removed and has    *)
(* signature fields; nothing has been recorded of it yet.                  *)
HeldClean ==
    stage = "held" => /\ headers = NoAssertion
                      /\ ClassifySignatureHeaders(request) = "candidate"

FilterInv == TypeOK /\ HeldIffPending /\ HeldClean /\ AssertionsAreOurs /\ ModeEnforced

LEMMA CandidateErrorResult ==
    ASSUME NEW error
    PROVE  IsResult(ErrorResult(error))
BY DEF IsResult, Kinds, ErrorResult, ErrorKind, Unverified, Invalid, Result, NotPresent

LEMMA ResponseResult ==
    ASSUME NEW candidate, NEW response
    PROVE  /\ IsResult(VerifyResolverResponse(candidate, response))
           /\ VerifyResolverResponse(candidate, response).kind # "unsigned"
BY DEF IsResult, Kinds, VerifyResolverResponse, Verified, Unverified, Invalid, Result, NotPresent

(* The policy: who is let through, and that every refusal is a reply.      *)
LEMMA AdmissionDecides ==
    ASSUME NEW m \in Modes, NEW res, IsResult(res)
    PROVE  /\ Admission(m, res) \in Denial \cup {NoDenial}
           /\ Admission(m, res) = NoDenial =>
                 m = "observe" \/ res.status = "verified" \/ (m = "optional" /\ res = NotPresent)
           /\ Admission(m, res) # NoDenial => m # "observe" /\ res.status # "verified"
<1>1. CASE m = "observe"
  BY <1>1 DEF Admission
<1>2. CASE m # "observe"
  <2>1. m \in {"optional", "required"}
    BY <1>2, FilterAssumption
  <2>2. \A d \in Denial : d # NoDenial
    BY FilterAssumption
  <2>3. CASE res.kind = "unsigned"
    <3>1. CASE m = "optional"
      BY <1>2, <2>3, <3>1 DEF Admission, IsResult
    <3>2. CASE m = "required"
      <4>1. Admission(m, res) = [code |-> 403, challenge |-> TRUE]
        BY <1>2, <2>3, <3>2 DEF Admission, Reject
      <4>2. Admission(m, res) \in Denial
        BY <4>1 DEF Denial
      <4>. QED
        BY <1>2, <2>2, <2>3, <4>2 DEF IsResult
    <3>. QED
      BY <2>1, <3>1, <3>2
  <2>4. CASE res.kind = "malformed"
    <3>1. Admission(m, res) = [code |-> 400, challenge |-> FALSE]
      BY <1>2, <2>4 DEF Admission, Reject
    <3>2. Admission(m, res) \in Denial
      BY <3>1 DEF Denial
    <3>. QED
      BY <1>2, <2>2, <2>4, <3>2 DEF IsResult
  <2>5. CASE res.kind \in {"rejected", "unsupported", "key_not_found"}
    <3>1. Admission(m, res) = [code |-> 403, challenge |-> FALSE]
      BY <1>2, <2>5 DEF Admission, Reject
    <3>2. Admission(m, res) \in Denial
      BY <3>1 DEF Denial
    <3>. QED
      BY <1>2, <2>2, <2>5, <3>2 DEF IsResult
  <2>6. CASE res.kind = "unavailable"
    <3>1. Admission(m, res) = [code |-> 503, challenge |-> FALSE]
      BY <1>2, <2>6 DEF Admission, Reject
    <3>2. Admission(m, res) \in Denial
      BY <3>1 DEF Denial
    <3>. QED
      BY <1>2, <2>2, <2>6, <3>2 DEF IsResult
  <2>7. CASE res.kind = "verified"
    BY <1>2, <2>7 DEF Admission, IsResult
  <2>. QED
    BY <2>3, <2>4, <2>5, <2>6, <2>7 DEF IsResult, Kinds
<1>. QED
  BY <1>1, <1>2

(* Applying a result keeps the promises, provided the headers were         *)
(* sanitised.                                                              *)
LEMMA ApplyKeeps ==
    ASSUME mode \in Modes, forward \in BOOLEAN, NEW res, IsResult(res),
           ApplyResult(res, NoAssertion), pending' = NoPending,
           UNCHANGED settings,
           res = NotPresent => ClassifySignatureHeaders(request') = "unsigned"
    PROVE  /\ stage' \in {"forwarded", "denied"}
           /\ denial' \in Denial \cup {NoDenial}
           /\ HeldIffPending' /\ HeldClean' /\ AssertionsAreOurs' /\ ModeEnforced'
<1>1. /\ denial' = Admission(mode, res)
      /\ stage' = IF Admission(mode, res) = NoDenial THEN "forwarded" ELSE "denied"
      /\ metadata'.status = res.status
      /\ metadata'.identity = res.identity
      /\ metadata'.keyId = res.keyId
  BY DEF ApplyResult
<1>2. stage' \in {"forwarded", "denied"} /\ denial' \in Denial \cup {NoDenial}
  BY <1>1, AdmissionDecides
<1>3. HeldIffPending' /\ HeldClean'
  BY <1>2 DEF HeldIffPending, HeldClean
<1>4. AssertionsAreOurs'
  BY <1>1 DEF ApplyResult, AssertionsAreOurs, NoAssertion, settings
<1>5. ModeEnforced'
  BY <1>1, AdmissionDecides DEF ModeEnforced, settings
<1>. QED
  BY <1>2, <1>3, <1>4, <1>5

LEMMA HeadersKeep ==
    ASSUME FilterInv, NEW r \in Requests, OnRequestHeaders(r)
    PROVE  FilterInv'
<1> DEFINE candidate == ParseCandidate(r.inputs, r.agent, now)
           class == ClassifySignatureHeaders(r)
           Finish(res) == ApplyResult(res, NoAssertion) /\ pending' = NoPending
           Held == /\ candidate.error = "none"
                   /\ \E id \in CalloutIds :
                         pending' = [calloutId |-> id, candidate |-> candidate, since |-> now]
                   /\ stage' = "held"
                   /\ headers' = NoAssertion
                   /\ UNCHANGED <<metadata, denial>>
<1>1. /\ mode \in Modes /\ forward \in BOOLEAN /\ now \in 0..MaxTime
      /\ request' = r /\ receivedAt' = now /\ UNCHANGED <<settings, now>>
  BY FilterAssumption DEF FilterInv, TypeOK, OnRequestHeaders
<1>2. \/ class = "unsigned" /\ Finish(NotPresent)
      \/ class # "unsigned" /\ \E res : IsResult(res) /\ res.kind # "unsigned" /\ Finish(res)
      \/ class = "candidate" /\ Held
  <2>1. CASE class = "unsigned"
    BY <2>1 DEF OnRequestHeaders, SanitizeAssertionHeaders
  <2>2. CASE class = "incomplete"
    <3>1. Finish(Invalid("malformed", "incomplete_fields"))
      BY <2>2 DEF OnRequestHeaders, SanitizeAssertionHeaders
    <3>. QED
      BY <2>2, <3>1 DEF IsResult, Kinds, Invalid, Result, NotPresent
  <2>3. CASE class = "candidate"
    <3>1. \/ Finish(Unverified("unsupported", "request_body_unsupported"))
          \/ Finish(Invalid("malformed", "request_capture"))
          \/ candidate.error # "none" /\ Finish(ErrorResult(candidate.error))
          \/ Finish(Unverified("unavailable", "resolver_unavailable"))
          \/ Held
      BY <2>3 DEF OnRequestHeaders, SanitizeAssertionHeaders
    <3>2. ErrorResult(candidate.error).kind # "unsigned"
      BY DEF ErrorResult, ErrorKind, Unverified, Invalid, Result
    <3>3. \A res \in {Unverified("unsupported", "request_body_unsupported"),
                      Invalid("malformed", "request_capture"),
                      Unverified("unavailable", "resolver_unavailable")} :
              IsResult(res) /\ res.kind # "unsigned"
      BY DEF IsResult, Kinds, Unverified, Invalid, Result, NotPresent
    <3>. QED
      BY <2>3, <3>1, <3>2, <3>3, CandidateErrorResult
  <2>. QED
    BY <2>1, <2>2, <2>3 DEF ClassifySignatureHeaders
<1>3. CASE Held /\ class = "candidate"
  <2>1. candidate \in Candidates
    BY <1>1 DEF Candidates
  <2>2. pending' \in Pending
    BY <1>1, <1>3, <2>1 DEF Pending
  <2>3. pending' # NoPending
    BY <2>2, FilterAssumption
  <2>4. TypeOK'
    <3>1. /\ pending'.calloutId \in CalloutIds
          /\ pending'.candidate.error = "none"
          /\ pending'.since \in 0..MaxTime
      BY <1>1, <1>3
    <3>. QED
      BY <1>1, <1>3, <3>1 DEF FilterInv, TypeOK, settings
  <2>. QED
    BY <1>1, <1>3, <2>3, <2>4 DEF FilterInv, HeldIffPending, HeldClean, AssertionsAreOurs, ModeEnforced
<1>4. ASSUME NEW res, IsResult(res), Finish(res),
             res = NotPresent => class = "unsigned"
      PROVE  FilterInv'
  <2>1. /\ stage' \in {"forwarded", "denied"}
        /\ denial' \in Denial \cup {NoDenial}
        /\ HeldIffPending' /\ HeldClean' /\ AssertionsAreOurs' /\ ModeEnforced'
    BY <1>1, <1>4, ApplyKeeps
  <2>2. TypeOK'
    BY <1>1, <1>4, <2>1 DEF FilterInv, TypeOK, settings
  <2>. QED
    BY <2>1, <2>2 DEF FilterInv
<1>5. IsResult(NotPresent)
  BY DEF IsResult, Kinds, NotPresent, Result
<1>6. NotPresent.kind = "unsigned"
  BY DEF NotPresent, Result
<1>. QED
  BY <1>2, <1>3, <1>4, <1>5, <1>6

LEMMA CalloutKeeps ==
    ASSUME FilterInv, NEW id, NEW response, OnHttpCalloutDone(id, response)
    PROVE  FilterInv'
<1>1. UNCHANGED <<settings, now, request, receivedAt>>
  BY DEF OnHttpCalloutDone
<1>2. CASE pending = NoPending
  BY <1>1, <1>2 DEF OnHttpCalloutDone, FilterInv, TypeOK, HeldIffPending, HeldClean,
                    AssertionsAreOurs, ModeEnforced, settings
<1>3. CASE pending # NoPending
  <2> DEFINE res == IF pending.calloutId # id
                    THEN Unverified("unavailable", "resolver_callout_mismatch")
                    ELSE VerifyResolverResponse(pending.candidate, response)
  <2>1. stage = "held" /\ headers = NoAssertion
    BY <1>3 DEF FilterInv, HeldIffPending, HeldClean
  <2>2. ApplyResult(res, NoAssertion) /\ pending' = NoPending
    BY <1>3, <2>1 DEF OnHttpCalloutDone
  <2>3. IsResult(res) /\ res.kind # "unsigned"
    <3>1. IsResult(Unverified("unavailable", "resolver_callout_mismatch"))
          /\ Unverified("unavailable", "resolver_callout_mismatch").kind # "unsigned"
      BY DEF IsResult, Kinds, Unverified, Result, NotPresent
    <3>. QED
      BY <3>1, ResponseResult
  <2>4. res # NotPresent
    BY <2>3 DEF NotPresent, Result
  <2>. HIDE DEF res
  <2>5. mode \in Modes /\ forward \in BOOLEAN /\ UNCHANGED settings
    BY <1>1, FilterAssumption DEF FilterInv, TypeOK
  <2>6. /\ stage' \in {"forwarded", "denied"}
        /\ denial' \in Denial \cup {NoDenial}
        /\ HeldIffPending' /\ HeldClean' /\ AssertionsAreOurs' /\ ModeEnforced'
    BY <2>2, <2>3, <2>4, <2>5, ApplyKeeps
  <2>7. TypeOK'
    BY <1>1, <2>2, <2>6 DEF FilterInv, TypeOK, settings
  <2>. QED
    BY <2>6, <2>7 DEF FilterInv
<1>. QED
  BY <1>2, <1>3

LEMMA FilterInvInitial == Init => FilterInv
BY FilterAssumption DEF Init, FilterInv, TypeOK, HeldIffPending, HeldClean,
                        AssertionsAreOurs, ModeEnforced

(* A step in which a callout may end with anything at all. *)
AnyStep ==
    \/ \E r \in Requests : OnRequestHeaders(r)
    \/ \E id, response : OnHttpCalloutDone(id, response)
    \/ CalloutTimesOut
    \/ Reset
    \/ Tick

LEMMA NextIsAnyStep == [Next]_vars => [AnyStep]_vars
BY DEF Next, AnyStep

LEMMA FilterInvPreserved == FilterInv /\ [AnyStep]_vars => FilterInv'
<1> SUFFICES ASSUME FilterInv, [AnyStep]_vars PROVE FilterInv'
  OBVIOUS
<1>1. ASSUME NEW r \in Requests, OnRequestHeaders(r) PROVE FilterInv'
  BY <1>1, HeadersKeep
<1>2. ASSUME NEW id, NEW response, OnHttpCalloutDone(id, response)
      PROVE  FilterInv'
  BY <1>2, CalloutKeeps
<1>3. CASE CalloutTimesOut
  BY <1>3, CalloutKeeps DEF CalloutTimesOut
<1>4. CASE Reset
  BY <1>4, FilterAssumption DEF Reset, FilterInv, TypeOK, HeldIffPending, HeldClean,
                AssertionsAreOurs, ModeEnforced, settings
<1>5. CASE Tick
  <2>1. now' \in 0..MaxTime
    BY <1>5, FilterAssumption DEF Tick, FilterInv, TypeOK
  <2>. QED
    BY <1>5, <2>1 DEF Tick, FilterInv, TypeOK, HeldIffPending, HeldClean,
                      AssertionsAreOurs, ModeEnforced, settings
<1>6. CASE UNCHANGED vars
  BY <1>6 DEF vars, FilterInv, TypeOK, HeldIffPending, HeldClean,
              AssertionsAreOurs, ModeEnforced, settings
<1>. QED
  BY <1>1, <1>2, <1>3, <1>4, <1>5, <1>6 DEF AnyStep

LEMMA FilterInvariant == Spec => []FilterInv
BY FilterInvInitial, FilterInvPreserved, NextIsAnyStep, PTL DEF Spec

(* For every set of requests, responses and keys and every timeout, the    *)
(* state of the filter has its type.                                       *)
THEOREM FilterTypeCorrect == Spec => []TypeOK
<1>1. FilterInv => TypeOK
  BY DEF FilterInv
<1>. QED
  BY <1>1, FilterInvariant, PTL

(* In required mode only verified requests go upstream, in optional mode   *)
(* also those without signature fields, whatever the resolver answers.     *)
THEOREM ModeIsEnforced == Spec => []ModeEnforced
<1>1. FilterInv => ModeEnforced
  BY DEF FilterInv
<1>. QED
  BY <1>1, FilterInvariant, PTL

(* No assertion header a client sends reaches the upstream.                *)
THEOREM ClientAssertionsRemoved == Spec => []AssertionsAreOurs
<1>1. FilterInv => AssertionsAreOurs
  BY DEF FilterInv
<1>. QED
  BY <1>1, FilterInvariant, PTL

(* A request is held exactly as long as a verification is pending.         *)
THEOREM HeldWhilePending == Spec => []HeldIffPending
<1>1. FilterInv => HeldIffPending
  BY DEF FilterInv
<1>. QED
  BY <1>1, FilterInvariant, PTL

(* No later callback changes a decision.                                   *)
THEOREM DecisionIsFinal == Spec => DecidedOnce
<1> DEFINE Final == (stage \in {"forwarded", "denied"}) =>
                        /\ UNCHANGED <<request, headers, metadata, denial>>
                        /\ stage' \in {stage, "reset"}
<1>1. FilterInv /\ [AnyStep]_vars => [Final]_vars
  <2> SUFFICES ASSUME FilterInv, AnyStep, stage \in {"forwarded", "denied"}
               PROVE  /\ UNCHANGED <<request, headers, metadata, denial>>
                      /\ stage' \in {stage, "reset"}
    BY DEF vars
  <2>1. pending = NoPending
    BY DEF FilterInv, HeldIffPending
  <2>2. ~\E r \in Requests : OnRequestHeaders(r)
    BY DEF OnRequestHeaders
  <2>. QED
    BY <2>1, <2>2 DEF AnyStep, OnHttpCalloutDone, CalloutTimesOut, Reset, Tick
<1>. QED
  BY <1>1, FilterInvariant, NextIsAnyStep, PTL DEF Spec, DecidedOnce

---------------------------------------------------------------------------
(* What stands behind an asserted identity. *)

(* Nothing is recorded of a request before it is decided. *)
Undecided == stage \in {"new", "held"} => metadata = NoMetadata

(* The pending candidate is that of the request that is held, read when    *)
(* the callout was sent, and the callout has not outlived its timeout.     *)
PendingBacked ==
    pending # NoPending =>
        /\ request \in Requests
        /\ request.endOfStream
        /\ pending.candidate = ParseCandidate(request.inputs, request.agent, pending.since)
        /\ pending.since <= now
        /\ now <= pending.since + CalloutTimeout

ProofInv == FilterInv /\ Undecided /\ PendingBacked /\ VerifiedMeansProved

(* The only result that asserts an identity.                               *)
LEMMA VerifiedResponse ==
    ASSUME NEW candidate, NEW response,
           VerifyResolverResponse(candidate, response).status = "verified"
    PROVE  /\ VerifyResolverResponse(candidate, response) =
                 Verified(candidate.identifier, candidate.keyId)
           /\ candidate.signer \in ImportableKeys
           /\ Thumbprint[candidate.signer] = candidate.keyId
           /\ response.kind \notin {"failed", "garbled", "key_not_found"}
           /\ response.jwk = candidate.signer
BY DEF VerifyResolverResponse, Verified, Unverified, Invalid, Result

LEMMA ErrorIsNotVerified ==
    ASSUME NEW error
    PROVE  ErrorResult(error).status # "verified"
BY DEF ErrorResult, Unverified, Invalid, Result

(* The signature that backs a pending candidate. *)
LEMMA PendingSignature ==
    ASSUME TypeOK, PendingBacked, pending # NoPending
    PROVE  \E sig : /\ Profile = {sig}
                    /\ Backs(sig, pending.candidate, request.agent, pending.since)
<1>1. /\ request.inputs \in Seq(Range(request.inputs))
      /\ request.agent \in Seq(Range(request.agent))
  BY RequestsAssumption DEF PendingBacked
<1>2. ParseCandidate(request.inputs, request.agent, pending.since).error = "none"
  BY DEF PendingBacked, TypeOK
<1>3. PICK sig : /\ {request.inputs[i] : i \in TaggedMembers(request.inputs)} = {sig}
                 /\ Backs(sig, ParseCandidate(request.inputs, request.agent, pending.since),
                          request.agent, pending.since)
  BY <1>1, <1>2, CandidateIsBacked
<1>. QED
  BY <1>3 DEF PendingBacked, Profile

(* A decision for "verified" comes from a callback for the candidate that  *)
(* is pending.                                                             *)
LEMMA VerifiedByCallout ==
    ASSUME ProofInv, AnyStep, metadata.status # "verified", metadata'.status = "verified"
    PROVE  /\ pending # NoPending
           /\ request' = request
           /\ metadata'.identity = pending.candidate.identifier
           /\ metadata'.keyId = pending.candidate.keyId
           /\ pending.candidate.signer \in ImportableKeys
           /\ Thumbprint[pending.candidate.signer] = pending.candidate.keyId
<1>1. ASSUME NEW r \in Requests, OnRequestHeaders(r) PROVE FALSE
  <2>1. \/ UNCHANGED metadata
        \/ metadata'.status \in {NotPresent.status, ErrorResult(ParseCandidate(r.inputs, r.agent, now).error).status,
                                 "invalid", "unverified"}
    BY <1>1 DEF OnRequestHeaders, ApplyResult, Unverified, Invalid, Result
  <2>. QED
    BY <2>1, ErrorIsNotVerified DEF NotPresent, Result
<1>2. ASSUME NEW id, NEW response, OnHttpCalloutDone(id, response)
      PROVE  /\ pending # NoPending
             /\ request' = request
             /\ metadata'.identity = pending.candidate.identifier
             /\ metadata'.keyId = pending.candidate.keyId
             /\ pending.candidate.signer \in ImportableKeys
             /\ Thumbprint[pending.candidate.signer] = pending.candidate.keyId
  <2> DEFINE answer == VerifyResolverResponse(pending.candidate, response)
  <2>1. pending # NoPending /\ request' = request
    BY <1>2 DEF OnHttpCalloutDone
  <2>2. /\ answer.status = "verified"
        /\ metadata'.identity = answer.identity
        /\ metadata'.keyId = answer.keyId
    BY <1>2, <2>1 DEF OnHttpCalloutDone, ApplyResult, Unverified, Result
  <2>3. /\ answer = Verified(pending.candidate.identifier, pending.candidate.keyId)
        /\ pending.candidate.signer \in ImportableKeys
        /\ Thumbprint[pending.candidate.signer] = pending.candidate.keyId
    BY <2>2, VerifiedResponse
  <2>. QED
    BY <2>1, <2>2, <2>3 DEF Verified
<1>. QED
  BY <1>1, <1>2 DEF AnyStep, CalloutTimesOut, Reset, Tick

LEMMA ProofInvInitial == Init => ProofInv
BY FilterInvInitial DEF Init, ProofInv, Undecided, PendingBacked, VerifiedMeansProved, NoMetadata, Absent

LEMMA UndecidedPreserved ==
    ASSUME ProofInv, [AnyStep]_vars
    PROVE  Undecided'
<1>1. ASSUME NEW r \in Requests, OnRequestHeaders(r) PROVE Undecided'
  <2>1. stage = "new" /\ (stage' \in {"forwarded", "denied"} \/ UNCHANGED metadata)
    BY <1>1 DEF OnRequestHeaders, ApplyResult
  <2>. QED
    BY <2>1 DEF ProofInv, Undecided
<1>2. ASSUME NEW id, NEW response, OnHttpCalloutDone(id, response) PROVE Undecided'
  <2>1. stage' \in {"forwarded", "denied"} \/ UNCHANGED <<stage, metadata>>
    BY <1>2 DEF OnHttpCalloutDone, ApplyResult
  <2>. QED
    BY <2>1 DEF ProofInv, Undecided
<1>. QED
  BY <1>1, <1>2 DEF AnyStep, CalloutTimesOut, Reset, Tick, vars, ProofInv, Undecided

LEMMA PendingBackedPreserved ==
    ASSUME ProofInv, [AnyStep]_vars
    PROVE  PendingBacked'
<1>1. now \in Nat /\ CalloutTimeout \in Nat \ {0}
  BY FilterAssumption DEF ProofInv, FilterInv, TypeOK
<1>2. ASSUME NEW r \in Requests, OnRequestHeaders(r) PROVE PendingBacked'
  <2> SUFFICES ASSUME pending' # NoPending PROVE PendingBacked'
    BY DEF PendingBacked
  <2>1. /\ request' = r /\ now' = now
        /\ r.endOfStream
        /\ \E id \in CalloutIds :
              pending' = [calloutId |-> id, since |-> now,
                          candidate |-> ParseCandidate(r.inputs, r.agent, now)]
    BY <1>2 DEF OnRequestHeaders, ClassifySignatureHeaders
  <2>2. /\ pending'.candidate = ParseCandidate(r.inputs, r.agent, now)
        /\ pending'.since = now
    BY <2>1
  <2>. QED
    BY <1>1, <2>1, <2>2 DEF PendingBacked
<1>3. ASSUME NEW id, NEW response, OnHttpCalloutDone(id, response) PROVE PendingBacked'
  <2>1. pending' = NoPending
    BY <1>3 DEF OnHttpCalloutDone
  <2>. QED
    BY <2>1 DEF PendingBacked
<1>4. CASE Reset
  BY <1>4 DEF Reset, PendingBacked
<1>5. CASE Tick
  <2> SUFFICES ASSUME pending # NoPending PROVE PendingBacked'
    BY <1>5 DEF Tick, PendingBacked
  <2>1. pending.since \in Nat
    BY FilterAssumption DEF ProofInv, FilterInv, TypeOK
  <2>. QED
    BY <1>1, <1>5, <2>1 DEF Tick, ProofInv, PendingBacked
<1>6. CASE UNCHANGED vars
  BY <1>6 DEF vars, ProofInv, PendingBacked
<1>. QED
  BY <1>2, <1>3, <1>4, <1>5, <1>6 DEF AnyStep, CalloutTimesOut

LEMMA VerifiedPreserved ==
    ASSUME ProofInv, FilterInv', [AnyStep]_vars
    PROVE  VerifiedMeansProved'
<1> SUFFICES ASSUME metadata'.status = "verified" PROVE VerifiedMeansProved'
  BY DEF VerifiedMeansProved
<1>1. CASE metadata.status = "verified"
  <2>1. stage \notin {"new", "held"}
    BY <1>1 DEF ProofInv, Undecided, NoMetadata, Absent
  <2>2. pending = NoPending
    BY <2>1 DEF ProofInv, FilterInv, HeldIffPending
  <2>3. UNCHANGED <<metadata, request>>
    BY <2>1, <2>2 DEF AnyStep, OnRequestHeaders, OnHttpCalloutDone, CalloutTimesOut, Reset, Tick, vars
  <2>. QED
    BY <2>3 DEF ProofInv, VerifiedMeansProved, Profile, SignedEntries
<1>2. CASE metadata.status # "verified"
  <2>1. AnyStep
    BY <1>2 DEF vars
  <2>2. /\ pending # NoPending
        /\ request' = request
        /\ metadata'.identity = pending.candidate.identifier
        /\ metadata'.keyId = pending.candidate.keyId
        /\ pending.candidate.signer \in ImportableKeys
        /\ Thumbprint[pending.candidate.signer] = pending.candidate.keyId
    BY <1>2, <2>1, VerifiedByCallout
  <2>3. ClassifySignatureHeaders(request) = "candidate" /\ request.endOfStream
    BY <2>2 DEF ProofInv, FilterInv, HeldIffPending, HeldClean, PendingBacked
  <2>4. PICK sig : /\ Profile = {sig}
                   /\ Backs(sig, pending.candidate, request.agent, pending.since)
    BY <2>2, PendingSignature DEF ProofInv, FilterInv
  <2>5. /\ sig.signer \in ImportableKeys
        /\ Thumbprint[sig.signer] = metadata'.keyId
        /\ sig.keyId = metadata'.keyId
        /\ CoveredNames(sig.components) \cap {"@authority", "@target-uri"} # {}
        /\ RequiredComponents \subseteq CoveredNames(sig.components)
    BY <2>2, <2>4 DEF Backs
  <2>6. \E entry \in SignedEntries(sig) :
            /\ entry.kind = "item"
            /\ metadata'.identity =
                 ParseDiscoveryTarget(entry.url, ParseAgentType(entry.type)).identifier
    <3>1. PICK i \in AgentComponents(sig.components) :
              LET entry == SignedEntry(request.agent, sig.components[i])
              IN  /\ entry.kind = "item"
                  /\ pending.candidate.identifier =
                        ParseDiscoveryTarget(entry.url, ParseAgentType(entry.type)).identifier
      BY <2>4 DEF Backs
    <3>2. SignedEntry(request.agent, sig.components[i]) \in SignedEntries(sig)
      BY DEF SignedEntries, SignedEntry
    <3>. QED
      BY <2>2, <3>1, <3>2
  <2>7. Profile' = Profile /\ SignedEntries(sig)' = SignedEntries(sig)
    BY <2>2 DEF Profile, SignedEntries
  <2>. QED
    BY <2>2, <2>3, <2>4, <2>5, <2>6, <2>7 DEF VerifiedMeansProved
<1>. QED
  BY <1>1, <1>2

LEMMA ProofInvariant == Spec => []ProofInv
<1>1. ProofInv /\ [AnyStep]_vars => ProofInv'
  BY FilterInvPreserved, UndecidedPreserved, PendingBackedPreserved, VerifiedPreserved DEF ProofInv
<1>. QED
  BY <1>1, ProofInvInitial, NextIsAnyStep, PTL DEF Spec

(* Whatever clients send and the resolver answers, an asserted identity is *)
(* proved by the one profile signature of the request, which covers the    *)
(* Signature-Agent entry the identity was read from.                       *)
THEOREM IdentityIsProved == Spec => []VerifiedMeansProved
<1>1. ProofInv => VerifiedMeansProved
  BY DEF ProofInv
<1>. QED
  BY <1>1, ProofInvariant, PTL

(* A signature is accepted at most the skew and one callout timeout after  *)
(* its expiry, at most the skew before its creation, and only if it was    *)
(* not made for longer than the lifetime, for all 64-bit times.            *)
THEOREM DecisionIsFresh == Spec => FreshAtDecision
<1> DEFINE Fresh == metadata.status # "verified" /\ metadata'.status = "verified" =>
                        \A sig \in Profile :
                            /\ now <= sig.expires + ClockSkew + CalloutTimeout
                            /\ sig.created <= now + ClockSkew
                            /\ sig.expires - sig.created <= MaxLifetime
<1>1. ProofInv /\ [AnyStep]_vars => [Fresh]_vars
  <2> SUFFICES ASSUME ProofInv, AnyStep,
                      metadata.status # "verified", metadata'.status = "verified",
                      NEW sig \in Profile
               PROVE  /\ now <= sig.expires + ClockSkew + CalloutTimeout
                      /\ sig.created <= now + ClockSkew
                      /\ sig.expires - sig.created <= MaxLifetime
    BY DEF vars
  <2>1. pending # NoPending
    BY VerifiedByCallout
  <2>2. Backs(sig, pending.candidate, request.agent, pending.since)
    BY <2>1, PendingSignature DEF ProofInv, FilterInv
  <2>3. ValidateFreshness(sig.created, sig.expires, pending.since)
    BY <2>2 DEF Backs
  <2>4. sig.created \in I64 /\ sig.expires \in I64
    <3>1. sig \in Range(request.inputs) /\ request \in Requests
      <4>1. request \in Requests
        BY <2>1 DEF ProofInv, PendingBacked
      <4>2. PICK i \in 1..Len(request.inputs) : sig = request.inputs[i]
        BY DEF Profile, TaggedMembers
      <4>3. DOMAIN request.inputs = 1..Len(request.inputs)
        BY <4>1, RequestsAssumption
      <4>. QED
        BY <4>1, <4>2, <4>3 DEF Range
    <3>. QED
      BY <2>3, <3>1, RequestsAssumption DEF ValidateFreshness
  <2>5. /\ pending.since \in 0..MaxTime /\ pending.since <= now
        /\ now <= pending.since + CalloutTimeout /\ now \in 0..MaxTime
    BY <2>1 DEF ProofInv, FilterInv, TypeOK, PendingBacked
  <2>6. FreshOverIntegers(sig.created, sig.expires, pending.since)
    <3>1. pending.since \in I64
      BY <2>5, FilterAssumption, FreshnessAssumption DEF I64
    <3>. QED
      BY <2>3, <2>4, <3>1, FreshnessSound
  <2>. QED
    BY <2>4, <2>5, <2>6, FilterAssumption, FreshnessAssumption DEF FreshOverIntegers, I64
<1>. QED
  BY <1>1, ProofInvariant, NextIsAnyStep, PTL DEF Spec, FreshAtDecision
============================================================================
