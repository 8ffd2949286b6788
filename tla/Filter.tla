------------------------------- MODULE Filter -------------------------------
(***************************************************************************)
(* The Envoy filter of one HTTP stream: crates/module/src/filter.rs with   *)
(* policy.rs, verify.rs and the header classification of request.rs.       *)
(*                                                                         *)
(* Envoy calls on_request_headers once, then on_http_callout_done when the *)
(* resolver callout ends; in between the request is held.  Envoy, the      *)
(* resolver and the client are external: the callback may carry any        *)
(* response, may come for another callout id or once too often, and the    *)
(* stream may be reset at any time.                                        *)
(*                                                                         *)
(* A request is [hasSignature, hasInput, hasAgent, endOfStream,            *)
(* capturable, inputs, agent, spoofed]: capturable is the outcome of the   *)
(* size and ASCII checks of try_from_envoy, inputs and agent are the       *)
(* signature fields as in Candidate, spoofed are the assertion headers the *)
(* client sent.  A resolver response is [kind, identifier, jwk].           *)
(***************************************************************************)
EXTENDS Candidate

CONSTANTS
    Modes, Forwarding, \* the configured modes and forward_identity_headers to consider
    Requests,          \* requests a client may send
    Responses,         \* what a callout may end with
    CalloutIds,        \* ids Envoy gives to callouts
    Thumbprint,        \* b64_thumbprint of each key a response may hold
    ImportableKeys,    \* keys that KeyRing::try_import_jwk accepts
    CalloutTimeout,    \* ResolverSettings::timeout_ms, in units of the clock
    MaxTime,           \* bound: the clock stops here
    NoRequest, NoPending, NoDenial

Denial == [code : {400, 403, 503}, challenge : BOOLEAN]

(* PendingVerification. *)
Candidates == {ParseCandidate(r.inputs, r.agent, t) : r \in Requests, t \in 0..MaxTime}

Pending == [calloutId : CalloutIds, candidate : Candidates, since : 0..MaxTime]

ASSUME FilterAssumption ==
    /\ Modes \subseteq {"observe", "optional", "required"}
    /\ Forwarding \subseteq BOOLEAN
    /\ CalloutTimeout \in Nat \ {0}
    /\ MaxTime \in Nat /\ MaxTime <= I64Max
    /\ NoRequest \notin Requests
    /\ NoDenial \notin Denial
    /\ NoPending \notin Pending

(* The fields are lists of header values, created and expires Option<i64>. *)
ASSUME RequestsAssumption ==
    \A r \in Requests :
        /\ r.inputs \in Seq(Range(r.inputs))
        /\ r.agent \in Seq(Range(r.agent))
        /\ \A sig \in Range(r.inputs) : {sig.created, sig.expires} \subseteq I64 \cup {NoTime}

VARIABLES
    mode, forward,  \* Settings::mode and forward_identity_headers
    now,            \* the clock
    stage,          \* where the request is
    request,        \* the request, once its headers have arrived
    receivedAt,     \* when they arrived
    pending,        \* WebBotAuthFilter::pending
    headers,        \* the assertion headers of the request that goes upstream
    metadata,       \* dynamic metadata; `verified' is status = "verified"
    denial          \* the local reply

settings == <<mode, forward>>
vars == <<settings, now, stage, request, receivedAt, pending, headers, metadata, denial>>

Absent == "absent"

NoAssertion == [status |-> Absent, identity |-> Absent, keyId |-> Absent]

NoMetadata == [status |-> Absent, reason |-> Absent, identity |-> Absent, keyId |-> Absent]

---------------------------------------------------------------------------
(* VerificationResult and the admission policy. *)

Result(status, kind, reason) ==
    [status |-> status, kind |-> kind, reason |-> reason,
     identity |-> Absent, keyId |-> Absent]

Verified(identifier, keyId) ==
    [status |-> "verified", kind |-> "verified", reason |-> "verified",
     identity |-> identifier, keyId |-> keyId]

NotPresent == Result("not-present", "unsigned", "unsigned")

Invalid(kind, reason) == Result("invalid", kind, reason)

Unverified(kind, reason) == Result("unverified", kind, reason)

(* CandidateError::result. *)
ErrorResult(error) ==
    IF ErrorKind(error) = "unsupported" THEN Unverified("unsupported", error)
    ELSE Invalid(ErrorKind(error), error)

Reject(code, challenge) == [code |-> code, challenge |-> challenge]

(* Mutants: an outage of the resolver lets requests through, or is         *)
(* reported as an error of the server.                                     *)
AdmissionFailsOpen(m, result) ==
    IF m = "observe" \/ result.kind \in {"verified", "unavailable"} THEN NoDenial
    ELSE IF result.kind = "unsigned" /\ m = "optional" THEN NoDenial
    ELSE Reject(403, FALSE)

AdmissionMisreports(m, result) ==
    IF m = "observe" \/ result.kind = "verified" THEN NoDenial
    ELSE IF result.kind = "unavailable" THEN Reject(500, FALSE)
    ELSE Reject(403, FALSE)

(* NoDenial is Admission::Allow. *)
Admission(m, result) ==
    IF m = "observe" THEN NoDenial
    ELSE CASE result.kind = "unsigned" -> IF m = "required" THEN Reject(403, TRUE) ELSE NoDenial
           [] result.kind = "malformed" -> Reject(400, FALSE)
           [] result.kind \in {"rejected", "unsupported", "key_not_found"} -> Reject(403, FALSE)
           [] result.kind = "unavailable" -> Reject(503, FALSE)
           [] result.kind = "verified" -> NoDenial

(* The result the headers alone decide, or "candidate". *)
ClassifySignatureHeaders(r) ==
    IF ~r.hasSignature /\ ~r.hasInput /\ ~r.hasAgent THEN "unsigned"
    ELSE IF r.hasSignature /\ r.hasInput /\ r.hasAgent THEN "candidate"
    ELSE "incomplete"

(* verify_resolver_response with the reading of the callout's outcome in   *)
(* on_http_callout_done: "failed" is a callout that failed or a status     *)
(* other than 200, "garbled" a body that is too long or not a response.    *)
VerifyResolverResponse(candidate, response) ==
    IF response.kind = "failed" THEN Unverified("unavailable", "resolver_unavailable")
    ELSE IF response.kind = "garbled" THEN Unverified("unavailable", "resolver_response")
    ELSE IF response.identifier # candidate.identifier
    THEN Unverified("unavailable", "resolver_identifier")
    ELSE IF response.kind = "key_not_found"
    THEN Unverified("key_not_found", "key_not_found")
    ELSE IF Thumbprint[response.jwk] # candidate.keyId
    THEN Unverified("unavailable", "key_thumbprint")
    ELSE IF response.jwk \notin ImportableKeys
    THEN Unverified("unavailable", "key_algorithm")
    ELSE IF candidate.signer # response.jwk
    THEN Invalid("rejected", "signature_verification")
    ELSE Verified(response.identifier, candidate.keyId)

---------------------------------------------------------------------------
(* The callbacks. *)

(* Mutant: the client's headers stay. *)
KeepAssertionHeaders(assertion) == assertion

(* remove_request_header removes every value of the three headers. *)
SanitizeAssertionHeaders(assertion) == NoAssertion

Init ==
    /\ mode \in Modes
    /\ forward \in Forwarding
    /\ now \in 0..MaxTime
    /\ stage = "new"
    /\ request = NoRequest
    /\ receivedAt = now
    /\ pending = NoPending
    /\ headers = NoAssertion
    /\ metadata = NoMetadata
    /\ denial = NoDenial

(* apply_result, and the continuation or the local reply that follows. *)
ApplyResult(result, assertion) ==
    /\ metadata' = [status |-> result.status, reason |-> result.reason,
                    identity |-> result.identity, keyId |-> result.keyId]
    /\ headers' = IF ~forward THEN assertion
                  ELSE IF result.status = "verified"
                  THEN [status |-> result.status, identity |-> result.identity,
                        keyId |-> result.keyId]
                  ELSE [assertion EXCEPT !.status = result.status]
    /\ denial' = Admission(mode, result)
    /\ stage' = IF Admission(mode, result) = NoDenial THEN "forwarded" ELSE "denied"

(* The headers arrive.  A request that ends the header phase with a result *)
(* is decided at once; a candidate is sent to the resolver and held, or    *)
(* decided as unavailable when the callout cannot be sent.  The resolver   *)
(* request always fits in MAX_RESOLVE_BODY_BYTES: the URL and the key id   *)
(* are bounded and at most doubled by JSON escapes.  Headers arrive early  *)
(* enough for a callout to time out within the bound on the clock.         *)
OnRequestHeaders(r) ==
    LET class == ClassifySignatureHeaders(r)
        candidate == ParseCandidate(r.inputs, r.agent, now)
        assertion == SanitizeAssertionHeaders(r.spoofed)
        Finish(result) == ApplyResult(result, assertion) /\ pending' = NoPending
    IN  /\ stage = "new"
        /\ now + CalloutTimeout <= MaxTime
        /\ request' = r
        /\ receivedAt' = now
        /\ IF class = "unsigned" THEN Finish(NotPresent)
           ELSE IF class = "incomplete" THEN Finish(Invalid("malformed", "incomplete_fields"))
           ELSE IF ~r.endOfStream
           THEN Finish(Unverified("unsupported", "request_body_unsupported"))
           ELSE IF ~r.capturable THEN Finish(Invalid("malformed", "request_capture"))
           ELSE IF candidate.error # "none" THEN Finish(ErrorResult(candidate.error))
           ELSE \/ Finish(Unverified("unavailable", "resolver_unavailable"))
                \/ /\ \E id \in CalloutIds :
                         pending' = [calloutId |-> id, candidate |-> candidate, since |-> now]
                   /\ stage' = "held"
                   /\ headers' = assertion
                   /\ UNCHANGED <<metadata, denial>>
        /\ UNCHANGED <<settings, now>>

(* Mutants: a failed callout is dropped without a decision, and a callback *)
(* reads the pending verification without taking it.                       *)
CalloutFailureDropped(id, response) ==
    /\ stage = "held"
    /\ pending # NoPending
    /\ pending' = NoPending
    /\ IF response.kind = "failed" THEN UNCHANGED <<stage, headers, metadata, denial>>
       ELSE ApplyResult(VerifyResolverResponse(pending.candidate, response), headers)
    /\ UNCHANGED <<settings, now, request, receivedAt>>

PendingNotTaken(id, response) ==
    /\ stage \notin {"new", "reset"}
    /\ pending # NoPending
    /\ ApplyResult(VerifyResolverResponse(pending.candidate, response), headers)
    /\ UNCHANGED <<settings, now, request, receivedAt, pending>>

(* A callout ended.  pending.take() makes every later callback a no-op. *)
OnHttpCalloutDone(id, response) ==
    /\ stage \notin {"new", "reset"}
    /\ IF pending = NoPending
       THEN UNCHANGED <<pending, stage, headers, metadata, denial>>
       ELSE /\ pending' = NoPending
            /\ ApplyResult(IF pending.calloutId # id
                           THEN Unverified("unavailable", "resolver_callout_mismatch")
                           ELSE VerifyResolverResponse(pending.candidate, response),
                           headers)
    /\ UNCHANGED <<settings, now, request, receivedAt>>

Failed == [kind |-> "failed", identifier |-> Absent, jwk |-> Absent]

(* External: Envoy's timer of the callout fires. *)
CalloutTimesOut ==
    /\ pending # NoPending
    /\ now >= pending.since + CalloutTimeout
    /\ OnHttpCalloutDone(pending.calloutId, Failed)

(* External: the stream goes away, and the filter and its callout with it. *)
Reset ==
    /\ stage # "reset"
    /\ stage' = "reset"
    /\ pending' = NoPending
    /\ UNCHANGED <<settings, now, request, receivedAt, headers, metadata, denial>>

(* Time passes, but a callout does not outlive its timeout. *)
Tick ==
    /\ now < MaxTime
    /\ pending # NoPending => now < pending.since + CalloutTimeout
    /\ now' = now + 1
    /\ UNCHANGED <<settings, stage, request, receivedAt, pending, headers, metadata, denial>>

Next ==
    \/ \E r \in Requests : OnRequestHeaders(r)
    \/ \E id \in CalloutIds, response \in Responses : OnHttpCalloutDone(id, response)
    \/ CalloutTimesOut
    \/ Reset
    \/ Tick

Spec == Init /\ [][Next]_vars

(* Envoy ends every callout by its timeout; the resolver may never answer. *)
FairSpec == Spec /\ WF_vars(Tick) /\ WF_vars(CalloutTimesOut)

---------------------------------------------------------------------------
(* Properties. *)

TypeOK ==
    /\ mode \in Modes
    /\ forward \in Forwarding
    /\ now \in 0..MaxTime
    /\ stage \in {"new", "held", "forwarded", "denied", "reset"}
    /\ request \in Requests \cup {NoRequest}
    /\ receivedAt \in 0..MaxTime
    /\ pending # NoPending => /\ pending.calloutId \in CalloutIds
                              /\ pending.candidate.error = "none"
                              /\ pending.since \in 0..MaxTime
    /\ denial \in Denial \cup {NoDenial}

(* The members that carry the profile's tag in the request being decided. *)
Profile == {request.inputs[i] : i \in TaggedMembers(request.inputs)}

(* The Signature-Agent entries whose serialisation is in the signature     *)
(* base of sig, by lookup_component of request.rs.                         *)
SignedEntries(sig) ==
    {IF c.params = "none" THEN request.agent[1].item
     ELSE SelectDictionaryMember(request.agent, c.params) :
        c \in {sig.components[i] : i \in AgentComponents(sig.components)}}

(* An identity is asserted only if it is proved: the request carries one   *)
(* profile signature; its signer's key has the asserted key id; the        *)
(* asserted identifier is that of a Signature-Agent entry which this very  *)
(* signature covers; and it covers the authority and what is required.     *)
(* This relates the member selection of candidate.rs to that of request.rs *)
(* and survives duplicate labels, duplicate members and any callback.      *)
VerifiedMeansProved ==
    metadata.status = "verified" =>
        /\ ClassifySignatureHeaders(request) = "candidate"
        /\ request.endOfStream
        /\ \E sig \in Profile :
              /\ Profile = {sig}
              /\ sig.signer \in ImportableKeys
              /\ Thumbprint[sig.signer] = metadata.keyId
              /\ sig.keyId = metadata.keyId
              /\ \E entry \in SignedEntries(sig) :
                    /\ entry.kind = "item"
                    /\ metadata.identity =
                         ParseDiscoveryTarget(entry.url, ParseAgentType(entry.type)).identifier
              /\ CoveredNames(sig.components) \cap {"@authority", "@target-uri"} # {}
              /\ RequiredComponents \subseteq CoveredNames(sig.components)

(* What goes upstream never carries an assertion of the client's: the      *)
(* headers agree with the decision and name an identity only if it was     *)
(* verified; without forwarding there are none (filter.rs:146, 85-92).     *)
AssertionsAreOurs ==
    stage = "forwarded" =>
        /\ headers.status = IF forward THEN metadata.status ELSE Absent
        /\ IF forward /\ metadata.status = "verified"
           THEN headers.identity = metadata.identity /\ headers.keyId = metadata.keyId
           ELSE headers.identity = Absent /\ headers.keyId = Absent

(* The modes as config.rs:15-21 describes them, over the whole life of the *)
(* request: required lets only verified requests through, optional also    *)
(* those without any signature field, observe all of them.                 *)
ModeEnforced ==
    /\ stage = "forwarded" /\ mode = "required" => metadata.status = "verified"
    /\ stage = "forwarded" /\ mode = "optional" =>
           \/ metadata.status = "verified"
           \/ ClassifySignatureHeaders(request) = "unsigned"
    /\ stage = "denied" => mode # "observe" /\ metadata.status # "verified"

(* A held request has a verification pending, so that a callback can still *)
(* release it, and only a held one has (filter.rs:332, 350).               *)
HeldIffPending == stage = "held" <=> pending # NoPending

(* A decision is final: whatever callbacks come later, nothing the filter  *)
(* has written or replied changes (filter.rs:350 pending.take()).          *)
DecidedOnce ==
    [][(stage \in {"forwarded", "denied"}) =>
          /\ UNCHANGED <<request, headers, metadata, denial>>
          /\ stage' \in {stage, "reset"}]_vars

(* A signature is verified at most the clock skew and one callout after it *)
(* expired: freshness is checked before the callout and not again after.   *)
FreshAtDecision ==
    [][metadata.status # "verified" /\ metadata'.status = "verified" =>
          \A sig \in Profile :
              /\ now <= sig.expires + ClockSkew + CalloutTimeout
              /\ sig.created <= now + ClockSkew
              /\ sig.expires - sig.created <= MaxLifetime]_vars

(* No request is held for ever, even if the resolver never answers.        *)
HeldIsDecided == stage = "held" ~> stage # "held"

(* operations.md:57: required_components are the components every          *)
(* signature must cover: a request is refused for a missing component only *)
(* if its signature misses one.                                            *)
RefusedOnlyIfNotCovered ==
    metadata.reason = "missing_required_component" =>
        \E sig \in Profile :
            LET names == {sig.components[i].name : i \in 1..Len(sig.components)}
            IN  \/ names \cap {"@authority", "@target-uri"} = {}
                \/ ~(RequiredComponents \subseteq names)

(* architecture.md:36: a valid signature "can be replayed until its        *)
(* expiry", and operations.md:56 describes clock_skew_seconds as "Accepted *)
(* future clock skew".  So a request that arrives after the expiry of its  *)
(* signature is not verified, whatever the skew.  But candidate.rs:208     *)
(* takes the skew off `now' before it compares.                            *)
NotAcceptedAfterExpiry ==
    metadata.status = "verified" => \A sig \in Profile : receivedAt <= sig.expires
============================================================================
