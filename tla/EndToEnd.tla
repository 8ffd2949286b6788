------------------------------ MODULE EndToEnd ------------------------------
(***************************************************************************)
(* The module and the resolver together: one stream of Filter whose        *)
(* callouts are answered by ResolverService, over the loader that          *)
(* KeyDirectory promises.  The caller Mine is the callout of this stream;  *)
(* the other callers are callouts of other streams, which compete for      *)
(* handler permits, and whose answers Envoy must not mix up with ours.     *)
(*                                                                         *)
(* The two processes have clocks of their own: `now' is the wall clock and *)
(* the callout timer of Envoy, `uptime' the monotonic clock of the         *)
(* resolver.  Nothing relates them, so that every race of a timeout with   *)
(* an answer is possible.                                                  *)
(***************************************************************************)
EXTENDS Filter

CONSTANTS
    Callers, Mine,
    Content, ValidKeys, TestKeys, AllowTestKeys, MaxKeys,
    ActiveHandlers, ResolutionTimeout,
    NoAnswer, NoResponse, NoKid, NoKey  \* of ResolverService

VARIABLES
    known, \* history: the versions obtained when the headers arrived
    uptime, handlers, phase, asked, startedAt, response, seen,
    published, obtained, status, wanted, floor, answer \* of ResolverService

(* Mutant: the resolver is asked for the normalised identifier. *)
AskForIdentifier(candidate) ==
    [decodable |-> TRUE, discovery |-> candidate.discovery, keyId |-> candidate.keyId,
     url |-> [candidate.url EXCEPT !.path = NormalizePath(@), !.query = FALSE]]

(* The ResolveRequest for a candidate: the URL as it was signed.  That its *)
(* body exceeds what the resolver is configured to accept is, for Envoy,   *)
(* one of the ways in which a callout fails.                               *)
Ask(candidate) ==
    [decodable |-> TRUE, discovery |-> candidate.discovery, keyId |-> candidate.keyId,
     url |-> candidate.url]

Asks == {Ask(candidate) : candidate \in {c \in Candidates : c.error = "none"}}

Service == INSTANCE ResolverService WITH Requests <- Asks, now <- uptime, request <- asked

ASSUME EndToEndAssumption ==
    /\ Mine \in Callers
    /\ Service!ServiceAssumption
    /\ Service!ContentAssumption

streamVars == <<vars, known>>
resolverVars == <<uptime, handlers, phase, asked, startedAt, response, seen,
                  published, obtained, status, wanted, floor, answer>>
systemVars == <<streamVars, resolverVars>>

(* What a callout presents to on_http_callout_done: a ResolveResponse only *)
(* if the status is 200.                                                   *)
Outcome(reply) ==
    IF reply.code # 200 THEN Failed
    ELSE [kind |-> IF reply.jwk = NoKey THEN "key_not_found" ELSE "resolved",
          identifier |-> reply.identifier, jwk |-> reply.jwk]

SystemInit ==
    /\ Init
    /\ Service!Init
    /\ known = [k \in Service!Keys |-> 0]

(* The filter's steps that do not depend on the resolver. *)
HeadersArrive(r) ==
    /\ OnRequestHeaders(r)
    /\ known' = obtained
    /\ UNCHANGED resolverVars

StreamAlone ==
    /\ \/ CalloutTimesOut
       \/ Reset
       \/ Tick
       \/ \E id \in CalloutIds : OnHttpCalloutDone(id, Failed) \* the connection breaks
    /\ UNCHANGED <<known, resolverVars>>

(* The request of this stream reaches the resolver, while somebody waits   *)
(* for the answer.                                                         *)
AskArrives ==
    /\ pending # NoPending
    /\ Service!Accept(Mine, Ask(pending.candidate))
    /\ UNCHANGED streamVars

(* External: Envoy hands an answer of the resolver to the callback.  A     *)
(* callback with the id of this stream's callout carries its answer.       *)
AnswerArrives(id, c) ==
    /\ response[c] # NoResponse
    /\ pending # NoPending /\ id = pending.calloutId => c = Mine
    /\ OnHttpCalloutDone(id, Outcome(response[c]))
    /\ UNCHANGED <<known, resolverVars>>

(* The resolver's own steps, and requests of other streams. *)
ResolverAlone ==
    /\ \/ \E c \in Callers :
             \/ Service!Validate(c)
             \/ Service!LoadEnds(c)
             \/ Service!Proceed(c)
             \/ Service!DeadlineExpires(c)
             \/ Service!Disconnect(c)
       \/ \E c \in Callers \ {Mine}, ask \in Asks : Service!Accept(c, ask)
       \/ \E k \in Service!Keys : Service!OriginUpdate(k) \/ Service!Refresh(k)
       \/ Service!Tick
    /\ UNCHANGED streamVars

SystemNext ==
    \/ \E r \in Requests : HeadersArrive(r)
    \/ StreamAlone
    \/ AskArrives
    \/ \E id \in CalloutIds, c \in Callers : AnswerArrives(id, c)
    \/ ResolverAlone

System == SystemInit /\ [][SystemNext]_systemVars

---------------------------------------------------------------------------
(* Properties. *)

(* A verified request was signed with a key that the signed agent itself   *)
(* published: the documents at the URL, and of the type, of a covered      *)
(* Signature-Agent entry list the signer's key under the signature's key   *)
(* id, and none of them is older than what the resolver already knew when  *)
(* the headers arrived.  So a key whose withdrawal the resolver has seen   *)
(* verifies no later request, and an answer to another question, for the   *)
(* same identifier, never does (filter.rs:242, 350; service.rs:102).       *)
SignerIsPublished ==
    metadata.status = "verified" =>
        \E sig \in Profile : \E entry \in SignedEntries(sig) :
            Service!AnswerFrom(known, published,
                [discovery |-> ParseAgentType(entry.type), url |-> entry.url,
                 keyId |-> metadata.keyId],
                sig.signer)

(* Unless it is allowed no request that a known test key signed is         *)
(* verified, under whatever kid a key set lists it (architecture.md:34):   *)
(* the resolver refuses key ids, the module compares thumbprints, and      *)
(* neither alone is enough (service.rs:84, verify.rs:78).                  *)
TestKeysVerifyNothing ==
    ~AllowTestKeys /\ metadata.status = "verified" =>
        \A sig \in Profile : Thumbprint[sig.signer] \notin TestKeys

(* The two processes apply the same rules: the resolver finds no fault in  *)
(* a URL or a key id that the module accepted, and gives it the same       *)
(* identifier (candidate.rs:147, service.rs:171, verify.rs:68).            *)
RulesAgree ==
    /\ \A c \in Callers : response[c] # NoResponse => response[c].code # 400
    /\ metadata.reason # "resolver_identifier"
=============================================================================
