-------------------------- MODULE ResolverService --------------------------
(***************************************************************************)
(* The resolver's HTTP service: crates/resolver/src/server.rs, service.rs  *)
(* and resource.rs.  Each caller makes one request.  The cache below the   *)
(* service is KeyDirectory, which ResourceCache implements; a version of a *)
(* resource stands for the document that Content gives it, and only the    *)
(* documents that parse_resource accepts are obtained.                     *)
(*                                                                         *)
(* A JWKS document is [form, keys] with form "jwks" and keys a sequence of *)
(* [kty, x, kid]; a client metadata document is [form, clientId, jwks,     *)
(* jwksUri] with form "cimd", where jwks is <<>> or <<keys>> and jwksUri   *)
(* <<>> or <<url>>.  A request is [decodable, discovery, url, keyId].      *)
(***************************************************************************)
EXTENDS Discovery, FiniteSets

CONSTANTS
    Callers,           \* bound: the requests made, one for each caller
    Requests,          \* what they may ask
    Content,           \* the documents of each resource, in order of version
    Thumbprint,        \* b64_thumbprint of the keys that occur
    ValidKeys,         \* keys that is_valid_public_key accepts
    TestKeys,          \* TEST_KEY_THUMBPRINTS
    AllowTestKeys,     \* --allow-test-keys
    MaxKeys,           \* Limits::keys_per_document
    ActiveHandlers,    \* Limits::active_handlers
    ResolutionTimeout, \* Limits::resolution_timeout
    MaxTime,           \* bound: the clock stops here
    NoAnswer, NoRequest, NoResponse, NoKid, NoKey

(* ResourceKey: [url, kind]. *)
Keys == DOMAIN Content

ASSUME ServiceAssumption ==
    /\ ActiveHandlers \in Nat
    /\ ResolutionTimeout \in Nat
    /\ MaxTime \in Nat
    /\ IsFiniteSet(Callers)
    /\ NoRequest \notin Requests
    /\ NoAnswer \notin Nat
    /\ Keys # {}
    /\ \A k \in Keys : Len(Content[k]) \in Nat \ {0}

VARIABLES
    now,       \* the clock
    handlers,  \* free permits of ResolverService::handlers
    phase,     \* where the handling of each caller's request is
    request,   \* the request being handled
    startedAt, \* when resolve_timed armed its timeout
    response,  \* what the caller was sent
    seen,      \* history: the versions obtained when the request arrived
    published, obtained, status, wanted, floor, answer \* of KeyDirectory

Directory == INSTANCE KeyDirectory WITH Loads <- Callers

directoryVars == <<published, obtained, status, wanted, floor, answer>>
serviceVars == <<handlers, phase, request, startedAt, response, seen>>
vars == <<now, serviceVars, directoryVars>>

---------------------------------------------------------------------------
(* resource.rs: what a document amounts to. *)

InvalidResource == [form |-> "invalid"]

(* A key of another type is skipped before anything else is looked at. *)
IsEd25519(key) == key.kty = "ed25519"

(* The key set is refused for one bad Ed25519 key; in a directory a kid    *)
(* must be the thumbprint.                                                 *)
BadKey(key, directory) ==
    \/ key.x \notin ValidKeys
    \/ directory /\ key.kid # NoKid /\ key.kid # Thumbprint[key.x]

ParseKeys(keys, directory) ==
    IF \/ Len(keys) > MaxKeys
       \/ \E i \in 1..Len(keys) : IsEd25519(keys[i]) /\ BadKey(keys[i], directory)
    THEN InvalidResource
    ELSE [form |-> "keys", keys |-> SelectSeq(keys, IsEd25519)]

(* parse_resource: keys, the jwks_uri of client metadata, or an error.     *)
(* Client metadata has exactly one of the two.  Only the spelling and the  *)
(* length of a jwks_uri are looked at here, so these are the faults it may *)
(* have; a wrong scheme or user makes its load fail (Outbound!ValidateUrl). *)
ParseResource(key, document) ==
    IF key.kind # document.form THEN InvalidResource
    ELSE IF key.kind = "jwks" THEN ParseKeys(document.keys, IsDirectoryUrl(key.url))
    ELSE IF document.clientId # key.url THEN InvalidResource
    ELSE IF document.jwks # <<>> /\ document.jwksUri = <<>>
    THEN ParseKeys(document.jwks[1], FALSE)
    ELSE IF document.jwks = <<>> /\ document.jwksUri # <<>>
    THEN IF document.jwksUri[1].fault # "none" THEN InvalidResource
         ELSE [form |-> "uri", url |-> FetchUrl(document.jwksUri[1], "jwks_uri")]
    ELSE InvalidResource

Parsed(key, version) == ParseResource(key, Content[key][version + 1])

Parses(key, version) == Parsed(key, version) # InvalidResource

(* select_key: the first key with this kid, or else the first with this    *)
(* thumbprint.                                                             *)
SelectKey(keys, id) ==
    LET First(matches) == CHOOSE i \in matches : \A j \in matches : i <= j
        labelled == {i \in 1..Len(keys) : keys[i].kid = id}
        matching == {i \in 1..Len(keys) : Thumbprint[keys[i].x] = id}
    IN  IF labelled # {} THEN keys[First(labelled)].x
        ELSE IF matching # {} THEN keys[First(matching)].x
        ELSE NoKey

---------------------------------------------------------------------------
(* The requests. *)

Error(code) == [code |-> code, identifier |-> NoKey, jwk |-> NoKey]

(* Mutant: the identifier is the URL that was fetched. *)
FoundAsFetched(req, jwk) ==
    [code |-> 200, jwk |-> jwk,
     identifier |-> [host |-> req.url.host, path |-> FetchUrl(req.url, req.discovery).path]]

(* ResolveResponse: jwk is NoKey for KeyNotFound. *)
Found(req, jwk) ==
    [code |-> 200, jwk |-> jwk,
     identifier |-> ParseDiscoveryTarget(req.url, req.discovery).identifier]

(* validate_request: length limits of the URL and the key id, and the rules *)
(* of discovery URLs.                                                       *)
ValidRequest(req) ==
    /\ req.keyId \notin {"empty", "too_long"}
    /\ ParseDiscoveryTarget(req.url, req.discovery).error = "none"

(* The resource that load_keys starts with. *)
FirstKey(req) ==
    [url |-> FetchUrl(req.url, req.discovery),
     kind |-> IF req.discovery = "cimd" THEN "cimd" ELSE "jwks"]

(* Content has every resource that a request or a document refers to. *)
ASSUME ContentAssumption ==
    /\ \A req \in Requests : ValidRequest(req) => FirstKey(req) \in Keys
    /\ \A k \in Keys : \A v \in 0 .. Len(Content[k]) - 1 :
           Parsed(k, v).form = "uri" => [url |-> Parsed(k, v).url, kind |-> "jwks"] \in Keys

(* Mutant: the test keys are only refused for directories. *)
RefusedInDirectories(req) == ~AllowTestKeys /\ req.keyId \in TestKeys /\ req.discovery = "directory"

RefusedTestKey(req) == ~AllowTestKeys /\ req.keyId \in TestKeys

Active(c) == phase[c] \in {"validate", "metadata", "keys"}

Init ==
    /\ now = 0
    /\ handlers = ActiveHandlers
    /\ phase = [c \in Callers |-> "idle"]
    /\ request = [c \in Callers |-> NoRequest]
    /\ startedAt = [c \in Callers |-> 0]
    /\ response = [c \in Callers |-> NoResponse]
    /\ seen = [c \in Callers |-> [k \in Keys |-> 0]]
    /\ Directory!Init
    /\ wanted = [c \in Callers |-> CHOOSE k \in Keys : TRUE] \* nothing yet

(* Mutant: a request is taken on without looking for a free permit. *)
AcceptAlways(c, req) ==
    /\ phase[c] = "idle"
    /\ now + ResolutionTimeout <= MaxTime
    /\ request' = [request EXCEPT ![c] = req]
    /\ seen' = [seen EXCEPT ![c] = obtained]
    /\ startedAt' = [startedAt EXCEPT ![c] = now]
    /\ phase' = [phase EXCEPT ![c] = "validate"]
    /\ handlers' = handlers - 1
    /\ UNCHANGED <<now, response, directoryVars>>

(* The request reaches the router.  A body that is too long or no          *)
(* ResolveRequest is refused by axum, with 422 or another client error,    *)
(* and never reaches the handler; without a free permit the handler        *)
(* answers at once.                                                        *)
Accept(c, req) ==
    /\ phase[c] = "idle"
    /\ now + ResolutionTimeout <= MaxTime
    /\ request' = [request EXCEPT ![c] = req]
    /\ seen' = [seen EXCEPT ![c] = obtained]
    /\ startedAt' = [startedAt EXCEPT ![c] = now]
    /\ IF ~req.decodable \/ handlers = 0
       THEN /\ phase' = [phase EXCEPT ![c] = "done"]
            /\ response' = [response EXCEPT ![c] =
                               Error(IF req.decodable THEN 503 ELSE 422)]
            /\ UNCHANGED handlers
       ELSE /\ phase' = [phase EXCEPT ![c] = "validate"]
            /\ response' = [response EXCEPT ![c] = NoResponse]
            /\ handlers' = handlers - 1
    /\ UNCHANGED <<now, directoryVars>>

(* The handler ends with an answer and gives its permit back. *)
Reply(c, what) ==
    /\ phase' = [phase EXCEPT ![c] = "done"]
    /\ response' = [response EXCEPT ![c] = what]
    /\ handlers' = handlers + 1

(* load_keys asks the loader for a resource. *)
Load(c, key, stage) ==
    /\ phase' = [phase EXCEPT ![c] = stage]
    /\ Directory!Request(c, key)
    /\ UNCHANGED <<handlers, response>>

(* The synchronous start of resolve_inner: bad requests and test keys are  *)
(* answered without a load.                                                *)
Validate(c) ==
    LET req == request[c]
    IN  /\ phase[c] = "validate"
        /\ IF ~ValidRequest(req) THEN Reply(c, Error(400)) /\ UNCHANGED directoryVars
           ELSE IF RefusedTestKey(req)
           THEN Reply(c, Found(req, NoKey)) /\ UNCHANGED directoryVars
           ELSE Load(c, FirstKey(req), IF req.discovery = "cimd" THEN "metadata" ELSE "keys")
        /\ UNCHANGED <<now, request, startedAt, seen>>

(* The loader answers: nothing for any of its errors.                      *)
LoadEnds(c) ==
    /\ status[c] = "loading"
    /\ \E v \in Directory!Acceptable(c) :
           /\ v # NoAnswer => Parses(wanted[c], v)
           /\ Directory!Answer({c}, [answer EXCEPT ![c] = v])
    /\ UNCHANGED <<now, serviceVars>>

(* Mutant: after the metadata the keys come from whatever was loaded last. *)
ProceedWithFirst(c) ==
    /\ phase[c] \in {"metadata", "keys"} /\ status[c] = "done"
    /\ IF answer[c] = NoAnswer THEN Reply(c, Error(503))
       ELSE IF Parsed(wanted[c], answer[c]).form = "keys"
       THEN Reply(c, Found(request[c], SelectKey(Parsed(wanted[c], answer[c]).keys, request[c].keyId)))
       ELSE Reply(c, Found(request[c], NoKey))
    /\ UNCHANGED <<now, request, startedAt, seen, directoryVars>>

(* load_keys continues with what was loaded: inline keys or a key set are  *)
(* searched; metadata with a jwks_uri leads to a second load.              *)
Proceed(c) ==
    LET resource == Parsed(wanted[c], answer[c])
    IN  /\ phase[c] \in {"metadata", "keys"}
        /\ status[c] = "done"
        /\ IF answer[c] = NoAnswer THEN Reply(c, Error(503)) /\ UNCHANGED directoryVars
           ELSE IF resource.form = "uri"
           THEN Load(c, [url |-> resource.url, kind |-> "jwks"], "keys")
           ELSE /\ Reply(c, Found(request[c], SelectKey(resource.keys, request[c].keyId)))
                /\ UNCHANGED directoryVars
        /\ UNCHANGED <<now, request, startedAt, seen>>

(* The future of the handler is dropped, and with it its permit and the    *)
(* load it waits for.                                                      *)
Drop(c, what) ==
    /\ Active(c)
    /\ Reply(c, what)
    /\ IF status[c] = "loading"
       THEN Directory!Answer({c}, [answer EXCEPT ![c] = NoAnswer])
       ELSE UNCHANGED directoryVars
    /\ UNCHANGED <<now, request, startedAt, seen>>

(* Mutant: each of the two loads has the whole timeout. *)
DeadlinePerLoad(c) ==
    startedAt[c] + (IF phase[c] = "keys" /\ request[c].discovery = "cimd" THEN 2 ELSE 1)
                   * ResolutionTimeout

(* One timeout covers validation and both loads. *)
Deadline(c) == startedAt[c] + ResolutionTimeout

(* Mutant: dropping the handler at its deadline keeps the permit. *)
DeadlineLeaks(c) ==
    /\ Active(c) /\ now >= Deadline(c)
    /\ phase' = [phase EXCEPT ![c] = "done"]
    /\ response' = [response EXCEPT ![c] = Error(503)]
    /\ IF status[c] = "loading"
       THEN Directory!Answer({c}, [answer EXCEPT ![c] = NoAnswer])
       ELSE UNCHANGED directoryVars
    /\ UNCHANGED <<now, handlers, request, startedAt, seen>>

(* Mutant: only the load of a key set is under the timeout. *)
DeadlineOfKeys(c) == phase[c] = "keys" /\ now >= Deadline(c) /\ Drop(c, Error(503))

DeadlineExpires(c) == now >= Deadline(c) /\ Drop(c, Error(503))

(* External: the module hangs up; nobody sees an answer. *)
Disconnect(c) == Drop(c, NoResponse)

(* External: an origin publishes, and the loader obtains, a version. *)
OriginUpdate(k) ==
    /\ published[k] + 1 < Len(Content[k])
    /\ Directory!Publish(k)
    /\ UNCHANGED <<now, serviceVars>>

Refresh(k) ==
    /\ \E v \in obtained[k] .. published[k] : Parses(k, v) /\ Directory!Obtain(k, v)
    /\ UNCHANGED <<now, serviceVars>>

(* Time passes, but not beyond a deadline: timers are prompt. *)
Tick ==
    /\ now < MaxTime
    /\ \A c \in Callers : Active(c) => now < Deadline(c)
    /\ now' = now + 1
    /\ UNCHANGED <<serviceVars, directoryVars>>

CallerStep(c) ==
    \/ \E req \in Requests : Accept(c, req)
    \/ Validate(c)
    \/ LoadEnds(c)
    \/ Proceed(c)
    \/ DeadlineExpires(c)
    \/ Disconnect(c)

Next ==
    \/ \E c \in Callers : CallerStep(c)
    \/ \E k \in Keys : OriginUpdate(k) \/ Refresh(k)
    \/ Tick

Spec == Init /\ [][Next]_vars

(* Only the runtime's timers need to be fair: neither the loader nor the   *)
(* origins need ever answer.                                               *)
FairSpec ==
    /\ Spec
    /\ WF_vars(Tick)
    /\ \A c \in Callers : WF_vars(DeadlineExpires(c))

---------------------------------------------------------------------------
(* Properties. *)

TypeOK ==
    /\ now \in 0..MaxTime
    /\ handlers \in 0..ActiveHandlers
    /\ phase \in [Callers -> {"idle", "validate", "metadata", "keys", "done"}]
    /\ request \in [Callers -> Requests \cup {NoRequest}]
    /\ startedAt \in [Callers -> 0..MaxTime]
    /\ seen \in [Callers -> [Keys -> Nat]]
    /\ published \in [Keys -> Nat]
    /\ obtained \in [Keys -> Nat]
    /\ status \in [Callers -> {"idle", "loading", "done"}]
    /\ wanted \in [Callers -> Keys]
    /\ floor \in [Callers -> Nat]
    /\ answer \in [Callers -> Nat \cup {NoAnswer}]

(* No handler permit is lost or given back twice, whichever of an answer,  *)
(* a bad request, the deadline and a disconnect ends the handler first     *)
(* (service.rs:69).                                                        *)
HandlersConserved ==
    handlers + Cardinality({c \in Callers : Active(c)}) = ActiveHandlers

(* The versions of a resource from the one in since to the one in upto. *)
Versions(since, upto, k) == IF k \in Keys THEN since[k] .. upto[k] ELSE {}

(* jwk is what the documents v of the request's resource, and w of the key *)
(* set it refers to, call for, both taken from these versions.             *)
AnswerFrom(since, upto, req, jwk) ==
    \E v \in Versions(since, upto, FirstKey(req)) :
        LET first == Parsed(FirstKey(req), v)
            next  == [url |-> first.url, kind |-> "jwks"]
        IN  IF first.form = "uri"
            THEN \E w \in Versions(since, upto, next) :
                     /\ Parses(next, w)
                     /\ jwk = SelectKey(Parsed(next, w).keys, req.keyId)
            ELSE /\ first.form = "keys"
                 /\ jwk = SelectKey(first.keys, req.keyId)

(* From published documents, none of which is older than what was known    *)
(* when the request arrived.                                               *)
IsAnswer(c, jwk) == AnswerFrom(seen[c], published, request[c], jwk)

(* Every 200 is the truth about documents the origins have published, none *)
(* older than what the resolver knew when the request arrived: a key that  *)
(* the right key set holds under this key id, or that it holds none; and   *)
(* it carries the identifier of this very request.  This spans two loads   *)
(* with refreshes, publications and other callers in between.              *)
AnswerIsAuthoritative ==
    \A c \in Callers :
        response[c] # NoResponse =>
            (response[c].code = 200 =>
                /\ response[c].identifier =
                     ParseDiscoveryTarget(request[c].url, request[c].discovery).identifier
                /\ \/ RefusedTestKey(request[c]) /\ response[c].jwk = NoKey
                   \/ IsAnswer(c, response[c].jwk))

(* A request is answered from documents only within one resolution         *)
(* timeout, also when that takes two loads (service.rs:70; the callout of  *)
(* the module waits at most 2 s).                                          *)
AnsweredInTime ==
    [][\A c \in Callers :
          phase[c] \in {"metadata", "keys"} /\ phase'[c] = "done" =>
              now <= startedAt[c] + ResolutionTimeout]_vars

(* Every request ends, even if no load ever does.                          *)
ResolutionEnds == \A c \in Callers : Active(c) ~> ~Active(c)
============================================================================
