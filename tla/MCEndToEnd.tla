----------------------------- MODULE MCEndToEnd -----------------------------
(* A small instance of EndToEnd for TLC. *)
EXTENDS EndToEnd

CONSTANTS c1, c2

(* Two keys and a known test key. *)
MCThumbprint == [a |-> "print_a", b |-> "print_b", t |-> "print_t"]
MCValid == {"a", "b", "t"}
MCTestKeys == {"print_t"}

(* Three URLs with the same identifier: as it is, escaped, with a query.   *)
Url(path, query) ==
    [fault |-> "none", host |-> "agent", path |-> path, query |-> query, fragment |-> FALSE]
PlainUrl == Url(<<"a">>, FALSE)
Escaped == Url(<<"%61">>, FALSE)
Queried == Url(<<"a">>, TRUE)

Key(x, kid) == [kty |-> "ed25519", x |-> x, kid |-> kid]
Jwks(keys) == [form |-> "jwks", keys |-> keys]
Resource(url, kind) == [url |-> FetchUrl(url, "cimd"), kind |-> kind]
Cimd(url) == [form |-> "cimd", clientId |-> FetchUrl(url, "cimd"), jwks |-> <<>>, jwksUri |-> <<PlainUrl>>]

(* Client metadata at the escaped URL refers to the plain one, which       *)
(* withdraws key a; the one with a query never had it, but lists the test  *)
(* key, once under the id of a.                                            *)
MCContent ==
    Resource(Escaped, "cimd") :> <<Cimd(Escaped)>>
    @@ Resource(PlainUrl, "cimd") :> <<Cimd(PlainUrl)>>
    @@ Resource(PlainUrl, "jwks") :> <<Jwks(<<Key("a", NoKid)>>), Jwks(<<Key("b", NoKid)>>)>>
    @@ Resource(Queried, "jwks") :> <<Jwks(<<Key("t", "print_a"), Key("t", NoKid)>>)>>

Covered == <<[name |-> "@authority", params |-> "none"], [name |-> "signature-agent", params |-> "x"]>>
Sig(keyId, signer) ==
    [label |-> "s", tagged |-> TRUE, components |-> Covered, alg |-> "ed25519",
     created |-> 0, expires |-> 1, keyId |-> keyId, signer |-> signer]
Signed(url, type, keyId, signer) ==
    [hasSignature |-> TRUE, hasInput |-> TRUE, hasAgent |-> TRUE, endOfStream |-> TRUE,
     capturable |-> TRUE, inputs |-> <<Sig(keyId, signer)>>, spoofed |-> NoAssertion,
     agent |-> <<[dict |-> TRUE, item |-> [kind |-> "none"],
                  members |-> [x |-> [kind |-> "item", url |-> url, type |-> type]]]>>]

MCRequests ==
    {Signed(Escaped, "cimd", "print_a", "a"), Signed(Queried, "jwks_uri", "print_a", "a"),
     Signed(Queried, "jwks_uri", "print_t", "t"), Signed(Queried, "jwks_uri", "print_a", "t")}
=============================================================================
