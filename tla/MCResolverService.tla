------------------------- MODULE MCResolverService -------------------------
(* Small instances of ResolverService for TLC. *)
EXTENDS ResolverService, TLC

CONSTANTS c1, c2

(* Two good keys and a known test key; key ids are thumbprints or labels. *)
MCThumbprint == [a |-> "print_a", b |-> "print_b", t |-> "print_t"]
MCValid == {"a", "b", "t"}
MCTestKeys == {"print_t"}

Url(host, path) ==
    [fault |-> "none", host |-> host, path |-> path, query |-> FALSE, fragment |-> FALSE]
Fetched(url) == FetchUrl(url, "jwks_uri")
Origin == Url("agent", <<"">>)
KeySet == Url("agent", <<"keys">>)
Client == Url("agent", <<"client">>)

Key(x, kid) == [kty |-> "ed25519", x |-> x, kid |-> kid]
Jwks(keys) == [form |-> "jwks", keys |-> keys]
Cimd(id, jwks, uri) == [form |-> "cimd", clientId |-> id, jwks |-> jwks, jwksUri |-> uri]

DirectoryKey == [url |-> FetchUrl(Origin, "directory"), kind |-> "jwks"]
KeySetKey == [url |-> Fetched(KeySet), kind |-> "jwks"]
ClientKey == [url |-> Fetched(Client), kind |-> "cimd"]

(* A directory with a key of another type; a key set that relabels its     *)
(* keys, first the test key under the name of another; metadata that moves *)
(* its keys.                                                               *)
MCContent ==
    DirectoryKey :> <<Jwks(<<[Key("b", NoKid) EXCEPT !.kty = "rsa"], Key("a", "print_a")>>)>>
    @@ KeySetKey :> <<Jwks(<<Key("t", "print_a"), Key("a", "label")>>),
                      Jwks(<<Key("a", "label"), Key("t", NoKid)>>)>>
    @@ ClientKey :> <<Cimd(Fetched(Client), <<>>, <<KeySet>>),
                      Cimd(Fetched(Client), << <<Key("b", "label")>> >>, <<>>)>>

(* Documents that are refused between two good ones, one fault each. *)
FaultyDocuments ==
    {<<DirectoryKey, d>> : d \in {Jwks(<<Key("a", "label")>>), Jwks(<<Key("missing", NoKid)>>),
         Jwks(<<Key("a", NoKid), Key("b", NoKid), Key("t", NoKid)>>), MCContent[ClientKey][1]}}
    \cup {<<ClientKey, d>> : d \in {Cimd(Fetched(KeySet), <<>>, <<KeySet>>), Cimd(Fetched(Client), <<>>, <<>>),
         Cimd(Fetched(Client), << <<Key("a", NoKid)>> >>, <<KeySet>>),
         Cimd(Fetched(Client), <<>>, <<[KeySet EXCEPT !.fault = "invalid"]>>)}}

(* Everything parse_resource must refuse or accept, evaluated once. *)
ASSUME FaultyRefused == \A f \in FaultyDocuments : ParseResource(f[1], f[2]) = InvalidResource
ASSUME GoodAccepted == \A k \in Keys : \A v \in 1..Len(Content[k]) : Parses(k, v - 1)

Ask(discovery, url, id) == [decodable |-> TRUE, discovery |-> discovery, url |-> url, keyId |-> id]
MCRequests ==
    {[Ask("directory", Origin, "print_a") EXCEPT !.decodable = FALSE],
     Ask("jwks_uri", KeySet, "empty"), Ask("directory", Origin, "print_a"),
     Ask("jwks_uri", KeySet, "print_t"), Ask("jwks_uri", KeySet, "print_a"),
     Ask("cimd", Client, "label")}
============================================================================
