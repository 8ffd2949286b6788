----------------------------- MODULE MCOutbound -----------------------------
(* Small instances of Outbound for TLC. *)
EXTENDS Outbound, TLC

CONSTANTS t1, t2, t3, o1, o2

(* 1 is a private IPv4 address and 2 a public one. *)
MCMapped == [a \in {} |-> a]

Target(o) == [scheme |-> "https", hosted |-> TRUE, userinfo |-> FALSE,
              port |-> 443, origin |-> o, kind |-> "jwks"]
MCUrls == {Target(o1), Target(o2), [Target(o1) EXCEPT !.port = 22]}

Good == [status |-> 200, media |-> "json", encoding |-> "identity", size |-> 1]
MCResponses == {Good, [Good EXCEPT !.status = 429]}

(* One check of the fetcher fails in each, the first that applies. *)
ASSUME FaultsRefused ==
    LET Kind(r) == Received(Target(o1), r)
    IN  /\ Kind(Good) = "ok" /\ Kind([Good EXCEPT !.status = 302, !.media = "html"]) = "http_status"
        /\ Kind([Good EXCEPT !.media = "html", !.encoding = "gzip"]) = "media_type"
        /\ Kind([Good EXCEPT !.status = 304, !.media = "html"]) = "ok"
        /\ Kind([Good EXCEPT !.encoding = "gzip", !.size = 2]) = "content_encoding"
        /\ Kind([Good EXCEPT !.size = 2]) = "body_too_large"

MCBurst == [l \in Limiters |-> IF l \in Addresses THEN 1 ELSE 2]
MCRate == [l \in Limiters |-> 1]

Symmetry == Permutations({t1, t2, t3})
=============================================================================
