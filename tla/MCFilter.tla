------------------------------ MODULE MCFilter ------------------------------
(* Small instances of Filter for TLC. *)
EXTENDS Filter

(* Two agents with a URL each, their keys, and a key that cannot be        *)
(* imported.  The key id of a signature is a thumbprint.                   *)
MCThumbprint == [a |-> "print_a", b |-> "print_b", weak |-> "print_weak", absent |-> "none"]
MCImportable == {"a", "b"}

Url(host, path) ==
    [fault |-> "none", host |-> host, path |-> path, query |-> FALSE, fragment |-> FALSE]
Root == <<"">>
AgentA == Url("a.example", Root)
AgentB == Url("b.example", Root)
Item(url, type) == [kind |-> "item", url |-> url, type |-> type]
NotItem == [kind |-> "none", url |-> AgentA, type |-> "absent"]
InnerList == [kind |-> "inner", url |-> AgentA, type |-> "absent"]

IdA == [host |-> "a.example", path |-> WellKnown]
IdB == [host |-> "b.example", path |-> WellKnown]

(* Signature-Agent fields. *)
Dict(members) == [dict |-> TRUE, members |-> members, item |-> NotItem]
Legacy(entry) == [dict |-> FALSE, members |-> <<>>, item |-> entry]
OneMember == <<Dict([x |-> Item(AgentA, "absent")])>>
DuplicateMember == <<Dict([x |-> Item(AgentB, "absent")]), Dict([x |-> Item(AgentA, "absent")])>>
TwoMembers == <<Dict([x |-> Item(AgentA, "absent"), y |-> Item(AgentB, "directory")])>>
LegacyItem == <<Legacy(Item(AgentA, "absent"))>>

(* Faults of the agent entry and of its URL, one at a time. *)
Faulty(fault) == Item([AgentA EXCEPT !.fault = fault], "absent")
FaultyAgents ==
    {<<Dict([x |-> e])>> :
        e \in {InnerList, Item(AgentA, "other"), Item([AgentA EXCEPT !.query = TRUE], "absent"),
               Item([AgentA EXCEPT !.fragment = TRUE], "absent"),
               Item(Url("a.example", <<"a">>), "directory")}
              \cup {Faulty(f) : f \in {"too_long", "invalid", "not_a_string"}}}
    \cup {<<Legacy(NotItem)>>, LegacyItem \o LegacyItem, OneMember \o LegacyItem}

(* Paths that normalise to the same identifier. *)
Spellings == {<<"a">>, <<"%61">>, <<"b", "..", "a">>, <<"%2e%2e", "a">>, <<"b", "%2e%2e", ".", "a">>}
PathAgents == {<<Dict([x |-> Item([Url("a.example", p) EXCEPT !.query = q, !.fragment = q], "jwks_uri")])>> :
                  p \in Spellings \cup {<<"a", ".">>}, q \in BOOLEAN}

(* Signature-Input fields. *)
Plain(name) == [name |-> name, params |-> "none"]
Agent(key) == [name |-> "signature-agent", params |-> key]
Garbled(name) == [name |-> name, params |-> "unparsable"]
Sig(components, signer, keyId) ==
    [label |-> "s", tagged |-> TRUE, components |-> components, alg |-> "ed25519",
     created |-> 2, expires |-> 3, keyId |-> keyId, signer |-> signer]
Good == Sig(<<Plain("@authority"), Plain("@method"), Agent("x")>>, "a", "print_a")
Untagged(sig) == [sig EXCEPT !.tagged = FALSE]
Other(sig) == [sig EXCEPT !.label = "t"]
OnY == Sig(<<Plain("@authority"), Plain("@method"), Agent("y")>>, "b", "print_b")

(* Which components are covered, in which order and with which parameters; *)
(* the configurations require @method.                                     *)
Coverages == {<<Plain("@authority"), Plain("@method"), Agent("none")>>,
              <<Agent("x"), Plain("@method"), Plain("@target-uri")>>,
              <<Agent("x"), Agent("y"), Plain("@method"), Plain("@authority")>>,
              <<Plain("@authority"), Plain("@method"), Plain("@scheme"), Agent("x")>>,
              <<Agent("bad"), Plain("@method"), Plain("@authority")>>,
              <<Garbled("@authority"), Plain("@method"), Agent("x")>>,
              <<Plain("@authority"), Garbled("@method")>>,
              <<Plain("@authority"), Plain("@method")>>,
              <<Plain("@authority"), Agent("x")>>,
              <<Plain("@scheme"), Plain("@method"), Agent("x"), Plain("@query")>>,
              <<[name |-> "@authority", params |-> "bad"], Plain("@method"), Agent("x")>>,
              <<Plain("@authority"), Plain("@method"), Agent("x"), Plain("content-type")>>}

(* Inputs with more than one member, and with a label twice. *)
SeveralInputs ==
    {<<Good, Other(OnY)>>, <<Untagged(Good)>>, <<Untagged(OnY), Good>>, <<Good, Untagged(OnY)>>,
     <<Untagged(Other(OnY)), Good>>, <<Untagged(Good), OnY>>,
     <<Untagged(Sig(<<Plain("@authority")>>, "a", "print_a")), Good>>}

(* Other parameters, one at a time. *)
Variants ==
    {[Good EXCEPT !.alg = "absent"], [Good EXCEPT !.alg = "rsa"]}
    \cup {[Good EXCEPT !.created = c, !.expires = e] : c \in {NoTime, 0, 2, 4}, e \in {NoTime, 1, 2, 3}}
    \cup {[Good EXCEPT !.keyId = k, !.signer = s] :
             k \in {"print_a", "print_weak", "empty", "absent", "too_long"}, s \in {"a", "b", "weak"}}

Spoof == [status |-> "verified", identity |-> IdB, keyId |-> "print_b"]

Signed(inputs, agent) ==
    [hasSignature |-> TRUE, hasInput |-> TRUE, hasAgent |-> TRUE, endOfStream |-> TRUE,
     capturable |-> TRUE, inputs |-> inputs, agent |-> agent, spoofed |-> Spoof]

Plausible == Signed(<<Good>>, OneMember)

(* Everything that keeps a request from becoming a candidate. *)
Incomplete ==
    {[Plausible EXCEPT !.hasSignature = s, !.hasInput = i, !.hasAgent = g] :
        s \in BOOLEAN, i \in BOOLEAN, g \in BOOLEAN}
    \cup {[Plausible EXCEPT !.endOfStream = FALSE], [Plausible EXCEPT !.capturable = FALSE]}

MCRequests ==
    Incomplete
    \cup {Signed(<<v>>, OneMember) : v \in Variants}
    \cup {Signed(<<Good>>, g) : g \in FaultyAgents \cup PathAgents \cup {DuplicateMember, TwoMembers}}
    \cup {Signed(i, TwoMembers) : i \in SeveralInputs}
    \cup {Signed(<<[Good EXCEPT !.components = c]>>, g) :
             c \in Coverages, g \in {OneMember, TwoMembers, LegacyItem}}

Answer(kind, identifier, jwk) == [kind |-> kind, identifier |-> identifier, jwk |-> jwk]
MCResponses ==
    {Failed, Answer("garbled", Absent, Absent)}
    \cup {Answer("key_not_found", id, Absent) : id \in {IdA, IdB}}
    \cup {Answer("resolved", id, jwk) :
             id \in {IdA, IdB, [host |-> "a.example", path |-> <<"a">>]}, jwk \in {"a", "b", "weak"}}
============================================================================
