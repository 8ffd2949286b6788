----------------------------- MODULE Candidate -----------------------------
(***************************************************************************)
(* From the signature fields of a request to a verification candidate:     *)
(* crates/module/src/candidate.rs, with the parts of request.rs and of the *)
(* protocol crate it calls.  Structured-field parsing is abstracted to its *)
(* result; label selection, member selection, coverage, freshness and the  *)
(* order of the checks are kept.                                           *)
(*                                                                         *)
(* A covered component is [name, params]: params is "none", "bad" for any  *)
(* parameters the code does not accept, "unparsable" for what is no        *)
(* component at all, or the key of ;key="...".                             *)
(* A Signature-Input member is [label, tagged, components, alg, created,   *)
(* expires, keyId, signer], in the order of the header values; signer is   *)
(* the key under which its signature of this very request verifies.        *)
(* A Signature-Agent value is [dict, members, item]: a dictionary with     *)
(* members, or not a dictionary but perhaps an item.  An agent entry is    *)
(* [kind, url, type]; a URL is as in Discovery.                            *)
(***************************************************************************)
EXTENDS Freshness, Discovery

CONSTANTS
    RequiredComponents, \* Settings::required_components
    AcceptLegacy        \* Settings::accept_legacy_signature_agent

---------------------------------------------------------------------------
(* Signature-Agent: selecting the member and what the signature covers. *)

(* External, sfv::Dictionary::extend: a member replaces an earlier one. *)
Extend(dictionary, members) ==
    [k \in (DOMAIN dictionary) \cup (DOMAIN members) |->
        IF k \in DOMAIN members THEN members[k] ELSE dictionary[k]]

(* The dictionary select_agent builds by extending it value by value. *)
MergedMembers(values) ==
    FoldLeft(LAMBDA all, value : Extend(all, value.members), <<>>, values)

(* select_agent: an entry with its form, or an error. *)
SelectAgent(values, key) ==
    IF \A i \in 1..Len(values) : values[i].dict
    THEN IF key \notin DOMAIN MergedMembers(values)
         THEN [error |-> "missing_signature_agent"]
         ELSE LET entry == MergedMembers(values)[key]
              IN  IF entry.kind = "item"
                  THEN [error |-> "none", form |-> "dictionary", entry |-> entry]
                  ELSE [error |-> "malformed"]
    ELSE IF AcceptLegacy /\ key = "none" /\ Len(values) = 1 /\ values[1].item.kind = "item"
    THEN [error |-> "none", form |-> "legacy", entry |-> values[1].item]
    ELSE [error |-> "malformed"]

(* The key under which the first signature-agent component is covered:     *)
(* signed_agent_member_key and signature_agent_key_from_input.  The latter *)
(* refuses a component that does not parse on the way; the former sees     *)
(* only components that the library has parsed.                            *)
AgentComponents(components) ==
    {i \in 1..Len(components) : components[i].name = "signature-agent"}

FirstAgentKey(components) ==
    LET at == AgentComponents(components)
        Reached(i) == \A j \in at : i <= j
    IN  IF \E i \in 1..Len(components) : Reached(i) /\ components[i].params = "unparsable"
        THEN [error |-> "malformed"]
        ELSE IF at = {} THEN [error |-> "signature_agent_not_bound"]
        ELSE LET i == CHOOSE i \in at : Reached(i)
             IN  IF components[i].params = "bad" THEN [error |-> "malformed"]
                 ELSE [error |-> "none", key |-> components[i].params]

---------------------------------------------------------------------------
(* Coverage. *)

(* The derived components that validate_coverage records by name. *)
NamedDerived == {"@method", "@path", "@target-uri", "@authority"}

Derived == NamedDerived \cup {"@scheme", "@query"}

(* The names a signature covers as validate_coverage collects them.        *)
CoveredNames(components) ==
    {c.name : c \in {components[i] : i \in
        {j \in 1..Len(components) :
            IF components[j].name \in Derived
            THEN components[j].name \in NamedDerived /\ components[j].params = "none"
            ELSE TRUE}}}

AgentIsBound(components, key, form) ==
    \E i \in AgentComponents(components) :
        IF form = "dictionary" THEN components[i].params = key /\ key # "none"
        ELSE components[i].params = "none"

ValidateCoverage(components, key, form) ==
    LET names == CoveredNames(components)
    IN  IF names \cap {"@target-uri", "@authority"} = {}
        THEN "missing_required_component"
        ELSE IF ~AgentIsBound(components, key, form) THEN "signature_agent_not_bound"
        ELSE IF ~(RequiredComponents \subseteq names) THEN "missing_required_component"
        ELSE "none"

---------------------------------------------------------------------------
(* Discovery target. *)

ParseAgentType(type) ==
    CASE type = "absent" -> "directory"
      [] type \in {"directory", "jwks_uri", "cimd"} -> type
      [] OTHER -> "unsupported"

---------------------------------------------------------------------------
(* VerificationCandidate::parse. *)

Rejected(error) == [error |-> error]

(* select_dictionary_member: the member of the last header value that has  *)
(* the key, which is the value the signature base contains.                *)
SelectDictionaryMember(values, key) ==
    LET holds == {i \in 1..Len(values) : key \in DOMAIN values[i].members}
    IN  IF holds = {} \/ \E i \in 1..Len(values) : ~values[i].dict
        THEN [kind |-> "none"]
        ELSE values[Max(holds)].members[key]

(* lookup_component, reduced to whether it finds a value. *)
Resolves(values, c) ==
    IF c.name = "signature-agent"
    THEN IF c.params = "none" THEN TRUE
         ELSE IF c.params \in {"bad", "unparsable"} THEN FALSE
         ELSE SelectDictionaryMember(values, c.params).kind = "item"
    ELSE c.params = "none" /\ c.name \in Derived \cup {"signature", "signature-input"}

(* profile_signature_label: exactly one member may carry the profile's tag. *)
TaggedMembers(inputs) == {i \in 1..Len(inputs) : inputs[i].tagged}

(* The members of all header values that have the label.                   *)
SameLabel(inputs, i) == {j \in 1..Len(inputs) : inputs[j].label = inputs[i].label}

(* The web_bot_auth parser, external: it merges the header values, so that *)
(* the last member of a label counts, takes the tagged label and resolves  *)
(* every component that label covers.                                      *)
LibraryParses(member, agentValues) ==
    /\ member.tagged
    /\ \A i \in 1..Len(member.components) : Resolves(agentValues, member.components[i])

(* Mutant: the two readings of the covered member are not compared. *)
KeysNotCompared(signed, expected) == TRUE

KeysAgree(signed, expected) == signed.key = expected.key

(* Everything after the selection of the label.  expected is the key of    *)
(* the label's first member (signature_agent_key_from_input), sig the      *)
(* member the library parsed, whose own key must agree.                    *)
ParseLabel(expected, sig, agentValues, now) ==
    LET agent == SelectAgent(agentValues, expected.key)
        signed == FirstAgentKey(sig.components)
        coverage == ValidateCoverage(sig.components, signed.key, agent.form)
        discovery == ParseAgentType(agent.entry.type)
        parsed == ParseDiscoveryTarget(agent.entry.url, discovery)
    IN  IF expected.error # "none" THEN Rejected(expected.error)
        ELSE IF agent.error # "none" THEN Rejected(agent.error)
        ELSE IF ~LibraryParses(sig, agentValues) THEN Rejected("malformed")
        ELSE IF signed.error # "none" THEN Rejected(signed.error)
        ELSE IF ~KeysAgree(signed, expected) THEN Rejected("malformed")
        ELSE IF sig.alg \notin {"absent", "ed25519"} THEN Rejected("unsupported_algorithm")
        ELSE IF ~ValidateFreshness(sig.created, sig.expires, now)
        THEN Rejected("invalid_freshness")
        ELSE IF coverage # "none" THEN Rejected(coverage)
        ELSE IF sig.keyId \in {"absent", "empty"} THEN Rejected("malformed")
        ELSE IF agent.entry.url.fault = "not_a_string" THEN Rejected("malformed")
        ELSE IF discovery = "unsupported" THEN Rejected("unsupported_discovery_type")
        ELSE IF sig.keyId = "too_long" THEN Rejected("profile_field_too_large")
        ELSE IF parsed.error # "none" THEN Rejected(parsed.error)
        ELSE [error |-> "none", identifier |-> parsed.identifier, discovery |-> discovery,
              url |-> agent.entry.url, keyId |-> sig.keyId, signer |-> sig.signer]

ParseCandidate(inputs, agentValues, now) ==
    LET tagged == TaggedMembers(inputs)
        label == SameLabel(inputs, Min(tagged))
    IN  IF tagged = {} THEN Rejected("malformed")
        ELSE IF Cardinality(tagged) > 1 THEN Rejected("unsupported_multiple_signatures")
        ELSE ParseLabel(FirstAgentKey(inputs[Min(label)].components),
                        inputs[Max(label)], agentValues, now)

(* CandidateError::result: how each error is reported. *)
ErrorKind(error) ==
    CASE error \in {"malformed", "profile_field_too_large"} -> "malformed"
      [] error \in {"unsupported_multiple_signatures", "unsupported_discovery_type",
                    "unsupported_algorithm"} -> "unsupported"
      [] OTHER -> "rejected"
============================================================================
