--------------------------- MODULE CandidateProofs ---------------------------
(***************************************************************************)
(* Proofs about Freshness and Candidate: what the arithmetic accepts, and  *)
(* which member, entry and freshness a candidate stands for.               *)
(***************************************************************************)
EXTENDS Candidate, FiniteSetTheorems, WellFoundedInduction, TLAPS

(* No saturation or overflow makes validate_freshness accept a signature   *)
(* that exact arithmetic rejects, whatever the clock and the parameters.   *)
THEOREM FreshnessSound ==
    ASSUME NEW created \in I64, NEW expires \in I64, NEW now \in I64,
           ValidateFreshness(created, expires, now)
    PROVE  FreshOverIntegers(created, expires, now)
BY FreshnessAssumption DEF ValidateFreshness, FreshOverIntegers, Saturate, I64

(* When the configured skew and lifetime fit in an i64, it accepts every   *)
(* signature that exact arithmetic accepts.                                *)
THEOREM FreshnessComplete ==
    ASSUME NEW created \in I64, NEW expires \in I64, NEW now \in I64,
           ClockSkew <= I64Max, MaxLifetime <= I64Max,
           FreshOverIntegers(created, expires, now)
    PROVE  ValidateFreshness(created, expires, now)
BY FreshnessAssumption DEF ValidateFreshness, FreshOverIntegers, Saturate, I64
LEMMA LeastNatural ==
    ASSUME NEW S \in SUBSET Nat, S # {}
    PROVE  \E m \in S : \A n \in S : m <= n
<1> DEFINE R == {p \in Nat \X Nat : p[1] < p[2]}
<1>1. IsWellFoundedOn(R, Nat)
  BY NatLessThanWellFounded, Zenon DEF OpToRel
<1>2. PICK m \in S : \A n \in S : ~(<<n, m>> \in R)
  BY <1>1, WFMin
<1>3. ASSUME NEW n \in S PROVE m <= n
  <2>1. n \in Nat /\ m \in Nat /\ (n < m => <<n, m>> \in R)
    OBVIOUS
  <2>. QED
    BY <1>2, <2>1
<1>. QED
  BY <1>3

LEMMA MinOf ==
    ASSUME NEW S \in SUBSET Nat, S # {}
    PROVE  Min(S) \in S /\ \A i \in S : Min(S) <= i
BY LeastNatural DEF Min

LEMMA MaxOf ==
    ASSUME NEW n \in Nat, NEW S \in SUBSET (1..n), S # {}
    PROVE  Max(S) \in S /\ \A i \in S : i <= Max(S)
<1> DEFINE T == {n - i : i \in S}
<1>1. T \in SUBSET Nat /\ T # {}
  <2>1. \A i \in S : n - i \in Nat
    OBVIOUS
  <2>2. PICK i \in S : TRUE
    OBVIOUS
  <2>. QED
    BY <2>1, <2>2
<1>2. PICK m \in T : \A j \in T : m <= j
  BY <1>1, LeastNatural
<1>3. PICK i \in S : m = n - i
  OBVIOUS
<1>4. ASSUME NEW j \in S PROVE j <= i
  BY <1>2, <1>3
<1>. QED
  BY <1>4 DEF Max

LEMMA MaxIs ==
    ASSUME NEW n \in Nat, NEW S \in SUBSET (1..n), NEW m \in S, \A i \in S : i <= m
    PROVE  Max(S) = m
<1>1. Max(S) \in S /\ m <= Max(S) /\ Max(S) <= m
  BY MaxOf
<1>2. \A i, j \in S : i <= j /\ j <= i => i = j
  OBVIOUS
<1>. QED
  BY <1>1, <1>2

---------------------------------------------------------------------------
(* The dictionary that select_agent builds value by value holds, for every *)
(* key, the member of the last value that has it.                          *)

Holders(values, key) == {i \in 1..Len(values) : key \in DOMAIN values[i].members}

LEMMA MergedLastWins ==
    ASSUME NEW E, NEW values \in Seq(E), NEW key
    PROVE  /\ key \in DOMAIN MergedMembers(values) <=> Holders(values, key) # {}
           /\ key \in DOMAIN MergedMembers(values) =>
                 MergedMembers(values)[key] = values[Max(Holders(values, key))].members[key]
<1> DEFINE N == Len(values)
           D == 1..N
           HoldersIn(s, k) == {i \in s : k \in DOMAIN values[i].members}
           Body(h) == [s \in SUBSET D |->
                          IF s = {} THEN <<>>
                          ELSE Extend(h[s \ {Max(s)}], values[Max(s)].members)]
           Iter == CHOOSE h : h = Body(h)
           W == [s \in SUBSET D |->
                    IF s = {} THEN <<>>
                    ELSE [k \in UNION {DOMAIN values[i].members : i \in s} |->
                             values[Max(HoldersIn(s, k))].members[k]]]
<1>1. N \in Nat /\ DOMAIN values = D
  OBVIOUS
<1>2. MergedMembers(values) = Iter[D]
  BY <1>1 DEF MergedMembers, FoldLeft, MapThenFoldSet
<1>3. ASSUME NEW s \in SUBSET D, s # {}
      PROVE  Extend(W[s \ {Max(s)}], values[Max(s)].members) = W[s]
  <2> DEFINE m == Max(s)
             f == values[m].members
             g == W[s \ {m}]
  <2>1. m \in s /\ \A i \in s : i <= m
    BY <1>1, <1>3, MaxOf
  <2>2. s \ {m} \in SUBSET D
    OBVIOUS
  <2>3. DOMAIN g = UNION {DOMAIN values[i].members : i \in s \ {m}}
    BY <2>2
  <2>4. ASSUME NEW k \in DOMAIN g
        PROVE  g[k] = values[Max(HoldersIn(s \ {m}, k))].members[k]
    BY <2>2, <2>3, <2>4
  <2>5. DOMAIN W[s] = UNION {DOMAIN values[i].members : i \in s}
    BY <1>3
  <2>6. DOMAIN W[s] = (DOMAIN f) \cup (DOMAIN g)
    BY <2>1, <2>3, <2>5
  <2>7. ASSUME NEW k \in DOMAIN W[s]
        PROVE  W[s][k] = IF k \in DOMAIN f THEN f[k] ELSE g[k]
    <3>1. W[s][k] = values[Max(HoldersIn(s, k))].members[k]
      BY <1>3, <2>7
    <3>2. CASE k \in DOMAIN f
      <4>1. m \in HoldersIn(s, k)
        BY <2>1, <3>2
      <4>2. HoldersIn(s, k) \in SUBSET (1..N)
        OBVIOUS
      <4>3. Max(HoldersIn(s, k)) = m
        BY <1>1, <2>1, <4>1, <4>2, MaxIs
      <4>. QED
        BY <3>1, <3>2, <4>3
    <3>3. CASE k \notin DOMAIN f
      <4>1. HoldersIn(s, k) = HoldersIn(s \ {m}, k)
        BY <3>3
      <4>. QED
        BY <2>4, <2>6, <3>1, <3>3, <4>1
    <3>. QED
      BY <3>2, <3>3
  <2>. QED
    BY <1>3, <2>6, <2>7 DEF Extend
<1>4. W = Body(W)
  BY <1>3
<1>5. Iter = Body(Iter)
  BY <1>4
<1>6. ASSUME NEW h, h = Body(h)
      PROVE  /\ h[{}] = <<>>
             /\ \A s \in SUBSET D : s # {} =>
                   h[s] = Extend(h[s \ {Max(s)}], values[Max(s)].members)
  <2>1. {} \in SUBSET D
    OBVIOUS
  <2>. QED
    BY <1>6, <2>1
<1>7. /\ DOMAIN W[{}] = {}
      /\ D # {} => /\ DOMAIN W[D] = UNION {DOMAIN values[i].members : i \in D}
                   /\ \A k \in DOMAIN W[D] :
                         W[D][k] = values[Max(HoldersIn(D, k))].members[k]
  <2>1. {} \in SUBSET D /\ D \in SUBSET D
    OBVIOUS
  <2>. QED
    BY <2>1
<1>. HIDE DEF Iter, Body, W
<1>8. \A n \in 0..N : Iter[1..n] = W[1..n]
  <2> DEFINE Bad == {n \in 0..N : Iter[1..n] # W[1..n]}
  <2> SUFFICES ASSUME Bad # {} PROVE FALSE
    OBVIOUS
  <2>1. PICK n \in Bad : \A i \in Bad : n <= i
    <3>1. Bad \in SUBSET Nat
      BY <1>1
    <3>. QED
      BY <3>1, LeastNatural
  <2>2. n \in 0..N /\ 1..n \in SUBSET D
    BY <1>1, <2>1
  <2>3. n # 0
    <3>1. 1..0 = {} /\ Iter[{}] = W[{}]
      BY <1>4, <1>5, <1>6
    <3>. QED
      BY <2>1, <3>1
  <2>4. n - 1 \in 0..N /\ Iter[1..(n - 1)] = W[1..(n - 1)]
    BY <1>1, <2>1, <2>2, <2>3
  <2>5. n \in 1..n /\ Max(1..n) = n /\ (1..n) \ {Max(1..n)} = 1..(n - 1)
    <3>1. n \in Nat /\ n \in 1..n /\ \A i \in 1..n : i <= n
      BY <1>1, <2>2, <2>3
    <3>2. Max(1..n) = n
      BY <3>1, MaxIs
    <3>3. (1..n) \ {n} = 1..(n - 1)
      BY <3>1
    <3>. QED
      BY <3>1, <3>2, <3>3
  <2>6. /\ Iter[1..n] = Extend(Iter[1..(n - 1)], values[n].members)
        /\ W[1..n] = Extend(W[1..(n - 1)], values[n].members)
    <3>1. 1..n # {}
      BY <2>5
    <3>2. \A h : h = Body(h) => h[1..n] = Extend(h[1..(n - 1)], values[n].members)
      BY <1>6, <2>2, <2>5, <3>1
    <3>. QED
      BY <1>4, <1>5, <3>2
  <2>. QED
    BY <2>1, <2>4, <2>6
<1>9. MergedMembers(values) = W[D]
  <2>1. N \in 0..N
    BY <1>1
  <2>. QED
    BY <1>2, <1>8, <2>1
<1>10. HoldersIn(D, key) = Holders(values, key)
  BY DEF Holders
<1>11. CASE D = {}
  BY <1>7, <1>9, <1>11 DEF Holders
<1>12. CASE D # {}
  <2>1. key \in DOMAIN W[D] <=> HoldersIn(D, key) # {}
    BY <1>7, <1>12
  <2>. QED
    BY <1>7, <1>9, <1>10, <1>12, <2>1
<1>. QED
  BY <1>11, <1>12
(* So the entry that select_agent takes is the one that lookup_component   *)
(* of request.rs puts into the signature base.                             *)
LEMMA SelectedEntryIsSigned ==
    ASSUME NEW E, NEW values \in Seq(E), NEW key,
           SelectAgent(values, key).error = "none",
           SelectAgent(values, key).form = "dictionary"
    PROVE  /\ SelectAgent(values, key).entry = SelectDictionaryMember(values, key)
           /\ SelectAgent(values, key).entry.kind = "item"
<1>1. CASE \A i \in 1..Len(values) : values[i].dict
  <2>1. key \in DOMAIN MergedMembers(values)
    BY <1>1 DEF SelectAgent
  <2>2. /\ SelectAgent(values, key).entry = MergedMembers(values)[key]
        /\ MergedMembers(values)[key].kind = "item"
    BY <1>1, <2>1 DEF SelectAgent
  <2>3. /\ Holders(values, key) # {}
        /\ MergedMembers(values)[key] = values[Max(Holders(values, key))].members[key]
    BY <2>1, MergedLastWins
  <2>4. SelectDictionaryMember(values, key) = values[Max(Holders(values, key))].members[key]
    BY <1>1, <2>3 DEF SelectDictionaryMember, Holders
  <2>. QED
    BY <2>2, <2>3, <2>4
<1>2. CASE ~\A i \in 1..Len(values) : values[i].dict
  BY <1>2 DEF SelectAgent
<1>. QED
  BY <1>1, <1>2

LEMMA LegacyEntry ==
    ASSUME NEW values, NEW key,
           SelectAgent(values, key).error = "none",
           SelectAgent(values, key).form # "dictionary"
    PROVE  /\ SelectAgent(values, key).entry = values[1].item
           /\ SelectAgent(values, key).entry.kind = "item"
<1>1. CASE \A i \in 1..Len(values) : values[i].dict
  BY <1>1 DEF SelectAgent
<1>2. CASE ~\A i \in 1..Len(values) : values[i].dict
  BY <1>2 DEF SelectAgent
<1>. QED
  BY <1>1, <1>2

(* What a label has passed when it becomes a candidate.                    *)
LEMMA LabelAccepted ==
    ASSUME NEW expected, NEW sig, NEW agentValues, NEW t,
           ParseLabel(expected, sig, agentValues, t).error = "none"
    PROVE  LET agent == SelectAgent(agentValues, expected.key)
               signed == FirstAgentKey(sig.components)
               parsed == ParseDiscoveryTarget(agent.entry.url, ParseAgentType(agent.entry.type))
           IN  /\ expected.error = "none" /\ agent.error = "none" /\ signed.error = "none"
               /\ LibraryParses(sig, agentValues)
               /\ KeysAgree(signed, expected)
               /\ ValidateFreshness(sig.created, sig.expires, t)
               /\ ValidateCoverage(sig.components, signed.key, agent.form) = "none"
               /\ sig.keyId \notin {"absent", "empty", "too_long"}
               /\ parsed.error = "none"
               /\ ParseLabel(expected, sig, agentValues, t) =
                      [error |-> "none", identifier |-> parsed.identifier,
                       discovery |-> ParseAgentType(agent.entry.type), url |-> agent.entry.url,
                       keyId |-> sig.keyId, signer |-> sig.signer]
BY DEF ParseLabel, Rejected

(* At most one member carries the tag, and the parsed member is it, also   *)
(* when its label occurs more than once.                                   *)
LEMMA OneTagged ==
    ASSUME NEW E, NEW inputs \in Seq(E), NEW agentValues, NEW t,
           ParseCandidate(inputs, agentValues, t).error = "none"
    PROVE  \E sig, expected :
               /\ {inputs[i] : i \in TaggedMembers(inputs)} = {sig}
               /\ ParseCandidate(inputs, agentValues, t) =
                      ParseLabel(expected, sig, agentValues, t)
<1> DEFINE tagged == TaggedMembers(inputs)
           label == SameLabel(inputs, Min(tagged))
           expected == FirstAgentKey(inputs[Min(label)].components)
           sig == inputs[Max(label)]
<1>1. tagged \in SUBSET (1..Len(inputs)) /\ Len(inputs) \in Nat
  BY DEF TaggedMembers
<1>2. tagged # {} /\ ~(Cardinality(tagged) > 1)
  BY DEF ParseCandidate, Rejected
<1>3. ParseCandidate(inputs, agentValues, t) = ParseLabel(expected, sig, agentValues, t)
  BY <1>2 DEF ParseCandidate
<1>4. PICK m \in tagged : tagged = {m}
  <2>1. IsFiniteSet(tagged)
    <3>1. IsFiniteSet(1..Len(inputs))
      BY <1>1, FS_Interval
    <3>. QED
      BY <1>1, <3>1, FS_Subset
  <2>2. Cardinality(tagged) \in Nat /\ Cardinality(tagged) # 0
    BY <1>2, <2>1, FS_CardinalityType, FS_EmptySet
  <2>3. Cardinality(tagged) = 1
    BY <1>2, <2>2
  <2>4. \E m : tagged = {m}
    <3>. HIDE DEF tagged
    <3>. QED
      BY <2>1, <2>3, FS_Singleton
  <2>. QED
    BY <2>4
<1>5. Min(tagged) = m
  <2>1. tagged \in SUBSET Nat
    BY <1>1
  <2>. QED
    BY <1>4, <2>1, MinOf
<1>6. label \in SUBSET (1..Len(inputs)) /\ label # {}
  BY <1>1, <1>5 DEF SameLabel
<1>7. Max(label) \in label
  BY <1>1, <1>6, MaxOf
<1>8. sig.tagged
  BY <1>3, LabelAccepted DEF LibraryParses
<1>9. Max(label) \in tagged
  BY <1>6, <1>7, <1>8 DEF TaggedMembers
<1>10. {inputs[i] : i \in tagged} = {sig}
  BY <1>4, <1>9
<1>. QED
  BY <1>3, <1>10

(* The URL and the key id of a candidate pass the rules of discovery, and  *)
(* its identifier is that of its URL.                                      *)
LEMMA CandidateIsValid ==
    ASSUME NEW E, NEW inputs \in Seq(E), NEW agentValues, NEW t,
           ParseCandidate(inputs, agentValues, t).error = "none"
    PROVE  LET candidate == ParseCandidate(inputs, agentValues, t)
               target == ParseDiscoveryTarget(candidate.url, candidate.discovery)
           IN  /\ target.error = "none"
               /\ candidate.identifier = target.identifier
               /\ candidate.keyId \notin {"empty", "too_long"}
<1> DEFINE candidate == ParseCandidate(inputs, agentValues, t)
<1>1. PICK sig, expected : candidate = ParseLabel(expected, sig, agentValues, t)
  BY OneTagged
<1> DEFINE entry == SelectAgent(agentValues, expected.key).entry
           target == ParseDiscoveryTarget(entry.url, ParseAgentType(entry.type))
<1>2. /\ target.error = "none"
      /\ sig.keyId \notin {"empty", "too_long"}
      /\ candidate = [error |-> "none", identifier |-> target.identifier,
                      discovery |-> ParseAgentType(entry.type), url |-> entry.url,
                      keyId |-> sig.keyId, signer |-> sig.signer]
  BY <1>1, LabelAccepted
<1>3. /\ ParseDiscoveryTarget(candidate.url, candidate.discovery) = target
      /\ candidate.identifier = target.identifier
      /\ candidate.keyId = sig.keyId
  <2>. HIDE DEF candidate, entry
  <2>. QED
    BY <1>2
<1>. QED
  <2>. HIDE DEF target
  <2>. QED
    BY <1>2, <1>3

(* The errors of a candidate are its own. *)
LEMMA CandidateErrors ==
    ASSUME NEW inputs, NEW agentValues, NEW t
    PROVE  ParseCandidate(inputs, agentValues, t).error # "resolver_identifier"
<1>1. \A components : FirstAgentKey(components).error # "resolver_identifier"
  BY DEF FirstAgentKey
<1>2. \A values, key : SelectAgent(values, key).error # "resolver_identifier"
  BY DEF SelectAgent
<1>3. \A components, key, form : ValidateCoverage(components, key, form) # "resolver_identifier"
  BY DEF ValidateCoverage
<1>4. \A url, discovery : ParseDiscoveryTarget(url, discovery).error # "resolver_identifier"
  BY DEF ParseDiscoveryTarget
<1>5. ASSUME NEW sig, NEW expected, expected.error # "resolver_identifier"
      PROVE  ParseLabel(expected, sig, agentValues, t).error # "resolver_identifier"
  BY <1>1, <1>2, <1>3, <1>4, <1>5 DEF ParseLabel, Rejected
<1>. QED
  BY <1>1, <1>5 DEF ParseCandidate, Rejected

(* The entry that lookup_component of request.rs serialises for the        *)
(* covered component c.                                                    *)
SignedEntry(agentValues, c) ==
    IF c.params = "none" THEN agentValues[1].item ELSE SelectDictionaryMember(agentValues, c.params)

(* What makes a signature back a candidate at the time t: key id and       *)
(* signer are its own, it is fresh, it covers what it must, and the URL,   *)
(* the type and the identifier are those of an entry in its own signature  *)
(* base.                                                                   *)
Backs(sig, candidate, agentValues, t) ==
    /\ candidate.keyId = sig.keyId
    /\ candidate.signer = sig.signer
    /\ ValidateFreshness(sig.created, sig.expires, t)
    /\ CoveredNames(sig.components) \cap {"@authority", "@target-uri"} # {}
    /\ RequiredComponents \subseteq CoveredNames(sig.components)
    /\ \E i \in AgentComponents(sig.components) :
          LET entry == SignedEntry(agentValues, sig.components[i])
          IN  /\ entry.kind = "item"
              /\ candidate.url = entry.url
              /\ candidate.discovery = ParseAgentType(entry.type)
              /\ candidate.identifier =
                    ParseDiscoveryTarget(entry.url, ParseAgentType(entry.type)).identifier

(* A candidate is backed by the request's one profile signature, for any   *)
(* number of repeated labels, members and header values.                   *)
THEOREM CandidateIsBacked ==
    ASSUME NEW E, NEW inputs \in Seq(E), NEW F, NEW agentValues \in Seq(F), NEW t,
           ParseCandidate(inputs, agentValues, t).error = "none"
    PROVE  \E sig : /\ {inputs[i] : i \in TaggedMembers(inputs)} = {sig}
                    /\ Backs(sig, ParseCandidate(inputs, agentValues, t), agentValues, t)
<1> DEFINE candidate == ParseCandidate(inputs, agentValues, t)
<1>1. PICK sig, expected : /\ {inputs[i] : i \in TaggedMembers(inputs)} = {sig}
                           /\ candidate = ParseLabel(expected, sig, agentValues, t)
  BY OneTagged
<1> DEFINE agent == SelectAgent(agentValues, expected.key)
           key == FirstAgentKey(sig.components).key
           target == ParseDiscoveryTarget(agent.entry.url, ParseAgentType(agent.entry.type))
<1>2. /\ agent.error = "none"
      /\ key = expected.key
      /\ ValidateFreshness(sig.created, sig.expires, t)
      /\ ValidateCoverage(sig.components, key, agent.form) = "none"
      /\ candidate = [error |-> "none", identifier |-> target.identifier,
                      discovery |-> ParseAgentType(agent.entry.type), url |-> agent.entry.url,
                      keyId |-> sig.keyId, signer |-> sig.signer]
  BY <1>1, LabelAccepted DEF KeysAgree
<1>3. /\ CoveredNames(sig.components) \cap {"@authority", "@target-uri"} # {}
      /\ AgentIsBound(sig.components, key, agent.form)
      /\ RequiredComponents \subseteq CoveredNames(sig.components)
  BY <1>2 DEF ValidateCoverage
<1>4. PICK i \in AgentComponents(sig.components) :
          IF agent.form = "dictionary" THEN sig.components[i].params = key /\ key # "none"
          ELSE sig.components[i].params = "none"
  BY <1>3 DEF AgentIsBound
<1>5. /\ agent.entry = SignedEntry(agentValues, sig.components[i])
      /\ agent.entry.kind = "item"
  <2>1. CASE agent.form = "dictionary"
    BY <1>2, <1>4, <2>1, SelectedEntryIsSigned DEF SignedEntry
  <2>2. CASE agent.form # "dictionary"
    BY <1>2, <1>4, <2>2, LegacyEntry DEF SignedEntry
  <2>. QED
    BY <2>1, <2>2
<1>6. /\ candidate.url = agent.entry.url
      /\ candidate.discovery = ParseAgentType(agent.entry.type)
      /\ candidate.identifier =
          ParseDiscoveryTarget(agent.entry.url, ParseAgentType(agent.entry.type)).identifier
  BY <1>2
<1>7. Backs(sig, candidate, agentValues, t)
  <2>. HIDE DEF candidate, agent
  <2>. QED
    BY <1>2, <1>3, <1>5, <1>6 DEF Backs
<1>. QED
  BY <1>1, <1>7
=============================================================================
