--------------------------- MODULE SupervisionProofs ---------------------------
(***************************************************************************)
(* Proofs about TenantStore, PermissionEngine and Supervision.             *)
(***************************************************************************)
EXTENDS Supervision, FiniteSetTheorems, TLAPS

(* A finite set with an irreflexive, transitive relation on it has an      *)
(* element nothing precedes: one with the fewest elements before it.       *)
LEMMA Undominated ==
    ASSUME NEW S, IsFiniteSet(S), S # {}, NEW R,
           \A x \in S : <<x, x>> \notin R,
           \A x, y, z \in S : <<x, y>> \in R /\ <<y, z>> \in R => <<x, z>> \in R
    PROVE  \E x \in S : \A y \in S : <<y, x>> \notin R
<1> DEFINE Before(x) == {y \in S : <<y, x>> \in R}
           All == {Before(x) : x \in S}
<1>1. \A x \in S : Before(x) \in FiniteSubsetsOf(S)
  <2>1. \A x \in S : Before(x) \in SUBSET S /\ IsFiniteSet(Before(x))
    BY FS_Subset
  <2> QED  BY <2>1 DEF FiniteSubsetsOf
<1>2. IsWellFoundedOn(StrictSubsetOrdering(S), FiniteSubsetsOf(S))
  BY FS_StrictSubsetOrderingWellFounded
<1> HIDE DEF Before
<1>3. All \subseteq FiniteSubsetsOf(S) /\ All # {}
  BY <1>1
<1>4. \A x \in S : Before(x) \in All
  OBVIOUS
<1>5. \A B \in All : \E x \in S : B = Before(x)
  OBVIOUS
<1> HIDE DEF All
<1>6. PICK B \in All : \A C \in All : <<C, B>> \notin StrictSubsetOrdering(S)
  BY <1>3, <1>2, WFMin
<1>7. PICK x \in S : B = Before(x)
  BY <1>6, <1>5
<1>8. ASSUME NEW y \in S, <<y, x>> \in R
      PROVE  FALSE
  <2>1. Before(y) \in All
    BY <1>4
  <2>2. Before(y) \subseteq Before(x) /\ Before(y) # Before(x)
    BY <1>8 DEF Before
  <2>3. <<Before(y), B>> \in StrictSubsetOrdering(S)
    BY <2>2, <1>7 DEF Before, StrictSubsetOrdering
  <2> QED  BY <1>6, <2>1, <2>3
<1> QED  BY <1>8

-------------------------------------------------------------------------------
(* What the constants are assumed to be of a policy.                       *)
LEMMA PolicyFacts ==
    ASSUME NEW name \in Policies
    PROVE  /\ Contents[name].version \in {1, 2}
           /\ Contents[name].minConfidence \in Nat
           /\ Len(Contents[name].rules) \in Nat
           /\ DOMAIN Contents[name].rules = 1..Len(Contents[name].rules)
           /\ \A i \in DOMAIN Contents[name].rules :
                 /\ Contents[name].rules[i].id \in Nat
                 /\ Contents[name].rules[i].priority \in Nat
                 /\ Contents[name].version = 1 =>
                       \E intent \in Contents[name].rules[i].intents :
                           Contents[name].rules[i].intents = {intent}
  BY PolicyConstants

(* The first of a finite set of natural numbers.                           *)
LEMMA FirstIsLeast ==
    ASSUME NEW S, S \subseteq Nat, IsFiniteSet(S), S # {}
    PROVE  First(S) \in S /\ \A j \in S : First(S) <= j
<1> DEFINE R == {p \in S \X S : p[1] < p[2]}
<1>1. \A x, y \in S : <<x, y>> \in R <=> x < y
  OBVIOUS
<1> HIDE DEF R
<1>2. \E i \in S : \A j \in S : <<j, i>> \notin R
  <2>1. /\ \A x \in S : <<x, x>> \notin R
        /\ \A x, y, z \in S : <<x, y>> \in R /\ <<y, z>> \in R => <<x, z>> \in R
    BY <1>1
  <2> QED  BY <2>1, Undominated
<1>3. \E i \in S : \A j \in S : i <= j
  <2>1. PICK i \in S : \A j \in S : ~ (j < i)
    BY <1>1, <1>2
  <2>2. \A j \in S : i \in Nat /\ j \in Nat /\ ~ (j < i) => i <= j
    OBVIOUS
  <2> QED  BY <2>1, <2>2
<1> QED  BY <1>3 DEF First

(* An interval from one is finite.                                         *)
LEMMA IntervalsAreFinite ==
    ASSUME NEW n \in Nat
    PROVE  IsFiniteSet(1..n)
<1>1. 1 \in Int /\ n \in Int
  OBVIOUS
<1> QED  BY <1>1, FS_Interval

(* Rules are finitely many, so any choice of them has a first.             *)
LEMMA SomeRulesAreFinite ==
    ASSUME NEW name \in Policies, NEW S, S \subseteq DOMAIN Contents[name].rules
    PROVE  S \subseteq Nat /\ IsFiniteSet(S) /\ (S # {} => First(S) \in S)
<1> DEFINE n == Len(Contents[name].rules)
<1>1. S \subseteq 1..n /\ n \in Nat
  BY PolicyFacts
<1> HIDE DEF n
<1>2. IsFiniteSet(1..n)
  BY <1>1, IntervalsAreFinite
<1>3. IsFiniteSet(S)
  BY <1>1, <1>2, FS_Subset
<1>4. S \subseteq Nat
  BY <1>1
<1> QED  BY <1>3, <1>4, FirstIsLeast

(* Outranks orders the rules of a policy, and one rule comes first.        *)
LEMMA SelectedOutranksAll ==
    ASSUME NEW name \in Policies, NEW d, NEW p, p = Contents[name],
           \A i \in DOMAIN p.rules : p.rules[i].effect \in Effects,
           Matching(p, d, Channel) # {}
    PROVE  LET i == SelectRule(p, d, Channel)
           IN  /\ i \in Matching(p, d, Channel)
               /\ \A j \in Matching(p, d, Channel) : ~ Outranks(p, j, i)
<1> DEFINE M == Matching(p, d, Channel)
           R == {q \in M \X M : Outranks(p, q[1], q[2])}
<1>1. M \subseteq DOMAIN p.rules /\ M \subseteq Nat /\ IsFiniteSet(M)
  <2>1. M \subseteq DOMAIN p.rules
    BY DEF Matching
  <2> QED  BY <2>1, SomeRulesAreFinite
<1>2. \A i \in M : /\ EffectRank[p.rules[i].effect] \in Nat
                    /\ p.rules[i].priority \in Nat /\ p.rules[i].id \in Nat
  BY <1>1, PolicyFacts DEF Effects, EffectRank
<1>3. \A x, y \in M : <<x, y>> \in R <=> Outranks(p, x, y)
  OBVIOUS
<1>4. \A x \in M : ~ Outranks(p, x, x)
  BY <1>1, <1>2 DEF Outranks
<1>5. ASSUME NEW x \in M, NEW y \in M, NEW z \in M, Outranks(p, x, y), Outranks(p, y, z)
      PROVE  Outranks(p, x, z)
  <2>1. x \in Nat /\ y \in Nat /\ z \in Nat
    BY <1>1
  <2> DEFINE E(i) == EffectRank[p.rules[i].effect]
             P(i) == p.rules[i].priority
             D(i) == p.rules[i].id
             ById(i, j) == D(i) < D(j) \/ (D(i) = D(j) /\ i < j)
             ByPriority(i, j) == P(i) > P(j) \/ (P(i) = P(j) /\ ById(i, j))
  <2>2. \A i, j : Outranks(p, i, j) <=> E(i) > E(j) \/ (E(i) = E(j) /\ ByPriority(i, j))
    BY DEF Outranks
  <2>3. /\ E(x) \in Nat /\ E(y) \in Nat /\ E(z) \in Nat
        /\ P(x) \in Nat /\ P(y) \in Nat /\ P(z) \in Nat
        /\ D(x) \in Nat /\ D(y) \in Nat /\ D(z) \in Nat
    BY <1>2
  <2> HIDE DEF E, P, D
  <2>4. ById(x, y) /\ ById(y, z) => ById(x, z)
    BY <2>1, <2>3
  <2>5. \A i, j : ById(i, j) \in BOOLEAN /\ ByPriority(i, j) \in BOOLEAN
    OBVIOUS
  <2> HIDE DEF ById
  <2>6. ByPriority(x, y) /\ ByPriority(y, z) => ByPriority(x, z)
    BY <2>3, <2>4
  <2> HIDE DEF ByPriority
  <2>7. E(x) > E(z) \/ (E(x) = E(z) /\ ByPriority(x, z))
    BY <1>5, <2>2, <2>3, <2>6
  <2> QED  BY <2>2, <2>7
<1> HIDE DEF R
<1>6. \E i \in M : \A j \in M : <<j, i>> \notin R
  <2>1. /\ \A x \in M : <<x, x>> \notin R
        /\ \A x, y, z \in M : <<x, y>> \in R /\ <<y, z>> \in R => <<x, z>> \in R
    BY <1>3, <1>4, <1>5
  <2> QED  BY <1>1, <2>1, Undominated
<1>7. \E i \in M : \A j \in M : ~ Outranks(p, j, i)
  BY <1>3, <1>6
<1> QED  BY <1>7 DEF SelectRule

(* The ranks of what may be granted and of what may be done.               *)
LEMMA CeilingHolds ==
    ASSUME NEW granted, NEW requested, NEW action \in {"reply", "act"},
           Ceiling(granted, requested) = action
    PROVE  /\ {granted, action} \subseteq DOMAIN AuthorityRank
           /\ AuthorityRank[action] <= AuthorityRank[granted]
           /\ \/ requested = None
              \/ /\ requested \in DOMAIN AuthorityRank
                 /\ AuthorityRank[action] <= AuthorityRank[requested]
<1>1. DOMAIN AuthorityRank = {"draft", "reply", "act"}
  BY DEF AuthorityRank
<1>2. \A x \in DOMAIN AuthorityRank : AuthorityRank[x] \in Nat
  BY DEF AuthorityRank
<1>3. CASE granted \notin DOMAIN AuthorityRank
  BY <1>1, <1>3 DEF Ceiling
<1>4. CASE granted \in DOMAIN AuthorityRank /\ requested \in DOMAIN AuthorityRank
  BY <1>1, <1>2, <1>4 DEF Ceiling
<1>5. CASE granted \in DOMAIN AuthorityRank /\ requested \notin DOMAIN AuthorityRank
  BY <1>1, <1>2, <1>5 DEF Ceiling
<1> QED  BY <1>3, <1>4, <1>5

(* Looking a rule up by its id finds one with that id, the first.          *)
LEMMA CapabilityOfRule ==
    ASSUME NEW name \in Policies, NEW i \in DOMAIN Contents[name].rules
    PROVE  \E j \in DOMAIN Contents[name].rules :
              /\ Contents[name].rules[j].id = Contents[name].rules[i].id
              /\ CapabilityOf(Contents[name], i) = Contents[name].rules[j].capability
<1> DEFINE rules == Contents[name].rules
           Same == {j \in DOMAIN rules : rules[j].id = rules[i].id}
<1>1. Same \subseteq DOMAIN rules /\ Same # {}
  OBVIOUS
<1>2. First(Same) \in Same
  BY <1>1, SomeRulesAreFinite
<1>3. i # 0
  BY PolicyFacts
<1>4. CapabilityOf(Contents[name], i) = rules[First(Same)].capability
  BY <1>3 DEF CapabilityOf
<1> QED  BY <1>2, <1>4

LEMMA EngineV1IsCautious ==
    ASSUME NEW name \in Policies, NEW d \in Decisions, NEW action \in {"reply", "act"},
           NEW p, p = Contents[name], p.version = 1,
           NEW v, v = EvaluateV1(p, d), v.action = action,
           action = "act" => v.rule # 0
    PROVE  Permitted(p, d, action, CapabilityOf(p, v.rule))
<1> DEFINE found == {i \in DOMAIN p.rules : p.rules[i].intents = {d.intent}}
<1>0. ~ (d.confidence < p.minConfidence)
  BY DEF EvaluateV1, Verdict
<1>1. d.confidence >= p.minConfidence
  BY <1>0, PolicyFacts, PolicyConstants
<1>2. CASE found = {}
  <2>1. v = Checked(IF p.defaultAction = None THEN "human" ELSE p.defaultAction, 0)
    BY <1>0, <1>2 DEF EvaluateV1
  <2>2. v.rule = 0 /\ p.defaultAction = action /\ action = "reply"
    BY <2>1 DEF Checked, Verdict, Throws
  <2>3. \A i \in DOMAIN p.rules : d.intent \notin p.rules[i].intents
    BY <1>2, PolicyFacts
  <2> QED  BY <1>1, <2>2, <2>3 DEF Permitted, PermittedByDefault
<1>3. CASE found # {}
  <2>1. First(found) \in found
    BY <1>3, SomeRulesAreFinite
  <2> DEFINE i == First(found)
  <2>2. v = Verdict(Ceiling(p.rules[i].action, d.requested), i)
    BY <1>1, <1>3, PolicyFacts, PolicyConstants DEF EvaluateV1, Verdict, Throws
  <2> HIDE DEF i
  <2>3. v.rule = i /\ Ceiling(p.rules[i].action, d.requested) = action
    BY <2>2 DEF Verdict
  <2>4. i \in DOMAIN p.rules /\ d.intent \in p.rules[i].intents
    BY <2>1 DEF i
  <2>5. \E j \in DOMAIN p.rules : /\ p.rules[j].id = p.rules[i].id
                                  /\ CapabilityOf(p, v.rule) = p.rules[j].capability
    BY <2>3, <2>4, CapabilityOfRule
  <2>6. Grants(p, i, d, action, CapabilityOf(p, v.rule))
    BY <2>3, <2>5, CeilingHolds DEF Grants, NoMoreThanAsked
  <2> QED  BY <1>1, <2>4, <2>6 DEF Permitted, PermittedByRule
<1> QED  BY <1>2, <1>3

LEMMA EngineV2IsCautious ==
    ASSUME NEW name \in Policies, NEW d \in Decisions, NEW action \in {"reply", "act"},
           NEW p, p = Contents[name], p.version = 2,
           NEW v, v = EvaluateV2(p, d, Channel), v.action = action,
           action = "act" => v.rule # 0
    PROVE  Permitted(p, d, action, CapabilityOf(p, v.rule))
<1>1. d.confidence >= p.minConfidence
  <2>1. ~ (d.confidence < p.minConfidence)
    BY DEF EvaluateV2, Verdict, Throws
  <2> QED  BY <2>1, PolicyFacts, PolicyConstants
<1>2. /\ p.defaultEffect \in Effects \cup {None}
      /\ \A j \in DOMAIN p.rules : ValidRule(p.rules[j])
  BY DEF EvaluateV2, Verdict, Throws
<1>3. CASE Matching(p, d, Channel) = {}
  <2>1. v = DefaultV2(p)
    BY <1>1, <1>2, <1>3, PolicyFacts, PolicyConstants DEF EvaluateV2
  <2>2. /\ p.defaultEffect = "allow" /\ p.defaultAction = action
        /\ v.rule = 0
    BY <1>2, <2>1 DEF DefaultV2, Checked, Verdict, Throws, Effects
  <2>3. action = "reply"
    BY <2>2
  <2> QED  BY <1>1, <1>3, <2>2, <2>3 DEF Permitted, PermittedByDefault
<1>4. CASE Matching(p, d, Channel) # {}
  <2> DEFINE i == SelectRule(p, d, Channel)
             M == Matching(p, d, Channel)
  <2>1. v = IF p.rules[i].effect = "allow"
            THEN Verdict(Ceiling(p.rules[i].action, d.requested), i)
            ELSE Verdict("human", i)
    BY <1>1, <1>2, <1>4, PolicyFacts, PolicyConstants DEF EvaluateV2
  <2>2. \A j \in DOMAIN p.rules : p.rules[j].effect \in Effects
    BY <1>2 DEF ValidRule
  <2>3. i \in M /\ \A j \in M : ~ Outranks(p, j, i)
    BY <1>4, <2>2, SelectedOutranksAll
  <2> HIDE DEF i
  <2>4. p.rules[i].effect = "allow" /\ v.rule = i
        /\ Ceiling(p.rules[i].action, d.requested) = action
    BY <2>1 DEF Verdict
  <2>5. M \subseteq DOMAIN p.rules
    BY DEF Matching
  <2>6. \A j \in M : p.rules[j].effect = "allow"
    BY <2>2, <2>3, <2>4, <2>5 DEF Outranks, EffectRank, Effects
  <2>7. \E j \in DOMAIN p.rules : /\ p.rules[j].id = p.rules[i].id
                                  /\ CapabilityOf(p, v.rule) = p.rules[j].capability
    BY <2>3, <2>4, <2>5, CapabilityOfRule
  <2>8. Grants(p, i, d, action, CapabilityOf(p, v.rule))
    BY <2>4, <2>7, CeilingHolds DEF Grants, NoMoreThanAsked
  <2> QED  BY <1>1, <2>3, <2>6, <2>8 DEF Permitted, PermittedByRule
<1> QED  BY <1>3, <1>4

(* What evaluatePermission allows is permitted, for every policy of either *)
(* version and every decision.  Either it comes from a rule that matches   *)
(* and is outranked by no denial or approval: then it is no more than the  *)
(* rule grants and no more than the model asked for, and a tool is one     *)
(* listed under the rule's id.  Or no rule speaks of the decision and the  *)
(* default is to reply, which is not held against what the model asked for *)
(* (ModelMayAskForLess does not hold) and never runs a tool.               *)
THEOREM EngineIsCautious ==
    ASSUME NEW name \in Policies, NEW d \in Decisions, NEW action \in {"reply", "act"},
           EvaluatePermission(Contents[name], d, Channel).action = action,
           action = "act" =>
               Runs(CapabilityOf(Contents[name],
                                 EvaluatePermission(Contents[name], d, Channel).rule))
    PROVE  Permitted(Contents[name], d, action,
                     CapabilityOf(Contents[name],
                                  EvaluatePermission(Contents[name], d, Channel).rule))
<1> DEFINE p == Contents[name]
           v == EvaluatePermission(p, d, Channel)
<1>1. action = "act" => v.rule # 0
  <2>1. ~ Runs(NoCapability)
    BY DEF Runs, NoCapability, None
  <2> QED  BY <2>1 DEF CapabilityOf
<1>2. p.version \in {1, 2}
  BY PolicyFacts
<1>3. CASE p.version = 1
  <2>1. v = EvaluateV1(p, d)
    BY <1>3 DEF EvaluatePermission
  <2> HIDE DEF v, p
  <2>2. p = Contents[name] /\ v.action = action
    BY DEF v, p
  <2>3. Permitted(p, d, action, CapabilityOf(p, v.rule))
    BY <1>1, <1>3, <2>1, <2>2, EngineV1IsCautious
  <2> QED  BY <2>3 DEF v, p
<1>4. CASE p.version = 2
  <2>1. v = EvaluateV2(p, d, Channel)
    BY <1>4 DEF EvaluatePermission
  <2> HIDE DEF v, p
  <2>2. p = Contents[name] /\ v.action = action
    BY DEF v, p
  <2>3. Permitted(p, d, action, CapabilityOf(p, v.rule))
    BY <1>1, <1>4, <2>1, <2>2, EngineV2IsCautious
  <2> QED  BY <2>3 DEF v, p
<1> QED  BY <1>2, <1>3, <1>4

(* q is policy p with its rules in another order: q's rule i is p's f[i].  *)
Reordered(p, q, f) ==
    /\ q.version = p.version /\ q.minConfidence = p.minConfidence
    /\ q.defaultEffect = p.defaultEffect /\ q.defaultAction = p.defaultAction
    /\ DOMAIN q.rules = DOMAIN p.rules
    /\ f \in [DOMAIN p.rules -> DOMAIN p.rules]
    /\ \A i, j \in DOMAIN p.rules : f[i] = f[j] => i = j
    /\ \A k \in DOMAIN p.rules : \E i \in DOMAIN p.rules : f[i] = k
    /\ \A i \in DOMAIN q.rules : q.rules[i] = p.rules[f[i]]

(* No two rules of the policy have the same id.                            *)
DistinctIds(p) == \A i, j \in DOMAIN p.rules : p.rules[i].id = p.rules[j].id => i = j

(* Places, ids and priorities are numbers, and no place is 0.              *)
LEMMA RuleFacts ==
    ASSUME NEW name \in Policies, NEW p, p = Contents[name]
    PROVE  \A i \in DOMAIN p.rules :
              /\ i \in Nat /\ i # 0
              /\ p.rules[i].id \in Nat /\ p.rules[i].priority \in Nat
  BY PolicyFacts

(* The sort compares two rules of the new order as it did in the old, if   *)
(* ids differ, so that the place never decides.                            *)
LEMMA ReorderedRules ==
    ASSUME NEW name \in Policies, NEW p, p = Contents[name],
           NEW q, NEW f, NEW d, Reordered(p, q, f), DistinctIds(p)
    PROVE  /\ \A i \in DOMAIN p.rules :
                  i \in Matching(q, d, Channel) <=> f[i] \in Matching(p, d, Channel)
           /\ \A i, j \in DOMAIN p.rules : Outranks(q, i, j) <=> Outranks(p, f[i], f[j])
<1>1. \A i \in DOMAIN p.rules : f[i] \in DOMAIN p.rules /\ q.rules[i] = p.rules[f[i]]
  BY DEF Reordered
<1>2. \A i \in DOMAIN p.rules :
          i \in Matching(q, d, Channel) <=> f[i] \in Matching(p, d, Channel)
  BY <1>1 DEF Matching, Reordered
<1>3. ASSUME NEW i \in DOMAIN p.rules, NEW j \in DOMAIN p.rules
      PROVE  Outranks(q, i, j) <=> Outranks(p, f[i], f[j])
  <2>1. p.rules[f[i]].id = p.rules[f[j]].id => i = j
    <3>1. \A x, y \in DOMAIN p.rules : p.rules[x].id = p.rules[y].id => x = y
      BY DEF DistinctIds
    <3>2. f[i] = f[j] => i = j
      BY DEF Reordered
    <3> QED  BY <1>1, <3>1, <3>2
  <2>2. i \in Nat /\ f[i] \in Nat
    BY <1>1, RuleFacts
  <2>3. ~ (i < i) /\ ~ (f[i] < f[i])
    BY <2>2
  <2> QED  BY <1>1, <2>1, <2>3 DEF Outranks
<1> QED  BY <1>2, <1>3

(* Of two rules that match, one comes before the other.                    *)
LEMMA RulesAreRanked ==
    ASSUME NEW name \in Policies, NEW p, p = Contents[name],
           NEW i \in DOMAIN p.rules, NEW j \in DOMAIN p.rules, i # j,
           {p.rules[i].effect, p.rules[j].effect} \subseteq Effects
    PROVE  Outranks(p, i, j) \/ Outranks(p, j, i)
<1>1. /\ EffectRank[p.rules[i].effect] \in Nat /\ EffectRank[p.rules[j].effect] \in Nat
      /\ p.rules[i].priority \in Nat /\ p.rules[j].priority \in Nat
      /\ p.rules[i].id \in Nat /\ p.rules[j].id \in Nat
      /\ i \in Nat /\ j \in Nat
  <2>1. /\ p.rules[i].priority \in Nat /\ p.rules[j].priority \in Nat
        /\ p.rules[i].id \in Nat /\ p.rules[j].id \in Nat
        /\ i \in Nat /\ j \in Nat
    BY RuleFacts
  <2>2. \A x \in Effects : EffectRank[x] \in Nat
    BY DEF Effects, EffectRank
  <2> QED  BY <2>1, <2>2
<1> QED  BY <1>1 DEF Outranks

(* selectRule finds the same rule in any order of the list.                *)
LEMMA ReorderedSelection ==
    ASSUME NEW name \in Policies, NEW p, p = Contents[name],
           NEW q, NEW f, NEW d, Reordered(p, q, f), DistinctIds(p),
           Matching(p, d, Channel) # {},
           \A i \in DOMAIN p.rules : p.rules[i].effect \in Effects
    PROVE  /\ SelectRule(q, d, Channel) \in DOMAIN p.rules
           /\ f[SelectRule(q, d, Channel)] = SelectRule(p, d, Channel)
<1> DEFINE M == Matching(p, d, Channel)
           N == Matching(q, d, Channel)
           Best(i) == i \in N /\ \A j \in N : ~ Outranks(q, j, i)
<1>1. PICK s \in M : s = SelectRule(p, d, Channel) /\ \A j \in M : ~ Outranks(p, j, s)
  BY SelectedOutranksAll
<1>2. M \subseteq DOMAIN p.rules /\ N \subseteq DOMAIN p.rules
  BY DEF Matching, Reordered
<1>3. PICK k \in DOMAIN p.rules : f[k] = s
  BY <1>1, <1>2 DEF Reordered
<1>4. \A i \in N : f[i] \in M
  BY <1>2, ReorderedRules
<1>5. Best(k)
  <2>1. k \in N
    BY <1>1, <1>3, ReorderedRules
  <2>2. \A j \in N : ~ Outranks(q, j, k)
    BY <1>1, <1>2, <1>3, <1>4, ReorderedRules
  <2> QED  BY <2>1, <2>2
<1>6. ASSUME NEW i, Best(i) PROVE i = k
  <2>1. i \in DOMAIN p.rules /\ f[i] \in M
    BY <1>2, <1>4, <1>6
  <2>2. ~ Outranks(p, f[i], s) /\ ~ Outranks(q, k, i)
    BY <1>1, <1>5, <1>6, <2>1
  <2>3. ~ Outranks(p, s, f[i])
    BY <1>3, <2>1, <2>2, ReorderedRules
  <2>4. f[i] = s
    BY <1>1, <1>2, <2>1, <2>2, <2>3, RulesAreRanked
  <2> QED  BY <1>3, <2>1, <2>4 DEF Reordered
<1>7. SelectRule(q, d, Channel) = CHOOSE i \in N : \A j \in N : ~ Outranks(q, j, i)
  BY DEF SelectRule
<1>8. SelectRule(q, d, Channel) = k
  BY <1>5, <1>6, <1>7
<1> QED  BY <1>1, <1>3, <1>8

(* If no two rules of a policy of version 2 have the same id, its verdict  *)
(* does not depend on the order they are listed in: the sort of selectRule *)
(* leaves no tie for the place in the list to break.  Nothing in the code  *)
(* makes ids differ.                                                       *)
THEOREM VerdictIgnoresRuleOrder ==
    ASSUME NEW name \in Policies, NEW p, p = Contents[name], p.version = 2,
           NEW q, NEW f, NEW d \in Decisions, Reordered(p, q, f), DistinctIds(p)
    PROVE  LET v == EvaluatePermission(p, d, Channel)
               w == EvaluatePermission(q, d, Channel)
           IN  /\ w.action = v.action
               /\ v.rule = IF w.rule = 0 THEN 0 ELSE f[w.rule]
<1> DEFINE M == Matching(p, d, Channel)
           N == Matching(q, d, Channel)
           i == SelectRule(p, d, Channel)
           k == SelectRule(q, d, Channel)
           v == EvaluatePermission(p, d, Channel)
           w == EvaluatePermission(q, d, Channel)
<1>1. v = EvaluateV2(p, d, Channel) /\ w = EvaluateV2(q, d, Channel)
  BY DEF EvaluatePermission, Reordered
<1>2. (\E j \in DOMAIN p.rules : ~ ValidRule(p.rules[j]))
        <=> (\E j \in DOMAIN q.rules : ~ ValidRule(q.rules[j]))
  BY DEF Reordered
<1>3. M = {} <=> N = {}
  <2>1. M \subseteq DOMAIN p.rules /\ N \subseteq DOMAIN p.rules
    BY DEF Matching, Reordered
  <2>2. \A j \in DOMAIN p.rules : j \in N <=> f[j] \in M
    BY ReorderedRules
  <2>3. \A j \in DOMAIN p.rules : \E m \in DOMAIN p.rules : f[m] = j
    BY DEF Reordered
  <2> HIDE DEF M, N
  <2> QED  BY <2>1, <2>2, <2>3
<1>4. DefaultV2(q) = DefaultV2(p)
  BY DEF DefaultV2, Reordered
<1>5. CASE \/ p.defaultEffect \notin Effects \cup {None}
           \/ \E j \in DOMAIN p.rules : ~ ValidRule(p.rules[j])
           \/ d.confidence < p.minConfidence
           \/ M = {}
  <2>1. w = v
    BY <1>1, <1>2, <1>3, <1>4, <1>5 DEF EvaluateV2, Reordered
  <2>2. v \in {Throws, Verdict("human", 0), DefaultV2(p)}
    BY <1>1, <1>5 DEF EvaluateV2
  <2>3. v.rule = 0
    BY <2>2 DEF Throws, Verdict, DefaultV2, Checked
  <2> QED  BY <2>1, <2>3
<1>6. CASE /\ p.defaultEffect \in Effects \cup {None}
           /\ \A j \in DOMAIN p.rules : ValidRule(p.rules[j])
           /\ ~ (d.confidence < p.minConfidence)
           /\ M # {}
  <2>1. /\ k \in DOMAIN p.rules /\ f[k] = i
        /\ k # 0 /\ q.rules[k] = p.rules[i]
    <3>1. \A j \in DOMAIN p.rules : p.rules[j].effect \in Effects
      BY <1>6 DEF ValidRule
    <3>2. k \in DOMAIN p.rules /\ f[k] = i
      <4> HIDE DEF M
      <4>1. Matching(p, d, Channel) # {}
        BY <1>6 DEF M
      <4>2. /\ SelectRule(q, d, Channel) \in DOMAIN p.rules
            /\ f[SelectRule(q, d, Channel)] = SelectRule(p, d, Channel)
        BY <3>1, <4>1, ReorderedSelection
      <4> QED  BY <4>2 DEF k, i
    <3>3. 0 \notin DOMAIN p.rules
      BY RuleFacts
    <3> HIDE DEF k, i
    <3> QED  BY <3>2, <3>3 DEF Reordered
  <2>2. v = IF p.rules[i].effect = "allow"
            THEN Verdict(Ceiling(p.rules[i].action, d.requested), i)
            ELSE Verdict("human", i)
    BY <1>1, <1>6 DEF EvaluateV2
  <2>3. w = IF q.rules[k].effect = "allow"
            THEN Verdict(Ceiling(q.rules[k].action, d.requested), k)
            ELSE Verdict("human", k)
    BY <1>1, <1>2, <1>3, <1>6 DEF EvaluateV2, Reordered
  <2> HIDE DEF k, i, v, w
  <2>4. w.action = v.action /\ v.rule = i /\ w.rule = k
    BY <2>1, <2>2, <2>3 DEF Verdict
  <2> QED  BY <2>1, <2>4 DEF v, w
<1> QED  BY <1>5, <1>6

-------------------------------------------------------------------------------
(* Whatever the verdict, the capability is one of some rule, or none.      *)
LEMMA VerdictRules ==
    ASSUME NEW name \in Policies, NEW d \in Decisions
    PROVE  CapabilityOf(Contents[name], EvaluatePermission(Contents[name], d, Channel).rule)
              \in Capabilities
<1> DEFINE p == Contents[name]
           found == {i \in DOMAIN p.rules : p.rules[i].intents = {d.intent}}
<1>1. EvaluateV1(p, d).rule \in DOMAIN p.rules \cup {0}
  <2>1. found # {} => First(found) \in DOMAIN p.rules
    BY SomeRulesAreFinite
  <2>2. EvaluateV1(p, d).rule \in {0} \cup (IF found # {} THEN {First(found)} ELSE {})
    BY DEF EvaluateV1, Verdict, Throws, Checked
  <2> QED  BY <2>1, <2>2
<1>2. EvaluateV2(p, d, Channel).rule \in DOMAIN p.rules \cup {0}
  <2> DEFINE i == SelectRule(p, d, Channel)
  <2>1. CASE \E j \in DOMAIN p.rules : ~ ValidRule(p.rules[j])
    BY <2>1 DEF EvaluateV2, Verdict, Throws
  <2>2. CASE Matching(p, d, Channel) = {}
    BY <2>2 DEF EvaluateV2, Verdict, Throws, DefaultV2, Checked
  <2>3. CASE /\ \A j \in DOMAIN p.rules : ValidRule(p.rules[j])
             /\ Matching(p, d, Channel) # {}
    <3>1. \A j \in DOMAIN p.rules : p.rules[j].effect \in Effects
      BY <2>3 DEF ValidRule
    <3>2. i \in Matching(p, d, Channel)
      BY <2>3, <3>1, SelectedOutranksAll
    <3>3. i \in DOMAIN p.rules
      BY <3>2 DEF Matching
    <3>4. EvaluateV2(p, d, Channel).rule \in {0, i}
      BY <2>3 DEF EvaluateV2, Verdict, Throws
    <3> QED  BY <3>3, <3>4
  <2> QED  BY <2>1, <2>2, <2>3
<1>3. EvaluatePermission(p, d, Channel).rule \in DOMAIN p.rules \cup {0}
  BY <1>1, <1>2 DEF EvaluatePermission
<1>4. \A i \in DOMAIN p.rules :
          \E j \in DOMAIN p.rules : CapabilityOf(p, i) = p.rules[j].capability
  BY CapabilityOfRule
<1>5. CapabilityOf(p, 0) = NoCapability
  BY DEF CapabilityOf
<1>6. NoCapability \in Capabilities
  BY DEF Capabilities
<1>7. ASSUME NEW i \in DOMAIN p.rules
      PROVE  p.rules[i].capability \in Capabilities
  <2> DEFINE Of(q) == {Contents[q].rules[j].capability : j \in DOMAIN Contents[q].rules}
  <2>1. p.rules[i].capability \in Of(name)
    OBVIOUS
  <2> HIDE DEF Of
  <2>2. p.rules[i].capability \in UNION {Of(q) : q \in Policies}
    BY <2>1
  <2> QED  BY <2>2 DEF Capabilities, Of
<1> QED  BY <1>3, <1>4, <1>5, <1>6, <1>7

-------------------------------------------------------------------------------
(* The store.                                                              *)

(* A tenant that is listed has one entry, the others have none.            *)
LEMMA TenantTypes ==
    /\ \A o \in Tenant : /\ o.id \in Tenants /\ o.id # "none"
                         /\ TenantNumbers(o) \subseteq Numbers
                         /\ o # NoTenant
    /\ NoTenant.id = "none" /\ TenantNumbers(NoTenant) = {}
    /\ \A o \in Tenant \cup {NoTenant} : o.id = "none" => o = NoTenant
  BY TenantIds DEF Tenant, NoTenant, TenantNumbers

(* Only the numbers of a listed tenant lead to its object's id's owner.    *)
LEMMA OthersAreElsewhere ==
    ASSUME StoreInv, NEW o \in Tenant, NEW t \in Tenants, t # o.id, Known(t),
           NEW n \in TenantNumbers(byId[t])
    PROVE  /\ n \in Numbers /\ routes[n] = byId[t] /\ byId[t] \in Tenant
           /\ Deindexed(byId[o.id])[n] = routes[n]
           /\ n \in TenantNumbers(o) => n \in Taken(o)
<1>1. byId[t] \in Tenant /\ byId[t].id = t /\ o.id \in Tenants
  BY TenantTypes DEF StoreInv, StoreTypeOK, Known
<1>2. n \in Numbers /\ routes[n] = byId[t]
  BY <1>1, TenantTypes DEF StoreInv, LiveTenantsAreRouted
<1>3. n \notin TenantNumbers(byId[o.id])
  <2>1. CASE Known(o.id)
    BY <1>1, <1>2, <2>1 DEF StoreInv, LiveTenantsAreRouted, Known
  <2>2. CASE ~ Known(o.id)
    BY <1>1, <2>2, TenantTypes DEF StoreInv, StoreTypeOK, Known
  <2> QED  BY <2>1, <2>2
<1>4. Deindexed(byId[o.id])[n] = routes[n]
  BY <1>2, <1>3 DEF Deindexed
<1>5. t \notin {o.id, "none"}
  BY TenantIds
<1> QED  BY <1>1, <1>2, <1>4, <1>5 DEF Taken

LEMMA PersistKeeps ==
    ASSUME StoreTypeOK, SavedNumbersAreDistinct, NEW outcome, Persist(outcome),
           byId' \in [Tenants -> Tenant \cup {NoTenant}],
           \A t \in Tenants : byId'[t].id \in {t, "none"},
           Disjoint(byId')
    PROVE  /\ file' \in [Tenants -> Tenant \cup {NoTenant}] /\ torn' \in BOOLEAN
           /\ \A t \in Tenants : file'[t].id \in {t, "none"}
           /\ SavedNumbersAreDistinct'
<1>1. CASE outcome = "written" /\ file' = byId' /\ torn' = FALSE
  BY <1>1 DEF SavedNumbersAreDistinct
<1>2. CASE UNCHANGED file /\ torn' \in BOOLEAN
  BY <1>2 DEF SavedNumbersAreDistinct, StoreTypeOK
<1> QED  BY <1>1, <1>2 DEF Persist, StoreTypeOK

(* An index of the new tenant that succeeds, or is refused half-way.       *)
LEMMA IndexKeepsStoreInv ==
    ASSUME StoreInv, NEW o \in Tenant, NEW outcome, Index(o, outcome)
    PROVE  StoreInv'
<1>1. o.id \in Tenants /\ o.id # "none" /\ TenantNumbers(o) \subseteq Numbers
  BY TenantTypes
<1>2. CASE /\ Taken(o) = {} /\ byId' = [byId EXCEPT ![o.id] = o]
           /\ routes' = [n \in Numbers |->
                 IF n \in TenantNumbers(o) THEN o ELSE Deindexed(byId[o.id])[n]]
           /\ Persist(outcome)
  <2>1. /\ byId' \in [Tenants -> Tenant \cup {NoTenant}]
        /\ \A t \in Tenants : byId'[t].id \in {t, "none"}
    BY <1>1, <1>2 DEF StoreInv, StoreTypeOK
  <2>2. routes' \in [Numbers -> Tenant \cup {NoTenant}]
    BY <1>2 DEF StoreInv, StoreTypeOK, Deindexed
  <2>3. ASSUME NEW t \in Tenants, Known(t)', NEW n \in TenantNumbers(byId'[t])
        PROVE  routes'[n] = byId'[t]
    <3>1. CASE t = o.id
      BY <1>1, <1>2, <2>3, <3>1 DEF StoreInv, StoreTypeOK
    <3>2. CASE t # o.id
      <4>1. byId'[t] = byId[t] /\ Known(t)
        BY <1>2, <2>3, <3>2 DEF Known, StoreInv, StoreTypeOK
      <4>2. /\ n \in Numbers /\ routes[n] = byId[t]
            /\ Deindexed(byId[o.id])[n] = routes[n] /\ n \notin TenantNumbers(o)
        BY <1>2, <2>3, <3>2, <4>1, OthersAreElsewhere
      <4> QED  BY <1>2, <4>1, <4>2
    <3> QED  BY <3>1, <3>2
  <2>4. LiveTenantsAreRouted'
    BY <2>3 DEF LiveTenantsAreRouted
  <2>5. Disjoint(byId')
    <3>1. \A t \in Tenants : TenantNumbers(byId'[t]) # {} => byId'[t].id = t
      BY <2>1, TenantTypes
    <3> QED  BY <2>3, <3>1 DEF Known, Disjoint
  <2>6. /\ file' \in [Tenants -> Tenant \cup {NoTenant}] /\ torn' \in BOOLEAN
        /\ \A t \in Tenants : file'[t].id \in {t, "none"}
        /\ SavedNumbersAreDistinct'
    BY <1>2, <2>1, <2>5, PersistKeeps DEF StoreInv
  <2> QED  BY <2>1, <2>2, <2>4, <2>6 DEF StoreInv, StoreTypeOK
<1>3. CASE /\ byId' = [byId EXCEPT ![o.id] = NoTenant]
           /\ \E indexed \in SUBSET (TenantNumbers(o) \ Taken(o)) :
                 routes' = [n \in Numbers |->
                     IF n \in indexed THEN o ELSE Deindexed(byId[o.id])[n]]
           /\ UNCHANGED <<file, torn>>
  <2>1. PICK indexed \in SUBSET (TenantNumbers(o) \ Taken(o)) :
            routes' = [n \in Numbers |->
                IF n \in indexed THEN o ELSE Deindexed(byId[o.id])[n]]
    BY <1>3
  <2>2. /\ byId' \in [Tenants -> Tenant \cup {NoTenant}]
        /\ \A t \in Tenants : byId'[t].id \in {t, "none"}
    BY <1>1, <1>3, TenantTypes DEF StoreInv, StoreTypeOK
  <2>3. routes' \in [Numbers -> Tenant \cup {NoTenant}]
    BY <2>1 DEF StoreInv, StoreTypeOK, Deindexed
  <2>4. ASSUME NEW t \in Tenants, Known(t)', NEW n \in TenantNumbers(byId'[t])
        PROVE  routes'[n] = byId'[t]
    <3>1. t # o.id
      BY <1>1, <1>3, <2>4, TenantTypes DEF Known, StoreInv, StoreTypeOK
    <3>2. byId'[t] = byId[t] /\ Known(t)
      BY <1>3, <2>4, <3>1 DEF Known, StoreInv, StoreTypeOK
    <3>3. /\ n \in Numbers /\ routes[n] = byId[t]
          /\ Deindexed(byId[o.id])[n] = routes[n]
          /\ n \in TenantNumbers(o) => n \in Taken(o)
      BY <2>4, <3>1, <3>2, OthersAreElsewhere
    <3> QED  BY <2>1, <3>2, <3>3
  <2>5. LiveTenantsAreRouted'
    BY <2>4 DEF LiveTenantsAreRouted
  <2>6. SavedNumbersAreDistinct' /\ file' = file /\ torn' = torn
    BY <1>3 DEF StoreInv, SavedNumbersAreDistinct
  <2> QED  BY <2>2, <2>3, <2>5, <2>6 DEF StoreInv, StoreTypeOK
<1> QED  BY <1>2, <1>3 DEF Index

LEMMA DeleteKeepsStoreInv ==
    ASSUME StoreInv, NEW t \in Tenants, NEW outcome, Delete(t, outcome)
    PROVE  StoreInv'
<1>0. byId' = [byId EXCEPT ![t] = NoTenant] /\ routes' = Deindexed(byId[t]) /\ Persist(outcome)
  BY DEF Delete
<1>1. byId[t] \in Tenant /\ byId[t].id = t
  <2>1. Known(t)
    BY DEF Delete
  <2> QED  BY <2>1, TenantTypes, TenantIds DEF StoreInv, StoreTypeOK, Known
<1>2. /\ byId' \in [Tenants -> Tenant \cup {NoTenant}]
      /\ \A u \in Tenants : byId'[u].id \in {u, "none"}
  BY <1>0, TenantTypes DEF StoreInv, StoreTypeOK
<1>3. routes' \in [Numbers -> Tenant \cup {NoTenant}]
  BY <1>0 DEF StoreInv, StoreTypeOK, Deindexed
<1>4. ASSUME NEW u \in Tenants, Known(u)', NEW n \in TenantNumbers(byId'[u])
      PROVE  routes'[n] = byId'[u]
  <2>1. u # t /\ t # "none"
    BY <1>0, <1>4, TenantIds, TenantTypes DEF Known, StoreInv, StoreTypeOK
  <2>2. byId'[u] = byId[u] /\ Known(u)
    BY <1>0, <1>4, <2>1 DEF Known, StoreInv, StoreTypeOK
  <2>3. routes[n] = byId[u] /\ Deindexed(byId[t])[n] = routes[n]
    BY <1>1, <1>4, <2>1, <2>2, OthersAreElsewhere
  <2> QED  BY <1>0, <2>2, <2>3
<1>5. LiveTenantsAreRouted'
  BY <1>4 DEF LiveTenantsAreRouted
<1>6. Disjoint(byId')
  <2>1. \A u \in Tenants : TenantNumbers(byId'[u]) # {} => byId'[u].id = u
    BY <1>2, TenantTypes
  <2> QED  BY <1>4, <2>1 DEF Known, Disjoint
<1>7. /\ file' \in [Tenants -> Tenant \cup {NoTenant}] /\ torn' \in BOOLEAN
      /\ \A u \in Tenants : file'[u].id \in {u, "none"}
      /\ SavedNumbersAreDistinct'
  BY <1>0, <1>2, <1>6, PersistKeeps DEF StoreInv
<1> QED  BY <1>2, <1>3, <1>5, <1>7 DEF StoreInv, StoreTypeOK

(* The index of a file that loads leads to the tenants of the file.        *)
LEMMA LoadedIsRouted ==
    ASSUME NEW tenants \in [Tenants -> Tenant \cup {NoTenant}], Disjoint(tenants),
           \A t \in Tenants : tenants[t].id \in {t, "none"}
    PROVE  /\ RoutesOf(tenants) \in [Numbers -> Tenant \cup {NoTenant}]
           /\ \A t \in Tenants : \A n \in TenantNumbers(tenants[t]) :
                 n \in Numbers /\ RoutesOf(tenants)[n] = tenants[t]
           /\ \A n \in Numbers, t \in Tenants :
                 RoutesOf(tenants)[n].id = t => RoutesOf(tenants)[n] = tenants[t]
<1>1. ASSUME NEW t \in Tenants, NEW n \in TenantNumbers(tenants[t])
      PROVE  n \in Numbers /\ RoutesOf(tenants)[n] = tenants[t]
  <2>1. n \in Numbers
    BY TenantTypes
  <2>2. \A u \in Tenants : n \in TenantNumbers(tenants[u]) => u = t
    BY <1>1 DEF Disjoint
  <2>3. (CHOOSE u \in Tenants : n \in TenantNumbers(tenants[u])) = t
    BY <1>1, <2>2
  <2> QED  BY <1>1, <2>1, <2>3 DEF RoutesOf
<1>2. ASSUME NEW n \in Numbers
      PROVE  \/ RoutesOf(tenants)[n] = NoTenant
             \/ \E u \in Tenants : /\ RoutesOf(tenants)[n] = tenants[u]
                                    /\ n \in TenantNumbers(tenants[u])
  BY DEF RoutesOf
<1>3. RoutesOf(tenants) \in [Numbers -> Tenant \cup {NoTenant}]
  BY <1>2 DEF RoutesOf
<1>4. ASSUME NEW n \in Numbers, NEW t \in Tenants, RoutesOf(tenants)[n].id = t
      PROVE  RoutesOf(tenants)[n] = tenants[t]
  BY <1>2, <1>4, TenantTypes, TenantIds
<1> QED  BY <1>1, <1>3, <1>4

LEMMA LoadKeepsStoreInv ==
    ASSUME StoreInv, Load
    PROVE  StoreInv'
<1>1. /\ byId' = file /\ routes' = RoutesOf(file) /\ file' = file /\ torn' = torn
      /\ Disjoint(file)
  BY DEF Load
<1>2. /\ routes' \in [Numbers -> Tenant \cup {NoTenant}]
      /\ \A t \in Tenants : \A n \in TenantNumbers(byId'[t]) : routes'[n] = byId'[t]
  BY <1>1, LoadedIsRouted DEF StoreInv, StoreTypeOK
<1> QED  BY <1>1, <1>2 DEF StoreInv, StoreTypeOK, LiveTenantsAreRouted, SavedNumbersAreDistinct, Known

LEMMA AddKeepsStoreInv ==
    ASSUME StoreInv, NEW t \in Tenants, NEW n \in Numbers, NEW outcome,
           AddNumber(t, n, outcome)
    PROVE  StoreInv'
<1> DEFINE old == byId[t]
           base == IF old.listed /\ old.numbers # {} THEN old.numbers ELSE old.legacy
           new == [old EXCEPT !.listed = TRUE, !.numbers = base \cup {n}]
<1>1. Index(new, outcome) /\ Known(t)
  BY DEF AddNumber
<1>2. old \in Tenant
  BY <1>1, TenantTypes, TenantIds DEF StoreInv, StoreTypeOK, Known
<1>3. new \in Tenant
  BY <1>2 DEF Tenant
<1> QED  BY <1>1, <1>3, IndexKeepsStoreInv

LEMMA RemoveKeepsStoreInv ==
    ASSUME StoreInv, NEW t \in Tenants, NEW n \in Numbers, NEW outcome,
           RemoveNumber(t, n, outcome)
    PROVE  StoreInv'
<1> DEFINE new == [byId[t] EXCEPT !.numbers = byId[t].numbers \ {n}]
<1>1. Index(new, outcome) /\ Known(t)
  BY DEF RemoveNumber
<1>2. byId[t] \in Tenant
  BY <1>1, TenantTypes, TenantIds DEF StoreInv, StoreTypeOK, Known
<1>3. new \in Tenant
  BY <1>2 DEF Tenant
<1> QED  BY <1>1, <1>3, IndexKeepsStoreInv

LEMMA StoreInvUnchanged == StoreInv /\ UNCHANGED store => StoreInv'
  BY DEF StoreInv, StoreTypeOK, LiveTenantsAreRouted, SavedNumbersAreDistinct, Known, store

LEMMA StoreStep == StoreInv /\ [StoreNext]_store => StoreInv'
<1> SUFFICES ASSUME StoreInv, [StoreNext]_store
             PROVE  StoreInv'
  OBVIOUS
<1>1. ASSUME NEW outcome, NEW o \in Tenant, Create(o, outcome) \/ Update(o, outcome)
      PROVE  StoreInv'
  BY <1>1, IndexKeepsStoreInv DEF Create, Update
<1>2. ASSUME NEW outcome, NEW t \in Tenants, NEW n \in Numbers,
             AddNumber(t, n, outcome) \/ RemoveNumber(t, n, outcome)
      PROVE  StoreInv'
  BY <1>2, AddKeepsStoreInv, RemoveKeepsStoreInv
<1>3. ASSUME NEW outcome, NEW t \in Tenants, Delete(t, outcome)
      PROVE  StoreInv'
  BY <1>3, DeleteKeepsStoreInv
<1> QED  BY <1>1, <1>2, <1>3, LoadKeepsStoreInv, StoreInvUnchanged DEF StoreNext

LEMMA StoreInitInv == StoreInit => StoreInv
<1> SUFFICES ASSUME StoreInit PROVE StoreInv
  OBVIOUS
<1>1. /\ routes \in [Numbers -> Tenant \cup {NoTenant}]
      /\ \A t \in Tenants : \A n \in TenantNumbers(byId[t]) : routes[n] = byId[t]
  BY LoadedIsRouted DEF StoreInit
<1> QED  BY <1>1 DEF StoreInit, StoreInv, StoreTypeOK, LiveTenantsAreRouted, SavedNumbersAreDistinct

(* Whatever tenants are created, changed, refused, not saved and reloaded, *)
(* each listed one is where its numbers lead, and no number is saved for   *)
(* two of them.  Whether the file can be loaded is not said: loadConfig    *)
(* refuses some that the API saves.                                        *)
THEOREM TenantsStayRouted == StoreSpec => []StoreInv
BY StoreInitInv, StoreStep, PTL DEF StoreSpec

-------------------------------------------------------------------------------
(* Every change a request can make is one of the store's.                  *)
LEMMA ChangesAreTyped ==
    ASSUME StoreTypeOK, NEW t \in Tenants
    PROVE  /\ Fresh(t) \subseteq Tenant
           /\ \A o \in Fresh(t) : o.id = t
           /\ Known(t) => /\ Patched(byId[t]) \subseteq Tenant
                           /\ \A o \in Patched(byId[t]) : o.id = t
<1>1. ASSUME NEW o \in Fresh(t)
      PROVE  o \in Tenant /\ o.id = t
  <2>1. PICK n \in Numbers, p \in Policies :
            o = [id |-> t, legacy |-> {n}, listed |-> FALSE, numbers |-> {}, policy |-> p,
                 shadow |-> FALSE]
    BY <1>1 DEF Fresh
  <2>2. {n} \in SUBSET Numbers /\ {} \in SUBSET Numbers
    OBVIOUS
  <2> QED  BY <2>1, <2>2 DEF Tenant
<1>2. ASSUME NEW o \in Tenant, NEW x \in Patched(o)
      PROVE  x \in Tenant /\ x.id = o.id
  <2>1. CASE \E p \in Policies : x = [o EXCEPT !.policy = p]
    BY <2>1 DEF Tenant
  <2>2. CASE x = [o EXCEPT !.shadow = ~ @]
    BY <2>2 DEF Tenant
  <2>3. CASE x = [o EXCEPT !.legacy = {}]
    BY <2>3 DEF Tenant
  <2>4. CASE \E n \in Numbers : x = [o EXCEPT !.legacy = {n}]
    <3>1. PICK n \in Numbers : x = [o EXCEPT !.legacy = {n}]
      BY <2>4
    <3>2. {n} \in SUBSET Numbers
      OBVIOUS
    <3> QED  BY <3>1, <3>2 DEF Tenant
  <2>5. CASE \E S \in SUBSET Numbers : x = [o EXCEPT !.listed = TRUE, !.numbers = S]
    BY <2>5 DEF Tenant
  <2> QED  BY <1>2, <2>1, <2>2, <2>3, <2>4, <2>5 DEF Patched
<1>3. Known(t) => byId[t] \in Tenant /\ byId[t].id = t
  BY TenantTypes, TenantIds DEF StoreTypeOK, Known
<1> QED  BY <1>1, <1>2, <1>3

LEMMA ChangeIsStoreStep ==
    ASSUME StoreTypeOK, NEW t \in Tenants, NEW outcome \in Outcomes, ChangeTenant(t, outcome)
    PROVE  StoreNext
<1>1. ASSUME NEW o \in Fresh(t), Create(o, outcome)
      PROVE  StoreNext
  BY <1>1, ChangesAreTyped DEF StoreNext
<1>2. ASSUME Known(t), NEW o \in Patched(byId[t]), Update(o, outcome)
      PROVE  StoreNext
  BY <1>2, ChangesAreTyped DEF StoreNext
<1>3. ASSUME \/ \E n \in Numbers : AddNumber(t, n, outcome)
             \/ \E n \in Numbers : RemoveNumber(t, n, outcome)
             \/ Delete(t, outcome)
      PROVE  StoreNext
  BY <1>3 DEF StoreNext
<1> QED  BY <1>1, <1>2, <1>3 DEF ChangeTenant

LEMMA NextIsStoreStep ==
    ASSUME StoreTypeOK, [Next]_vars
    PROVE  [StoreNext]_store
<1>1. ASSUME NEW r \in Requests,
             \/ \E n \in Numbers, c \in Customers : MessageArrives(r, n, c)
             \/ \E t \in Tenants, c \in Customers : OperatorWrites(r, t, c)
             \/ \E S \in SUBSET Tenants, dry, forced \in BOOLEAN : StartSweep(r, S, dry, forced)
             \/ StartDecision(r) \/ StartManualSend(r)
             \/ \E o \in req[r].queue : ModerateTenant(r, o) \/ SweepAborts(r, o)
             \/ \E x \in Subjects(req[r]) : ModelFails(r, x)
             \/ \E x \in Subjects(req[r]), d \in Decisions : Decide(r, x, d)
             \/ \E outcome \in {"recorded", "failed", "unrecorded"} : SendEnds(r, outcome)
             \/ ToolSettles(r) \/ ToolTimesOut(r)
      PROVE  UNCHANGED store
  BY <1>1 DEF MessageArrives, OperatorWrites, StartSweep, StartDecision, StartManualSend,
       ModerateTenant, SweepAborts, ModelFails, Decide, SendEnds, ToolSettles, ToolTimesOut, ToolEnds
<1>2. ASSUME NEW t \in Tenants, NEW c \in Customers, SetControl(t, c)
      PROVE  UNCHANGED store
  BY <1>2 DEF SetControl
<1>3. Restart => StoreNext
  BY DEF Restart, StoreNext
<1>4. UNCHANGED vars => UNCHANGED store
  BY DEF vars
<1> QED  BY <1>1, <1>2, <1>3, <1>4, ChangeIsStoreStep DEF Next

(* Whatever messages, sweeps and operators are at work, the tenants change *)
(* by the store's own operations alone, and each start is from a file that *)
(* loadConfig and the store's constructor accept.                          *)
THEOREM SupervisionUsesStore == Spec => StoreSpec
<1>1. Init => StoreInit
  <2> SUFFICES ASSUME Init PROVE StoreInit
    OBVIOUS
  <2>1. PICK scenario \in Scenarios :
            /\ byId = scenario.tenants /\ file = scenario.tenants /\ torn = FALSE
            /\ routes = RoutesOf(scenario.tenants)
    BY DEF Init
  <2>2. /\ scenario.tenants \in [Tenants -> Tenant \cup {NoTenant}]
        /\ \A t \in Tenants : scenario.tenants[t].id \in {t, "none"}
        /\ Accepted(scenario.tenants) /\ Disjoint(scenario.tenants)
    BY ScenarioConstants
  <2> QED  BY <2>1, <2>2 DEF StoreInit
<1>2. StoreInv /\ [Next]_vars => [StoreNext]_store /\ StoreInv'
  BY NextIsStoreStep, StoreStep DEF StoreInv
<1> QED  BY <1>1, <1>2, StoreInitInv, PTL DEF Spec, StoreSpec

(* So that the same holds beside them: while messages, sweeps, operators   *)
(* and restarts go on, a tenant that is listed is where its numbers lead,  *)
(* and no number is saved for two.                                         *)
THEOREM SupervisedTenantsStayRouted == Spec => []StoreInv
BY SupervisionUsesStore, TenantsStayRouted, PTL

-------------------------------------------------------------------------------
(* One request.                                                            *)

LEMMA RequestFields ==
    ASSUME NEW s \in Request
    PROVE  /\ s.stage \in {"idle", "arrived", "sweeping", "model", "sending", "tool"}
           /\ s.kind \in {None, "inbound", "manual", "sweep"}
           /\ s.tenant \in Tenant \cup {NoTenant} /\ s.queue \subseteq Tenant
           /\ s.answer \subseteq Customers \X (1..MaxMessages) /\ s.nudge \subseteq Customers
           /\ s.at \in Customers \cup {None} /\ s.asked \in 0..MaxMessages
           /\ s.followups \in 0..ProactiveLimit /\ s.dry \in BOOLEAN /\ s.forced \in BOOLEAN
           /\ s.decision \in Decisions \cup {NoDecision} /\ s.action \in {None, "reply", "act"}
           /\ s.capability \in Capabilities
  BY DEF Request

LEMMA IdleIsWhole == Idle \in Request /\ Whole(Idle) /\ Authorised(Idle)
<1>1. NoCapability \in Capabilities
  BY DEF Capabilities
<1>2. 0 \in 0..MaxMessages /\ 0 \in 0..ProactiveLimit
  BY ScenarioConstants
<1>3. Idle \in Request
  BY <1>1, <1>2 DEF Idle, Request
<1>4. /\ Idle.stage = "idle" /\ Idle.kind = "none" /\ Idle.answer = {}
      /\ Idle.nudge = {} /\ Idle.asked = 0
  BY DEF Idle, None
<1> QED  BY <1>3, <1>4 DEF Whole, Authorised, ByModel

LEMMA SweepIsWhole ==
    ASSUME NEW dry \in BOOLEAN, NEW forced \in BOOLEAN, NEW tenants \in SUBSET Tenant
    PROVE  /\ Sweep(dry, forced, tenants) \in Request /\ Whole(Sweep(dry, forced, tenants))
           /\ Authorised(Sweep(dry, forced, tenants))
           /\ Sweep(dry, forced, tenants).stage = "sweeping"
           /\ Sweep(dry, forced, tenants).queue = tenants
           /\ Sweep(dry, forced, tenants).answer = {} /\ Sweep(dry, forced, tenants).asked = 0
<1> DEFINE new == Sweep(dry, forced, tenants)
<1>1. new \in Request
  BY IdleIsWhole, ZenonT(60) DEF Sweep, Request
<1>2. new.answer = Idle.answer /\ new.asked = Idle.asked /\ new.at = Idle.at
  BY IdleIsWhole DEF Sweep, Request
<1>3. new.stage = "sweeping" /\ new.kind = "sweep" /\ new.queue = tenants
  BY IdleIsWhole DEF Sweep, Request
<1>4. Idle.answer = {} /\ Idle.asked = 0
  BY DEF Idle
<1> HIDE DEF new
<1>5. Whole(new) /\ Authorised(new)
  BY <1>2, <1>3, <1>4 DEF Whole, Authorised, ByModel
<1> QED  BY <1>1, <1>2, <1>3, <1>4, <1>5 DEF new

(* What is left of a request that is done with a conversation.             *)
LEMMA SettledIsWhole ==
    ASSUME NEW s \in Request, s.tenant \in Tenant,
           s.kind = "inbound" => s.answer = {} /\ s.nudge = {}
    PROVE  /\ Settled(s) \in Request /\ Whole(Settled(s)) /\ Authorised(Settled(s))
           /\ Settled(s).stage \in {"model", "sweeping", "idle"}
           /\ Settled(s).queue \subseteq s.queue /\ Settled(s).asked = 0
           /\ Settled(s).answer \subseteq s.answer
           /\ Settled(s).answer # {} => Settled(s).tenant = s.tenant
<1>1. CASE s.answer # {} \/ (s.nudge # {} /\ s.followups < ProactiveLimit)
  <2> DEFINE new == [s EXCEPT !.stage = "model", !.at = None, !.asked = 0,
                       !.decision = NoDecision, !.action = None, !.capability = NoCapability]
  <2>1. Settled(s) = new
    BY <1>1 DEF Settled
  <2>2. NoCapability \in Capabilities /\ 0 \in 0..MaxMessages
    BY ScenarioConstants DEF Capabilities
  <2>3. new \in Request
    BY <2>2 DEF Request
  <2>4. /\ new.stage = "model" /\ new.at = None /\ new.asked = 0 /\ new.kind = s.kind
        /\ new.tenant = s.tenant /\ new.answer = s.answer /\ new.nudge = s.nudge
        /\ new.queue = s.queue
    BY DEF Request
  <2> HIDE DEF new
  <2>5. <<None, 0>> \notin s.answer
    BY RequestFields, ScenarioConstants
  <2>6. s.kind # "inbound"
    BY <1>1
  <2>7. Whole(new) /\ Authorised(new)
    BY <2>4, <2>5, <2>6 DEF Whole, Authorised, ByModel
  <2> QED  BY <2>1, <2>3, <2>4, <2>7
<1>2. CASE ~ (s.answer # {} \/ (s.nudge # {} /\ s.followups < ProactiveLimit)) /\ s.queue # {}
  <2>1. Settled(s) = Sweep(s.dry, s.forced, s.queue)
    BY <1>2 DEF Settled
  <2>2. s.dry \in BOOLEAN /\ s.forced \in BOOLEAN /\ s.queue \in SUBSET Tenant
    BY RequestFields
  <2> QED  BY <2>1, <2>2, SweepIsWhole
<1>3. CASE ~ (s.answer # {} \/ (s.nudge # {} /\ s.followups < ProactiveLimit)) /\ s.queue = {}
  <2>1. Settled(s) = Idle
    BY <1>3 DEF Settled
  <2>2. Idle.stage = "idle" /\ Idle.queue = {} /\ Idle.asked = 0 /\ Idle.answer = {}
    BY DEF Idle
  <2> QED  BY <2>1, <2>2, IdleIsWhole
<1> QED  BY <1>1, <1>2, <1>3

(* A request takes a message in hand, or a customer to follow up.          *)
LEMMA TakingFacts ==
    ASSUME NEW s \in Request, Whole(s), s.stage = "model", NEW x \in Subjects(s)
    PROVE  /\ Taking(s, x) \in Request
           /\ Taking(s, x).stage = "model" /\ Taking(s, x).kind = s.kind
           /\ Taking(s, x).tenant = s.tenant /\ s.tenant \in Tenant
           /\ Taking(s, x).queue = s.queue /\ Taking(s, x).dry = s.dry
           /\ Taking(s, x).at = x[1] /\ x[1] \in Customers
           /\ Taking(s, x).asked = x[2] /\ x[2] \in 0..MaxMessages
           /\ Taking(s, x).followups = s.followups
           /\ Taking(s, x).answer = s.answer \ {x} /\ x = <<x[1], x[2]>>
           /\ s.kind = "inbound" => Taking(s, x).answer = {} /\ Taking(s, x).nudge = {}
           /\ x[2] = 0 /\ s.kind = "sweep" => s.followups < ProactiveLimit
           /\ x[2] # 0 => x \in s.answer \/ (x[1] = s.at /\ x[2] = s.asked)
<1>1. /\ x[1] \in Customers /\ x[2] \in 0..MaxMessages /\ x = <<x[1], x[2]>>
      /\ x[2] = 0 /\ s.kind = "sweep" => s.followups < ProactiveLimit
      /\ x[2] # 0 => x \in s.answer \/ (x[1] = s.at /\ x[2] = s.asked)
  <2>1. CASE s.kind = "inbound"
    <3>1. x = <<s.at, s.asked>> /\ s.at \in Customers /\ s.asked \in 0..MaxMessages
      BY <2>1, RequestFields DEF Subjects, Whole
    <3> QED  BY <2>1, <3>1
  <2>2. CASE s.kind # "inbound" /\ x \in s.answer
    <3>1. x \in Customers \X (1..MaxMessages)
      BY <2>2, RequestFields
    <3> QED  BY <2>2, <3>1, ScenarioConstants
  <2>3. CASE s.kind # "inbound" /\ x \notin s.answer
    <3>1. s.followups < ProactiveLimit /\ \E c \in s.nudge : x = <<c, 0>>
      BY <2>3 DEF Subjects
    <3>2. 0 \in 0..MaxMessages
      BY ScenarioConstants
    <3> QED  BY <3>1, <3>2, RequestFields
  <2> QED  BY <2>1, <2>2, <2>3
<1>2. Taking(s, x) \in Request
  BY <1>1 DEF Taking, Request
<1>3. /\ Taking(s, x).stage = "model" /\ Taking(s, x).kind = s.kind
      /\ Taking(s, x).tenant = s.tenant
      /\ Taking(s, x).queue = s.queue /\ Taking(s, x).dry = s.dry
      /\ Taking(s, x).at = x[1] /\ Taking(s, x).asked = x[2]
      /\ Taking(s, x).followups = s.followups
      /\ Taking(s, x).answer = s.answer \ {x}
      /\ Taking(s, x).nudge \subseteq s.nudge
  BY DEF Taking, Request
<1>4. s.tenant \in Tenant /\ (s.kind = "inbound" => s.answer = {} /\ s.nudge = {})
  BY DEF Whole
<1> QED  BY <1>1, <1>2, <1>3, <1>4

(* A decision has an effect that is permitted, or none.                    *)
LEMMA DecidedIsWhole ==
    ASSUME NEW s \in Request, Whole(s), s.stage = "model", NEW x \in Subjects(s),
           NEW d \in Decisions, NEW new, new = Decided(Taking(s, x), d)
    PROVE  /\ new \in Request /\ Whole(new) /\ Authorised(new)
           /\ new.stage # "arrived" /\ new.queue \subseteq s.queue
           /\ new.asked # 0 => new.at = x[1] /\ new.asked = x[2] /\ new.tenant = s.tenant
           /\ new.answer \subseteq s.answer \ {x}
           /\ new.answer # {} => new.tenant = s.tenant
<1> DEFINE u == Taking(s, x)
           p == Contents[u.tenant.policy]
           v == EvaluatePermission(p, d, Channel)
           live == ~ u.dry /\ ~ u.tenant.shadow
           reply == live /\ v.action = "reply" /\ d.reply
           act == live /\ v.action = "act" /\ Runs(CapabilityOf(p, v.rule))
<1>1. u \in Request /\ u.tenant \in Tenant /\ u.tenant = s.tenant
      /\ (u.kind = "inbound" => u.answer = {} /\ u.nudge = {})
      /\ u.queue = s.queue /\ u.answer = s.answer \ {x}
  BY TakingFacts
<1>2. CASE ~ (reply \/ act)
  <2>1. new = Settled(u)
    BY <1>2 DEF Decided
  <2> HIDE DEF u
  <2> QED  BY <1>1, <2>1, SettledIsWhole
<1>3. CASE reply \/ act
  <2> DEFINE stage == IF reply THEN "sending" ELSE "tool"
             cap == CapabilityOf(p, v.rule)
  <2>1. new = [u EXCEPT !.stage = stage, !.decision = d, !.action = v.action,
                        !.capability = cap]
    BY <1>3 DEF Decided
  <2>2. u.tenant.policy \in Policies
    BY <1>1 DEF Tenant
  <2>3. v.action \in {"reply", "act"} /\ cap \in Capabilities
        /\ Permitted(p, d, v.action, cap)
    <3>1. v.action \in {"reply", "act"} /\ (v.action = "act" => Runs(cap))
      BY <1>3
    <3> QED  BY <2>2, <3>1, VerdictRules, EngineIsCautious
  <2>4. live /\ stage \in {"sending", "tool"}
    BY <1>3
  <2>5. /\ u.at = x[1] /\ x[1] \in Customers /\ u.asked = x[2] /\ x = <<x[1], x[2]>>
        /\ u.kind = s.kind /\ u.followups = s.followups
        /\ x[2] = 0 /\ s.kind = "sweep" => s.followups < ProactiveLimit
    BY TakingFacts
  <2> HIDE DEF u, v, stage, cap
  <2>6. new \in Request
    <3>1. /\ stage \in {"idle", "arrived", "sweeping", "model", "sending", "tool"}
          /\ d \in Decisions \cup {NoDecision} /\ v.action \in {None, "reply", "act"}
      BY <2>3, <2>4
    <3>2. SUFFICES ASSUME NEW a, a = v.action, NEW st, st = stage, NEW k, k = cap
                   PROVE  new \in Request
      OBVIOUS
    <3> QED  BY <1>1, <2>1, <2>3, <3>1, <3>2, ZenonT(60) DEF Request
  <2>7. /\ new.stage = stage /\ new.decision = d /\ new.action = v.action
        /\ new.capability = cap /\ new.kind = u.kind /\ new.tenant = u.tenant
        /\ new.queue = u.queue /\ new.answer = u.answer /\ new.nudge = u.nudge
        /\ new.at = u.at /\ new.asked = u.asked /\ new.followups = u.followups
        /\ new.dry = u.dry
    BY <1>1, <2>1 DEF Request
  <2>8. Whole(new)
    BY <1>1, <2>4, <2>5, <2>7 DEF Whole
  <2>9. Authorised(new)
    BY <2>3, <2>4, <2>7 DEF Authorised, ByModel
  <2> QED  BY <1>1, <2>4, <2>5, <2>6, <2>7, <2>8, <2>9
<1> QED  BY <1>2, <1>3
-------------------------------------------------------------------------------
(* Steps of the requests.                                                  *)

InboundHasNumber ==
    \A at \in Tenants \X Customers : threads[at].last = "inbound" => threads[at].seq > 0
RequestInv ==
    /\ req \in [Requests -> Request] /\ threads \in [Tenants \X Customers -> Thread]
    /\ InboundHasNumber /\ RequestsAreWhole /\ EffectsAreAuthorised

(* How one request goes on: it takes up nothing that it did not have.      *)
Follows(s, new) ==
    /\ new \in Request /\ Whole(new) /\ Authorised(new)
    /\ new.stage # "arrived" /\ new.queue \subseteq s.queue
    /\ \A t \in Tenants, c \in Customers, seq \in 1..MaxMessages :
          Holds(new, t, c, seq) => Holds(s, t, c, seq)

LEMMA IdleHoldsNothing ==
    /\ Idle.stage = "idle" /\ Idle.queue = {} /\ Idle.answer = {}
    /\ \A t \in Tenants, c \in Customers, seq \in 1..MaxMessages : ~ Holds(Idle, t, c, seq)
<1>1. Idle.tenant = NoTenant /\ Idle.stage = "idle" /\ Idle.queue = {} /\ Idle.answer = {}
  BY DEF Idle
<1> QED  BY <1>1, TenantIds DEF Holds, NoTenant

LEMMA NothingTaken ==
    ASSUME NEW s, NEW new \in Request, new.asked = 0, new.answer = {}
    PROVE  \A t \in Tenants, c \in Customers, seq \in 1..MaxMessages : ~ Holds(new, t, c, seq)
  BY ScenarioConstants DEF Holds

LEMMA IdleFollows == ASSUME NEW s PROVE Follows(s, Idle)
  BY IdleIsWhole, IdleHoldsNothing DEF Follows

(* A request that settles keeps only the messages it has yet to answer.    *)
LEMMA SettledFollows ==
    ASSUME NEW s \in Request, s.tenant \in Tenant,
           s.kind = "inbound" => s.answer = {} /\ s.nudge = {}
    PROVE  /\ Follows(s, Settled(s))
           /\ \A t \in Tenants, c \in Customers, seq \in 1..MaxMessages :
                 Holds(Settled(s), t, c, seq) => s.tenant.id = t /\ <<c, seq>> \in s.answer
<1> DEFINE new == Settled(s)
<1>1. /\ new \in Request /\ Whole(new) /\ Authorised(new)
      /\ new.stage \in {"model", "sweeping", "idle"}
      /\ new.queue \subseteq s.queue /\ new.asked = 0
      /\ new.answer \subseteq s.answer
      /\ new.answer # {} => new.tenant = s.tenant
  BY SettledIsWhole
<1> HIDE DEF new
<1>2. ASSUME NEW t \in Tenants, NEW c \in Customers, NEW seq \in 1..MaxMessages,
             Holds(new, t, c, seq)
      PROVE  s.tenant.id = t /\ <<c, seq>> \in s.answer
  <2>1. new.asked # seq
    BY <1>1, ScenarioConstants
  <2> QED  BY <1>1, <1>2, <2>1 DEF Holds
<1>3. Follows(s, new)
  BY <1>1, <1>2 DEF Follows, Holds
<1> QED  BY <1>2, <1>3 DEF new

LEMMA TakingHolds ==
    ASSUME NEW s \in Request, Whole(s), s.stage = "model", NEW x \in Subjects(s),
           NEW t \in Tenants, NEW c \in Customers, NEW seq \in 1..MaxMessages,
           s.tenant.id = t, x = <<c, seq>> \/ <<c, seq>> \in s.answer
    PROVE  Holds(s, t, c, seq)
<1>1. x[2] # 0 => x \in s.answer \/ (x[1] = s.at /\ x[2] = s.asked)
  BY TakingFacts
<1>2. seq # 0
  BY ScenarioConstants
<1> QED  BY <1>1, <1>2 DEF Holds

LEMMA FailureFollows ==
    ASSUME NEW s \in Request, Whole(s), s.stage = "model", NEW x \in Subjects(s)
    PROVE  Follows(s, Settled(Taking(s, x)))
<1> DEFINE u == Taking(s, x)
           new == Settled(u)
<1>1. /\ u \in Request /\ u.tenant \in Tenant /\ u.tenant = s.tenant
      /\ u.kind = "inbound" => u.answer = {} /\ u.nudge = {}
      /\ u.queue = s.queue /\ u.answer = s.answer \ {x}
  BY TakingFacts
<1> HIDE DEF u
<1>2. /\ Follows(u, new)
      /\ \A t \in Tenants, c \in Customers, seq \in 1..MaxMessages :
            Holds(new, t, c, seq) => u.tenant.id = t /\ <<c, seq>> \in u.answer
  BY <1>1, SettledFollows
<1> HIDE DEF new
<1>3. \A t \in Tenants, c \in Customers, seq \in 1..MaxMessages :
          Holds(new, t, c, seq) => Holds(s, t, c, seq)
  BY <1>1, <1>2 DEF Holds
<1> QED  BY <1>1, <1>2, <1>3 DEF Follows, new, u

LEMMA DecisionFollows ==
    ASSUME NEW s \in Request, Whole(s), s.stage = "model", NEW x \in Subjects(s),
           NEW d \in Decisions
    PROVE  Follows(s, Decided(Taking(s, x), d))
<1>1. SUFFICES ASSUME NEW new, new = Decided(Taking(s, x), d) PROVE Follows(s, new)
  OBVIOUS
<1>2. /\ new \in Request /\ Whole(new) /\ Authorised(new)
      /\ new.stage # "arrived" /\ new.queue \subseteq s.queue
      /\ new.asked # 0 => new.at = x[1] /\ new.asked = x[2] /\ new.tenant = s.tenant
      /\ new.answer \subseteq s.answer \ {x}
      /\ new.answer # {} => new.tenant = s.tenant
  BY <1>1, DecidedIsWhole
<1>3. x = <<x[1], x[2]>>
  BY TakingFacts
<1>4. ASSUME NEW t \in Tenants, NEW c \in Customers, NEW seq \in 1..MaxMessages,
             Holds(new, t, c, seq)
      PROVE  Holds(s, t, c, seq)
  <2>1. seq # 0
    BY ScenarioConstants
  <2>2. CASE <<c, seq>> \in new.answer
    BY <1>2, <1>4, <2>2 DEF Holds
  <2>3. CASE new.at = c /\ new.asked = seq
    <3>1. x[1] = c /\ x[2] = seq /\ s.tenant.id = t
      BY <1>2, <1>4, <2>1, <2>3 DEF Holds
    <3> QED  BY <1>3, <3>1, TakingHolds
  <2> QED  BY <1>4, <2>2, <2>3 DEF Holds
<1> QED  BY <1>2, <1>4 DEF Follows

(* A request that has sent or acted is through with the message it was at. *)
LEMMA EndFollows ==
    ASSUME NEW s \in Request, Whole(s), s.stage \in {"sending", "tool"},
           NEW count \in 0..ProactiveLimit
    PROVE  /\ Follows(s, Settled([s EXCEPT !.followups = count]))
           /\ \A t \in Tenants : s.asked > 0 =>
                 ~ Holds(Settled([s EXCEPT !.followups = count]), t, s.at, s.asked)
<1> DEFINE u == [s EXCEPT !.followups = count]
           new == Settled(u)
<1>1. /\ u \in Request /\ u.tenant = s.tenant /\ u.kind = s.kind /\ u.answer = s.answer
      /\ u.nudge = s.nudge /\ u.queue = s.queue
  BY DEF Request
<1>2. /\ s.tenant \in Tenant /\ (s.kind = "inbound" => s.answer = {} /\ s.nudge = {})
      /\ <<s.at, s.asked>> \notin s.answer /\ s.at \in Customers /\ s.asked \in 0..MaxMessages
  BY RequestFields DEF Whole
<1> HIDE DEF u
<1>3. /\ Follows(u, new)
      /\ \A t \in Tenants, c \in Customers, seq \in 1..MaxMessages :
            Holds(new, t, c, seq) => u.tenant.id = t /\ <<c, seq>> \in u.answer
  BY <1>1, <1>2, SettledFollows
<1> HIDE DEF new
<1>4. Follows(s, new)
  BY <1>1, <1>3 DEF Follows, Holds
<1>5. ASSUME NEW t \in Tenants, s.asked > 0 PROVE ~ Holds(new, t, s.at, s.asked)
  <2>1. s.asked \in 1..MaxMessages
    BY <1>2, <1>5, ScenarioConstants
  <2> QED  BY <1>1, <1>2, <1>3, <2>1
<1> QED  BY <1>4, <1>5 DEF new, u
LEMMA OneRequestChanges ==
    ASSUME RequestInv, NEW r \in Requests, NEW new \in Request, Whole(new), Authorised(new),
           req' = [req EXCEPT ![r] = new]
    PROVE  /\ req' \in [Requests -> Request] /\ RequestsAreWhole' /\ EffectsAreAuthorised'
           /\ req'[r] = new /\ \A q \in Requests : q # r => req'[q] = req[q]
<1>1. /\ req' \in [Requests -> Request]
      /\ req'[r] = new /\ \A q \in Requests : q # r => req'[q] = req[q]
  BY DEF RequestInv
<1>2. \A q \in Requests : Whole(req'[q]) /\ Authorised(req'[q])
  BY <1>1 DEF RequestInv, RequestsAreWhole, EffectsAreAuthorised
<1> QED  BY <1>1, <1>2 DEF RequestsAreWhole, EffectsAreAuthorised

(* The steps by which a request goes on with what it has.                  *)
Continues(r) ==
    \/ StartDecision(r) \/ StartManualSend(r)
    \/ \E x \in Subjects(req[r]) : ModelFails(r, x)
    \/ \E x \in Subjects(req[r]), d \in Decisions : Decide(r, x, d)
    \/ \E outcome \in {"recorded", "failed", "unrecorded"} : SendEnds(r, outcome)
    \/ ToolEnds(r)
    \/ \E o \in req[r].queue : SweepAborts(r, o)

LEMMA StartsFollow ==
    ASSUME RequestInv, NEW r \in Requests, StartDecision(r) \/ StartManualSend(r)
    PROVE  \E new : Follows(req[r], new) /\ req' = [req EXCEPT ![r] = new]
<1> DEFINE s == req[r]
<1>1. s \in Request /\ Whole(s)
  BY DEF RequestInv, RequestsAreWhole
<1>2. \/ req' = [req EXCEPT ![r] = Idle]
      \/ /\ s.stage = "arrived" /\ s.kind \in {"inbound", "manual"}
         /\ \/ s.kind = "inbound" /\ req' = [req EXCEPT ![r] = [s EXCEPT !.stage = "model"]]
            \/ s.kind = "manual" /\ req' = [req EXCEPT ![r] = [s EXCEPT !.stage = "sending"]]
  BY DEF StartDecision, StartManualSend, Become
<1> HIDE DEF s
<1>3. CASE req' = [req EXCEPT ![r] = Idle]
  BY <1>3, IdleFollows DEF s
<1>4. ASSUME s.stage = "arrived", s.kind = "inbound",
             NEW new, new = [s EXCEPT !.stage = "model"]
      PROVE  Follows(s, new)
  <2>1. /\ new \in Request /\ new.stage = "model" /\ new.kind = s.kind /\ new.tenant = s.tenant
        /\ new.queue = s.queue /\ new.answer = s.answer /\ new.nudge = s.nudge
        /\ new.at = s.at /\ new.asked = s.asked
    BY <1>1, <1>4 DEF Request
  <2>2. Whole(new) /\ Authorised(new)
    BY <1>1, <1>4, <2>1 DEF Whole, Authorised, ByModel
  <2> QED  BY <1>4, <2>1, <2>2 DEF Follows, Holds
<1>5. ASSUME s.stage = "arrived", s.kind = "manual",
             NEW new, new = [s EXCEPT !.stage = "sending"]
      PROVE  Follows(s, new)
  <2>1. /\ new \in Request /\ new.stage = "sending" /\ new.kind = s.kind
        /\ new.tenant = s.tenant
        /\ new.queue = s.queue /\ new.answer = s.answer /\ new.nudge = s.nudge
        /\ new.at = s.at /\ new.asked = s.asked
    BY <1>1, <1>5 DEF Request
  <2>2. Whole(new) /\ Authorised(new)
    BY <1>1, <1>5, <2>1 DEF Whole, Authorised, ByModel
  <2> QED  BY <1>5, <2>1, <2>2 DEF Follows, Holds
<1> QED  BY <1>2, <1>3, <1>4, <1>5 DEF s

(* What SendEnds and ToolEnds settle is the request, one follow-up counted *)
(* if it was one; the limit had not been reached.                          *)
LEMMA CountIsBounded ==
    ASSUME NEW s \in Request, Whole(s), s.stage = "sending", NEW outcome
    PROVE  (IF s.kind = "sweep" /\ s.asked = 0 /\ outcome = "recorded"
            THEN s.followups + 1 ELSE s.followups) \in 0..ProactiveLimit
  BY RequestFields, ScenarioConstants DEF Whole

LEMMA ContinuesFollow ==
    ASSUME RequestInv, NEW r \in Requests, Continues(r)
    PROVE  \E new : Follows(req[r], new) /\ req' = [req EXCEPT ![r] = new]
<1> DEFINE s == req[r]
<1>1. s \in Request /\ Whole(s)
  BY DEF RequestInv, RequestsAreWhole
<1>2. ASSUME NEW x \in Subjects(s), ModelFails(r, x)
      PROVE  s.stage = "model" /\ req' = [req EXCEPT ![r] = Settled(Taking(s, x))]
  BY <1>2 DEF ModelFails, Become
<1>3. ASSUME NEW x \in Subjects(s), NEW d \in Decisions, Decide(r, x, d)
      PROVE  s.stage = "model" /\ req' = [req EXCEPT ![r] = Decided(Taking(s, x), d)]
  BY <1>3 DEF Decide, Become
<1>4. ASSUME NEW outcome, SendEnds(r, outcome)
      PROVE  /\ s.stage = "sending"
             /\ req' = [req EXCEPT ![r] = Settled([s EXCEPT !.followups =
                   IF s.kind = "sweep" /\ s.asked = 0 /\ outcome = "recorded"
                   THEN s.followups + 1 ELSE s.followups])]
  BY <1>4 DEF SendEnds, Become
<1>5. ASSUME ToolEnds(r)
      PROVE  s.stage = "tool" /\ req' = [req EXCEPT ![r] = Settled(s)]
  BY <1>5 DEF ToolEnds, Become
<1>6. s = [s EXCEPT !.followups = s.followups] /\ s.followups \in 0..ProactiveLimit
  BY <1>1 DEF Request
<1> HIDE DEF s
<1>7. CASE \E outcome \in {"recorded", "failed", "unrecorded"} : SendEnds(r, outcome)
  BY <1>1, <1>4, <1>7, CountIsBounded, EndFollows DEF s
<1>8. CASE ToolEnds(r)
  BY <1>1, <1>5, <1>6, <1>8, EndFollows DEF s
<1>9. CASE \E x \in Subjects(s) : ModelFails(r, x)
  BY <1>1, <1>2, <1>9, FailureFollows DEF s
<1>10. CASE \E x \in Subjects(s), d \in Decisions : Decide(r, x, d)
  BY <1>1, <1>3, <1>10, DecisionFollows DEF s
<1>11. CASE \E o \in s.queue : SweepAborts(r, o)
  BY <1>11, IdleFollows DEF SweepAborts, Become
<1> QED  BY <1>7, <1>8, <1>9, <1>10, <1>11, StartsFollow DEF Continues, s
LEMMA ArrivedIsWhole ==
    ASSUME NEW kind \in {"inbound", "manual"}, NEW o \in Tenant, NEW c \in Customers,
           NEW asked \in 0..MaxMessages
    PROVE  /\ Arrived(kind, o, c, asked) \in Request
           /\ Whole(Arrived(kind, o, c, asked)) /\ Authorised(Arrived(kind, o, c, asked))
           /\ Arrived(kind, o, c, asked).stage = "arrived"
           /\ Arrived(kind, o, c, asked).tenant = o
           /\ Arrived(kind, o, c, asked).queue = {} /\ Arrived(kind, o, c, asked).answer = {}
           /\ Arrived(kind, o, c, asked).at = c /\ Arrived(kind, o, c, asked).asked = asked
<1> DEFINE new == Arrived(kind, o, c, asked)
<1>1. Idle \in Request /\ Idle.queue = {} /\ Idle.answer = {} /\ Idle.nudge = {}
  BY IdleIsWhole DEF Idle
<1>2. /\ new \in Request /\ new.stage = "arrived" /\ new.tenant = o /\ new.queue = {}
      /\ new.answer = {} /\ new.nudge = {} /\ new.at = c /\ new.asked = asked
  BY <1>1 DEF Request, Arrived
<1> HIDE DEF new
<1>3. Whole(new) /\ Authorised(new)
  BY <1>2 DEF Whole, Authorised, ByModel
<1> QED  BY <1>2, <1>3 DEF new

(* Where a sweep is once it has read the conversations of a tenant.        *)
Unanswered(r, o) ==
    {c \in Customers : /\ threads[<<o.id, c>>].last = "inbound"
                       /\ req[r].forced \/ ~ threads[<<o.id, c>>].human}

LEMMA ModerateFacts ==
    ASSUME RequestInv, NEW r \in Requests, NEW o \in req[r].queue, ModerateTenant(r, o)
    PROVE  \E new :
              /\ req' = [req EXCEPT ![r] = new] /\ new \in Request
              /\ Whole(new) /\ Authorised(new)
              /\ new.stage # "arrived" /\ new.queue \subseteq req[r].queue
              /\ \A t \in Tenants, c \in Customers, seq \in 1..MaxMessages :
                    Holds(new, t, c, seq) =>
                       t = o.id /\ c \in Unanswered(r, o) /\ seq = threads[<<t, c>>].seq
<1> DEFINE s == req[r]
           open == {c \in Customers : /\ threads[<<o.id, c>>].last # "none"
                                      /\ req[r].forced \/ ~ threads[<<o.id, c>>].human}
           unanswered == {c \in open : threads[<<o.id, c>>].last = "inbound"}
           held == {<<c, threads[<<o.id, c>>].seq>> : c \in unanswered}
           u == [s EXCEPT !.tenant = o, !.queue = @ \ {o}, !.answer = held,
                          !.nudge = open \ unanswered]
           new == Settled(u)
<1>1. /\ s \in Request /\ Whole(s) /\ s.stage = "sweeping" /\ o \in s.queue
      /\ req' = [req EXCEPT ![r] = new]
  BY DEF RequestInv, RequestsAreWhole, ModerateTenant, Become
<1>2. o \in Tenant /\ o.id \in Tenants
  BY <1>1, RequestFields DEF Tenant
<1>3. unanswered = Unanswered(r, o) /\ unanswered \subseteq Customers
  BY DEF Unanswered
<1>4. ASSUME NEW c \in unanswered
      PROVE  threads[<<o.id, c>>].seq \in 1..MaxMessages
  <2>1. threads[<<o.id, c>>] \in Thread /\ threads[<<o.id, c>>].seq > 0
    BY <1>2, <1>4 DEF RequestInv, InboundHasNumber
  <2> QED  BY <2>1, ScenarioConstants DEF Thread
<1>5. held \subseteq Customers \X (1..MaxMessages)
  <2> HIDE DEF unanswered
  <2>1. ASSUME NEW c \in unanswered
        PROVE  <<c, threads[<<o.id, c>>].seq>> \in Customers \X (1..MaxMessages)
    BY <1>3, <1>4
  <2> QED  BY <2>1
<1>6. open \ unanswered \subseteq Customers
  OBVIOUS
<1>7. s.kind = "sweep"
  BY <1>1 DEF Whole
<1> HIDE DEF held, open
<1>8. /\ u \in Request /\ u.tenant = o /\ u.kind = "sweep" /\ u.answer = held
      /\ u.queue \subseteq s.queue
  BY <1>1, <1>2, <1>5, <1>6, <1>7 DEF Request
<1> HIDE DEF u
<1>9. /\ new \in Request /\ Whole(new) /\ Authorised(new)
      /\ new.stage # "arrived" /\ new.queue \subseteq s.queue
      /\ \A t \in Tenants, c \in Customers, seq \in 1..MaxMessages :
            Holds(new, t, c, seq) => o.id = t /\ <<c, seq>> \in held
  BY <1>2, <1>8, SettledFollows DEF Follows
<1> HIDE DEF new
<1>10. ASSUME NEW t \in Tenants, NEW c \in Customers, NEW seq \in 1..MaxMessages,
              Holds(new, t, c, seq)
       PROVE  t = o.id /\ c \in Unanswered(r, o) /\ seq = threads[<<t, c>>].seq
  <2> HIDE DEF unanswered
  <2>1. t = o.id /\ <<c, seq>> \in held
    BY <1>9, <1>10
  <2>2. PICK d \in unanswered : <<c, seq>> = <<d, threads[<<o.id, d>>].seq>>
    BY <2>1 DEF held
  <2>3. c = d /\ seq = threads[<<o.id, d>>].seq
    BY <2>2
  <2> QED  BY <1>3, <2>1, <2>3
<1> HIDE DEF unanswered
<1> QED  BY <1>1, <1>9, <1>10
(* What the steps do to a conversation.                                    *)
LEMMA SentKeepsThread ==
    ASSUME NEW thread \in Thread, NEW toLatest \in BOOLEAN, NEW outcome
    PROVE  /\ Sent(thread, toLatest, outcome) \in Thread
           /\ Sent(thread, toLatest, outcome).seq = thread.seq
           /\ Sent(thread, toLatest, outcome).last =
                 IF outcome = "recorded" THEN "outbound" ELSE thread.last
           /\ Sent(thread, toLatest, outcome).answers =
                 IF toLatest /\ outcome # "failed" THEN thread.answers + 1 ELSE thread.answers
           /\ ~ Sent(thread, toLatest, outcome).contested =>
                 ~ thread.contested /\ ~ (toLatest /\ outcome = "unrecorded")
<1>1. /\ thread.last \in {"none", "inbound", "outbound"} /\ thread.seq \in 0..MaxMessages
      /\ thread.human \in BOOLEAN /\ thread.answers \in Nat /\ thread.contested \in BOOLEAN
  BY DEF Thread
<1> DEFINE last == IF outcome = "recorded" THEN "outbound" ELSE thread.last
           answers == IF toLatest /\ outcome # "failed" THEN thread.answers + 1
                      ELSE thread.answers
           contested == thread.contested \/ (toLatest /\ outcome = "unrecorded")
           new == [thread EXCEPT !.last = last, !.answers = answers, !.contested = contested]
<1>2. Sent(thread, toLatest, outcome) = new
  BY DEF Sent
<1>3. last \in {"none", "inbound", "outbound"} /\ answers \in Nat /\ contested \in BOOLEAN
  BY <1>1
<1>4. ~ contested => ~ thread.contested /\ ~ (toLatest /\ outcome = "unrecorded")
  OBVIOUS
<1> HIDE DEF last, answers, contested
<1>5. /\ new \in Thread /\ new.seq = thread.seq /\ new.last = last
      /\ new.answers = answers /\ new.contested = contested
  BY <1>3 DEF Thread
<1> HIDE DEF new
<1> QED  BY <1>2, <1>4, <1>5 DEF last, answers

LEMMA ReceivedKeepsThread ==
    ASSUME NEW thread \in Thread, thread.seq < MaxMessages
    PROVE  /\ Received(thread) \in Thread /\ Received(thread).seq = thread.seq + 1
           /\ Received(thread).answers = 0 /\ ~ Received(thread).contested
<1>1. thread.seq \in 0..MaxMessages /\ thread.seq + 1 \in 0..MaxMessages
  BY ScenarioConstants DEF Thread
<1> QED  BY <1>1 DEF Received, Thread

LEMMA HandedOverKeepsThread ==
    ASSUME NEW thread \in Thread
    PROVE  /\ HandedOver(thread) \in Thread /\ HandedOver(thread).seq = thread.seq
           /\ HandedOver(thread).last = thread.last
           /\ HandedOver(thread).answers = thread.answers
           /\ HandedOver(thread).contested = thread.contested
<1>1. (~ thread.human) \in BOOLEAN
  OBVIOUS
<1> QED  BY <1>1 DEF HandedOver, Thread

(* Where SendEnds is.                                                      *)
LEMMA SendingPlace ==
    ASSUME RequestInv, NEW r \in Requests, req[r].stage = "sending"
    PROVE  Conversation(r) \in Tenants \X Customers
<1>1. req[r] \in Request /\ Whole(req[r])
  BY DEF RequestInv, RequestsAreWhole
<1>2. req[r].tenant \in Tenant /\ req[r].at \in Customers
  BY <1>1 DEF Whole
<1> QED  BY <1>2 DEF Conversation, Tenant

(* A conversation is marked as contested, if at all.                       *)
MarksOnly ==
    /\ threads' = [at \in Tenants \X Customers |-> threads'[at]]
    /\ \A at \in Tenants \X Customers :
          \/ threads'[at] = threads[at]
          \/ threads'[at] = [threads[at] EXCEPT !.contested = TRUE]

LEMMA SweepsMarkOnly ==
    ASSUME RequestInv, NEW r \in Requests, NEW o \in req[r].queue, ModerateTenant(r, o)
    PROVE  /\ MarksOnly
           /\ \A c \in Unanswered(r, o) :
                 Holders(o.id, c, threads[<<o.id, c>>].seq) # {} =>
                    threads'[<<o.id, c>>].contested
<1> DEFINE open == {c \in Customers : /\ threads[<<o.id, c>>].last # "none"
                                      /\ req[r].forced \/ ~ threads[<<o.id, c>>].human}
           unanswered == {c \in open : threads[<<o.id, c>>].last = "inbound"}
           marked(at) == /\ at[1] = o.id /\ at[2] \in unanswered
                         /\ Holders(o.id, at[2], threads[at].seq) # {}
<1>1. threads' = [at \in DOMAIN threads |->
          IF marked(at) THEN [threads[at] EXCEPT !.contested = TRUE] ELSE threads[at]]
  BY DEF ModerateTenant
<1>2. unanswered = Unanswered(r, o) /\ unanswered \subseteq Customers
  BY DEF Unanswered
<1>3. DOMAIN threads = Tenants \X Customers /\ o.id \in Tenants
  <2>1. req[r] \in Request
    BY DEF RequestInv
  <2> QED  BY <2>1, RequestFields DEF RequestInv, Tenant
<1> HIDE DEF marked
<1>4. MarksOnly
  BY <1>1, <1>3 DEF MarksOnly
<1>5. ASSUME NEW c \in Unanswered(r, o), Holders(o.id, c, threads[<<o.id, c>>].seq) # {}
      PROVE  threads'[<<o.id, c>>].contested
  <2>1. <<o.id, c>> \in Tenants \X Customers /\ marked(<<o.id, c>>)
    BY <1>2, <1>3, <1>5 DEF marked
  <2>2. threads[<<o.id, c>>] \in Thread
    BY <2>1 DEF RequestInv
  <2> QED  BY <1>1, <1>3, <2>1, <2>2 DEF Thread
<1> QED  BY <1>4, <1>5

LEMMA RestartsMarkOnly ==
    ASSUME RequestInv, Restart
    PROVE  MarksOnly
<1> DEFINE cut(at) == \E r \in Requests : /\ req[r].stage = "sending" /\ Conversation(r) = at
                                          /\ req[r].asked = threads[at].seq
<1>1. threads' = [at \in DOMAIN threads |-> [threads[at] EXCEPT !.contested = @ \/ cut(at)]]
  BY DEF Restart
<1> HIDE DEF cut
<1>2. ASSUME NEW at \in Tenants \X Customers
      PROVE  \/ threads'[at] = threads[at]
             \/ threads'[at] = [threads[at] EXCEPT !.contested = TRUE]
  <2>1. /\ threads'[at] = [threads[at] EXCEPT !.contested = @ \/ cut(at)]
        /\ threads[at] \in Thread
    BY <1>1 DEF RequestInv
  <2>2. CASE threads[at].contested \/ cut(at)
    BY <2>1, <2>2
  <2>3. CASE ~ (threads[at].contested \/ cut(at))
    <3>1. threads[at].contested = FALSE
      BY <2>1, <2>3 DEF Thread
    <3>2. (threads[at].contested \/ cut(at)) = threads[at].contested
      BY <2>3, <3>1
    <3>3. [threads[at] EXCEPT !.contested = threads[at].contested] = threads[at]
      BY <2>1 DEF Thread
    <3> QED  BY <2>1, <3>2, <3>3
  <2> QED  BY <2>2, <2>3
<1> QED  BY <1>1, <1>2 DEF MarksOnly, RequestInv

(* Conversations change in five ways.                                      *)
LEMMA ThreadsChange ==
    ASSUME StoreTypeOK, RequestInv, Next
    PROVE  /\ threads' \in [Tenants \X Customers -> Thread]
           /\ \A at \in Tenants \X Customers : threads'[at].seq >= threads[at].seq
           /\ InboundHasNumber'
<1> DEFINE Kept == /\ threads' \in [Tenants \X Customers -> Thread]
                   /\ \A at \in Tenants \X Customers : threads'[at].seq >= threads[at].seq
                   /\ InboundHasNumber'
<1>1. ASSUME NEW x \in Tenants \X Customers, NEW new \in Thread,
             threads' = [threads EXCEPT ![x] = new], new.seq >= threads[x].seq,
             new.last = "inbound" => new.seq > 0
      PROVE  Kept
  <2>1. threads' \in [Tenants \X Customers -> Thread] /\ threads'[x] = new
        /\ \A at \in Tenants \X Customers : at # x => threads'[at] = threads[at]
    BY <1>1 DEF RequestInv
  <2>2. \A at \in Tenants \X Customers : threads[at].seq \in Nat
    BY ScenarioConstants DEF RequestInv, Thread
  <2> QED  BY <1>1, <2>1, <2>2 DEF RequestInv, InboundHasNumber
<1>2. ASSUME NEW at \in Tenants \X Customers
      PROVE  /\ threads[at] \in Thread /\ threads[at].seq \in 0..MaxMessages
             /\ threads[at].seq \in Nat /\ threads[at].answers \in Nat
             /\ threads[at].human \in BOOLEAN /\ threads[at].contested \in BOOLEAN
             /\ threads[at].last = "inbound" => threads[at].seq > 0
  BY ScenarioConstants DEF RequestInv, Thread, InboundHasNumber
<1>3. UNCHANGED threads => Kept
  BY <1>2 DEF RequestInv, InboundHasNumber
<1>9. ASSUME MarksOnly PROVE Kept
  <2>1. ASSUME NEW at \in Tenants \X Customers
        PROVE  /\ threads'[at] \in Thread /\ threads'[at].seq = threads[at].seq
               /\ threads'[at].last = threads[at].last
    <3>1. threads'[at] = threads[at] \/ threads'[at] = [threads[at] EXCEPT !.contested = TRUE]
      BY <1>9 DEF MarksOnly
    <3> QED  BY <1>2, <3>1 DEF Thread
  <2>2. threads' = [at \in Tenants \X Customers |-> threads'[at]]
    BY <1>9 DEF MarksOnly
  <2> QED  BY <1>2, <2>1, <2>2 DEF InboundHasNumber
<1> HIDE DEF Kept
<1>4. ASSUME NEW r \in Requests, NEW n \in Numbers, NEW c \in Customers,
             MessageArrives(r, n, c)
      PROVE  Kept
  <2> DEFINE at == <<routes[n].id, c>>
             new == Received(threads[at])
  <2>1. routes[n] \in Tenant /\ at \in Tenants \X Customers
    BY <1>4 DEF MessageArrives, StoreTypeOK, Tenant
  <2>2. threads[at].seq < MaxMessages /\ threads' = [threads EXCEPT ![at] = new]
    BY <1>4 DEF MessageArrives
  <2> HIDE DEF at
  <2>3. new \in Thread /\ new.seq = threads[at].seq + 1
    BY <1>2, <2>1, <2>2, ReceivedKeepsThread
  <2> HIDE DEF new
  <2>4. new.seq >= threads[at].seq /\ (new.last = "inbound" => new.seq > 0)
    BY <1>2, <2>1, <2>3
  <2> QED  BY <1>1, <2>1, <2>2, <2>3, <2>4, Zenon
<1>5. ASSUME NEW r \in Requests, NEW outcome, SendEnds(r, outcome)
      PROVE  Kept
  <2> DEFINE at == Conversation(r)
             toLatest == req[r].asked > 0 /\ req[r].asked = threads[at].seq
             new == Sent(threads[at], toLatest, outcome)
  <2>1. req[r].stage = "sending" /\ threads' = [threads EXCEPT ![at] = new]
    BY <1>5 DEF SendEnds
  <2>2. at \in Tenants \X Customers
    BY <2>1, SendingPlace
  <2>3. toLatest \in BOOLEAN
    OBVIOUS
  <2> HIDE DEF at, toLatest
  <2>4. new \in Thread /\ new.seq = threads[at].seq
        /\ (new.last = "inbound" => threads[at].last = "inbound")
    BY <1>2, <2>2, <2>3, SentKeepsThread
  <2> HIDE DEF new
  <2>5. new.seq >= threads[at].seq /\ (new.last = "inbound" => new.seq > 0)
    BY <1>2, <2>2, <2>4
  <2> QED  BY <1>1, <2>1, <2>2, <2>4, <2>5, Zenon
<1>6. ASSUME NEW t \in Tenants, NEW c \in Customers, SetControl(t, c)
      PROVE  Kept
  <2> DEFINE new == HandedOver(threads[<<t, c>>])
  <2>1. threads' = [threads EXCEPT ![<<t, c>>] = new]
    BY <1>6 DEF SetControl
  <2>2. new \in Thread /\ new.seq = threads[<<t, c>>].seq /\ new.last = threads[<<t, c>>].last
    BY <1>2, HandedOverKeepsThread
  <2> HIDE DEF new
  <2>3. <<t, c>> \in Tenants \X Customers
    OBVIOUS
  <2>4. new.seq >= threads[<<t, c>>].seq /\ (new.last = "inbound" => new.seq > 0)
    BY <1>2, <2>2, <2>3
  <2> QED  BY <1>1, <2>1, <2>2, <2>3, <2>4, Zenon
<1>8. ASSUME NEW r \in Requests, NEW o \in req[r].queue, ModerateTenant(r, o)
      PROVE  Kept
  BY <1>8, <1>9, SweepsMarkOnly
<1>7. ASSUME Restart PROVE Kept
  BY <1>9, <1>7, RestartsMarkOnly
<1>10. ASSUME NEW r \in Requests,
             \/ \E t \in Tenants, c \in Customers : OperatorWrites(r, t, c)
             \/ \E S \in SUBSET Tenants, dry, forced \in BOOLEAN : StartSweep(r, S, dry, forced)
             \/ StartDecision(r) \/ StartManualSend(r)
             \/ \E x \in Subjects(req[r]) : ModelFails(r, x)
             \/ \E x \in Subjects(req[r]), d \in Decisions : Decide(r, x, d)
             \/ ToolSettles(r) \/ ToolTimesOut(r)
             \/ \E o \in req[r].queue : SweepAborts(r, o)
      PROVE  UNCHANGED threads
  BY <1>10 DEF OperatorWrites, StartSweep, StartDecision, StartManualSend, ModelFails, Decide,
       ToolSettles, ToolTimesOut, ToolEnds, SweepAborts
<1>11. ASSUME NEW t \in Tenants, NEW outcome, ChangeTenant(t, outcome)
      PROVE  UNCHANGED threads
  BY <1>11 DEF ChangeTenant
<1>12. Kept
  BY <1>3, <1>4, <1>5, <1>6, <1>7, <1>8, <1>10, <1>11 DEF Next
<1> QED  BY <1>12 DEF Kept
(* The steps that make a request, each with what it holds.                 *)
LEMMA ArrivalFacts ==
    ASSUME StoreTypeOK, RequestInv, NEW r \in Requests, NEW n \in Numbers, NEW c \in Customers,
           MessageArrives(r, n, c)
    PROVE  /\ routes[n] \in Tenant /\ <<routes[n].id, c>> \in Tenants \X Customers
           /\ threads[<<routes[n].id, c>>].seq + 1 \in 1..MaxMessages
           /\ req[r] = Idle
           /\ threads' = [threads EXCEPT ![<<routes[n].id, c>>] =
                             Received(threads[<<routes[n].id, c>>])]
           /\ \E new \in Request :
                 /\ req' = [req EXCEPT ![r] = new] /\ Whole(new) /\ Authorised(new)
                 /\ new.stage = "arrived" /\ new.tenant = routes[n] /\ new.queue = {}
                 /\ new.answer = {} /\ new.at = c
                 /\ new.asked = threads[<<routes[n].id, c>>].seq + 1
<1> DEFINE o == routes[n]
           seq == threads[<<o.id, c>>].seq + 1
<1>1. /\ o \in Tenant /\ o.id \in Tenants /\ req[r] = Idle
      /\ threads[<<o.id, c>>].seq < MaxMessages
      /\ threads' = [threads EXCEPT ![<<o.id, c>>] = Received(threads[<<o.id, c>>])]
      /\ req' = [req EXCEPT ![r] = Arrived("inbound", o, c, seq)]
  BY DEF MessageArrives, Become, StoreTypeOK, Tenant
<1>2. threads[<<o.id, c>>] \in Thread
  BY <1>1 DEF RequestInv
<1>3. seq \in 1..MaxMessages /\ seq \in 0..MaxMessages
  BY <1>1, <1>2, ScenarioConstants DEF Thread
<1> HIDE DEF o, seq
<1> DEFINE new == Arrived("inbound", o, c, seq)
<1>4. /\ new \in Request /\ Whole(new) /\ Authorised(new)
      /\ new.stage = "arrived" /\ new.tenant = o /\ new.queue = {} /\ new.answer = {}
      /\ new.at = c /\ new.asked = seq
  BY <1>1, <1>3, ArrivedIsWhole
<1> HIDE DEF new
<1>5. \E state \in Request :
          /\ req' = [req EXCEPT ![r] = state] /\ Whole(state) /\ Authorised(state)
          /\ state.stage = "arrived" /\ state.tenant = o /\ state.queue = {}
          /\ state.answer = {} /\ state.at = c /\ state.asked = seq
  BY <1>1, <1>4 DEF new
<1> QED  BY <1>1, <1>3, <1>5 DEF o, seq

LEMMA OperatorFacts ==
    ASSUME StoreTypeOK, RequestInv, NEW r \in Requests, NEW t \in Tenants, NEW c \in Customers,
           OperatorWrites(r, t, c)
    PROVE  \E new \in Request :
              /\ req' = [req EXCEPT ![r] = new] /\ Whole(new) /\ Authorised(new)
              /\ new.stage = "arrived" /\ new.tenant = byId[t] /\ new.tenant.id = t
              /\ new.queue = {} /\ new.answer = {} /\ new.asked = 0
<1>1. byId[t] \in Tenant /\ byId[t].id = t
  BY TenantTypes, TenantIds DEF OperatorWrites, Known, StoreTypeOK
<1>2. 0 \in 0..MaxMessages
  BY ScenarioConstants
<1> DEFINE new == Arrived("manual", byId[t], c, 0)
<1>3. req' = [req EXCEPT ![r] = new]
  BY DEF OperatorWrites, Become
<1>4. /\ new \in Request /\ Whole(new) /\ Authorised(new)
      /\ new.stage = "arrived" /\ new.tenant = byId[t] /\ new.queue = {} /\ new.answer = {}
      /\ new.asked = 0
  BY <1>1, <1>2, ArrivedIsWhole
<1> HIDE DEF new
<1> QED  BY <1>1, <1>3, <1>4

LEMMA SweepFacts ==
    ASSUME StoreTypeOK, RequestInv, NEW r \in Requests, NEW chosen \in SUBSET Tenants,
           NEW dry \in BOOLEAN, NEW forced \in BOOLEAN, StartSweep(r, chosen, dry, forced)
    PROVE  \E new \in Request :
              /\ req' = [req EXCEPT ![r] = new] /\ Whole(new) /\ Authorised(new)
              /\ new.stage = "sweeping" /\ new.answer = {} /\ new.asked = 0
              /\ \A o \in new.queue : \E t \in Tenants : Known(t) /\ o = byId[t]
<1> DEFINE listed == {byId[t] : t \in chosen}
           new == Sweep(dry, forced, listed)
<1>1. \A o \in listed : o \in Tenant /\ \E t \in Tenants : Known(t) /\ o = byId[t]
  BY TenantTypes, TenantIds DEF StartSweep, Known, StoreTypeOK
<1>2. req' = [req EXCEPT ![r] = new]
  BY DEF StartSweep, Become
<1> HIDE DEF listed
<1>3. listed \in SUBSET Tenant
  BY <1>1
<1>4. /\ new \in Request /\ Whole(new) /\ Authorised(new) /\ new.stage = "sweeping"
      /\ new.queue = listed /\ new.answer = {} /\ new.asked = 0
  BY <1>3, SweepIsWhole
<1> HIDE DEF new
<1> QED  BY <1>1, <1>2, <1>4

LEMMA RestartFacts ==
    ASSUME RequestInv, Restart
    PROVE  /\ \A r \in Requests : req'[r] = Idle
           /\ req' \in [Requests -> Request] /\ RequestsAreWhole' /\ EffectsAreAuthorised'
<1>1. req' = [r \in Requests |-> Idle]
  BY DEF Restart
<1> QED  BY <1>1, IdleIsWhole DEF RequestsAreWhole, EffectsAreAuthorised

LEMMA RequestStep == StoreTypeOK /\ RequestInv /\ [Next]_vars => RequestInv'
<1> SUFFICES ASSUME StoreTypeOK, RequestInv, [Next]_vars PROVE RequestInv'
  OBVIOUS
<1> DEFINE Kept == req' \in [Requests -> Request] /\ RequestsAreWhole' /\ EffectsAreAuthorised'
<1>1. UNCHANGED req => Kept
  BY DEF RequestInv, RequestsAreWhole, EffectsAreAuthorised
<1>2. ASSUME NEW r \in Requests,
             \E new : /\ new \in Request /\ Whole(new) /\ Authorised(new)
                      /\ req' = [req EXCEPT ![r] = new]
      PROVE  Kept
  BY <1>2, OneRequestChanges
<1>3. Restart => Kept
  BY RestartFacts
<1> HIDE DEF Kept
<1>4. ASSUME NEW r \in Requests,
             \/ \E n \in Numbers, c \in Customers : MessageArrives(r, n, c)
             \/ \E t \in Tenants, c \in Customers : OperatorWrites(r, t, c)
             \/ \E S \in SUBSET Tenants, dry, forced \in BOOLEAN : StartSweep(r, S, dry, forced)
      PROVE  Kept
  <2>1. ASSUME NEW n \in Numbers, NEW c \in Customers, MessageArrives(r, n, c)
        PROVE  Kept
    BY <1>2, <2>1, ArrivalFacts
  <2>2. ASSUME NEW u \in Tenants, NEW c \in Customers, OperatorWrites(r, u, c)
        PROVE  Kept
    BY <1>2, <2>2, OperatorFacts
  <2>3. ASSUME NEW S \in SUBSET Tenants, NEW dry \in BOOLEAN, NEW forced \in BOOLEAN,
               StartSweep(r, S, dry, forced)
        PROVE  Kept
    <3>1. \E new \in Request : req' = [req EXCEPT ![r] = new] /\ Whole(new) /\ Authorised(new)
      BY <2>3, SweepFacts, ZenonT(60)
    <3> QED  BY <1>2, <3>1
  <2> QED  BY <1>4, <2>1, <2>2, <2>3
<1>5. ASSUME NEW r \in Requests, Continues(r)
      PROVE  Kept
  BY <1>2, <1>5, ContinuesFollow DEF Follows
<1>6. ASSUME NEW r \in Requests, NEW o \in req[r].queue, ModerateTenant(r, o)
      PROVE  Kept
  BY <1>2, <1>6, ModerateFacts
<1>7. ASSUME NEW t \in Tenants, NEW c \in Customers, SetControl(t, c)
      PROVE  Kept
  BY <1>1, <1>7 DEF SetControl
<1>8. ASSUME NEW t \in Tenants, NEW outcome \in Outcomes, ChangeTenant(t, outcome)
      PROVE  Kept
  BY <1>1, <1>8 DEF ChangeTenant
<1>9. Next => Kept
  BY <1>3, <1>4, <1>5, <1>6, <1>7, <1>8 DEF Next, Continues, ToolSettles, ToolTimesOut
<1>10. UNCHANGED vars => /\ UNCHANGED req /\ UNCHANGED threads
  BY DEF vars
<1>11. UNCHANGED threads =>
          threads' \in [Tenants \X Customers -> Thread] /\ InboundHasNumber'
  BY DEF RequestInv, InboundHasNumber
<1> QED  BY <1>1, <1>9, <1>10, <1>11, ThreadsChange DEF Kept, RequestInv

LEMMA RequestInit == Init => RequestInv
<1> SUFFICES ASSUME Init PROVE RequestInv
  OBVIOUS
<1>1. PICK scenario \in Scenarios : threads = scenario.threads
  BY DEF Init
<1>2. req = [r \in Requests |-> Idle]
  BY DEF Init
<1>3. /\ threads \in [Tenants \X Customers -> Thread]
      /\ \A at \in Tenants \X Customers : Consistent(threads[at])
  BY <1>1, ScenarioConstants
<1>4. req \in [Requests -> Request] /\ \A r \in Requests : Whole(req[r]) /\ Authorised(req[r])
  BY <1>2, IdleIsWhole
<1> QED  BY <1>3, <1>4 DEF RequestInv, InboundHasNumber, RequestsAreWhole, EffectsAreAuthorised,
           Consistent

(* Whatever the tenants, the policies, the models' answers and the order   *)
(* of things, nothing is sent and no tool is started that the policy of    *)
(* the tenant does not permit: a rule's grant, cut to what the model asked *)
(* for, or a default of reply where no rule speaks, whatever was asked.    *)
THEOREM EffectsAreAlwaysAuthorised == Spec => []EffectsAreAuthorised
<1>1. Init => RequestInv
  BY RequestInit
<1>2. RequestInv => EffectsAreAuthorised
  BY DEF RequestInv
<1>3. StoreInv /\ RequestInv /\ [Next]_vars => RequestInv'
  BY RequestStep DEF StoreInv
<1> QED  BY <1>1, <1>2, <1>3, SupervisedTenantsStayRouted, PTL DEF Spec
-------------------------------------------------------------------------------
(* One answer to a message.                                                *)

ReplyInv == OneHolder /\ HeldHasArrived

LEMMA ThreadFields ==
    ASSUME RequestInv, NEW t \in Tenants, NEW c \in Customers
    PROVE  /\ threads[<<t, c>>] \in Thread /\ threads[<<t, c>>].seq \in 0..MaxMessages
           /\ threads[<<t, c>>].seq \in Nat /\ threads[<<t, c>>].answers \in Nat
           /\ threads[<<t, c>>].contested \in BOOLEAN
           /\ threads[<<t, c>>].seq > 0 => threads[<<t, c>>].seq \in 1..MaxMessages
           /\ threads[<<t, c>>].last = "inbound" => threads[<<t, c>>].seq > 0
  BY ScenarioConstants DEF RequestInv, Thread, InboundHasNumber

(* One conversation of OneHolder.                                          *)
Single(t, c) ==
    /\ Consistent(threads[<<t, c>>])
    /\ ~ threads[<<t, c>>].contested /\ threads[<<t, c>>].seq > 0 =>
          \A q \in Requests : Holds(req[q], t, c, threads[<<t, c>>].seq) =>
              /\ threads[<<t, c>>].answers = 0
              /\ \A r \in Requests : Holds(req[r], t, c, threads[<<t, c>>].seq) => q = r

LEMMA SingleIsOneHolder ==
    /\ OneHolder <=> \A t \in Tenants, c \in Customers : Single(t, c)
    /\ OneHolder' <=> \A t \in Tenants, c \in Customers : Single(t, c)'
  BY DEF OneHolder, Single, Holders

(* It keeps while no request takes up the message, and all that changes of *)
(* the conversation is that it becomes contested.                          *)
LEMMA SingleKept ==
    ASSUME RequestInv, NEW t \in Tenants, NEW c \in Customers, Single(t, c),
           \/ threads'[<<t, c>>] = threads[<<t, c>>]
           \/ threads'[<<t, c>>] = [threads[<<t, c>>] EXCEPT !.contested = TRUE]
           \/ threads'[<<t, c>>] = HandedOver(threads[<<t, c>>]),
           ~ threads'[<<t, c>>].contested =>
              \A r \in Requests : Holds(req'[r], t, c, threads[<<t, c>>].seq) =>
                                     Holds(req[r], t, c, threads[<<t, c>>].seq)
    PROVE  Single(t, c)'
<1> DEFINE old == threads[<<t, c>>]
           new == threads'[<<t, c>>]
<1>1. old \in Thread
  BY ThreadFields
<1>2. /\ new.seq = old.seq /\ new.answers = old.answers /\ new.last = old.last
      /\ new.contested = old.contested \/ new.contested = TRUE
  BY <1>1, HandedOverKeepsThread DEF Thread
<1>3. ~ new.contested => ~ old.contested
  BY <1>1, <1>2 DEF Thread
<1>4. Consistent(new)
  BY <1>2, <1>3 DEF Single, Consistent
<1>5. ~ new.contested => \A r \in Requests : Holds(req'[r], t, c, new.seq) =>
                                              Holds(req[r], t, c, old.seq)
  BY <1>2
<1>6. Consistent(old) /\ (~ old.contested /\ old.seq > 0 =>
          \A q \in Requests : Holds(req[q], t, c, old.seq) =>
              old.answers = 0 /\ \A r \in Requests : Holds(req[r], t, c, old.seq) => q = r)
  BY DEF Single
<1> HIDE DEF old, new
<1>7. ~ new.contested /\ new.seq > 0 =>
          \A q \in Requests : Holds(req'[q], t, c, new.seq) =>
              new.answers = 0 /\ \A r \in Requests : Holds(req'[r], t, c, new.seq) => q = r
  BY <1>2, <1>3, <1>5, <1>6
<1> QED  BY <1>4, <1>7 DEF Single, new

(* A step that only makes requests go on keeps both.                       *)
LEMMA NothingTakenUp ==
    ASSUME RequestInv, ReplyInv, MarksOnly \/ UNCHANGED threads,
           \A r \in Requests, t \in Tenants, c \in Customers, seq \in 1..MaxMessages :
              Holds(req'[r], t, c, seq) => Holds(req[r], t, c, seq)
    PROVE  ReplyInv'
<1>1. ASSUME NEW t \in Tenants, NEW c \in Customers
      PROVE  Single(t, c)' /\ threads'[<<t, c>>].seq = threads[<<t, c>>].seq
  <2>1. \/ threads'[<<t, c>>] = threads[<<t, c>>]
        \/ threads'[<<t, c>>] = [threads[<<t, c>>] EXCEPT !.contested = TRUE]
    BY DEF MarksOnly
  <2>2. threads'[<<t, c>>].seq = threads[<<t, c>>].seq
    BY <2>1, ThreadFields DEF Thread
  <2>3. Single(t, c)
    BY SingleIsOneHolder DEF ReplyInv
  <2>4. CASE threads[<<t, c>>].seq > 0
    <3>1. threads[<<t, c>>].seq \in 1..MaxMessages
      BY <2>4, ThreadFields
    <3> QED  BY <2>1, <2>2, <2>3, <3>1, SingleKept
  <2>5. CASE ~ (threads[<<t, c>>].seq > 0)
    <3>1. Consistent(threads'[<<t, c>>])
      BY <2>1, <2>3, ThreadFields DEF Single, Consistent, Thread
    <3> QED  BY <2>2, <2>5, <3>1 DEF Single
  <2> QED  BY <2>2, <2>4, <2>5
<1>2. OneHolder'
  BY <1>1, SingleIsOneHolder
<1>3. HeldHasArrived'
  BY <1>1 DEF ReplyInv, HeldHasArrived
<1> QED  BY <1>2, <1>3 DEF ReplyInv
LEMMA SetControlKeepsReplyInv ==
    ASSUME RequestInv, ReplyInv, NEW t \in Tenants, NEW c \in Customers, SetControl(t, c)
    PROVE  ReplyInv'
<1>1. /\ req' = req /\ threads' = [threads EXCEPT ![<<t, c>>] = HandedOver(threads[<<t, c>>])]
      /\ DOMAIN threads = Tenants \X Customers
  BY DEF SetControl, RequestInv
<1>2. ASSUME NEW u \in Tenants, NEW d \in Customers
      PROVE  Single(u, d)' /\ threads'[<<u, d>>].seq = threads[<<u, d>>].seq
  <2>1. \/ threads'[<<u, d>>] = threads[<<u, d>>]
        \/ threads'[<<u, d>>] = HandedOver(threads[<<u, d>>])
    BY <1>1
  <2>2. Single(u, d)
    BY SingleIsOneHolder DEF ReplyInv
  <2>3. Single(u, d)'
    BY <1>1, <2>1, <2>2, SingleKept
  <2> QED  BY <2>1, <2>3, ThreadFields, HandedOverKeepsThread
<1>3. OneHolder'
  BY <1>2, SingleIsOneHolder
<1>4. HeldHasArrived'
  BY <1>1, <1>2 DEF ReplyInv, HeldHasArrived
<1> QED  BY <1>3, <1>4 DEF ReplyInv

(* The next number of a conversation is in nobody's hand yet.              *)
LEMMA ArrivalKeepsReplyInv ==
    ASSUME StoreTypeOK, RequestInv, ReplyInv, NEW r \in Requests, NEW n \in Numbers,
           NEW c \in Customers, MessageArrives(r, n, c)
    PROVE  ReplyInv'
<1> SUFFICES ASSUME NEW t \in Tenants, t = routes[n].id PROVE ReplyInv'
  BY ArrivalFacts DEF Tenant
<1> DEFINE old == threads[<<t, c>>]
<1>1. /\ routes[n] \in Tenant /\ req[r] = Idle
      /\ old.seq + 1 \in 1..MaxMessages
      /\ threads' = [threads EXCEPT ![<<t, c>>] = Received(old)]
  BY ArrivalFacts
<1>2. PICK new \in Request :
          /\ req' = [req EXCEPT ![r] = new] /\ Whole(new) /\ Authorised(new)
          /\ new.tenant = routes[n] /\ new.answer = {} /\ new.at = c
          /\ new.asked = old.seq + 1
  BY ArrivalFacts
<1>3. req'[r] = new /\ \A q \in Requests : q # r => req'[q] = req[q]
  BY <1>2, OneRequestChanges
<1>4. \A seq : \A u \in Tenants, d \in Customers :
          Holds(new, u, d, seq) <=> u = t /\ d = c /\ seq = old.seq + 1
  BY <1>2 DEF Holds
<1>5. old \in Thread /\ old.seq \in 0..MaxMessages /\ old.seq \in Nat /\ old.seq < MaxMessages
  BY <1>1, ThreadFields, ScenarioConstants
<1>6. threads'[<<t, c>>] = Received(old)
      /\ \A u \in Tenants, d \in Customers : u # t \/ d # c => threads'[<<u, d>>] = threads[<<u, d>>]
  BY <1>1 DEF RequestInv
<1>7. /\ Received(old).seq = old.seq + 1 /\ Received(old).answers = 0
      /\ ~ Received(old).contested /\ Received(old) \in Thread
  BY <1>5, ReceivedKeepsThread
<1> HIDE DEF old
<1>8. \A q \in Requests : Holds(req'[q], t, c, old.seq + 1) => q = r
  <2>1. SUFFICES ASSUME NEW q \in Requests, q # r, Holds(req[q], t, c, old.seq + 1) PROVE FALSE
    BY <1>3
  <2>2. old.seq + 1 <= old.seq
    BY <1>1, <2>1 DEF ReplyInv, HeldHasArrived, old
  <2> QED  BY <1>5, <2>2
<1>9. Single(t, c)'
  BY <1>6, <1>7, <1>8, <1>5 DEF Single, Consistent
<1>10. ASSUME NEW u \in Tenants, NEW d \in Customers, u # t \/ d # c
       PROVE  Single(u, d)'
  <2>1. Single(u, d) /\ threads'[<<u, d>>] = threads[<<u, d>>]
    BY <1>6, <1>10, SingleIsOneHolder DEF ReplyInv
  <2>2. ASSUME NEW q \in Requests, Holds(req'[q], u, d, threads[<<u, d>>].seq)
        PROVE  Holds(req[q], u, d, threads[<<u, d>>].seq)
    BY <1>3, <1>4, <1>10, <2>2
  <2> QED  BY <2>1, <2>2, SingleKept
<1>11. OneHolder'
  BY <1>9, <1>10, SingleIsOneHolder
<1>12. ASSUME NEW q \in Requests, NEW u \in Tenants, NEW d \in Customers,
              NEW seq \in 1..MaxMessages, Holds(req'[q], u, d, seq)
       PROVE  seq <= threads'[<<u, d>>].seq
  <2>1. CASE q = r
    <3>1. u = t /\ d = c /\ seq = old.seq + 1
      BY <1>3, <1>4, <1>12, <2>1
    <3> QED  BY <1>5, <1>6, <1>7, <3>1
  <2>2. CASE q # r
    <3>1. seq <= threads[<<u, d>>].seq
      BY <1>3, <1>12, <2>2 DEF ReplyInv, HeldHasArrived
    <3>2. seq \in Nat /\ threads[<<u, d>>].seq \in Nat
      BY ThreadFields, ScenarioConstants
    <3>3. threads'[<<u, d>>].seq = threads[<<u, d>>].seq
          \/ threads'[<<u, d>>].seq = threads[<<u, d>>].seq + 1
      BY <1>6, <1>7 DEF old
    <3> QED  BY <3>1, <3>2, <3>3
  <2> QED  BY <2>1, <2>2
<1>13. HeldHasArrived'
  BY <1>12 DEF HeldHasArrived
<1> QED  BY <1>11, <1>13 DEF ReplyInv

(* The one who had the message in hand has it no longer.                   *)
LEMMA SendEndsKeepsReplyInv ==
    ASSUME RequestInv, ReplyInv, NEW r \in Requests,
           NEW outcome \in {"recorded", "failed", "unrecorded"}, SendEnds(r, outcome)
    PROVE  ReplyInv'
<1> SUFFICES ASSUME NEW t \in Tenants, t = req[r].tenant.id, NEW c \in Customers, c = req[r].at
             PROVE  ReplyInv'
  BY SendingPlace DEF SendEnds, Conversation
<1> DEFINE s == req[r]
           old == threads[<<t, c>>]
           toLatest == s.asked > 0 /\ s.asked = old.seq
           count == IF s.kind = "sweep" /\ s.asked = 0 /\ outcome = "recorded"
                    THEN s.followups + 1 ELSE s.followups
           new == Settled([s EXCEPT !.followups = count])
<1>1. /\ s \in Request /\ Whole(s) /\ s.stage = "sending"
  BY DEF RequestInv, RequestsAreWhole, SendEnds
<1>2. /\ threads' = [threads EXCEPT ![<<t, c>>] = Sent(old, toLatest, outcome)]
      /\ req' = [req EXCEPT ![r] = new]
  BY DEF SendEnds, Become, Conversation
<1>3. count \in 0..ProactiveLimit
  BY <1>1, CountIsBounded
<1> HIDE DEF count, s
<1>4. /\ Follows(s, new) /\ \A u \in Tenants : s.asked > 0 => ~ Holds(new, u, c, s.asked)
  BY <1>1, <1>3, EndFollows DEF s
<1> HIDE DEF new
<1>5. req'[r] = new /\ \A q \in Requests : q # r => req'[q] = req[q]
  BY <1>2, <1>4, OneRequestChanges DEF Follows
<1>6. /\ threads'[<<t, c>>] = Sent(old, toLatest, outcome)
      /\ \A u \in Tenants, d \in Customers : u # t \/ d # c => threads'[<<u, d>>] = threads[<<u, d>>]
  BY <1>1, <1>2 DEF RequestInv
<1>7. /\ old \in Thread /\ old.seq \in Nat /\ old.answers \in Nat /\ toLatest \in BOOLEAN
      /\ (old.last = "inbound" => old.seq > 0)
      /\ (old.seq > 0 => old.seq \in 1..MaxMessages)
  BY <1>1, ThreadFields
<1>8. \A q \in Requests, u \in Tenants, d \in Customers, seq \in 1..MaxMessages :
          Holds(req'[q], u, d, seq) => Holds(req[q], u, d, seq)
  BY <1>4, <1>5 DEF Follows, s
<1>9. toLatest => Holds(req[r], t, c, old.seq) /\ ~ Holds(req'[r], t, c, old.seq)
  BY <1>1, <1>4, <1>5 DEF Holds, s
<1> HIDE DEF toLatest, old
<1> DEFINE sent == Sent(old, toLatest, outcome)
<1>10. /\ sent.seq = old.seq
       /\ sent.last = IF outcome = "recorded" THEN "outbound" ELSE old.last
       /\ sent.answers = IF toLatest /\ outcome # "failed" THEN old.answers + 1 ELSE old.answers
       /\ ~ sent.contested => ~ old.contested /\ ~ (toLatest /\ outcome = "unrecorded")
  BY <1>7, SentKeepsThread
<1> HIDE DEF sent
<1>11. /\ Consistent(old)
       /\ ~ old.contested /\ old.seq > 0 =>
             \A q \in Requests : Holds(req[q], t, c, old.seq) =>
                old.answers = 0 /\ \A p \in Requests : Holds(req[p], t, c, old.seq) => q = p
  BY <1>1, SingleIsOneHolder DEF ReplyInv, Single, old
<1>12. toLatest => old.seq > 0
  BY <1>7 DEF toLatest
<1>13. Consistent(sent)
  BY <1>7, <1>9, <1>10, <1>11, <1>12 DEF Consistent
<1>14. ~ sent.contested /\ sent.seq > 0 =>
          \A q \in Requests : Holds(req'[q], t, c, sent.seq) =>
             sent.answers = 0 /\ \A p \in Requests : Holds(req'[p], t, c, sent.seq) => q = p
  <2>1. CASE toLatest
    <3>1. \A q \in Requests : ~ old.contested => ~ Holds(req'[q], t, c, old.seq)
      BY <1>1, <1>7, <1>8, <1>9, <1>11, <1>12, <2>1
    <3> QED  BY <1>10, <3>1
  <2>2. CASE ~ toLatest
    BY <1>1, <1>7, <1>8, <1>10, <1>11, <2>2
  <2> QED  BY <2>1, <2>2
<1>15. Single(t, c)'
  BY <1>6, <1>13, <1>14 DEF Single, sent
<1>16. ASSUME NEW u \in Tenants, NEW d \in Customers, u # t \/ d # c
       PROVE  Single(u, d)'
  <2>1. Single(u, d) /\ threads'[<<u, d>>] = threads[<<u, d>>]
    BY <1>6, <1>16, SingleIsOneHolder DEF ReplyInv
  <2>2. CASE threads[<<u, d>>].seq > 0
    <3>1. threads[<<u, d>>].seq \in 1..MaxMessages
      BY <2>2, ThreadFields
    <3> QED  BY <1>8, <2>1, <3>1, SingleKept
  <2>3. CASE ~ (threads[<<u, d>>].seq > 0)
    BY <2>1, <2>3 DEF Single
  <2> QED  BY <2>2, <2>3
<1>17. OneHolder'
  BY <1>15, <1>16, SingleIsOneHolder
<1>18. \A u \in Tenants, d \in Customers : threads'[<<u, d>>].seq = threads[<<u, d>>].seq
  BY <1>6, <1>10 DEF sent, old
<1>19. HeldHasArrived'
  BY <1>8, <1>18 DEF ReplyInv, HeldHasArrived
<1> QED  BY <1>17, <1>19 DEF ReplyInv
(* A sweep takes the unanswered messages it found; one that another has in *)
(* hand becomes contested.                                                 *)
LEMMA SweepKeepsReplyInv ==
    ASSUME RequestInv, ReplyInv, NEW r \in Requests, NEW o \in req[r].queue,
           ModerateTenant(r, o)
    PROVE  ReplyInv'
<1>1. PICK new :
          /\ req' = [req EXCEPT ![r] = new] /\ new \in Request
          /\ Whole(new) /\ Authorised(new)
          /\ \A t \in Tenants, c \in Customers, seq \in 1..MaxMessages :
                Holds(new, t, c, seq) =>
                   t = o.id /\ c \in Unanswered(r, o) /\ seq = threads[<<t, c>>].seq
  BY ModerateFacts
<1>2. req'[r] = new /\ \A q \in Requests : q # r => req'[q] = req[q]
  BY <1>1, OneRequestChanges
<1>3. /\ MarksOnly
      /\ \A c \in Unanswered(r, o) :
            Holders(o.id, c, threads[<<o.id, c>>].seq) # {} => threads'[<<o.id, c>>].contested
  BY SweepsMarkOnly
<1>4. ASSUME NEW t \in Tenants, NEW c \in Customers
      PROVE  /\ \/ threads'[<<t, c>>] = threads[<<t, c>>]
                \/ threads'[<<t, c>>] = [threads[<<t, c>>] EXCEPT !.contested = TRUE]
             /\ threads'[<<t, c>>].seq = threads[<<t, c>>].seq
             /\ threads'[<<t, c>>].last = threads[<<t, c>>].last
             /\ ~ threads'[<<t, c>>].contested => threads'[<<t, c>>] = threads[<<t, c>>]
             /\ Single(t, c)
  <2>1. \/ threads'[<<t, c>>] = threads[<<t, c>>]
        \/ threads'[<<t, c>>] = [threads[<<t, c>>] EXCEPT !.contested = TRUE]
    BY <1>3 DEF MarksOnly
  <2>2. Single(t, c)
    BY SingleIsOneHolder DEF ReplyInv
  <2> QED  BY <2>1, <2>2, ThreadFields DEF Thread
<1>5. ASSUME NEW t \in Tenants, NEW c \in Customers, threads[<<t, c>>].seq > 0
      PROVE  Single(t, c)'
  <2>0. threads[<<t, c>>].seq \in 1..MaxMessages
    BY <1>5, ThreadFields
  <2>1. CASE ~ (t = o.id /\ c \in Unanswered(r, o))
    <3>1. \A q \in Requests : Holds(req'[q], t, c, threads[<<t, c>>].seq) =>
                                 Holds(req[q], t, c, threads[<<t, c>>].seq)
      BY <1>1, <1>2, <2>0, <2>1
    <3> QED  BY <1>4, <3>1, SingleKept
  <2>2. CASE t = o.id /\ c \in Unanswered(r, o)
    <3>1. CASE threads'[<<t, c>>].contested
      BY <1>4, <3>1, SingleKept
    <3>2. CASE ~ threads'[<<t, c>>].contested
      <4>1. threads'[<<t, c>>] = threads[<<t, c>>]
        BY <1>4, <3>2
      <4>2. \A q \in Requests : ~ Holds(req[q], t, c, threads[<<t, c>>].seq)
        BY <1>3, <2>2, <3>2 DEF Holders
      <4>3. \A q \in Requests : Holds(req'[q], t, c, threads[<<t, c>>].seq) => q = r
        BY <1>2, <4>2
      <4>4. threads[<<t, c>>].last = "inbound" /\ Consistent(threads[<<t, c>>])
        BY <1>4, <2>2 DEF Unanswered, Single
      <4>5. threads[<<t, c>>].answers = 0
        BY <3>2, <4>1, <4>4 DEF Consistent
      <4> QED  BY <4>1, <4>3, <4>4, <4>5 DEF Single
    <3> QED  BY <3>1, <3>2
  <2> QED  BY <2>1, <2>2
<1>6. ASSUME NEW t \in Tenants, NEW c \in Customers, ~ (threads[<<t, c>>].seq > 0)
      PROVE  Single(t, c)'
  <2>1. Consistent(threads'[<<t, c>>])
    BY <1>4, <1>6, ThreadFields DEF Single, Consistent, Thread
  <2> QED  BY <1>4, <1>6, <2>1 DEF Single
<1>7. OneHolder'
  BY <1>5, <1>6, SingleIsOneHolder
<1>8. ASSUME NEW q \in Requests, NEW t \in Tenants, NEW c \in Customers,
             NEW seq \in 1..MaxMessages, Holds(req'[q], t, c, seq)
      PROVE  seq <= threads'[<<t, c>>].seq
  <2>1. CASE q = r
    <3>1. seq = threads[<<t, c>>].seq
      BY <1>1, <1>2, <1>8, <2>1
    <3>2. threads'[<<t, c>>].seq = threads[<<t, c>>].seq /\ threads[<<t, c>>].seq \in Nat
      BY <1>4, ThreadFields
    <3> QED  BY <3>1, <3>2
  <2>2. CASE q # r
    BY <1>2, <1>4, <1>8, <2>2 DEF ReplyInv, HeldHasArrived
  <2> QED  BY <2>1, <2>2
<1> QED  BY <1>7, <1>8 DEF HeldHasArrived, ReplyInv

LEMMA ReplyStep == StoreTypeOK /\ RequestInv /\ ReplyInv /\ [Next]_vars => ReplyInv'
<1> SUFFICES ASSUME StoreTypeOK, RequestInv, ReplyInv, [Next]_vars PROVE ReplyInv'
  OBVIOUS
<1>1. ASSUME NEW r \in Requests, NEW n \in Numbers, NEW c \in Customers,
             MessageArrives(r, n, c)
      PROVE  ReplyInv'
  BY <1>1, ArrivalKeepsReplyInv
<1>2. ASSUME NEW r \in Requests, NEW new \in Request, Whole(new), Authorised(new),
             new.asked = 0, new.answer = {},
             req' = [req EXCEPT ![r] = new], UNCHANGED threads
      PROVE  ReplyInv'
  <2>1. req'[r] = new /\ \A q \in Requests : q # r => req'[q] = req[q]
    BY <1>2, OneRequestChanges
  <2>2. \A t \in Tenants, c \in Customers, seq \in 1..MaxMessages : ~ Holds(new, t, c, seq)
    BY <1>2, NothingTaken
  <2> QED  BY <1>2, <2>1, <2>2, NothingTakenUp
<1>3. ASSUME NEW r \in Requests, NEW t \in Tenants, NEW c \in Customers, OperatorWrites(r, t, c)
      PROVE  ReplyInv'
  <2>1. UNCHANGED threads
    BY <1>3 DEF OperatorWrites
  <2> QED  BY <1>2, <1>3, <2>1, OperatorFacts
<1>4. ASSUME NEW r \in Requests, NEW S \in SUBSET Tenants, NEW dry \in BOOLEAN,
             NEW forced \in BOOLEAN, StartSweep(r, S, dry, forced)
      PROVE  ReplyInv'
  <2>1. UNCHANGED threads
    BY <1>4 DEF StartSweep
  <2>2. \E new \in Request : /\ req' = [req EXCEPT ![r] = new] /\ Whole(new) /\ Authorised(new)
                             /\ new.asked = 0 /\ new.answer = {}
    BY <1>4, SweepFacts, ZenonT(60)
  <2> QED  BY <1>2, <2>1, <2>2
<1>5. ASSUME NEW r \in Requests, NEW outcome \in {"recorded", "failed", "unrecorded"},
             SendEnds(r, outcome)
      PROVE  ReplyInv'
  BY <1>5, SendEndsKeepsReplyInv
<1>6. ASSUME NEW r \in Requests, Continues(r), UNCHANGED threads
      PROVE  ReplyInv'
  <2>1. PICK new : Follows(req[r], new) /\ req' = [req EXCEPT ![r] = new]
    BY <1>6, ContinuesFollow
  <2>2. req'[r] = new /\ \A q \in Requests : q # r => req'[q] = req[q]
    BY <2>1, OneRequestChanges DEF Follows
  <2>3. \A q \in Requests, t \in Tenants, c \in Customers, seq \in 1..MaxMessages :
            Holds(req'[q], t, c, seq) => Holds(req[q], t, c, seq)
    BY <2>1, <2>2 DEF Follows
  <2> QED  BY <1>6, <2>3, NothingTakenUp
<1>7. ASSUME NEW r \in Requests,
             \/ StartDecision(r) \/ StartManualSend(r)
             \/ \E x \in Subjects(req[r]) : ModelFails(r, x)
             \/ \E x \in Subjects(req[r]), d \in Decisions : Decide(r, x, d)
             \/ ToolEnds(r)
             \/ \E o \in req[r].queue : SweepAborts(r, o)
      PROVE  Continues(r) /\ UNCHANGED threads
  BY <1>7 DEF Continues, StartDecision, StartManualSend, ModelFails, Decide, ToolEnds,
       SweepAborts
<1>8. ASSUME NEW r \in Requests, NEW o \in req[r].queue, ModerateTenant(r, o)
      PROVE  ReplyInv'
  BY <1>8, SweepKeepsReplyInv
<1>9. ASSUME NEW t \in Tenants, NEW c \in Customers, SetControl(t, c)
      PROVE  ReplyInv'
  BY <1>9, SetControlKeepsReplyInv
<1>10. ASSUME UNCHANGED <<req, threads>>
       PROVE  ReplyInv'
  BY <1>10, NothingTakenUp
<1>11. (\E t \in Tenants, outcome \in Outcomes : ChangeTenant(t, outcome)) \/ UNCHANGED vars
          => UNCHANGED <<req, threads>>
  BY DEF ChangeTenant, vars
<1>12. ASSUME Restart PROVE ReplyInv'
  <2>1. \A r \in Requests : req'[r] = Idle
    BY <1>12, RestartFacts
  <2>2. MarksOnly
    BY <1>12, RestartsMarkOnly
  <2> QED  BY <2>1, <2>2, IdleHoldsNothing, NothingTakenUp
<1> QED  BY <1>1, <1>3, <1>4, <1>5, <1>6, <1>7, <1>8, <1>9, <1>10, <1>11, <1>12
         DEF Next, ToolSettles, ToolTimesOut

LEMMA ReplyInit == Init => ReplyInv
<1> SUFFICES ASSUME Init PROVE ReplyInv
  OBVIOUS
<1>1. PICK scenario \in Scenarios : threads = scenario.threads
  BY DEF Init
<1>2. \A at \in Tenants \X Customers : Consistent(threads[at])
  BY <1>1, ScenarioConstants
<1>3. \A r \in Requests : req[r] = Idle
  BY DEF Init
<1>4. RequestInv
  BY RequestInit
<1>5. ASSUME NEW t \in Tenants, NEW c \in Customers PROVE Single(t, c)
  BY <1>2, <1>3, <1>4, IdleHoldsNothing, ThreadFields DEF Single
<1>6. HeldHasArrived
  BY <1>3, IdleHoldsNothing DEF HeldHasArrived
<1> QED  BY <1>5, <1>6, SingleIsOneHolder DEF ReplyInv

(* A customer's latest message is answered once, unless it was contested.  *)
THEOREM MessagesAreAnsweredOnce == Spec => []AnsweredOnce
<1>1. RequestInv /\ ReplyInv => AnsweredOnce
  <2> SUFFICES ASSUME RequestInv, ReplyInv PROVE AnsweredOnce
    OBVIOUS
  <2>1. \A t \in Tenants, c \in Customers : Consistent(threads[<<t, c>>])
    BY DEF ReplyInv, OneHolder
  <2> QED  BY <2>1 DEF AnsweredOnce, Consistent, RequestInv
<1>2. StoreInv /\ RequestInv /\ [Next]_vars => RequestInv'
  BY RequestStep DEF StoreInv
<1>3. StoreInv /\ RequestInv /\ ReplyInv /\ [Next]_vars => ReplyInv'
  BY ReplyStep DEF StoreInv
<1> QED  BY <1>1, <1>2, <1>3, RequestInit, ReplyInit, SupervisedTenantsStayRouted,
            PTL DEF Spec
-------------------------------------------------------------------------------
(* The caches.                                                             *)

CacheInv ==
    /\ runtimes \in [Tenants -> (SUBSET Numbers) \cup {Uncached}]
    /\ senders \in [Tenants -> (SUBSET Numbers) \cup {Uncached}]
    /\ loose \subseteq Tenants
    /\ RuntimesFollowTenants /\ RequestsFollowTenants

(* One tenant of RuntimesFollowTenants, and of RequestsFollowTenants: what *)
(* a request holds of it, and what its numbers lead to.                    *)
Cached(t) == {runtimes[t], senders[t]} \subseteq {Uncached, byId[t].legacy}
Current(s, o, t) ==
    /\ s.stage = "arrived" /\ s.tenant.id = t => s.tenant = o
    /\ \A p \in s.queue : p.id = t => p = o
RoutedHere(t) == \A n \in Numbers : routes[n].id = t => routes[n] = byId[t]

LEMMA CacheParts ==
    /\ RuntimesFollowTenants <=> \A t \in Tenants : t \notin loose /\ Known(t) => Cached(t)
    /\ RuntimesFollowTenants' <=>
          \A t \in Tenants : t \notin loose' /\ Known(t)' => Cached(t)'
    /\ RequestsFollowTenants <=>
          \A t \in Tenants : t \notin loose /\ Known(t) =>
             RoutedHere(t) /\ \A r \in Requests : Current(req[r], byId[t], t)
    /\ RequestsFollowTenants' <=>
          \A t \in Tenants : t \notin loose' /\ Known(t)' =>
             RoutedHere(t)' /\ \A r \in Requests : Current(req'[r], byId'[t], t)
  BY DEF RuntimesFollowTenants, RequestsFollowTenants, Cached, Current, RoutedHere

(* A sender made for a tenant sends from the number the tenant then names. *)
LEMMA SenderForFacts ==
    ASSUME CacheInv, NEW o \in Tenant, SenderFor(o)
    PROVE  /\ senders' \in [Tenants -> (SUBSET Numbers) \cup {Uncached}]
           /\ \A t \in Tenants : t # o.id => senders'[t] = senders[t]
           /\ senders'[o.id] = IF senders[o.id] = Uncached THEN o.legacy ELSE senders[o.id]
<1>1. o.id \in Tenants /\ o.legacy \in SUBSET Numbers
  BY DEF Tenant
<1>2. senders' = [senders EXCEPT ![o.id] = IF senders[o.id] = Uncached THEN o.legacy
                                           ELSE senders[o.id]]
  BY DEF SenderFor, SendsFrom
<1> QED  BY <1>1, <1>2 DEF CacheInv

LEMMA RuntimeForFacts ==
    ASSUME CacheInv, NEW o \in Tenant, RuntimeFor(o)
    PROVE  /\ senders' \in [Tenants -> (SUBSET Numbers) \cup {Uncached}]
           /\ runtimes' \in [Tenants -> (SUBSET Numbers) \cup {Uncached}]
           /\ \A t \in Tenants : t # o.id => senders'[t] = senders[t] /\ runtimes'[t] = runtimes[t]
           /\ senders'[o.id] \in {senders[o.id], o.legacy}
           /\ runtimes'[o.id] \in {runtimes[o.id], senders[o.id], o.legacy}
<1>1. o.id \in Tenants
  BY DEF Tenant
<1>2. CASE runtimes[o.id] # Uncached
  BY <1>2 DEF RuntimeFor, cache, CacheInv
<1>3. CASE runtimes[o.id] = Uncached
  <2>1. SenderFor(o) /\ runtimes' = [runtimes EXCEPT ![o.id] = senders'[o.id]]
    BY <1>3 DEF RuntimeFor
  <2>2. /\ senders' \in [Tenants -> (SUBSET Numbers) \cup {Uncached}]
        /\ \A t \in Tenants : t # o.id => senders'[t] = senders[t]
        /\ senders'[o.id] = IF senders[o.id] = Uncached THEN o.legacy ELSE senders[o.id]
    BY <2>1, SenderForFacts
  <2>3. senders'[o.id] \in (SUBSET Numbers) \cup {Uncached}
    BY <1>1, <2>2
  <2>4. /\ runtimes' \in [Tenants -> (SUBSET Numbers) \cup {Uncached}]
        /\ runtimes'[o.id] = senders'[o.id]
        /\ \A t \in Tenants : t # o.id => runtimes'[t] = runtimes[t]
    BY <1>1, <2>1, <2>3 DEF CacheInv
  <2> QED  BY <2>2, <2>4
<1> QED  BY <1>2, <1>3

(* A step that leaves the tenants alone, by which one request takes the    *)
(* runtime or the sender of a tenant that it holds, or none.               *)
LEMMA TakenKeepsCacheInv ==
    ASSUME CacheInv, UNCHANGED <<store, loose>>, NEW r \in Requests, NEW o,
           /\ senders' \in [Tenants -> (SUBSET Numbers) \cup {Uncached}]
           /\ runtimes' \in [Tenants -> (SUBSET Numbers) \cup {Uncached}],
           \/ UNCHANGED cache
           \/ /\ o \in Tenant
              /\ \A t \in Tenants :
                    t # o.id => senders'[t] = senders[t] /\ runtimes'[t] = runtimes[t]
              /\ senders'[o.id] \in {senders[o.id], o.legacy}
              /\ runtimes'[o.id] \in {runtimes[o.id], senders[o.id], o.legacy},
           \A t \in Tenants : t \notin loose /\ Known(t) /\ o.id = t => o = byId[t],
           \A q \in Requests, t \in Tenants : t \notin loose /\ Known(t) =>
              Current(req'[q], byId[t], t)
    PROVE  CacheInv'
<1>1. byId' = byId /\ routes' = routes /\ loose' = loose
  BY DEF store
<1>2. \A t \in Tenants : (Known(t)' <=> Known(t)) /\ (RoutedHere(t)' <=> RoutedHere(t))
  BY <1>1 DEF Known, RoutedHere
<1>3. ASSUME NEW t \in Tenants, t \notin loose, Known(t)
      PROVE  Cached(t)'
  <2>1. {runtimes[t], senders[t]} \subseteq {Uncached, byId[t].legacy}
    BY <1>3, CacheParts DEF CacheInv, Cached
  <2>2. {runtimes'[t], senders'[t]} \subseteq {Uncached, byId[t].legacy}
    <3>1. CASE UNCHANGED cache
      BY <2>1, <3>1 DEF cache
    <3>2. CASE ~ UNCHANGED cache /\ t # o.id
      BY <2>1, <3>2
    <3>3. CASE ~ UNCHANGED cache /\ t = o.id
      <4>1. o.legacy = byId[t].legacy
        BY <1>3, <3>3
      <4> QED  BY <2>1, <3>3, <4>1
    <3> QED  BY <3>1, <3>2, <3>3
  <2> QED  BY <1>1, <2>2 DEF Cached
<1>4. RuntimesFollowTenants'
  BY <1>1, <1>2, <1>3, CacheParts
<1>5. RequestsFollowTenants'
  BY <1>1, <1>2, CacheParts DEF CacheInv
<1> QED  BY <1>1, <1>4, <1>5 DEF CacheInv
LEMMA OthersStayCurrent ==
    ASSUME RequestInv, CacheInv, NEW r \in Requests, NEW new \in Request,
           Whole(new), Authorised(new), req' = [req EXCEPT ![r] = new],
           \A t \in Tenants : t \notin loose /\ Known(t) => Current(new, byId[t], t)
    PROVE  \A q \in Requests, t \in Tenants :
              t \notin loose /\ Known(t) => Current(req'[q], byId[t], t)
<1>1. req'[r] = new /\ \A q \in Requests : q # r => req'[q] = req[q]
  BY OneRequestChanges
<1>2. \A q \in Requests, t \in Tenants :
          t \notin loose /\ Known(t) => Current(req[q], byId[t], t)
  BY CacheParts DEF CacheInv
<1> QED  BY <1>1, <1>2

LEMMA CachesStay ==
    ASSUME RequestInv, CacheInv, UNCHANGED <<store, loose, cache>>,
           \A q \in Requests, t \in Tenants :
              t \notin loose /\ Known(t) => Current(req'[q], byId[t], t)
    PROVE  CacheInv'
<1>1. byId' = byId /\ routes' = routes /\ loose' = loose /\ runtimes' = runtimes
      /\ senders' = senders
  BY DEF store, cache
<1>2. \A t \in Tenants : /\ Known(t)' <=> Known(t)
                         /\ RoutedHere(t)' <=> RoutedHere(t)
                         /\ Cached(t)' <=> Cached(t)
  BY <1>1 DEF Known, RoutedHere, Cached
<1>3. RuntimesFollowTenants'
  BY <1>1, <1>2, CacheParts DEF CacheInv
<1>4. RequestsFollowTenants'
  BY <1>1, <1>2, CacheParts DEF CacheInv
<1> QED  BY <1>1, <1>3, <1>4 DEF CacheInv

(* The requests' own steps.                                                *)
LEMMA ContinuesKeepsCacheInv ==
    ASSUME RequestInv, CacheInv, NEW r \in Requests, Continues(r)
    PROVE  CacheInv'
<1> DEFINE o == req[r].tenant
<1>1. PICK new : Follows(req[r], new) /\ req' = [req EXCEPT ![r] = new]
  BY ContinuesFollow
<1>2. \A t \in Tenants : t \notin loose /\ Known(t) => Current(req[r], byId[t], t)
  BY CacheParts DEF CacheInv
<1>3. \A t \in Tenants : t \notin loose /\ Known(t) => Current(new, byId[t], t)
  BY <1>1, <1>2 DEF Follows, Current
<1>4. \A q \in Requests, t \in Tenants :
          t \notin loose /\ Known(t) => Current(req'[q], byId[t], t)
  BY <1>1, <1>3, OthersStayCurrent DEF Follows
<1>5. req[r].stage = "arrived" =>
          o \in Tenant /\ \A t \in Tenants : t \notin loose /\ Known(t) /\ o.id = t => o = byId[t]
  BY <1>2 DEF Current, RequestInv, RequestsAreWhole, Whole
<1>6. UNCHANGED <<store, loose>>
  BY DEF Continues, StartDecision, StartManualSend, ModelFails, Decide, SendEnds, ToolEnds,
       SweepAborts
<1>7. ASSUME UNCHANGED cache PROVE CacheInv'
  BY <1>4, <1>6, <1>7, CachesStay
<1>8. ASSUME StartDecision(r), ~ UNCHANGED cache PROVE CacheInv'
  <2>1. req[r].stage = "arrived" /\ RuntimeFor(o)
    BY <1>8 DEF StartDecision
  <2>2. o \in Tenant
    BY <1>5, <2>1
  <2> HIDE DEF o
  <2> QED  BY <1>4, <1>5, <1>6, <2>1, <2>2, RuntimeForFacts, TakenKeepsCacheInv
<1>9. ASSUME StartManualSend(r), ~ UNCHANGED cache PROVE CacheInv'
  <2>1. req[r].stage = "arrived" /\ SenderFor(o) /\ runtimes' = runtimes
    BY <1>9 DEF StartManualSend, cache
  <2>2. o \in Tenant
    BY <1>5, <2>1
  <2> HIDE DEF o
  <2>3. /\ senders' \in [Tenants -> (SUBSET Numbers) \cup {Uncached}]
        /\ runtimes' \in [Tenants -> (SUBSET Numbers) \cup {Uncached}]
        /\ \A t \in Tenants : t # o.id => senders'[t] = senders[t] /\ runtimes'[t] = runtimes[t]
        /\ senders'[o.id] \in {senders[o.id], o.legacy}
        /\ runtimes'[o.id] \in {runtimes[o.id], senders[o.id], o.legacy}
    BY <2>1, <2>2, SenderForFacts DEF CacheInv
  <2> QED  BY <1>4, <1>5, <1>6, <2>1, <2>2, <2>3, TakenKeepsCacheInv
<1>10. \/ StartDecision(r) \/ StartManualSend(r) \/ UNCHANGED cache
  BY DEF Continues, ModelFails, Decide, SendEnds, ToolEnds, SweepAborts
<1> QED  BY <1>7, <1>8, <1>9, <1>10

LEMMA SweepKeepsCacheInv ==
    ASSUME RequestInv, CacheInv, NEW r \in Requests, NEW o \in req[r].queue,
           ModerateTenant(r, o)
    PROVE  CacheInv'
<1>1. PICK new :
          /\ req' = [req EXCEPT ![r] = new] /\ new \in Request
          /\ Whole(new) /\ Authorised(new)
          /\ new.stage # "arrived" /\ new.queue \subseteq req[r].queue
  BY ModerateFacts
<1>2. \A t \in Tenants : t \notin loose /\ Known(t) => Current(req[r], byId[t], t)
  BY CacheParts DEF CacheInv
<1>3. \A t \in Tenants : t \notin loose /\ Known(t) => Current(new, byId[t], t)
  BY <1>1, <1>2 DEF Current
<1>4. \A q \in Requests, t \in Tenants :
          t \notin loose /\ Known(t) => Current(req'[q], byId[t], t)
  BY <1>1, <1>3, OthersStayCurrent
<1>5. \A t \in Tenants : t \notin loose /\ Known(t) /\ o.id = t => o = byId[t]
  BY <1>2 DEF Current
<1>6. o \in Tenant
  BY RequestFields DEF RequestInv
<1>7. RuntimeFor(o) /\ UNCHANGED <<store, loose>>
  BY DEF ModerateTenant
<1> QED  BY <1>4, <1>5, <1>6, <1>7, RuntimeForFacts, TakenKeepsCacheInv

(* A request that is made holds what is listed, or what its number led to. *)
LEMMA ArrivalsKeepCacheInv ==
    ASSUME StoreTypeOK, RequestInv, CacheInv, NEW r \in Requests,
           \/ \E n \in Numbers, c \in Customers : MessageArrives(r, n, c)
           \/ \E t \in Tenants, c \in Customers : OperatorWrites(r, t, c)
           \/ \E S \in SUBSET Tenants, dry, forced \in BOOLEAN : StartSweep(r, S, dry, forced)
    PROVE  CacheInv'
<1>1. UNCHANGED <<store, loose, cache>>
  BY DEF MessageArrives, OperatorWrites, StartSweep
<1>2. ASSUME NEW new \in Request, Whole(new), Authorised(new), req' = [req EXCEPT ![r] = new],
             \A t \in Tenants : t \notin loose /\ Known(t) => Current(new, byId[t], t)
      PROVE  CacheInv'
  BY <1>1, <1>2, OthersStayCurrent, CachesStay
<1>3. ASSUME NEW n \in Numbers, NEW c \in Customers, MessageArrives(r, n, c)
      PROVE  CacheInv'
  <2>4. \E new \in Request :
            /\ req' = [req EXCEPT ![r] = new] /\ Whole(new) /\ Authorised(new)
            /\ new.stage = "arrived" /\ new.tenant = routes[n] /\ new.queue = {}
            /\ new.answer = {} /\ new.at = c
            /\ new.asked = threads[<<routes[n].id, c>>].seq + 1
    BY <1>3, ArrivalFacts, SMTT(60)
  <2>1. PICK new \in Request :
            /\ req' = [req EXCEPT ![r] = new] /\ Whole(new) /\ Authorised(new)
            /\ new.stage = "arrived" /\ new.tenant = routes[n] /\ new.queue = {}
    BY <2>4, Zenon
  <2>2. \A t \in Tenants : t \notin loose /\ Known(t) => RoutedHere(t)
    BY CacheParts DEF CacheInv
  <2>3. \A t \in Tenants : t \notin loose /\ Known(t) => Current(new, byId[t], t)
    BY <2>1, <2>2 DEF Current, RoutedHere
  <2> QED  BY <1>2, <2>1, <2>3
<1>4. ASSUME NEW u \in Tenants, NEW c \in Customers, OperatorWrites(r, u, c)
      PROVE  CacheInv'
  <2>1. PICK new \in Request :
            /\ req' = [req EXCEPT ![r] = new] /\ Whole(new) /\ Authorised(new)
            /\ new.tenant = byId[u] /\ new.tenant.id = u /\ new.queue = {}
    BY <1>4, OperatorFacts
  <2>2. \A t \in Tenants : t \notin loose /\ Known(t) => Current(new, byId[t], t)
    BY <2>1 DEF Current
  <2> QED  BY <1>2, <2>1, <2>2
<1>5. ASSUME NEW S \in SUBSET Tenants, NEW dry \in BOOLEAN, NEW forced \in BOOLEAN,
             StartSweep(r, S, dry, forced)
      PROVE  CacheInv'
  <2>1. \E new \in Request :
            /\ req' = [req EXCEPT ![r] = new] /\ Whole(new) /\ Authorised(new)
            /\ new.stage = "sweeping"
            /\ \A o \in new.queue : \E t \in Tenants : Known(t) /\ o = byId[t]
    BY <1>5, SweepFacts, ZenonT(60)
  <2>2. PICK new \in Request :
            /\ req' = [req EXCEPT ![r] = new] /\ Whole(new) /\ Authorised(new)
            /\ new.stage = "sweeping"
            /\ \A o \in new.queue : \E t \in Tenants : Known(t) /\ o = byId[t]
    BY <2>1
  <2>3. \A t \in Tenants : t \notin loose /\ Known(t) => Current(new, byId[t], t)
    BY <2>2 DEF Current, Known
  <2> QED  BY <1>2, <2>2, <2>3
<1> QED  BY <1>3, <1>4, <1>5

(* A change of a tenant leaves the others, and what leads to them, alone.  *)
LEMMA IndexStaysHome ==
    ASSUME StoreTypeOK, NEW o \in Tenant, NEW outcome, Index(o, outcome)
    PROVE  \A u \in Tenants : u # o.id =>
              /\ byId'[u] = byId[u]
              /\ \A n \in Numbers : routes'[n].id = u => routes'[n] = routes[n]
<1> SUFFICES ASSUME NEW u \in Tenants, u # o.id
             PROVE  /\ byId'[u] = byId[u]
                    /\ \A n \in Numbers : routes'[n].id = u => routes'[n] = routes[n]
  OBVIOUS
<1>1. ASSUME NEW n \in Numbers PROVE routes'[n] \in {o, NoTenant, routes[n]}
  BY DEF Index, Deindexed
<1>2. byId'[u] = byId[u]
  BY DEF Index, StoreTypeOK
<1>3. NoTenant.id # u
  BY TenantIds DEF NoTenant
<1> QED  BY <1>1, <1>2, <1>3

LEMMA ChangeStaysHome ==
    ASSUME StoreTypeOK, NEW t \in Tenants, NEW outcome \in Outcomes, ChangeTenant(t, outcome)
    PROVE  \A u \in Tenants : u # t =>
              /\ byId'[u] = byId[u]
              /\ \A n \in Numbers : routes'[n].id = u => routes'[n] = routes[n]
<1>1. ASSUME NEW o \in Fresh(t), Create(o, outcome)
      PROVE  \E p \in Tenant : p.id = t /\ Index(p, outcome)
  BY <1>1, ChangesAreTyped DEF Create
<1>2. ASSUME Known(t), NEW o \in Patched(byId[t]), Update(o, outcome)
      PROVE  \E p \in Tenant : p.id = t /\ Index(p, outcome)
  BY <1>2, ChangesAreTyped DEF Update
<1>3. ASSUME NEW n \in Numbers, AddNumber(t, n, outcome)
      PROVE  \E p \in Tenant : p.id = t /\ Index(p, outcome)
  <2> DEFINE base == IF byId[t].listed /\ byId[t].numbers # {} THEN byId[t].numbers
                     ELSE byId[t].legacy
             p == [byId[t] EXCEPT !.listed = TRUE, !.numbers = base \cup {n}]
  <2>1. Known(t) /\ Index(p, outcome)
    BY <1>3 DEF AddNumber
  <2>2. byId[t] \in Tenant /\ byId[t].id = t
    BY <2>1, TenantTypes, TenantIds DEF StoreTypeOK, Known
  <2>3. base \subseteq Numbers
    BY <2>2 DEF Tenant
  <2> HIDE DEF base
  <2>4. p \in Tenant /\ p.id = t
    BY <2>2, <2>3 DEF Tenant
  <2> QED  BY <2>1, <2>4
<1>4. ASSUME NEW n \in Numbers, RemoveNumber(t, n, outcome)
      PROVE  \E p \in Tenant : p.id = t /\ Index(p, outcome)
  <2> DEFINE p == [byId[t] EXCEPT !.numbers = byId[t].numbers \ {n}]
  <2>1. Known(t) /\ Index(p, outcome)
    BY <1>4 DEF RemoveNumber
  <2>2. byId[t] \in Tenant /\ byId[t].id = t
    BY <2>1, TenantTypes, TenantIds DEF StoreTypeOK, Known
  <2>3. p \in Tenant /\ p.id = t
    BY <2>2 DEF Tenant
  <2> QED  BY <2>1, <2>3
<1>5. ASSUME Delete(t, outcome)
      PROVE  \A u \in Tenants : u # t =>
                /\ byId'[u] = byId[u]
                /\ \A n \in Numbers : routes'[n].id = u => routes'[n] = routes[n]
  <2>1. \A n \in Numbers : routes'[n] \in {NoTenant, routes[n]}
    BY <1>5 DEF Delete, Deindexed
  <2>2. \A u \in Tenants : u # t => byId'[u] = byId[u]
    BY <1>5 DEF Delete
  <2>3. \A u \in Tenants : NoTenant.id # u
    BY TenantIds DEF NoTenant
  <2> QED  BY <2>1, <2>2, <2>3
<1> QED  BY <1>1, <1>2, <1>3, <1>4, <1>5, IndexStaysHome DEF ChangeTenant
LEMMA ChangeKeepsCacheInv ==
    ASSUME StoreTypeOK, RequestInv, CacheInv, NEW t \in Tenants, NEW outcome \in Outcomes,
           ChangeTenant(t, outcome)
    PROVE  CacheInv'
<1>1. req' = req /\ Changed(t, outcome)
  BY DEF ChangeTenant
<1>2. \A u \in Tenants : u # t =>
          /\ byId'[u] = byId[u]
          /\ \A n \in Numbers : routes'[n].id = u => routes'[n] = routes[n]
  BY ChangeStaysHome
<1>3. /\ runtimes' \in [Tenants -> (SUBSET Numbers) \cup {Uncached}]
      /\ senders' \in [Tenants -> (SUBSET Numbers) \cup {Uncached}]
      /\ loose' \subseteq Tenants
      /\ \A u \in Tenants : u # t =>
            /\ runtimes'[u] = runtimes[u] /\ senders'[u] = senders[u]
            /\ u \in loose' <=> u \in loose
  BY <1>1 DEF Changed, CacheInv, cache
<1>4. t \notin loose' => /\ outcome = "written" /\ ~ Straddled(t)'
                         /\ runtimes'[t] = Uncached /\ senders'[t] = Uncached
  BY <1>1 DEF Changed, CacheInv
<1>5. ASSUME NEW u \in Tenants, u # t, u \notin loose', Known(u)'
      PROVE  Cached(u)' /\ RoutedHere(u)' /\ \A r \in Requests : Current(req'[r], byId'[u], u)
  <2>1. u \notin loose /\ Known(u) /\ byId'[u] = byId[u]
    BY <1>2, <1>3, <1>5 DEF Known
  <2>2. Cached(u) /\ RoutedHere(u) /\ \A r \in Requests : Current(req[r], byId[u], u)
    BY <2>1, CacheParts DEF CacheInv
  <2>3. Cached(u)'
    BY <1>3, <1>5, <2>1, <2>2 DEF Cached
  <2>4. RoutedHere(u)'
    BY <1>2, <1>5, <2>1, <2>2 DEF RoutedHere
  <2> QED  BY <1>1, <2>1, <2>2, <2>3, <2>4
<1>6. ASSUME t \notin loose'
      PROVE  Cached(t)' /\ RoutedHere(t)' /\ \A r \in Requests : Current(req'[r], byId'[t], t)
  <2>1. ~ Straddled(t)' /\ runtimes'[t] = Uncached /\ senders'[t] = Uncached
    BY <1>4, <1>6
  <2>2. Cached(t)'
    BY <2>1 DEF Cached
  <2>3. RoutedHere(t)'
    BY <2>1 DEF RoutedHere, Straddled
  <2>4. \A r \in Requests : Current(req'[r], byId'[t], t)
    BY <2>1 DEF Current, Straddled
  <2> QED  BY <2>2, <2>3, <2>4
<1>7. RuntimesFollowTenants' /\ RequestsFollowTenants'
  BY <1>5, <1>6, CacheParts
<1> QED  BY <1>3, <1>7 DEF CacheInv

LEMMA RestartKeepsCacheInv ==
    ASSUME StoreInv, RequestInv, CacheInv, Restart
    PROVE  CacheInv'
<1>1. /\ runtimes' = [t \in Tenants |-> Uncached] /\ senders' = [t \in Tenants |-> Uncached]
      /\ loose' = {} /\ byId' = file /\ routes' = RoutesOf(file) /\ Disjoint(file)
  BY DEF Restart, Load
<1>2. \A n \in Numbers, t \in Tenants : routes'[n].id = t => routes'[n] = byId'[t]
  BY <1>1, LoadedIsRouted DEF StoreInv, StoreTypeOK
<1>3. \A r \in Requests, t \in Tenants : Current(req'[r], byId'[t], t)
  BY RestartFacts, IdleHoldsNothing DEF Current
<1>4. \A t \in Tenants : Cached(t)' /\ RoutedHere(t)'
  BY <1>1, <1>2 DEF Cached, RoutedHere
<1>5. RuntimesFollowTenants' /\ RequestsFollowTenants'
  BY <1>3, <1>4, CacheParts
<1> QED  BY <1>1, <1>5 DEF CacheInv

LEMMA CacheStep == StoreInv /\ RequestInv /\ CacheInv /\ [Next]_vars => CacheInv'
<1> SUFFICES ASSUME StoreInv, RequestInv, CacheInv, [Next]_vars PROVE CacheInv'
  OBVIOUS
<1>1. StoreTypeOK
  BY DEF StoreInv
<1>2. ASSUME UNCHANGED <<store, loose, cache, req>> PROVE CacheInv'
  <2>1. \A q \in Requests, t \in Tenants :
            t \notin loose /\ Known(t) => Current(req'[q], byId[t], t)
    BY <1>2, CacheParts DEF CacheInv
  <2> QED  BY <1>2, <2>1, CachesStay
<1>3. ASSUME NEW r \in Requests,
             \/ \E n \in Numbers, c \in Customers : MessageArrives(r, n, c)
             \/ \E t \in Tenants, c \in Customers : OperatorWrites(r, t, c)
             \/ \E S \in SUBSET Tenants, dry, forced \in BOOLEAN : StartSweep(r, S, dry, forced)
      PROVE  CacheInv'
  BY <1>1, <1>3, ArrivalsKeepCacheInv
<1>4. ASSUME NEW r \in Requests, Continues(r) PROVE CacheInv'
  BY <1>4, ContinuesKeepsCacheInv
<1>5. ASSUME NEW r \in Requests, NEW o \in req[r].queue, ModerateTenant(r, o)
      PROVE  CacheInv'
  BY <1>5, SweepKeepsCacheInv
<1>6. ASSUME NEW t \in Tenants, NEW c \in Customers, SetControl(t, c) PROVE CacheInv'
  BY <1>2, <1>6 DEF SetControl
<1>7. ASSUME NEW t \in Tenants, NEW outcome \in Outcomes, ChangeTenant(t, outcome)
      PROVE  CacheInv'
  BY <1>1, <1>7, ChangeKeepsCacheInv
<1>8. Restart => CacheInv'
  BY RestartKeepsCacheInv
<1>9. UNCHANGED vars => UNCHANGED <<store, loose, cache, req>>
  BY DEF vars
<1> QED  BY <1>2, <1>3, <1>4, <1>5, <1>6, <1>7, <1>8, <1>9
         DEF Next, Continues, ToolSettles, ToolTimesOut

LEMMA CacheInit == Init => CacheInv
<1> SUFFICES ASSUME Init PROVE CacheInv
  OBVIOUS
<1>1. PICK scenario \in Scenarios :
          byId = scenario.tenants /\ routes = RoutesOf(scenario.tenants)
  BY DEF Init
<1>2. /\ runtimes = [t \in Tenants |-> Uncached] /\ senders = [t \in Tenants |-> Uncached]
      /\ req = [r \in Requests |-> Idle] /\ loose = {}
  BY DEF Init
<1>3. \A n \in Numbers, t \in Tenants : routes[n].id = t => routes[n] = byId[t]
  BY <1>1, ScenarioConstants, LoadedIsRouted
<1>4. \A r \in Requests, t \in Tenants : Current(req[r], byId[t], t)
  BY <1>2, IdleHoldsNothing DEF Current
<1>5. \A t \in Tenants : Cached(t) /\ RoutedHere(t)
  BY <1>2, <1>3 DEF Cached, RoutedHere
<1>6. RuntimesFollowTenants /\ RequestsFollowTenants
  BY <1>4, <1>5, CacheParts
<1> QED  BY <1>2, <1>6 DEF CacheInv

(* The types, the caches and what both rest on: a runtime or a sender of a *)
(* tenant that no request straddled is that of its present configuration.  *)
THEOREM SupervisionIsSound == Spec => []SupervisionInv
<1>1. StoreInv /\ RequestInv /\ ReplyInv /\ CacheInv => SupervisionInv
  BY DEF StoreInv, RequestInv, ReplyInv, CacheInv, SupervisionInv, TypeOK
<1>2. StoreInv /\ RequestInv /\ [Next]_vars => RequestInv'
  BY RequestStep DEF StoreInv
<1>3. StoreInv /\ RequestInv /\ ReplyInv /\ [Next]_vars => ReplyInv'
  BY ReplyStep DEF StoreInv
<1> QED  BY <1>1, <1>2, <1>3, CacheStep, RequestInit, ReplyInit, CacheInit,
            SupervisedTenantsStayRouted, PTL DEF Spec
=============================================================================
