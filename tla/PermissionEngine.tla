--------------------------- MODULE PermissionEngine ---------------------------
(***************************************************************************)
(* evaluatePermission: what a tenant's policy lets a model's decision do.  *)
(* A policy of version 1 looks the intent up in its rules; one of version  *)
(* 2 takes, of the rules that cover the decision, the one with the         *)
(* strongest effect.  Confidences, floors and priorities are naturals; a   *)
(* rule's id is its place in the string order.  "none" is an absent field. *)
(***************************************************************************)
EXTENDS Naturals, Sequences

None == "none"
AutonomyActions == {"ignore", "draft", "reply", "act", "human"}
Effects == {"allow", "require_approval", "deny"}
AuthorityRank == [draft |-> 1, reply |-> 2, act |-> 3]
EffectRank == [allow |-> 1, require_approval |-> 2, deny |-> 3]

(* What evaluatePermission returns; rule 0 is no rule.  The callers treat  *)
(* an exception as no permission at all.                                   *)
Verdict(action, rule) == [action |-> action, rule |-> rule]
Throws == Verdict("throws", 0)
Checked(action, rule) ==
    IF action \in AutonomyActions THEN Verdict(action, rule) ELSE Throws

(* The model may ask for less than the rule grants, never for more.        *)
Ceiling(granted, requested) ==
    IF \/ granted \notin DOMAIN AuthorityRank
       \/ requested \in DOMAIN AuthorityRank
             /\ AuthorityRank[requested] >= AuthorityRank[granted]
       \/ requested = None
      THEN granted ELSE requested

First(S) == CHOOSE i \in S : \A j \in S : i <= j

EvaluateV1(p, d) ==
    LET found == {i \in DOMAIN p.rules : p.rules[i].intents = {d.intent}}
        rule == p.rules[First(found)]
    IN  IF d.confidence < p.minConfidence THEN Verdict("human", 0)
        ELSE IF found = {}
        THEN Checked(IF p.defaultAction = None THEN "human" ELSE p.defaultAction, 0)
        ELSE IF rule.action \in AutonomyActions
        THEN Verdict(Ceiling(rule.action, d.requested), First(found))
        ELSE Throws

ValidRule(r) ==
    /\ r.intents # {} /\ r.effect \in Effects
    /\ r.action \in AutonomyActions \/ (r.effect = "deny" /\ r.action = None)

RuleMatches(r, d, channel) ==
    /\ d.intent \in r.intents
    /\ r.channels = {} \/ channel \in r.channels
    /\ d.confidence >= r.floor

Matching(p, d, channel) ==
    {i \in DOMAIN p.rules : RuleMatches(p.rules[i], d, channel)}

OutranksByPriority(p, i, j) ==          \* mutant: the effect is looked at last
    LET a == p.rules[i]  b == p.rules[j]
    IN  \/ a.priority > b.priority
        \/ a.priority = b.priority /\ EffectRank[a.effect] > EffectRank[b.effect]
        \/ a.priority = b.priority /\ a.effect = b.effect /\ i < j

(* The order of the sort: effect, priority, id, and place.                 *)
Outranks(p, i, j) ==
    LET a == p.rules[i]  b == p.rules[j]
    IN  \/ EffectRank[a.effect] > EffectRank[b.effect]
        \/ /\ EffectRank[a.effect] = EffectRank[b.effect]
           /\ \/ a.priority > b.priority
              \/ /\ a.priority = b.priority
                 /\ a.id < b.id \/ (a.id = b.id /\ i < j)

SelectRule(p, d, channel) ==
    CHOOSE i \in Matching(p, d, channel) :
        \A j \in Matching(p, d, channel) : ~ Outranks(p, j, i)

DefaultV2(p) ==
    CASE p.defaultEffect \in {None, "deny"} -> Verdict("human", 0)
      [] p.defaultEffect = "require_approval" ->
            IF p.defaultAction \in AutonomyActions THEN Verdict("human", 0) ELSE Throws
      [] OTHER -> Checked(p.defaultAction, 0)

EvaluateV2(p, d, channel) ==
    LET i == SelectRule(p, d, channel)
    IN  IF \/ p.defaultEffect \notin Effects \cup {None}
           \/ \E j \in DOMAIN p.rules : ~ ValidRule(p.rules[j]) THEN Throws
        ELSE IF d.confidence < p.minConfidence THEN Verdict("human", 0)
        ELSE IF Matching(p, d, channel) = {} THEN DefaultV2(p)
        ELSE IF p.rules[i].effect = "allow"
        THEN Verdict(Ceiling(p.rules[i].action, d.requested), i)
        ELSE Verdict("human", i)

EvaluatePermission(p, d, channel) ==
    IF p.version = 2 THEN EvaluateV2(p, d, channel) ELSE EvaluateV1(p, d)
=============================================================================
