---------------------------- MODULE MCSupervision ----------------------------
(***************************************************************************)
(* Two tenants, two numbers; each scenario is a configuration, some        *)
(* conversations, and how much of each kind may happen.                    *)
(***************************************************************************)
EXTENDS Supervision, TLC
CONSTANTS t1, t2, n1, n2, c1, c2

Tool(id) == [tool |-> id, type |-> None]
OldBrowser == [tool |-> None, type |-> "browser"]
Rule(id, intent, effect, action, priority, capability) ==
    [id |-> id, intents |-> {intent}, effect |-> effect, action |-> action,
     priority |-> priority, channels |-> {}, floor |-> 0, capability |-> capability]
V1 == [version |-> 1, minConfidence |-> 1, defaultEffect |-> None, defaultAction |-> "reply",
       rules |-> <<Rule(1, "refund", None, "act", 0, OldBrowser),
                   Rule(2, "faq", None, "draft", 0, NoCapability)>>]
V2 == [version |-> 2, minConfidence |-> 1, defaultEffect |-> None, defaultAction |-> None,
       rules |-> <<Rule(1, "faq", "allow", "reply", 3, NoCapability),
                   Rule(2, "refund", "allow", "act", 3, Tool("browser.run")),
                   [Rule(3, "refund", "require_approval", "act", 1, Tool("billing")) EXCEPT !.floor = 2],
                   [Rule(4, "faq", "deny", None, 2, NoCapability) EXCEPT !.channels = {"telegram"}]>>]
V2Open == [V2 EXCEPT !.defaultEffect = "allow", !.defaultAction = "reply",
                     !.rules = <<Rule(2, "refund", "allow", "act", 5, Tool("browser.run")),
                                 Rule(1, "refund", "allow", "act", 5, Tool("billing")),
                                 Rule(3, "refund", "deny", None, 1, NoCapability)>>]
V2Broken == [V2 EXCEPT !.rules = <<Rule(1, "faq", "allow", "reply", 3, NoCapability),
                                   Rule(2, "refund", "allow", "delete", 3, NoCapability)>>]
V2Twins == [V2 EXCEPT !.rules = <<Rule(1, "faq", "allow", "reply", 3, Tool("browser.run")),
                                  Rule(1, "refund", "allow", "act", 3, Tool("billing"))>>]
MCContents == [v1 |-> V1, v2 |-> V2, open |-> V2Open, broken |-> V2Broken, twins |-> V2Twins]
MCPolicies == DOMAIN MCContents

Answer(intent, confidence, requested) ==
    [intent |-> intent, confidence |-> confidence, requested |-> requested, reply |-> TRUE]
MCDecisions == {Answer("faq", 1, "reply"), Answer("refund", 1, "act"), Answer("refund", 2, None),
                Answer("refund", 1, "reply"), Answer("faq", 0, "act"), Answer("faq", 1, "human"),
                [Answer("faq", 1, None) EXCEPT !.reply = FALSE]}

Owner(t, n, p) == [id |-> t, legacy |-> {n}, listed |-> FALSE, numbers |-> {}, policy |-> p,
                   shadow |-> FALSE]
Quiet == [at \in {t1, t2} \X {c1, c2} |-> NewThread]
Asked == [NewThread EXCEPT !.last = "inbound", !.seq = 1]
Spoken == [NewThread EXCEPT !.last = "outbound", !.seq = 1, !.answers = 1]
Budget(messages, sweeps, operator, changes, faults) ==
    [messages |-> messages, sweeps |-> sweeps, operator |-> operator, changes |-> changes,
     faults |-> faults]
One(p) == t1 :> Owner(t1, n1, p) @@ t2 :> NoTenant
Both == t1 :> Owner(t1, n1, "v2") @@ t2 :> Owner(t2, n2, "v1")
Moved == t1 :> [Owner(t1, n1, "v2") EXCEPT !.listed = TRUE]
         @@ t2 :> [Owner(t2, n2, "v1") EXCEPT !.listed = TRUE, !.numbers = {n1}]

MCScenarios ==
    {[tenants |-> One(p), threads |-> [Quiet EXCEPT ![t1, c1] = Asked, ![t1, c2] = Spoken],
      budget |-> Budget(0, 1, 1, 0, 0)] : p \in MCPolicies} \cup
    {[tenants |-> One("v2"), threads |-> [Quiet EXCEPT ![t1, c1] = Spoken],
      budget |-> Budget(1, 2, 0, 0, 1)],
     [tenants |-> One("v2"), threads |-> [Quiet EXCEPT ![t1, c1] = Spoken, ![t1, c2] = Spoken],
      budget |-> Budget(1, 1, 0, 0, 0)],
     [tenants |-> Both, threads |-> Quiet, budget |-> Budget(0, 0, 0, 2, 1)],
     [tenants |-> Moved, threads |-> Quiet, budget |-> Budget(0, 0, 0, 3, 0)],
     [tenants |-> Both, threads |-> [Quiet EXCEPT ![t2, c1] = Asked],
      budget |-> Budget(0, 1, 0, 1, 0)],
     [tenants |-> One("v2"), threads |-> Quiet, budget |-> Budget(0, 0, 2, 1, 0)],
     [tenants |-> One("v2"), threads |-> Quiet, budget |-> Budget(1, 0, 1, 1, 0)]}
=============================================================================
