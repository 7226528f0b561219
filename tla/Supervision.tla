------------------------------ MODULE Supervision ------------------------------
(***************************************************************************)
(* What the supervisor does for its tenants while their configuration      *)
(* changes: messages that arrive at a number, the moderator's sweeps over  *)
(* the conversations, the operator's own sends, and the cache of runtimes  *)
(* and senders they share.  A request keeps the tenant object it looked    *)
(* up; an await lies between each two of its steps.                        *)
(***************************************************************************)
EXTENDS TenantStore, PermissionEngine, FiniteSets

CONSTANTS Requests, Customers,
          Contents,         \* a policy's name -> the policy
          Decisions,        \* what a model may answer
          Browser,          \* whether a browser runtime is configured
          ProactiveLimit,
          MaxMessages, Scenarios

VARIABLES runtimes, senders,  \* tenant id -> the number its sender sends from
          req,                \* request -> where it is and what it holds
          threads,            \* tenant id, customer -> the conversation
          loose,              \* tenants whose change a request straddled, or that failed
          budget

cache == <<runtimes, senders>>
vars == <<store, cache, req, threads, loose, budget>>

Channel == "whatsapp"

(* A capability names a tool of the registry, or else its type.            *)
NoCapability == [tool |-> None, type |-> None]
Registered == IF Browser THEN {"browser.run"} ELSE {}
Runs(capability) ==
    IF capability.tool # None THEN capability.tool \in Registered
    ELSE capability.type = "browser" /\ Browser
Uncached == {"none"}
NoDecision == [intent |-> None, confidence |-> 0, requested |-> None, reply |-> FALSE]

(* answer: the unanswered messages of the tenant a sweep is at, each the   *)
(* customer and the message's number; nudge: the customers to follow up.   *)
(* asked is the message a request is at, 0 for a follow-up.                *)
Idle == [stage |-> "idle", kind |-> None, tenant |-> NoTenant, queue |-> {}, answer |-> {},
         nudge |-> {}, at |-> None, asked |-> 0, followups |-> 0, dry |-> FALSE,
         forced |-> FALSE, decision |-> NoDecision, action |-> None, capability |-> NoCapability]

(* last: who wrote last; seq: the customer's messages; answers: the        *)
(* replies sent to the latest one; contested: two requests had it in hand  *)
(* at once, or a reply to it went out and was not recorded.                *)
Thread == [last : {"none", "inbound", "outbound"}, seq : 0..MaxMessages, human : BOOLEAN,
           answers : Nat, contested : BOOLEAN]

Consistent(thread) ==
    /\ thread.last = "inbound" => thread.seq > 0
    /\ ~ thread.contested =>
          thread.answers <= 1 /\ (thread.last = "inbound" => thread.answers = 0)

Capabilities ==
    {NoCapability} \cup
    UNION {{Contents[p].rules[i].capability : i \in DOMAIN Contents[p].rules} : p \in Policies}

Request ==
    [stage : {"idle", "arrived", "sweeping", "model", "sending", "tool"},
     kind : {None, "inbound", "manual", "sweep"}, tenant : Tenant \cup {NoTenant},
     queue : SUBSET Tenant, answer : SUBSET (Customers \X (1..MaxMessages)),
     nudge : SUBSET Customers, at : Customers \cup {None}, asked : 0..MaxMessages,
     followups : 0..ProactiveLimit, dry : BOOLEAN, forced : BOOLEAN,
     decision : Decisions \cup {NoDecision}, action : {None, "reply", "act"},
     capability : Capabilities]

TypeOK ==
    /\ StoreTypeOK
    /\ runtimes \in [Tenants -> (SUBSET Numbers) \cup {Uncached}]
    /\ senders \in [Tenants -> (SUBSET Numbers) \cup {Uncached}]
    /\ req \in [Requests -> Request]
    /\ threads \in [Tenants \X Customers -> Thread]
    /\ loose \subseteq Tenants

(* A rule of version 1 has one intent.  Several rules may have one id, or  *)
(* none, as nothing in the code tells them apart.                          *)
ASSUME PolicyConstants ==
    /\ \A name \in Policies : LET p == Contents[name] IN
          /\ p.version \in {1, 2} /\ p.minConfidence \in Nat
          /\ Len(p.rules) \in Nat /\ DOMAIN p.rules = 1..Len(p.rules)
          /\ \A i \in DOMAIN p.rules :
                /\ p.rules[i].id \in Nat /\ p.rules[i].priority \in Nat
                /\ p.version = 1 =>
                      \E intent \in p.rules[i].intents : p.rules[i].intents = {intent}
    /\ \A d \in Decisions : d.confidence \in Nat /\ d.reply \in BOOLEAN

(* What a process finds on disk: tenants that loadConfig and the store's   *)
(* constructor accept, and conversations nobody is at work on.             *)
ASSUME ScenarioConstants ==
    /\ ProactiveLimit \in Nat /\ MaxMessages \in Nat /\ Browser \in BOOLEAN
    /\ \A scenario \in Scenarios :
          /\ scenario.tenants \in [Tenants -> Tenant \cup {NoTenant}]
          /\ \A t \in Tenants : scenario.tenants[t].id \in {t, "none"}
          /\ Accepted(scenario.tenants) /\ Disjoint(scenario.tenants)
          /\ scenario.threads \in [Tenants \X Customers -> Thread]
          /\ \A at \in Tenants \X Customers : Consistent(scenario.threads[at])

Spend(what) == budget[what] > 0 /\ budget' = [budget EXCEPT ![what] = @ - 1]

Become(r, state) == req' = [req EXCEPT ![r] = state]
Conversation(r) == <<req[r].tenant.id, req[r].at>>

(* Whether a request has a message of a conversation in hand, and who has. *)
Holds(s, t, c, seq) ==
    s.tenant.id = t /\ (<<c, seq>> \in s.answer \/ (s.at = c /\ s.asked = seq))
Holders(t, c, seq) == {r \in Requests : Holds(req[r], t, c, seq)}

(* The body of a trigger: the moderator's request, for these tenants.      *)
Sweep(dry, forced, tenants) ==
    [Idle EXCEPT !.stage = "sweeping", !.kind = "sweep", !.dry = dry,
                 !.forced = forced, !.queue = tenants]

(* A request that a message or the operator makes of a tenant.             *)
Arrived(kind, o, c, asked) ==
    [Idle EXCEPT !.stage = "arrived", !.kind = kind, !.tenant = o, !.at = c, !.asked = asked]

(* What a request does once it is done with the conversation it is at.     *)
Settled(s) ==
    IF s.answer # {} \/ (s.nudge # {} /\ s.followups < ProactiveLimit)
    THEN [s EXCEPT !.stage = "model", !.at = None, !.asked = 0,
                   !.decision = NoDecision, !.action = None, !.capability = NoCapability]
    ELSE IF s.queue # {}
    THEN Sweep(s.dry, s.forced, s.queue)
    ELSE Idle

(* createWhatsAppSender: the flat number, whatever the numbers array says; *)
(* without one it throws, and nothing is cached.  Its secret is there.     *)
SendsFrom(o) == o.legacy
SenderReady(o) == senders[o.id] # Uncached \/ SendsFrom(o) # {}
RuntimeReady(o) == runtimes[o.id] # Uncached \/ SenderReady(o)
SenderFor(o) ==
    senders' = [senders EXCEPT ![o.id] = IF @ = Uncached THEN SendsFrom(o) ELSE @]
RuntimeFor(o) ==
    IF runtimes[o.id] # Uncached THEN UNCHANGED cache
    ELSE SenderFor(o) /\ runtimes' = [runtimes EXCEPT ![o.id] = senders'[o.id]]

Received(thread) ==
    [thread EXCEPT !.last = "inbound", !.seq = @ + 1, !.answers = 0, !.contested = FALSE]

(* A message reaches the tenant its number is indexed under.               *)
MessageArrives(r, n, c) ==
    LET o == routes[n]  at == <<o.id, c>>
    IN  /\ req[r] = Idle /\ o # NoTenant /\ Spend("messages")
        /\ threads[at].seq < MaxMessages
        /\ threads' = [threads EXCEPT ![at] = Received(@)]
        /\ Become(r, Arrived("inbound", o, c, threads[at].seq + 1))
        /\ UNCHANGED <<store, cache, loose>>

(* The decision handler, once it has read the ownership: a person has the  *)
(* conversation, or there is no runtime to be had, or it goes on.          *)
StartDecision(r) ==
    /\ req[r].stage = "arrived" /\ req[r].kind = "inbound"
    /\ \/ /\ threads[Conversation(r)].human \/ ~ RuntimeReady(req[r].tenant)
          /\ Become(r, Idle) /\ UNCHANGED cache
       \/ /\ ~ threads[Conversation(r)].human /\ RuntimeReady(req[r].tenant)
          /\ RuntimeFor(req[r].tenant)
          /\ Become(r, [req[r] EXCEPT !.stage = "model"])
    /\ UNCHANGED <<store, threads, loose, budget>>

OperatorWrites(r, t, c) ==
    /\ req[r] = Idle /\ Known(t) /\ Spend("operator")
    /\ Become(r, Arrived("manual", byId[t], c, 0))
    /\ UNCHANGED <<store, cache, threads, loose>>

(* A conversation that no person has taken over answers 409.               *)
StartManualSend(r) ==
    /\ req[r].stage = "arrived" /\ req[r].kind = "manual"
    /\ \/ /\ ~ threads[Conversation(r)].human \/ ~ SenderReady(req[r].tenant)
          /\ Become(r, Idle) /\ UNCHANGED senders
       \/ /\ threads[Conversation(r)].human /\ SenderReady(req[r].tenant)
          /\ SenderFor(req[r].tenant)
          /\ Become(r, [req[r] EXCEPT !.stage = "sending"])
    /\ UNCHANGED <<store, runtimes, threads, loose, budget>>

(* moderateAll over one tenant or all: the list is read once.              *)
StartSweep(r, chosen, dry, forced) ==
    /\ req[r] = Idle /\ Spend("sweeps")
    /\ chosen # {} /\ \A t \in chosen : Known(t)
    /\ chosen = {t \in Tenants : Known(t)} \/ Cardinality(chosen) = 1
    /\ Become(r, Sweep(dry, forced, {byId[t] : t \in chosen}))
    /\ UNCHANGED <<store, cache, threads, loose>>

(* moderateTenant: the conversations too are read once.                    *)
ModerateTenant(r, o) ==
    LET open == {c \in Customers : /\ threads[<<o.id, c>>].last # "none"
                                   /\ req[r].forced \/ ~ threads[<<o.id, c>>].human}
        unanswered == {c \in open : threads[<<o.id, c>>].last = "inbound"}
    IN  /\ req[r].stage = "sweeping" /\ o \in req[r].queue
        /\ RuntimeReady(o) /\ RuntimeFor(o)
        /\ Become(r, Settled([req[r] EXCEPT !.tenant = o, !.queue = @ \ {o},
               !.answer = {<<c, threads[<<o.id, c>>].seq>> : c \in unanswered},
               !.nudge = open \ unanswered]))
        /\ threads' = [at \in DOMAIN threads |->
              IF /\ at[1] = o.id /\ at[2] \in unanswered
                 /\ Holders(o.id, at[2], threads[at].seq) # {}
              THEN [threads[at] EXCEPT !.contested = TRUE] ELSE threads[at]]
        /\ UNCHANGED <<store, loose, budget>>

(* The exception of a tenant without a sender leaves moderateAll: the      *)
(* tenants still in the queue are not looked at.                           *)
SweepAborts(r, o) ==
    /\ req[r].stage = "sweeping" /\ o \in req[r].queue
    /\ ~ RuntimeReady(o)
    /\ Become(r, Idle)
    /\ UNCHANGED <<store, cache, threads, loose, budget>>

(* A message or a follow-up that the request may put to the model now.     *)
Subjects(s) ==
    IF s.kind = "inbound" THEN {<<s.at, s.asked>>}
    ELSE s.answer \cup {<<c, 0>> : c \in IF s.followups < ProactiveLimit THEN s.nudge ELSE {}}
Taking(s, x) ==
    [s EXCEPT !.at = x[1], !.asked = x[2], !.answer = @ \ {x},
              !.nudge = IF x[2] = 0 THEN @ \ {x[1]} ELSE @]

ModelFails(r, x) ==
    /\ req[r].stage = "model" /\ x \in Subjects(req[r])
    /\ Become(r, Settled(Taking(req[r], x)))
    /\ UNCHANGED <<store, cache, threads, loose, budget>>

(* The rule to act on is looked up again by its id.                        *)
CapabilityOf(p, rule) ==
    IF rule = 0 THEN NoCapability
    ELSE p.rules[First({i \in DOMAIN p.rules : p.rules[i].id = p.rules[rule].id})].capability

(* handle, when the model has answered: the policy is that of the tenant   *)
(* the request holds.                                                      *)
Decided(s, d) ==
    LET p == Contents[s.tenant.policy]
        v == EvaluatePermission(p, d, Channel)
        live == ~ s.dry /\ ~ s.tenant.shadow
        reply == live /\ v.action = "reply" /\ d.reply
        act == live /\ v.action = "act" /\ Runs(CapabilityOf(p, v.rule))
    IN  IF reply \/ act
        THEN [s EXCEPT !.stage = IF reply THEN "sending" ELSE "tool", !.decision = d,
                       !.action = v.action, !.capability = CapabilityOf(p, v.rule)]
        ELSE Settled(s)

Decide(r, x, d) ==
    /\ req[r].stage = "model" /\ x \in Subjects(req[r])
    /\ Become(r, Decided(Taking(req[r], x), d))
    /\ UNCHANGED <<store, cache, threads, loose, budget>>

(* What is left of a reply in the conversation; a failed send leaves none. *)
Sent(thread, toLatest, outcome) ==
    [thread EXCEPT !.last = IF outcome = "recorded" THEN "outbound" ELSE @,
                   !.answers = IF toLatest /\ outcome # "failed" THEN @ + 1 ELSE @,
                   !.contested = @ \/ (toLatest /\ outcome = "unrecorded")]

SendForgotten(r, outcome) ==  \* mutant: the sweep does not record what it sent
    LET s == req[r]
        toLatest == s.asked > 0 /\ s.asked = threads[Conversation(r)].seq
    IN  /\ s.stage = "sending" /\ outcome # "unrecorded"
        /\ Become(r, Settled(s))
        /\ threads' = [threads EXCEPT ![Conversation(r)] = [@ EXCEPT
              !.answers = IF toLatest /\ outcome = "recorded" THEN @ + 1 ELSE @]]
        /\ UNCHANGED <<store, cache, loose, budget>>

(* The sender has answered; the reply is recorded unless the audit or the  *)
(* conversation cannot be written.                                         *)
SendEnds(r, outcome) ==
    LET s == req[r]
        toLatest == s.asked > 0 /\ s.asked = threads[Conversation(r)].seq
        after == [s EXCEPT !.followups =
                    IF s.kind = "sweep" /\ s.asked = 0 /\ outcome = "recorded" THEN @ + 1 ELSE @]
    IN  /\ s.stage = "sending"
        /\ IF outcome = "unrecorded" THEN Spend("faults") ELSE UNCHANGED budget
        /\ Become(r, Settled(after))
        /\ threads' = [threads EXCEPT ![Conversation(r)] = Sent(@, toLatest, outcome)]
        /\ UNCHANGED <<store, cache, loose>>

(* An action leaves no message in the conversation, however it ends.       *)
ToolEnds(r) ==
    /\ req[r].stage = "tool"
    /\ Become(r, Settled(req[r]))
    /\ UNCHANGED <<store, cache, threads, loose, budget>>

(* The tool settles, in its own time or never; the registry's deadline     *)
(* ends the wait for it and leaves it running.                             *)
ToolSettles(r) == ToolEnds(r)
NoDeadline(r) == FALSE /\ ToolEnds(r)   \* mutant: the deadline is not raced
ToolTimesOut(r) == ToolEnds(r)

HandedOver(thread) == [thread EXCEPT !.human = ~ @]
SetControl(t, c) ==
    /\ Known(t) /\ Spend("operator")
    /\ threads' = [threads EXCEPT ![<<t, c>>] = HandedOver(@)]
    /\ UNCHANGED <<store, cache, req, loose>>

(* A request that has not taken its sender yet, or a number, that still    *)
(* leads to an object of the tenant other than the one now listed.         *)
Straddled(t) ==
    \/ \E r \in Requests :
          \/ req[r].stage = "arrived" /\ req[r].tenant.id = t
          \/ \E o \in req[r].queue : o.id = t
    \/ \E n \in Numbers : routes[n].id = t /\ routes[n] # byId[t]

ChangedUnheard(t, outcome) ==  \* mutant: onTenantChanged is not called
    /\ UNCHANGED <<runtimes, senders>>
    /\ loose' = IF outcome = "written" /\ ~ Straddled(t)' THEN loose \ {t} ELSE loose \cup {t}

(* onTenantChanged, which an exception of the store or of persist skips.   *)
Changed(t, outcome) ==
    IF outcome = "written"
    THEN /\ runtimes' = [runtimes EXCEPT ![t] = Uncached]
         /\ senders' = [senders EXCEPT ![t] = Uncached]
         /\ loose' = IF Straddled(t)' THEN loose \cup {t} ELSE loose \ {t}
    ELSE loose' = loose \cup {t} /\ UNCHANGED cache

Fresh(t) == {[id |-> t, legacy |-> {n}, listed |-> FALSE, numbers |-> {}, policy |-> p,
              shadow |-> FALSE] : n \in Numbers, p \in Policies}
Patched(o) ==
    {[o EXCEPT !.policy = p] : p \in Policies}
    \cup {[o EXCEPT !.shadow = ~ @], [o EXCEPT !.legacy = {}]}
    \cup {[o EXCEPT !.legacy = {n}] : n \in Numbers}
    \cup {[o EXCEPT !.listed = TRUE, !.numbers = S] : S \in SUBSET Numbers}

ChangeTenant(t, outcome) ==
    /\ \/ \E o \in Fresh(t) : Create(o, outcome)
       \/ Known(t) /\ \E o \in Patched(byId[t]) : Update(o, outcome)
       \/ \E n \in Numbers : AddNumber(t, n, outcome)
       \/ \E n \in Numbers : RemoveNumber(t, n, outcome)
       \/ Delete(t, outcome)
    /\ Spend("changes") /\ UNCHANGED <<req, threads>>
    /\ Changed(t, outcome)

(* The process dies and, if it can, starts again; one that cannot does     *)
(* nothing more.  A reply under way then may or may not have gone out.     *)
Restart ==
    /\ Load /\ Spend("faults")
    /\ runtimes' = [t \in Tenants |-> Uncached] /\ senders' = [t \in Tenants |-> Uncached]
    /\ req' = [r \in Requests |-> Idle] /\ loose' = {}
    /\ threads' = [at \in DOMAIN threads |-> [threads[at] EXCEPT !.contested = @ \/
          \E r \in Requests : /\ req[r].stage = "sending" /\ Conversation(r) = at
                              /\ req[r].asked = threads[at].seq]]

NewThread == [last |-> "none", seq |-> 0, human |-> FALSE, answers |-> 0, contested |-> FALSE]

Init ==
    \E scenario \in Scenarios :
        /\ byId = scenario.tenants /\ file = scenario.tenants /\ torn = FALSE
        /\ routes = RoutesOf(scenario.tenants)
        /\ runtimes = [t \in Tenants |-> Uncached] /\ senders = [t \in Tenants |-> Uncached]
        /\ req = [r \in Requests |-> Idle]
        /\ threads = scenario.threads
        /\ loose = {} /\ budget = scenario.budget

Next ==
    \/ \E r \in Requests :
          \/ \E n \in Numbers, c \in Customers : MessageArrives(r, n, c)
          \/ \E t \in Tenants, c \in Customers : OperatorWrites(r, t, c)
          \/ \E S \in SUBSET Tenants, dry, forced \in BOOLEAN : StartSweep(r, S, dry, forced)
          \/ StartDecision(r) \/ StartManualSend(r)
          \/ \E o \in req[r].queue : ModerateTenant(r, o) \/ SweepAborts(r, o)
          \/ \E x \in Subjects(req[r]) : ModelFails(r, x)
          \/ \E x \in Subjects(req[r]), d \in Decisions : Decide(r, x, d)
          \/ \E outcome \in {"recorded", "failed", "unrecorded"} : SendEnds(r, outcome)
          \/ ToolSettles(r) \/ ToolTimesOut(r)
    \/ \E t \in Tenants, c \in Customers : SetControl(t, c)
    \/ \E t \in Tenants, outcome \in Outcomes : ChangeTenant(t, outcome)
    \/ Restart

(* What waits for nothing but the process itself, a timer or a deadline:   *)
(* the gateway's for the model, the transport's for a send, the registry's *)
(* for a tool.                                                             *)
ModelEnds(r) ==
    \E x \in Subjects(req[r]) : ModelFails(r, x) \/ \E d \in Decisions : Decide(r, x, d)
Fairness ==
    \A r \in Requests :
        /\ WF_vars(StartDecision(r)) /\ WF_vars(StartManualSend(r))
        /\ WF_vars(\E o \in req[r].queue : ModerateTenant(r, o) \/ SweepAborts(r, o))
        /\ WF_vars(ModelEnds(r))
        /\ WF_vars(SendEnds(r, "failed") \/ SendEnds(r, "recorded"))
        /\ WF_vars(ToolTimesOut(r))

Spec == Init /\ [][Next]_vars /\ Fairness

-------------------------------------------------------------------------------
(* What docs/POLICY_V2.md grants, stated without the engine: a rule grants *)
(* its action and what is below it, unless the model asked for less.  The  *)
(* capability is one of the rules with its id, its own if ids are unique.  *)
NoMoreThanAsked(d, action) ==
    \/ d.requested = None
    \/ /\ d.requested \in DOMAIN AuthorityRank
       /\ AuthorityRank[action] <= AuthorityRank[d.requested]

Grants(p, i, d, action, capability) ==
    /\ {p.rules[i].action, action} \subseteq DOMAIN AuthorityRank
    /\ AuthorityRank[action] <= AuthorityRank[p.rules[i].action]
    /\ NoMoreThanAsked(d, action)
    /\ action = "act" =>
          \E j \in DOMAIN p.rules :
              p.rules[j].id = p.rules[i].id /\ p.rules[j].capability = capability

PermittedByRule(p, d, action, capability) ==
    \/ /\ p.version = 2
       /\ \A i \in Matching(p, d, Channel) : p.rules[i].effect = "allow"
       /\ \E i \in Matching(p, d, Channel) : Grants(p, i, d, action, capability)
    \/ /\ p.version = 1
       /\ \E i \in DOMAIN p.rules : /\ d.intent \in p.rules[i].intents
                                    /\ Grants(p, i, d, action, capability)

(* No rule speaks of the decision and the default is to reply: it is not   *)
(* held against what the model asked for (ModelMayAskForLess, below).      *)
PermittedByDefault(p, d, action) ==
    /\ p.defaultAction = action /\ action = "reply"
    /\ \/ /\ p.version = 2 /\ p.defaultEffect = "allow"
          /\ Matching(p, d, Channel) = {}
       \/ p.version = 1 /\ \A i \in DOMAIN p.rules : d.intent \notin p.rules[i].intents

Permitted(p, d, action, capability) ==
    /\ d.confidence >= p.minConfidence
    /\ PermittedByRule(p, d, action, capability) \/ PermittedByDefault(p, d, action)

ByModel(s) == s.stage \in {"sending", "tool"} /\ s.kind # "manual"

Authorised(s) ==
    ByModel(s) =>
        /\ ~ s.dry /\ ~ s.tenant.shadow
        /\ Permitted(Contents[s.tenant.policy], s.decision, s.action, s.capability)

(* Nothing is sent and no tool is started that the policy of the tenant    *)
(* does not permit: one matching rule that denies or wants approval is     *)
(* enough to stop it, what a rule grants is no more than the model asked   *)
(* for, an action runs a capability listed under the id of a rule that     *)
(* grants it, only a default of reply goes without a rule, and a dry run   *)
(* or a tenant in shadow mode has no effects at all.                       *)
EffectsAreAuthorised == \A r \in Requests : Authorised(req[r])

(* "A model or agent may request less authority than policy permits": no   *)
(* send and no tool is more than the model asked for.  Rules keep to this  *)
(* (Grants); the default does not, and replies to a decision that asked    *)
(* for a person or for silence.                                            *)
ModelMayAskForLess ==
    \A r \in Requests : ByModel(req[r]) => NoMoreThanAsked(req[r].decision, req[r].action)

(* The cached runtime and sender of a tenant send from the number its      *)
(* present configuration names, unless a request straddled the change or   *)
(* the change itself failed: the two ways this cache can go stale.         *)
RuntimesFollowTenants ==
    \A t \in Tenants \ loose :
        Known(t) => {runtimes[t], senders[t]} \subseteq {Uncached, byId[t].legacy}

(* What these rest on.  A request that is not idle or between two tenants  *)
(* has a tenant, one at a conversation has its customer, and no more       *)
(* follow-ups than the limit are sent.                                     *)
Whole(s) ==
    /\ s.stage \in {"idle", "sweeping"} => s.answer = {} /\ s.asked = 0
    /\ s.stage = "sweeping" => s.kind = "sweep"
    /\ s.stage \notin {"idle", "sweeping"} => s.tenant \in Tenant
    /\ s.stage \in {"arrived", "sending", "tool"} \/ s.kind = "inbound" \/ s.asked > 0 =>
          s.at \in Customers
    /\ s.kind = "inbound" => s.answer = {} /\ s.nudge = {}
    /\ s.stage = "sending" /\ s.kind = "sweep" /\ s.asked = 0 => s.followups < ProactiveLimit
    /\ <<s.at, s.asked>> \notin s.answer
RequestsAreWhole == \A r \in Requests : Whole(req[r])

(* What a request may yet take a runtime for, or find under a number, is   *)
(* the tenant now listed.                                                  *)
RequestsFollowTenants ==
    \A t \in Tenants \ loose : Known(t) =>
        /\ \A r \in Requests :
              /\ req[r].stage = "arrived" /\ req[r].tenant.id = t => req[r].tenant = byId[t]
              /\ \A o \in req[r].queue : o.id = t => o = byId[t]
        /\ \A n \in Numbers : routes[n].id = t => routes[n] = byId[t]

(* A message that is not contested is in one request's hand at a time, and *)
(* in none's once it is answered; what is in hand has arrived.             *)
OneHolder ==
    \A t \in Tenants, c \in Customers :
        LET thread == threads[<<t, c>>]
            holders == Holders(t, c, thread.seq)
        IN  /\ Consistent(thread)
            /\ ~ thread.contested /\ thread.seq > 0 =>
                  /\ \A q, r \in holders : q = r
                  /\ holders # {} => thread.answers = 0
HeldHasArrived ==
    \A r \in Requests, t \in Tenants, c \in Customers, seq \in 1..MaxMessages :
        Holds(req[r], t, c, seq) => seq <= threads[<<t, c>>].seq

SupervisionInv ==
    /\ TypeOK /\ RuntimesFollowTenants
    /\ RequestsAreWhole /\ RequestsFollowTenants /\ OneHolder /\ HeldHasArrived

(* The supervisor answers a customer's latest message once: a second reply *)
(* needs two requests that had the message in hand at the same time, or a  *)
(* reply that went out and was not recorded.                               *)
AnsweredOnce ==
    \A at \in DOMAIN threads : threads[at].answers <= 1 \/ threads[at].contested

(* Every request comes to its end, a sweep too while messages go on        *)
(* arriving, whatever a model, a transport or a tool does.                 *)
RequestsEnd ==
    \A r \in Requests : req[r].stage # "idle" ~> req[r].stage = "idle"
=============================================================================
