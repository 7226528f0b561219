---------------------------- MODULE HumanTakeover ----------------------------
(***************************************************************************)
(* An operator's own message takes a conversation over, and management     *)
(* takes it over or releases it: the worker's spool delivers the message   *)
(* to processLinkedDeviceOutbound and forceHumanOwnership, while calls of  *)
(* transitionManagementOwnership run beside them.  Each await is a step.   *)
(* The ownership store is the atomic one of OwnershipLedger; the messages  *)
(* have no attribution (they are nobody's echo).                           *)
(***************************************************************************)
EXTENDS ConversationOwnership

CONSTANTS Observations,   \* operator messages, by platform message id
          Handlers,       \* supervisor requests that may run at once
          Operations,     \* management calls, each with a fresh transitionId
          NoObservation,
          FromPrevious,   \* no expectedVersion in a management call's body
          MaxFaults       \* bound: queries that fail and requests that die

Processes == Handlers \cup Operations

ASSUME TakeoverConstants ==
    /\ TransitionIds = Observations \cup Operations
    /\ Handlers \cap Operations = {} /\ Observations \cap Operations = {}
    /\ NoObservation \notin Observations
    /\ FromPrevious \notin Nat
    /\ NotLogged \notin Record
    /\ NotLogged \notin [command : Commands, expected : Nat, result : Record]
    /\ MaxFaults \in Nat

VARIABLES owner,      \* the conversation's ownership record
          log,        \* transitionId -> the record it resulted in
          control,    \* the legacy projection, "ai" or "human"
          claimed,    \* observations with a claim
          persisted,  \* observations with a human.outbound_observed event
          recorded,   \* observations in the conversation history
          announced,  \* transitionId -> its conversation.ownership_changed
          spool,      \* observation -> its file in the worker's spool
          pc, obs, command, body, previous, result,
          held,       \* observation -> version it found or made human (history)
          failed,     \* transitionIds an error or a death got in the way of (history)
          faults

stores == <<owner, log, control, claimed, persisted, recorded, announced>>
locals == <<obs, command, body, previous, result>>
vars == <<stores, spool, pc, locals, held, failed, faults>>

NotHeld == 0   \* a human record has a version of 1 or more

HandlerPoints == {"claim", "persist", "read", "apply", "reread", "reapply",
                  "project", "announce", "release"}
(* Past the claim, which the handler holds until it is done or fails.      *)
Claiming == HandlerPoints \ {"claim"}

TypeOK ==
    /\ owner \in Record
    /\ log \in [TransitionIds -> Record \cup {NotLogged}]
    /\ announced \in [TransitionIds -> Record \cup {NotLogged}]
    /\ control \in {"ai", "human"}
    /\ claimed \subseteq Observations
    /\ persisted \subseteq Observations
    /\ recorded \subseteq Observations
    /\ spool \in [Observations -> {"unsent", "kept", "removed"}]
    /\ pc \in [Processes -> HandlerPoints \cup {"idle", "done"}]
    /\ obs \in [Handlers -> Observations \cup {NoObservation}]
    /\ command \in [Operations -> Commands]
    /\ body \in [Operations -> Nat \cup {FromPrevious}]
    /\ previous \in [Processes -> Record]
    /\ result \in [Processes -> Record]
    /\ held \in [Observations -> Nat]
    /\ failed \subseteq TransitionIds
    /\ faults \in 0..MaxFaults

Init ==
    /\ owner = InitialOwnership
    /\ log = [t \in TransitionIds |-> NotLogged]
    /\ announced = [t \in TransitionIds |-> NotLogged]
    /\ control = "ai"
    /\ claimed = {} /\ persisted = {} /\ recorded = {}
    /\ spool = [o \in Observations |-> "unsent"]
    /\ pc = [x \in Processes |-> "idle"]
    /\ obs = [h \in Handlers |-> NoObservation]
    /\ command = [p \in Operations |-> "manual_takeover"]
    /\ body = [p \in Operations |-> FromPrevious]
    /\ previous = [x \in Processes |-> InitialOwnership]
    /\ result = [x \in Processes |-> InitialOwnership]
    /\ held = [o \in Observations |-> NotHeld]
    /\ failed = {}
    /\ faults = 0

Goto(x, point) == pc' = [pc EXCEPT ![x] = point]
At(x, points) == pc[x] \in points

Tid(x) == IF x \in Handlers THEN obs[x] ELSE x

(* The calls of transition: an observation's is the same each time it is   *)
(* delivered, a management call has a transitionId of its own.             *)
Forced(h) ==
    [tid |-> obs[h], command |-> "manual_takeover", expected |-> previous[h].version]
Managed(p) ==
    [tid |-> p, command |-> command[p],
     expected |-> IF body[p] = FromPrevious THEN previous[p].version ELSE body[p]]
Call(x) == IF x \in Handlers THEN Forced(x) ELSE Managed(x)
------------------------------------------------------------------------------
(* The worker's spool.                                                     *)

(* The worker sees the operator's message and writes it to disk.           *)
Observe(o) ==
    /\ spool[o] = "unsent"
    /\ spool' = [spool EXCEPT ![o] = "kept"]
    /\ UNCHANGED <<stores, pc, locals, held, failed, faults>>

(* A flush posts every file it has listed: flushes may overlap, so a file  *)
(* that another flush has removed may be posted once more, and a post that *)
(* timed out may still be at work in the supervisor.                       *)
Deliver(h, o) ==
    /\ pc[h] = "idle"
    /\ spool[o] # "unsent"
    /\ Goto(h, "claim")
    /\ obs' = [obs EXCEPT ![h] = o]
    /\ UNCHANGED <<stores, spool, command, body, previous, result, held, failed,
                   faults>>

(* The request is over.                                                    *)
Over(h) ==
    /\ Goto(h, "idle")
    /\ obs' = [obs EXCEPT ![h] = NoObservation]
    /\ previous' = [previous EXCEPT ![h] = InitialOwnership]
    /\ result' = [result EXCEPT ![h] = InitialOwnership]
    /\ UNCHANGED <<command, body>>

(* The management call is over.                                            *)
Finish(p) ==
    /\ Goto(p, "done")
    /\ command' = [command EXCEPT ![p] = "manual_takeover"]
    /\ body' = [body EXCEPT ![p] = FromPrevious]
    /\ previous' = [previous EXCEPT ![p] = InitialOwnership]
    /\ result' = [result EXCEPT ![p] = InitialOwnership]
    /\ UNCHANGED obs

(* A successful answer removes the file, unless the worker is gone or has  *)
(* given up after ten seconds: then the answer reaches nobody.             *)
Succeed(h) ==
    /\ Over(h)
    /\ spool' \in {spool, [spool EXCEPT ![obs[h]] = "removed"]}
------------------------------------------------------------------------------
(* processLinkedDeviceOutbound.                                            *)

(* Mutant: the claim is keyed by session, not by message.                  *)
ClaimSessionKey(h) ==
    /\ At(h, {"claim"})
    /\ IF claimed # {}
       THEN Succeed(h) /\ UNCHANGED claimed
       ELSE /\ claimed' = claimed \cup {obs[h]}
            /\ Goto(h, "persist")
            /\ UNCHANGED <<spool, locals>>
    /\ UNCHANGED <<owner, log, control, persisted, recorded, announced, held,
                   failed, faults>>

(* Mutant: the claim is looked up but not taken.                           *)
ClaimNotTaken(h) ==
    /\ At(h, {"claim"})
    /\ Goto(h, "persist")
    /\ UNCHANGED <<stores, spool, locals, held, failed, faults>>

(* A claimed observation is answered 202, as a duplicate.                  *)
Claim(h) ==
    /\ At(h, {"claim"})
    /\ IF obs[h] \in claimed
       THEN Succeed(h) /\ UNCHANGED claimed
       ELSE /\ claimed' = claimed \cup {obs[h]}
            /\ Goto(h, "persist")
            /\ UNCHANGED <<spool, locals>>
    /\ UNCHANGED <<owner, log, control, persisted, recorded, announced, held,
                   failed, faults>>

PersistEvent(h) ==
    /\ At(h, {"persist"})
    /\ persisted' = persisted \cup {obs[h]}
    /\ Goto(h, "read")
    /\ UNCHANGED <<owner, log, control, claimed, recorded, announced, spool, locals, held, failed, faults>>
------------------------------------------------------------------------------
(* forceHumanOwnership and transitionManagementOwnership.                  *)

(* ownershipStore.get.                                                     *)
Read(x) ==
    /\ At(x, {"read"})
    /\ previous' = [previous EXCEPT ![x] = owner]
    /\ Goto(x, "apply")
    /\ UNCHANGED <<stores, spool, obs, command, body, result, held, failed,
                   faults>>

(* Mutant: the transition log is not looked up.                            *)
SeenNever(req) == FALSE

Seen(req) == log[req.tid] # NotLogged

(* What the store answers and writes: Repeat, Apply and Refuse of          *)
(* OwnershipStore.  The log keeps the results alone.                       *)
Answer(req) ==
    IF Seen(req) THEN log[req.tid]
    ELSE IF VersionMatches(req, owner) THEN Outcome(req, owner)
    ELSE Conflict

Write(req) ==
    IF Seen(req)
    THEN UNCHANGED <<owner, log>>
    ELSE /\ owner' = Answer(req)
         /\ log' = [log EXCEPT ![req.tid] = Answer(req)]

HeldBy(x, rec) ==
    held' = IF x \in Handlers /\ rec.state = "HUMAN_ACTIVE"
            THEN [held EXCEPT ![obs[x]] = rec.version] ELSE held

(* ownershipStore.transition succeeds, on the first or the second try.     *)
Apply(x) ==
    /\ At(x, {"apply", "reapply"})
    /\ Answer(Call(x)) # Conflict
    /\ Write(Call(x))
    /\ result' = [result EXCEPT ![x] = Answer(Call(x))]
    /\ HeldBy(x, Answer(Call(x)))
    /\ Goto(x, "project")
    /\ UNCHANGED <<control, claimed, persisted, recorded, announced, spool, obs,
                   command, body, previous, failed, faults>>

(* A version conflict: a handler tries once more, then gives up.           *)
Refused(x) ==
    /\ At(x, {"apply", "reapply"})
    /\ Answer(Call(x)) = Conflict
    /\ IF x \in Operations
       THEN Finish(x) /\ UNCHANGED failed
       ELSE /\ UNCHANGED locals
            /\ IF pc[x] = "apply"
               THEN Goto(x, "reread") /\ UNCHANGED failed
               ELSE Goto(x, "release") /\ failed' = failed \cup {obs[x]}
    /\ UNCHANGED <<stores, spool, held, faults>>

(* Mutant: whatever the record is now is taken for the outcome.            *)
RereadTakesAny(h) ==
    /\ At(h, {"reread"})
    /\ previous' = [previous EXCEPT ![h] = owner]
    /\ result' = [result EXCEPT ![h] = owner]
    /\ held' = [held EXCEPT ![obs[h]] = owner.version]
    /\ Goto(h, "project")
    /\ UNCHANGED <<stores, spool, obs, command, body, failed, faults>>

(* After a conflict: somebody else may have made the conversation human.   *)
Reread(h) ==
    /\ At(h, {"reread"})
    /\ previous' = [previous EXCEPT ![h] = owner]
    /\ IF owner.state = "HUMAN_ACTIVE"
       THEN /\ result' = [result EXCEPT ![h] = owner]
            /\ HeldBy(h, owner)
            /\ Goto(h, "project")
       ELSE Goto(h, "reapply") /\ UNCHANGED <<result, held>>
    /\ UNCHANGED <<stores, spool, obs, command, body, failed, faults>>

(* Mutant: compares with the record as it is now.                          *)
ChangedSinceNow(x) == result[x] # owner

Changed(x) == \/ result[x].version # previous[x].version
              \/ result[x].state # previous[x].state

(* recordManualOutbound and setControl run in one go after the await.      *)
ProjectTakeover(h) ==
    /\ h \in Handlers
    /\ At(h, {"project"})
    /\ recorded' = recorded \cup {obs[h]}
    /\ control' = "human"
    /\ IF Changed(h)
       THEN Goto(h, "announce") /\ UNCHANGED <<spool, locals>>
       ELSE Succeed(h)
    /\ UNCHANGED <<owner, log, claimed, persisted, announced, held, failed, faults>>

ProjectControl(p) ==
    /\ p \in Operations
    /\ At(p, {"project"})
    /\ control' = IF result[p].state = "AI_ACTIVE" THEN "ai" ELSE "human"
    /\ IF Changed(p) THEN Goto(p, "announce") /\ UNCHANGED locals ELSE Finish(p)
    /\ UNCHANGED <<owner, log, claimed, persisted, recorded, announced, spool, held, failed, faults>>

(* The event store keeps the first event of a transitionId.                *)
Announce(x) ==
    /\ At(x, {"announce"})
    /\ announced' = [announced EXCEPT ![Tid(x)] = IF @ = NotLogged THEN result[x] ELSE @]
    /\ IF x \in Handlers
       THEN Succeed(x)
       ELSE Finish(x) /\ UNCHANGED spool
    /\ UNCHANGED <<owner, log, control, claimed, persisted, recorded, held, failed,
                   faults>>

(* POST /conversations/control; the body may name the version the caller   *)
(* has seen, the present one or an older.                                  *)
Manage(p, c) ==
    /\ pc[p] = "idle"
    /\ \E e \in {FromPrevious} \cup 0..owner.version :
           body' = [body EXCEPT ![p] = e]
    /\ command' = [command EXCEPT ![p] = c]
    /\ Goto(p, "read")
    /\ UNCHANGED <<stores, spool, obs, previous, result, held, failed, faults>>
------------------------------------------------------------------------------
(* Failures.                                                               *)
Fault == faults < MaxFaults /\ faults' = faults + 1

(* An exception: the handler goes on to release its claim, a management    *)
(* call answers 500.                                                       *)
Fail(x) ==
    /\ IF x \in Handlers THEN Goto(x, "release") /\ UNCHANGED locals ELSE Finish(x)
    /\ failed' = failed \cup {Tid(x)}

(* A query throws, having written nothing.                                 *)
QueryFails(x) ==
    /\ At(x, Claiming \ {"release"})
    /\ Fault
    /\ Fail(x)
    /\ UNCHANGED <<stores, spool, held>>

(* The transition commits and its acknowledgement is lost.                 *)
ApplyUnacknowledged(x) ==
    /\ At(x, {"apply", "reapply"})
    /\ Answer(Call(x)) # Conflict
    /\ Fault
    /\ Write(Call(x))
    /\ HeldBy(x, Answer(Call(x)))
    /\ Fail(x)
    /\ UNCHANGED <<control, claimed, persisted, recorded, announced, spool>>

(* claim throws, with or without its effect, outside of the try: 500.      *)
ClaimFails(h) ==
    /\ At(h, {"claim"})
    /\ Fault
    /\ claimed' \in {claimed, claimed \cup {obs[h]}}
    /\ failed' = failed \cup {obs[h]}
    /\ Over(h)
    /\ UNCHANGED <<owner, log, control, persisted, recorded, announced, spool, held>>

(* The catch block: release the claim, rethrow, answer 500.                *)
Release(h) ==
    /\ At(h, {"release"})
    /\ claimed' = claimed \ {obs[h]}
    /\ Over(h)
    /\ UNCHANGED <<owner, log, control, persisted, recorded, announced, spool, held,
                   failed, faults>>

(* The release throws; it takes nothing from MaxFaults, as whoever gets    *)
(* here has failed before.                                                 *)
ReleaseFails(h) ==
    /\ At(h, {"release"})
    /\ Over(h)
    /\ UNCHANGED <<stores, spool, held, failed, faults>>

Crash(x) ==
    /\ ~At(x, {"idle", "done"})
    /\ Fault
    /\ failed' = failed \cup {Tid(x)}
    /\ IF x \in Handlers THEN Over(x) ELSE Finish(x)
    /\ UNCHANGED <<stores, spool, held>>
------------------------------------------------------------------------------
Handle(h) ==
    \/ Claim(h) \/ PersistEvent(h) \/ Read(h) \/ Apply(h) \/ Refused(h) \/ Reread(h)
    \/ ProjectTakeover(h) \/ Announce(h) \/ Release(h)

Serve(p) ==
    Read(p) \/ Apply(p) \/ Refused(p) \/ ProjectControl(p) \/ Announce(p)

Next ==
    \/ \E o \in Observations : Observe(o)
    \/ \E h \in Handlers :
           \/ \E o \in Observations : Deliver(h, o)
           \/ Handle(h) \/ ClaimFails(h) \/ ReleaseFails(h)
    \/ \E p \in Operations :
           \/ \E c \in {"manual_takeover", "release_to_agent"} : Manage(p, c)
           \/ Serve(p)
    \/ \E x \in Processes : QueryFails(x) \/ ApplyUnacknowledged(x) \/ Crash(x)

(* Requests run to their end, and the worker flushes its spool every few   *)
(* seconds for as long as there is a file in it.                           *)
Fairness ==
    /\ \A h \in Handlers : WF_vars(Handle(h))
    /\ \A o \in Observations : SF_vars(\E h \in Handlers : Deliver(h, o))

Spec == Init /\ [][Next]_vars /\ Fairness
------------------------------------------------------------------------------
(* At most one request at a time works on an observation, behind its       *)
(* claim, whatever the spool delivers twice.                               *)
OneHandlerPerObservation ==
    \A g, h \in Handlers :
        At(g, Claiming) =>
            /\ obs[g] \in claimed
            /\ At(h, Claiming) /\ obs[g] = obs[h] => g = h

(* A request works on an observation; a management call is in none of the  *)
(* points that only a request has.                                         *)
RequestsHaveObservations ==
    /\ \A h \in Handlers : pc[h] # "done" /\ (pc[h] = "idle" <=> obs[h] = NoObservation)
    /\ \A p \in Operations : pc[p] \notin {"claim", "persist", "reread", "reapply",
                                         "release"}

IInv == TypeOK /\ RequestsHaveObservations /\ OneHandlerPerObservation

(* The call that left a record is known from it: every call here names the *)
(* version it has read, and either takes over or releases.                 *)
EntryOf(t) ==
    [command  |-> IF log[t].state = "HUMAN_ACTIVE" THEN "manual_takeover"
                                                   ELSE "release_to_agent",
     expected |-> IF log[t].transitionId = t THEN log[t].version - 1 ELSE log[t].version,
     result   |-> log[t]]
LogOf == [t \in TransitionIds |-> IF log[t] = NotLogged THEN NotLogged ELSE EntryOf(t)]
Ledger == INSTANCE OwnershipLedger WITH record <- owner, log <- LogOf,
                                        ExpectedVersions <- Nat

(* The takeovers and releases that redelivery, version conflicts, retries, *)
(* crashes and management make of the ownership are transitions of the     *)
(* ledger, each under an id not used before and from the version that was  *)
(* read for it.                                                            *)
ImplementsLedger == Ledger!LedgerSpec

(* An ownership change is always the work of a transitionId that had not   *)
(* been seen: a redelivered observation, however late and whatever came    *)
(* between, never takes a released conversation back.                      *)
TakeoverAppliesOnce ==
    [][owner' # owner => log[owner'.transitionId] = NotLogged]_vars

(* Once an operator's message is in the history the conversation is human, *)
(* or a later version of it was released by a management call.             *)
OnlyReleaseEndsTakeover ==
    \A o \in recorded :
        \/ owner.state = "HUMAN_ACTIVE"
        \/ \E p \in Operations :
               /\ log[p] # NotLogged
               /\ log[p].state = "AI_ACTIVE"
               /\ log[p].version > held[o]

(* t moved the ownership, as opposed to finding it as asked.               *)
Effective(t) == log[t] # NotLogged /\ log[t].transitionId = t
Busy(t) == \E x \in Processes : ~At(x, {"idle", "done"}) /\ Tid(x) = t

(* Each effective change is announced with the state and version it        *)
(* produced, unless an error or a death got in its way.                    *)
ChangesAnnouncedUnlessFailed ==
    \A t \in TransitionIds \ failed :
        Effective(t) /\ ~Busy(t) => announced[t] = log[t]

(* An observation on disk makes the conversation human, however often it   *)
(* is delivered and whatever management does meanwhile, unless a request   *)
(* that worked on it failed or died.                                       *)
TakeoverHonoured ==
    \A o \in Observations :
        spool[o] = "kept" ~> held[o] # NotHeld \/ o \in failed

(* "persists and broadcasts conversation.ownership_changed when ownership  *)
(* changed": a takeover that was acknowledged has been announced.          *)
ChangesAreAnnounced ==
    \A o \in Observations :
        Effective(o) /\ spool[o] = "removed" /\ ~Busy(o) => announced[o] # NotLogged
=============================================================================
