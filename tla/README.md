# A verification of the WhatsApp AI supervisor

TLA+ models of the supervisor's core, the TLC configurations that check them on
small instances, and TLAPS proofs of the theorems that matter most. Everything
is translated from the code under `src/` of this repository; `PROJECT.json`
names, for every definition, the lines it stands for.

Contents: [the system](#the-system) · [how to run it](#how-to-run-it) ·
[the models](#the-models) · [the runs](#the-runs) · [the proofs](#the-proofs) ·
[what the checks found](#what-the-checks-found) · [what is not modelled](#what-is-not-modelled) ·
[the plan](#the-plan)

## The system

A supervisor process answers a business's WhatsApp messages with a language
model, under a policy, until a human takes a conversation over. A separate
worker holds the linked-device sessions (WhatsApp Web). Several supervisor
processes may share one PostgreSQL database; without one, a single process keeps
everything in files.

| Part | State it keeps | Operations | What makes it correct |
|---|---|---|---|
| Conversation ownership (`domain/conversation-ownership.js`, `core/*ownership-store.js`, `storage/postgres-conversation-ownership-store.js`) | one record per conversation (state, version, last transition), a log of transitions | `get`, `transition` (command, transitionId, expectedVersion) | transitions are atomic, idempotent by transitionId, version-checked; only a release ends a human's ownership |
| Durable jobs (`jobs/postgres-job-queue.js`, `jobs/durable-job-worker.js`) | rows with status, attempts, lease | `enqueue`, `claimNext`, `complete`, `fail`; a polling loop | one holder per lease, no job lost, no job finished unearned, bounded attempts |
| Operator takeover (`app.js` `processLinkedDeviceOutbound`, `management/router.js`) | claims, events, history, the legacy `control` | a message the operator typed on the phone; `POST /conversations/control` | each message takes the conversation over once, whatever is redelivered; changes are announced |
| Inbound decision (`app.js` `processMessage`, `jobs/inbound-decision-handler.js`, `core/orchestrator.js`) | claims, jobs, events, history, audit, attributions | receive, enqueue, decide, reply or act, record | nothing is lost, nothing is answered twice, a takeover stops pending turns, the records tell what happened |
| Worker spool (`workers/whatsapp-web/src/spool.js`) | one file per message | `enqueue`, `flushOnce` every few seconds | a file stays until the supervisor has the message |
| Worker sessions (`session-manager.js`) | per session: client, status, reconnect timer, ids seen | start, reconnect, receive, close | a failed client is replaced, a timer is never lost |
| Worker sends (`session-manager.js`) | per session: send queue, active send, recent API sends | `sendText`, `handleInbound` of outbound messages | ordered, bounded sends whose echoes are recognized |
| Outbound attribution (`domain/outbound-attribution.js`, stores, `processLinkedDeviceOutbound`) | who sent which outbound message | `record`, `get`, `consumeEcho`; classification | the supervisor's own echo is never an operator's message, an operator's message never an echo |
| Model gateway (`ai/model-gateway.js`, providers) | slots, waiters, circuit and key per provider | `decide` with deadline, retry, failover | bounded concurrency, no lost slot, one probe at a time, failover reaches a provider that works |
| Permission engine (`domain/permission-engine.js`) | none | `evaluatePermission` for policies of version 1 and 2 | never more autonomy than the policy gives or the model asked for |
| Tenant store (`core/tenant-store.js`) | tenants, number indexes, a file | create, update, delete, add and remove a number, load | a listed tenant is reached by its numbers; no number is saved for two tenants |
| Runtime cache (`runtime/tenant-runtime-cache.js`, `server.js`) | a sender and an orchestrator per tenant | take, invalidate | what is cached follows the configuration |
| Moderator (`ai/moderator-engine.js`) | none of its own | sweep over the open conversations of one tenant or all | does not answer what was answered, keeps its limit, ends |
| Tools (`actions/*`) | a registry | run a capability under a deadline | only what the policy names is run |
| Browser worker, realtime stream, lifecycle, CLI, web interface | see `PROJECT.json` | | |

How they interact: the worker's spool **posts** to the supervisor, at least
once; the supervisor **claims** a message, appends it to the event store and
**enqueues** a job (PostgreSQL) or decides at once (files); the job's decision
**reads** the ownership, takes the tenant's runtime from the **cache**, **calls**
the model gateway, asks the **permission engine**, **sends** through a channel
(for linked devices that is the worker's `sendText`), **records** attribution,
audit, event and history. What the worker sends comes back to it as an **echo**,
and goes through the spool like a message typed on the phone. Management calls and
operator messages **move** the ownership, tenant changes **invalidate** the cache,
and moderator sweeps **answer** what was left, beside all this. Nothing but the database and atomic file creation
orders two of these parties.

What is hard here: every `await` is a point where another request, worker or
operator acts; the spool repeats posts that timed out but are still being
processed; leases run out under slow handlers; an acknowledgement can be lost
after its effect; a process may die anywhere. `PROJECT.json` lists these hazards
line by line, each with the properties that cover it.

## How to run it

    tlc -workers 2 -config MCDurableJobs.cfg MCDurableJobs.tla
    tlapm DurableJobsProofs.tla

and likewise for the other `MC*` and `*Proofs` modules.

## The models

    ConversationOwnership         the record and its transition function
      OwnershipLedger             ABSTRACT: the record and the log of transitions
      OwnershipCalls              calls and answers
        OwnershipStore            ABSTRACT: calls over the ledger, idempotent, version-checked
        PostgresOwnership         the transaction, query by query  ==> OwnershipStore
      HumanTakeover               operators and management  ==> OwnershipLedger
    JobQueue                      ABSTRACT: a queue whose calls are atomic
      DurableJobs                 the rows, the claim's transaction, the workers  ==> JobQueue
    InboundDecision               a message's way through store and queue  ==> JobQueue
    LinkedDeviceSession           the worker: clients, timers, spool files
    OutboundEcho                  the worker's sends, their echoes, the classification
    ModelGateway                  slots, circuits, retries, deadline
    TenantStore                   tenants, their numbers, the file
    PermissionEngine              evaluatePermission, as operators
      Supervision                 both, composed: messages, sweeps, operators, changes
                                  ==> TenantStore

`==>` is a refinement that TLAPS proves. Runs also check `ImplementsStore` and
`ImplementsQueue`; the others (`ImplementsLedger`, `UsesQueue`, and `StoreSpec` for
`Supervision`) are theorems only, to keep the runs short. The modules above
`LinkedDeviceSession` model one conversation, or one set of rows: rows and ledger
entries are keyed by tenant and conversation and share nothing else. The two
worker modules model one session, `ModelGateway` one gateway (`server.js:74-86` makes
one with each tenant's runtime), `Supervision` several tenants and customers, as what it is about
crosses them.

**ConversationOwnership** has the state machine of `nextStateFor` and
`transitionOwnership` as operators. A record is its state, version and last
transition; reasons and timestamps are left out, because no property depends on
them. `Outcome` is what a store computes once the version check has passed.

**OwnershipLedger** is what every store keeps: the present record and the log of
transitions by their id. Its one step, `Transition`, records a transition under an id
not used before, from the version it was asked for. It says nothing of callers or
answers. What holds of it (`HistoryIsGapFree`, `ExpectedVersionHonoured`,
`HumanKeepsConversation`) holds of each module that implements it.

**OwnershipStore** is what callers of `ConversationOwnershipStore.transition` may
rely on. A call is submitted, takes effect at one instant, and is answered with
a record, a version conflict or an error; an error leaves open whether there was
an effect. Its `Apply` is the ledger's `Transition`. The file ledger runs
`transition` without an `await`, so that for one process it *is* this action.

**PostgresOwnership** is the transaction of the PostgreSQL store: `INSERT ... ON
CONFLICT DO NOTHING`, `SELECT ... FOR UPDATE`, the duplicate lookup, `UPDATE`,
`INSERT` into the log, `COMMIT`, each a step of one of several concurrent callers
under READ COMMITTED. The row lock is one variable, because an uncommitted
insert and a row lock exclude each other's holders alike. Queries fail, callers
die, commits lose their acknowledgement. What a transaction writes is visible
only after its commit, so `UpdateRow` and `RecordTransition` only move on and
`CommitWrites` writes both. `Store == INSTANCE OwnershipStore WITH record <-
Committed` is the refinement mapping: the committed row, or the default record
where there is none yet, is the abstract record.

**JobQueue** is what the job queue is to those who use it: a call takes effect at
once or not at all, a row is taken only while it is queued and by a new attempt each
time, and a worker whose lease lapsed keeps what it holds and may still complete or
fail the row. In `DurableJobs` a row is queued if it waits, is due, or has an expired
lease (`RowOf`), and a worker holds a job from the commit of its claim on
(`HoldingOf`); the claim's transaction before that stutters.

**DurableJobs** has the rows of `durable_jobs` with time folded into the status
("waiting" is queued and not yet due, "expired" is running with its lease over),
`claimNext` as its transaction with `SKIP LOCKED`, `complete` and `fail` by id, and
`DurableJobWorker.run` as the loop around them. A lease may run out under a
working handler because the worker never renews it. `suspect` is a history
variable: the jobs for which that happened, or whose `complete` lost its answer,
as the code cannot promise exclusion for those.

**HumanTakeover** has `processLinkedDeviceOutbound` and `forceHumanOwnership`
(read, transition, on a conflict read again and try once more), and the
management route's `transitionManagementOwnership`, split at each `await`. The
ownership store is atomic here: `PostgresOwnership` shows why it may be. The log
keeps results only; `EntryOf` reads the call back from its result (which command,
from which version), and with it the module implements `OwnershipLedger`. The
spool's file is in the model because redelivery is what the claim is for. Each
management call is made with a new transitionId here; `router.js:76-84` takes one
from the client too, and what a repeated one does is the subject of
`PostgresOwnership`.
`held` (the human version a message found or made) and `failed` are history. The
messages of this module have no attribution, that is, they are not echoes.

**InboundDecision** has `processMessage`, `createProcessInboundJobHandler`,
`handleInboundDecision`, `SupervisorOrchestrator.handle` and the worker's
`runOnce`, run by requests (files) or by job workers (PostgreSQL); `durable`
tells which, and is fixed in the initial state. What the model says and what the
policy permits is a choice between a reply, an action and nothing.
`DecisionFails` is an exception out of any of its awaits, with or without the
effect of the call that threw. Jobs are those of the abstract `JobQueue`
(`UsesQueue`); ownership changes come from anyone, at any
point.

**LinkedDeviceSession** has the worker's records of a session (`clients`, in the
order `startSession` made them; `current` is the one the map holds), the events of
their browsers, `scheduleReconnect` with its guard `restartScheduled`
(`scheduled`), the timers set and the restarts under way, `close`, and the way of a
message: `handleInbound` and its `processedMsgIds` (`HandleMsg`), the spool's
`open('wx')` and write as two steps, `flushOnce` as runs that overlap (the
interval, `ready` and each enqueue start one), `deliver` (`DeliverFile`) and `unlink`. The process
stops or dies between any two; only `spool` survives. `accepted` is the
supervisor's side. A client's event may come from a superseded client whose
`destroy` failed, as in the code.

**OutboundEcho** has `sendText` on both sides (the call with its timeout, the
queue with its limit, the status checks, the spacing sleep, `activeApiSend`), the
client showing each outbound message (`Observe`), `apiOriginFor` with its wait of
`apiOriginResolutionMs` (`Resolve`, `StopWaiting`), the recent ids and their
pruning, the attribution recorded by the sender's caller, and the supervisor's
classification (`Classify`): attribution first, then the worker's hint, else a
person. Peer and text are abstracted to whether the active send *may* match: any
observation may wait for any active send. `late` is a history variable: the sends
for which something kept the worker from knowing its own echo (the send failed or
outlasted the wait, its record expired or was replaced, its peer was shown under
another address, a lookup failed at the supervisor).

**ModelGateway** has `acquire` with its waiters, `execute` over the candidates,
`runCandidate` with its retries, `recordFailure`, the half-open probe, the
providers' shared key index, and the deadline wherever a request stands. Errors are
retryable or not; time is only whether a circuit's `circuitOpenMs` and a request's
deadline have passed. `Elapse` waits for the requests that were under way when
the circuit opened: `circuitOpenMs` (30 s) is longer than `deadlineMs` (15 s) by
default, and the model assumes it is. `reliable`, chosen once, is a set of
candidates that never fail, so that failover can be stated.

**TenantStore** has each operation as the one synchronous handler it is: `_index`
takes the old tenant out, looks for duplicates and may throw half way; `persist`
rewrites the file in place and may fail before it (`unwritten`) or in it (`cut`).
`Load` is a restart: `loadConfig` asks for one tenant at least and each tenant's
flat number (`Accepted`), the constructor for disjoint numbers. **PermissionEngine** has both versions of
`evaluatePermission` as operators, exceptions included; `Outranks` is the
comparison of its sort. **Supervision** composes them: a request looks a tenant up
and keeps the object (`req[r].tenant`), takes a runtime or a sender from the cache
at a later step, awaits the model, then sends or runs a tool. `MessageArrives`,
`StartDecision` and `Decide` are the inbound way (with claims and jobs left to
`InboundDecision`), `StartSweep` and `ModerateTenant` are `moderateAll`,
`OperatorWrites` and `StartManualSend` are `POST /conversations/send`,
`ChangeTenant` are the tenant and number routes with `onTenantChanged`. A tenant
without its flat number has no sender: nothing is cached, a decision or an
operator's send ends in an error, and a sweep that comes to it ends there
(`SweepAborts`). Secrets are taken to be configured, and a linked device's flat
session to come with its worker's URL and token. History:
`loose` are the tenants whose change a request straddled or that failed; a thread
is `contested` when two requests had its latest message in hand at once, or a
reply to it went out and was not recorded. The code promises nothing for those.

Correspondence of names: an action carries the name of the function or query it
models, `pc[x]` (in `Supervision`, `req[r].stage`) is the await a request, call or
worker stands at, the other per-process variables are its locals and are reset
when it ends. `left`, `budget` and `faults` are what the bounds below have left;
nothing of the code reads them.

## The runs

| Run | Bounds | Shows |
|---|---|---|
| `ownership_postgres` | 2 callers, 2 transitionIds, 3 commands, expected versions 0, 1 or none; callers call again for ever | `IInv`: types and lock discipline. `HistoryIsGapFree`: no version is lost or produced twice. `ExpectedVersionHonoured`, `RetriesAgree`, `HumanKeepsConversation`. `ImplementsStore`: refinement of the abstract store. `EveryCallAnswered`: no call waits for ever |
| `jobs` | 2 jobs, 2 workers, 2 attempts, 2 faults | `OneHolder` unless suspect; `EndsAreEarned`; `RetriesAreBounded`: no job is queued again after its last attempt, unless suspect; `ImplementsQueue`: transaction, lock and lost answers refine the atomic queue; `JobsAreSettled`: each job ends completed or dead |
| `takeover` | 2 messages, 2 requests, 1 management call, 1 fault | `IInv`: one request at a time behind a claim. `OnlyReleaseEndsTakeover`, `ChangesAnnouncedUnlessFailed`, `TakeoverAppliesOnce`: no observation takes a conversation over twice. The liveness `TakeoverHonoured` |
| `takeover_announced` | 1 message, 1 request | violation, see below |
| `inbound` | 1 message, 2 requests, 2 workers, 2 attempts, 1 ownership change, 2 faults | `IInv`: one decider per message. `RecordsTellWhatHappened`, and the liveness `JobsAreDecided`, `MessagesAreDecided` |
| `inbound_lost` | 1 message, 1 request, 1 worker, 1 fault | violation, see below |
| `inbound_overtaken` | 1 message, 1 request, 1 worker, 1 ownership change, no fault | violation, see below |
| `session` | 1 message, 2 flush runs, and either 2 client failures and 1 stop of the worker (3 clients), or 1 failure, 1 stop, 1 refused or failed delivery or file operation and 2 sightings of the message | `SessionInv`: types, and a restart is pending whenever its guard is set or the current client has failed. `FilesOutliveRefusals`: a complete file goes only after the supervisor took it. `FailedClientsAreReplaced` and `SpoolDrains` (liveness) |
| `echo` | 2 sends, 1 typed message, queue limits 1 and 2, 1 fault | `EchoInv`: types, queue limit, one active send. `PeopleAreNeverIgnored`, `OwnEchoesStaySilent`, and the liveness `ObservationsArrive` |
| `gateway` | 3 requests, 2 slots, 3 candidates of which one is not configured, 2 keys, 1 retry, circuits that open at the second failure | `GatewayInv`: no slot leaks, nobody waits beside a free one. `ProbesAreAlone`, `ReliableCandidateAnswers`, and the liveness `RequestsEnd` |
| `supervision` | 2 tenants, 2 numbers, 2 customers, 2 requests, 5 policies, 7 decisions; 12 scenarios, each a configuration and a budget of messages, sweeps, operator calls, changes and faults | `StoreInv`, `SupervisionInv` (types, caches, one holder of a message), `EffectsAreAuthorised`, `AnsweredOnce`, and the liveness `RequestsEnd` |
| `supervision_asked_less` | as `supervision` | violation, see below |

Why the bounds are enough. Two parties are what each race in this code needs:
two transactions on a row, two claims of a job, two deliveries of a message, two
requests at a conversation; the theorems below hold for any number. Two
transitionIds reach a version that is current, one that is stale, a repeat and a
no-op. Two jobs are needed so that a worker that lost one may take the other. One
fault suffices for each single failure; two let a failure meet a crash, a lost
lease or a lost acknowledgement. `MaxMoves = 1` in `inbound` takes the conversation
over once, at any point of a decision; the theorem covers every sequence of
takeovers and releases. Attempts of jobs stay finite without a bound: a worker
must dispose of its claim before it makes another, and to dispose of a claim with
the last attempt's number, or a later one, finishes the row. In `inbound` a lease
that runs out under a worker counts as a fault.

In `session`, two failures make three clients, enough for a timer of a superseded
record to meet its successor's; with one failure, two clients see the same message
while two flush runs overlap and the worker stops. In `echo`, a queue of one
refuses the second send and a queue of two keeps it waiting behind the first. In
`gateway`, the third request waits for a slot, two failures open a circuit, and
the missing candidate stands between the two others. The policies of
`supervision` have every effect, a default of each kind, rules that tie on
priority, one that only a high confidence reaches, one for another channel, one
that is invalid and two that share an id; its scenarios put each kind of event beside those it can race
with, rather than everything beside everything. No other bound is in the guards
(`MaxFaults`, `MaxMoves`, `MaxMessages`, `Budgets` and the scenarios' budgets).

`CHECK_DEADLOCK FALSE` stands where the system may stop: all management calls
are made and all spool files are gone (`takeover`, `inbound`), everything was sent
and seen (`echo`), every request is over (`gateway`), the scenario's budget is
used up (`supervision`).

### Fairness, and what justifies it

* `PostgresOwnership`: weak fairness of a caller's queries (Node runs its
  callbacks, the server answers or the connection breaks, which is an action of
  its own), strong fairness of the two steps that wait for a row: PostgreSQL
  queues the waiters of a lock.
* `DurableJobs`: weak fairness of the clock (`BackoffEnds`, `LeaseExpires`) and of
  the workers' loop, which polls as long as its process lives. `Restart` is in it:
  `compose.yaml` and `deploy/` restart a process that exits. Handlers are assumed
  to end. The model calls have a deadline (`model-gateway.js`), tools a timeout
  (`tool-registry.js`), sends over a linked device 30 s
  (`whatsapp-linked-device.js:119`); a Cloud API send has no timeout of its own
  and relies on the HTTP client's.
* `HumanTakeover`, `InboundDecision`: weak fairness of a request once it runs;
  strong fairness of `Deliver`, as `index.js` flushes the spool every few seconds
  and a flush needs a free handler only now and then. Failures, crashes, takeovers
  and management calls are never fair.
* `LinkedDeviceSession`: the worker is restarted (`restart: unless-stopped` in
  `compose.yaml`) and shuts down to its end, `initialize` returns or fails, timers
  fire, the interval starts flushes, each post returns (it has a timeout of ten
  seconds). No event of a client is fair: a client may stay unpaired for ever.
* `OutboundEcho`: the five seconds pass, a settled promise's continuation runs,
  and a spooled observation is delivered in the end (strong, as a delivery may be
  answered badly any number of times). `sendMessage` may hang for ever.
* `ModelGateway`: the deadline's timer and the gateway's own code. Providers may
  hang for ever.
* `Supervision`: a request's own code runs, a model call ends (`ModelGateway`'s
  `RequestsEnd`), a send ends (30 s over a linked device; a Cloud API send relies
  on the HTTP client, as above), the registry's deadline of a tool fires. Tools
  need not settle; messages, changes and faults are never fair.

## The proofs

All proofs hold for every value of the constants under the named `ASSUME`s
(`OwnershipConstants`, `CallConstants`, `PostgresConstants`, `QueueConstants`,
`TakeoverConstants`, `InboundConstants`, `SessionConstants`, `EchoConstants`,
`TenantIds`, `GatewayConstants`, `PolicyConstants`, `ScenarioConstants`), which say that
sentinel values are not members of the sets they mark (nor, for `NotLogged`, a log entry), that sets of parties are disjoint, and that bounds
are naturals. Two say more. `PolicyConstants`: a rule of version 1 has one intent;
rule ids are any naturals, repeated ones included, as nothing in the code makes them
differ. `ScenarioConstants`: the process starts from a file that `loadConfig` and the
store's constructor accept (at least one tenant, each with its flat number, no number
of two), and from conversations without more than one answer to the latest message.

| Theorem | Statement | Argument |
|---|---|---|
| `LedgerHistory`, `LedgerKeepsHuman` | `LedgerSpec` implies `HistoryIsGapFree`, `ExpectedVersionHonoured`, `HumanKeepsConversation` | `LedgerInv`: the record is the result of the transition it names, and each version up to it has one producer; `Transition` adds at most one version, under an id not logged before. `OnlyReleaseLeavesHuman` is about the transition function alone |
| `PostgresInvariant` | `Spec => []IInv` | `LockDiscipline` is inductive: who is past the locking read holds the lock, so nobody else commits, so what it read is still committed |
| `PostgresImplementsStore` | `Spec => ImplementsStore` | under `IInv` each commit is `Apply` or `Repeat`, the version refusal is `Refuse`, a failure is `Fail`, a return or a crash is `Leave`, all else stutters |
| `PostgresHistory`, `PostgresVersionsHonoured`, `PostgresRetriesAgree`, `PostgresKeepsHuman` | `HistoryIsGapFree`, `ExpectedVersionHonoured`, `RetriesAgree` and `HumanKeepsConversation` of the committed row | from the refinement and the abstract theorems, through an instance of `OwnershipLedgerProofs`; that retries agree follows from the store's own invariant |
| `JobsInvariant`, `JobsOneHolder`, `JobsEndsAreEarned`, `JobsRetriesAreBounded`, `JobsFinishedStay` | the `jobs` run's safety, and that a finished job stays finished unless suspect | `IInv` adds to the properties that a claim transaction holds a claimable row (`ClaimLocks`), that attempts are given out once each (`AttemptsAreGiven`), and that `complete` follows the handler |
| `JobsImplementQueue` | `Spec => ImplementsQueue` | under `IInv` a claim that commits takes a row nobody else changed since its locking read, so it is `Take`; a claim whose commit is not acknowledged is the `Take` that leaves nobody with the job; `fail` by the attempt the worker was given; reads, locks and handlers stutter |
| `InboundUsesQueue` | `Spec => UsesQueue` of `InboundDecision` | the same mapping for messages and their jobs; the requests' steps stutter, except the one that enqueues |
| `TakeoverInvariant`, `TakeoverChangesOnce` | `Spec => []IInv` of `HumanTakeover`, `Spec => TakeoverAppliesOnce` (also a consequence of the refinement, stated for its readers) | a handler past `Claim` is the only one with its claim until it lets it go; a change is logged under an id that was not |
| `TakeoverImplementsLedger` | `Spec => ImplementsLedger` | every write of the record goes through the log's test and from the version that was read; `TakesOrReleases`: only takeovers and releases are called, so `EntryOf` recovers command and version from the result |
| `TakeoverHistory` | `Spec => []HistoryIsGapFree` of the record the takeovers leave | from the refinement and `LedgerHistory`, through an instance of `OwnershipLedgerProofs` |
| `TakeoversEndByReleaseOnly` | `Spec => []OnlyReleaseEndsTakeover` | `HoldInv`: what is held or logged for an observation is *anchored*, that is, the record is human or a release with a later version is in the log (`TakeoversAnchored`); only `Apply` moves the record, and as only `release_to_agent` leaves `HUMAN_ACTIVE`, it leaves human only by logging such a release |
| `ChangesReachTheStream` | `Spec => []ChangesAnnouncedUnlessFailed` | `AnnounceInv`: an effective change not yet announced is carried by a process at `project` or `announce` (`ChangesAreCarried`), whose result is the logged record (`CarriedIsLogged`); the comparison with `previous` sees it because what was read is never ahead of the record (`PreviousIsPast`) |
| `OneDecider` | `Spec => []IInv` of `InboundDecision` | `HolderInv`: a request goes on only with the claim, a worker only with a running job, jobs exist only where requests do not decide; claim and lease are given up early only for messages marked failed |
| `TakeoverSilencesNewDecisions` | `Spec => []OnlyBegunTurnsSpeak`: a decision that reads the ownership after a takeover never speaks (those begun before it do: `inbound_overtaken`) | `SeenIsPast`: between reading the ownership and speaking, the version read is not ahead of the record, and behind it if that is human |
| `RecordsAreTrue` | `Spec => []RecordsTellWhatHappened` | `TellInv`: a message nothing failed for is decided in one pass that begins with nothing done for it (`Fresh`); `Passes` says for each await what the executor has done by then, `Apart` that nobody else's step touches it, which needs `OneDecider` |
| `InboundTypes` | `Spec => []TypeInv` | whoever is at work has a message; needed by the three above |
| `EchoesAreTyped`, `NoTakeoverIsMissed`, `EchoesStaySilent` | `Spec => []EchoInv`, `[]PeopleAreNeverIgnored`, `[]OwnEchoesStaySilent` | `IndInv`: what is queued, out or recent was sent (`SentInv`); a send that is not `late` is active or recent when it is shown, waits for itself, and has its own hint when spooled (`RecognizedInv`); a typed message never gets a hint (`PeopleInv`) |
| `FailedClientsHaveSuccessors` | `Spec => []SessionInv` of `LinkedDeviceSession` | `ClientsInv`: in every record of the session, superseded ones included, the guard `restartScheduled` is set only while a timer of that record is (`FlagHasTimer`), so that a `scheduleReconnect` it turns away has its timer; the current record, once failed, has a timer or a restart under way (`HasSuccessor`) |
| `FilesStayUntilAccepted` | `Spec => []FilesOutliveRefusals` | `SentIsAccepted`: what a flush run is about to unlink has been accepted, and nothing else makes a complete file go |
| `GatewayIsSound` | `Spec => []GatewayInv` | `QueueInv` adds that the holders are finitely many and that nobody is in the queue twice; a slot that is given back goes to the head of the queue or, if there is none, is counted off |
| `FailoverReaches` | `Spec => []ReliableCandidateAnswers` | `PlaceInv`: the candidates a request has passed are none of the reliable ones. It passes one that failed, is missing, or has an open circuit, and a reliable one's circuit never opens (`Watched`) |
| `ProbesStayAlone` | `Spec => []ProbesAreAlone` | `CircuitInv`: the calls that go on at a circuit that opened were under way when it did, are over once its time is (`Elapse`), and a probe is let in only where there is none; a circuit that opened keeps at least `Threshold` failures, so that a failure opens it again |
| `TenantsStayRouted` | `StoreSpec => []StoreInv` | each operation takes the old tenant out of the index before it puts the new one in, and a refused one leaves its tenant unlisted. It says of the file that no number is saved for two tenants, not that it can be loaded |
| `SupervisionUsesStore`, `SupervisedTenantsStayRouted` | `Spec => StoreSpec`, hence `Spec => []StoreInv` | every step of `Supervision` is an operation of the store or leaves it alone |
| `EffectsAreAlwaysAuthorised` | `Spec => []EffectsAreAuthorised` | `RequestInv`: a request past the model carries a decision that its policy permits. The core is `EngineIsCautious` |
| `EngineIsCautious` | of `evaluatePermission` alone, for every policy and decision: what it allows is `Permitted`, that is, within a rule's grant and what the model asked for, or the default of reply where no rule speaks | the comparison of the sort is a strict total order on the places of the rules, so the selected rule of a finite policy exists and no matching rule has a stronger effect; the capability is that of the first rule with the selected one's id |
| `VerdictIgnoresRuleOrder` | if no two rules of a policy of version 2 have the same id, the order in which it lists them does not matter | with different ids the place never decides, so a permutation of the list has the same first rule |
| `MessagesAreAnsweredOnce` | `Spec => []AnsweredOnce` | `ReplyInv`: an uncontested latest message is in one request's hand at most, and in none's once it is answered (`OneHolder`); no request has a message that did not arrive (`HeldHasArrived`) |
| `SupervisionIsSound` | `Spec => []SupervisionInv` | `CacheInv` adds to the above that a tenant that is not `loose` is the one every request that may yet take its runtime holds (`RequestsFollowTenants`), which is what makes the cache follow the configuration |

Only model-checked: all liveness properties (`EveryCallAnswered`,
`JobsAreSettled`, `TakeoverHonoured`, `JobsAreDecided`, `MessagesAreDecided`,
`FailedClientsAreReplaced`, `SpoolDrains`, `ObservationsArrive`, `RequestsEnd`), as
the prover has no rules for fairness. Every safety and action property of a passing
run, and every refinement, is a theorem. No module declares a
RECURSIVE operator.

## What the checks found

Four statements of the documentation that the code does not keep; each is a run
that TLC finds violated, with the lines quoted in `PROJECT.json`.

* `takeover_announced` / `ChangesAreAnnounced`: `docs/LINKED_DEVICE_PROTOCOL.md:207`
  says the Supervisor persists and broadcasts `conversation.ownership_changed`
  when ownership changed. If the first attempt fails after its transition, the
  retry compares with the record that transition left and announces nothing.
* `inbound_lost` / `FailedDeliveriesStay`: a message whose processing failed is
  answered with a 200, so the spool removes its only copy.
* `inbound_overtaken` / `TakeoversStopPendingTurns`: `docs/ARCHITECTURE.md:216` says
  manual activity invalidates pending autonomous turns before they can send. The
  ownership is read once, before the model is asked; a turn that waits for the model
  when an operator takes the conversation over sends its reply nevertheless.
* `supervision_asked_less` / `ModelMayAskForLess`: `docs/ARCHITECTURE.md:200` says a
  model may request less authority than policy permits, and the prompts tell it to ask
  for `human` or `ignore`. The request cuts a rule's grant (`applyModelCeiling`) but
  not the default action: under a default of reply such a decision is answered.

Two more, of the same kind, have a configuration of their own but are not among the
listed runs:

* `tlc -config MCDurableJobsAttempts.cfg MCDurableJobs.tla` violates `BoundedAttempts`:
  `docs/DURABLE_RUNTIME.md:81` says jobs have bounded attempts. `claimNext` takes over
  an expired lease without comparing `attempt_count` with `max_attempts`, so a job
  whose handler outlives its lease, or whose worker dies, is started without bound;
  only `fail` buries it. What does hold is `RetriesAreBounded`.
* `tlc -config MCLinkedDeviceBackoff.cfg MCLinkedDeviceSession.tla` violates
  `BackoffGrows`: `docs/DEPLOYMENT.md:175` says a disconnected session is restarted
  with capped exponential backoff. The attempt count lives in the session's record,
  and the timer drops that record for a new one whose count is zero, so that a client
  that keeps failing is retried after the shortest delay each time.

Two things no document denies, met on the way. The API saves files the process
cannot start from: `DELETE` of the last tenant leaves an empty array, which
`loadConfig` refuses (`config.js:87-89`), and an update may leave a tenant without
the flat number it asks for (`config.js:50-60`), even if the tenant has a numbers
array; in the models `Load` is then disabled for good. And `docs/POLICY_V2.md:17`
has ids break ties so that declaration order never changes authority, but ids may
repeat: then the place decides, and an action may run the capability of another rule
with the same id (`orchestrator.js:125` takes the first). `Grants` allows for it.

Properties that exclude `failed` messages, `suspect` jobs, `late` sends, `loose`
tenants or `contested` conversations do so because the code gives no guarantee for
them: a reply may be sent twice when a step after `sendText` fails in a durable
job, and the event store then keeps the first decision where the history shows the
last; two sweeps that overlap may both answer a message; a request that looked a
tenant up before a change puts the old sender back into the cache. The runs reach
these states, and the hazards in `PROJECT.json` name their lines; where the
exclusion covers a hazard whole, no property is listed for it, and a note says so.

## What is not modelled

* Texts, prompts, parsing and HTTP details, the providers' wire formats: no
  property depends on them.
* The files' layout. The ownership ledger's torn last line, the event cursor and
  expansions of `listEvents`: the models take a file for what it says.
* In the worker: media, QR and pairing-code contents, the pairing code's timer,
  the status routes; several sessions (they share only the spool directory, where
  file names carry the session).
* In the gateway: the provider call that goes on after its deadline, which
  changes nothing the gateway keeps, as each continuation looks at the abort signal
  first; settings with `circuitOpenMs` at or below `deadlineMs`.
* In `Supervision`: a tool that goes on after its deadline; a tenant with more
  than one flat number; numbers whose entry id is not the number; unknown policy
  versions are version 1, as in the code; the moderator's report.
* The browser worker (a counter before an external program), the event stream,
  the order of shutdown, readiness, and the migrations, whose mutual exclusion is
  PostgreSQL's advisory lock.
* The command line, configuration, `doctor`, the web interface and the repository's
  tools: straight-line code, or clients of the API.

`PROJECT.json` has each part with its reason.

## The plan

Done, in this order: ownership with its refinement, jobs, takeover and the inbound
decision; then the worker's session and spool, sends and echoes, the model
gateway, the permission engine, the tenant store, and their composition with the
moderator and the runtime cache; then the invariants of the takeover and
inbound modules that had only been checked, and the theorems about `OutboundEcho`,
`ModelGateway`, `TenantStore`, `PermissionEngine` and `Supervision`; then the proofs
about `LinkedDeviceSession`, the abstract ledger and queue with the refinements of
the modules that use them, and the engine's theorems.

What would come next:

1. The file ledger as bytes with a torn tail, refining `OwnershipLedger` where the
   process dies between two lines.
2. `Supervision`'s decision as the one `InboundDecision` models, so that a sweep
   meets the claims and jobs, not only the conversation.
3. `InboundDecision`'s ownership changes as transitions of `OwnershipLedger`.
4. Shutdown and migrations, the browser worker's admission.
