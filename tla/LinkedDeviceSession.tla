------------------------- MODULE LinkedDeviceSession -------------------------
(***************************************************************************)
(* One linked-device session of the WhatsApp worker: the browser client    *)
(* that serves it, the timers that replace a failed client, and the way of *)
(* an inbound message from the client's event to a file of the spool and   *)
(* on to the supervisor.  Every await is a step boundary; the process may  *)
(* die between any two steps, and only the spool's files survive it.       *)
(* Inbound messages are those that pass handleInbound's filters.           *)
(***************************************************************************)
EXTENDS Naturals, Sequences

CONSTANTS Inbound,      \* inbound messages of the session
          Flushes,      \* runs of flushOnce that may overlap
          NoMessage,
          Clients,      \* positions of clients, as many as a budget lets start
          DelayCap,     \* the longest delay, in units of reconnectBaseMs
          Budgets       \* bounds: how often a client fails, the worker stops, a
                        \* delivery or file operation fails, a message is seen

ASSUME SessionConstants ==
    /\ NoMessage \notin Inbound
    /\ DelayCap \in Nat \ {0}
    /\ Budgets \subseteq [failures : Nat, stops : Nat, refusals : Nat, arrivals : Nat]

VARIABLES phase,        \* of the process
          clients,      \* the records of startSession, in the order they were made
          current,      \* the one this.sessions maps the session to, or 0
          handlers,     \* handleInbound calls that are not over
          spool,        \* message -> its file
          flush,        \* flush run -> items left, and the one just accepted
          accepted,     \* messages the supervisor has answered 2xx for
          left          \* of the budget of this behaviour

lifecycle == <<phase, clients, current>>
inbox == <<handlers, spool, flush, accepted>>
sessionVars == <<lifecycle, inbox, left>>

Statuses == {"starting", "pairing", "ready", "auth-failure", "disconnected", "error"}
Failed == {"disconnected", "error"}

(* alive: the browser runs; timers: reconnect timers set and not fired;    *)
(* restarting: fired ones whose destroy is awaited; seen: processedMsgIds. *)
NewClient == [status |-> "starting", alive |-> TRUE, initializing |-> TRUE,
              wasReady |-> FALSE, scheduled |-> FALSE, attempt |-> 0,
              timers |-> 0, restarting |-> 0, seen |-> {}]
Idle == [todo |-> {}, sent |-> NoMessage]

SessionInit ==
    /\ phase = "down" /\ clients = <<>> /\ current = 0
    /\ handlers = {} /\ accepted = {}
    /\ spool = [m \in Inbound |-> "none"]
    /\ flush = [f \in Flushes |-> Idle]
    /\ left \in Budgets

Spend(kind) == left[kind] > 0 /\ left' = [left EXCEPT ![kind] = @ - 1]
Live(c) == c \in DOMAIN clients /\ clients[c].alive

(* 2^(attempt-1) times the base, capped.                                   *)
Delay(attempt) == IF 2^(attempt - 1) < DelayCap THEN 2^(attempt - 1) ELSE DelayCap

ScheduleReconnect(client) ==
    IF client.scheduled THEN client
    ELSE [client EXCEPT !.scheduled = TRUE, !.attempt = @ + 1, !.timers = @ + 1]

Become(c, client) == clients' = [clients EXCEPT ![c] = client]

-----------------------------------------------------------------------------
(* The life cycle.  startAll awaits the first client's initialize before   *)
(* the interval and the HTTP server are started.                           *)
StartAll ==
    /\ phase = "down"
    /\ phase' = "booting"
    /\ clients' = <<NewClient>> /\ current' = 1
    /\ UNCHANGED <<inbox, left>>

Initialized(c) ==
    /\ clients[c].initializing
    /\ phase' = IF phase = "booting" /\ c = 1 THEN "up" ELSE phase
    /\ \/ /\ Become(c, [clients[c] EXCEPT !.initializing = FALSE])
          /\ UNCHANGED left
       \/ /\ Spend("failures")
          /\ Become(c, ScheduleReconnect(
                           [clients[c] EXCEPT !.initializing = FALSE, !.status = "error"]))
    /\ UNCHANGED <<current, inbox>>

(* The client's events: qr and code; ready; auth_failure; disconnected.    *)
Pairing(c) ==
    /\ Live(c)
    /\ Become(c, [clients[c] EXCEPT !.status = "pairing"])
    /\ UNCHANGED <<phase, current, inbox, left>>

Ready(c) ==
    /\ Live(c)
    /\ Become(c, [clients[c] EXCEPT !.status = "ready", !.wasReady = TRUE,
                                    !.attempt = 0, !.scheduled = FALSE])
    /\ UNCHANGED <<phase, current, inbox, left>>

AuthFailure(c) ==
    /\ Live(c)
    /\ Spend("failures")
    /\ Become(c, [clients[c] EXCEPT !.status = "auth-failure"])
    /\ UNCHANGED <<phase, current, inbox>>

Disconnected(c) ==
    /\ Live(c)
    /\ Spend("failures")
    /\ Become(c, ScheduleReconnect([clients[c] EXCEPT !.status = "disconnected"]))
    /\ UNCHANGED <<phase, current, inbox>>

TimerFiresKeepingFlag(c) ==   \* mutant: restartScheduled is not reset
    /\ clients[c].timers > 0
    /\ Become(c, [clients[c] EXCEPT !.timers = @ - 1, !.restarting = @ + 1])
    /\ UNCHANGED <<phase, current, inbox, left>>

TimerFires(c) ==
    /\ clients[c].timers > 0
    /\ Become(c, [clients[c] EXCEPT !.timers = @ - 1, !.restarting = @ + 1,
                                    !.scheduled = FALSE])
    /\ UNCHANGED <<phase, current, inbox, left>>

RestartForgotten(c) ==        \* mutant: the map entry is kept, startSession returns it
    /\ clients[c].restarting > 0
    /\ Become(c, [clients[c] EXCEPT !.restarting = @ - 1, !.alive = FALSE])
    /\ UNCHANGED <<phase, current, inbox, left>>

(* The timer's destroy returned, or failed and was ignored: whichever      *)
(* record the map holds is dropped, and a new client starts.               *)
Restart(c) ==
    /\ clients[c].restarting > 0
    /\ \E destroyed \in BOOLEAN :
           clients' = Append([clients EXCEPT ![c].restarting = @ - 1,
                                             ![c].alive = @ /\ ~destroyed], NewClient)
    /\ current' = Len(clients) + 1
    /\ UNCHANGED <<phase, inbox, left>>

(* SIGTERM: the interval stops and close destroys the clients of the map;  *)
(* timers are not cleared.                                                 *)
Shutdown ==
    /\ phase = "up"
    /\ Spend("stops")
    /\ phase' = "closing"
    /\ UNCHANGED <<clients, current, inbox>>

Close ==
    /\ phase = "closing" /\ current # 0
    /\ Become(current, [clients[current] EXCEPT !.alive = FALSE])
    /\ current' = 0
    /\ UNCHANGED <<phase, inbox, left>>

(* The process ends: nothing of it stays but the files.                    *)
End ==
    /\ phase' = "down" /\ clients' = <<>> /\ current' = 0
    /\ handlers' = {}
    /\ flush' = [f \in Flushes |-> Idle]
    /\ UNCHANGED <<spool, accepted>>

Exit == phase = "closing" /\ current = 0 /\ End /\ UNCHANGED left

Crash ==
    /\ phase # "down"
    /\ Spend("stops")
    /\ End

-----------------------------------------------------------------------------
(* From the client's event to the file.  message and message_create both   *)
(* arrive; the second of a client finds the id in processedMsgIds.         *)
HandleMsg(c, m) ==
    /\ Live(c)
    /\ m \notin clients[c].seen
    /\ Spend("arrivals")
    /\ Become(c, [clients[c] EXCEPT !.seen = @ \cup {m}])
    /\ handlers' = handlers \cup {[client |-> c, msg |-> m, at |-> "open"]}
    /\ UNCHANGED <<phase, current, spool, flush, accepted>>

Leave(h) == handlers' = handlers \ {h}

(* open(path, 'wx'): an existing file ends the enqueue.                    *)
OpenFile(h) ==
    /\ h.at = "open"
    /\ \/ /\ spool[h.msg] = "none"
          /\ spool' = [spool EXCEPT ![h.msg] = "empty"]
          /\ handlers' = (handlers \ {h}) \cup {[h EXCEPT !.at = "write"]}
          /\ UNCHANGED left
       \/ spool[h.msg] # "none" /\ Leave(h) /\ UNCHANGED <<spool, left>>
       \/ Spend("refusals") /\ Leave(h) /\ UNCHANGED spool
    /\ UNCHANGED <<lifecycle, flush, accepted>>

(* A failed write leaves the empty file behind.                            *)
WriteFile(h) ==
    /\ h.at = "write"
    /\ Leave(h)
    /\ \/ spool' = [spool EXCEPT ![h.msg] = "full"] /\ UNCHANGED left
       \/ Spend("refusals") /\ UNCHANGED spool
    /\ UNCHANGED <<lifecycle, flush, accepted>>

StartFlushAtBoot(f) ==        \* mutant: no interval
    /\ phase = "booting"
    /\ flush[f] = Idle
    /\ flush' = [flush EXCEPT ![f].todo = {m \in Inbound : spool[m] = "full"}]
    /\ UNCHANGED <<lifecycle, handlers, spool, accepted, left>>

(* flushOnce: by the interval, on ready and after each enqueue.  listPending *)
(* skips the files it cannot parse.                                        *)
StartFlush(f) ==
    /\ phase # "down"
    /\ flush[f] = Idle
    /\ flush' = [flush EXCEPT ![f].todo = {m \in Inbound : spool[m] = "full"}]
    /\ UNCHANGED <<lifecycle, handlers, spool, accepted, left>>

Skip(f, m) == flush' = [flush EXCEPT ![f].todo = @ \ {m}]

DeliverAnyStatus(f, m) ==     \* mutant: the status of the answer is ignored
    /\ m \in flush[f].todo /\ flush[f].sent = NoMessage
    /\ flush' = [flush EXCEPT ![f] = [todo |-> @.todo \ {m}, sent |-> m]]
    /\ \/ accepted' = accepted \cup {m} /\ UNCHANGED left
       \/ Spend("refusals") /\ UNCHANGED accepted
    /\ UNCHANGED <<lifecycle, handlers, spool>>

DeliverFile(f, m) ==
    /\ m \in flush[f].todo /\ flush[f].sent = NoMessage
    /\ \/ /\ accepted' = accepted \cup {m}
          /\ flush' = [flush EXCEPT ![f] = [todo |-> @.todo \ {m}, sent |-> m]]
          /\ UNCHANGED left
       \/ Spend("refusals") /\ Skip(f, m) /\ accepted' \in {accepted, accepted \cup {m}}
    /\ UNCHANGED <<lifecycle, handlers, spool>>

(* unlink removes whatever has the name, a file another handler has just   *)
(* created included; a missing one is no error.                            *)
Unlink(f) ==
    /\ flush[f].sent # NoMessage
    /\ spool' = [spool EXCEPT ![flush[f].sent] = "none"]
    /\ handlers' = {h \in handlers : ~(h.at = "write" /\ h.msg = flush[f].sent)}
    /\ flush' = [flush EXCEPT ![f].sent = NoMessage]
    /\ UNCHANGED <<lifecycle, accepted, left>>

-----------------------------------------------------------------------------
ClientStep(c) ==
    \/ Initialized(c) \/ Pairing(c) \/ Ready(c) \/ AuthFailure(c)
    \/ Disconnected(c) \/ TimerFires(c) \/ Restart(c)
    \/ \E m \in Inbound : HandleMsg(c, m)

HandlerStep(h) == OpenFile(h) \/ WriteFile(h)
FlushStep(f) == StartFlush(f) \/ (\E m \in Inbound : DeliverFile(f, m)) \/ Unlink(f)

SessionNext ==
    \/ StartAll \/ Shutdown \/ Close \/ Exit \/ Crash
    \/ \E c \in DOMAIN clients : ClientStep(c)
    \/ \E h \in handlers : HandlerStep(h)
    \/ \E f \in Flushes : FlushStep(f)

(* The process manager restarts the worker (restart: unless-stopped), the  *)
(* timers fire, the interval keeps flushing and each call returns; nothing *)
(* is assumed of the clients' events or of new messages.                   *)
SessionFairness ==
    /\ WF_sessionVars(StartAll) /\ WF_sessionVars(Close) /\ WF_sessionVars(Exit)
    /\ \A c \in Clients :
           /\ WF_sessionVars(c \in DOMAIN clients /\ Initialized(c))
           /\ WF_sessionVars(c \in DOMAIN clients /\ TimerFires(c))
           /\ WF_sessionVars(c \in DOMAIN clients /\ Restart(c))
    /\ \A f \in Flushes :
           /\ WF_sessionVars(StartFlush(f)) /\ WF_sessionVars(Unlink(f))
           /\ \A m \in Inbound : WF_sessionVars(DeliverFile(f, m))

SessionSpec == SessionInit /\ [][SessionNext]_sessionVars /\ SessionFairness

-----------------------------------------------------------------------------
SessionTypeOK ==
    /\ phase \in {"down", "booting", "up", "closing"}
    /\ clients \in Seq([status : Statuses, alive : BOOLEAN, initializing : BOOLEAN,
                        wasReady : BOOLEAN, scheduled : BOOLEAN, attempt : Nat,
                        timers : Nat, restarting : Nat, seen : SUBSET Inbound])
    /\ current \in 0..Len(clients)
    /\ handlers \subseteq [client : Nat, msg : Inbound, at : {"open", "write"}]
    /\ spool \in [Inbound -> {"none", "empty", "full"}]
    /\ flush \in [Flushes -> [todo : SUBSET Inbound, sent : Inbound \cup {NoMessage}]]
    /\ accepted \subseteq Inbound
    /\ left \in [failures : Nat, stops : Nat, refusals : Nat, arrivals : Nat]

(* The flag never blocks a restart for nothing: it is set only while a     *)
(* timer is.  And a failed client the session still maps to has one coming *)
(* or under way.                                                           *)
RestartPending ==
    /\ \A c \in DOMAIN clients : clients[c].scheduled => clients[c].timers > 0
    /\ current # 0 /\ clients[current].status \in Failed
           => clients[current].timers + clients[current].restarting > 0

SessionInv == SessionTypeOK /\ RestartPending

(* At most once is not promised, at least once is: a complete file leaves  *)
(* the spool only after the supervisor took its message, whichever runs of *)
(* flushOnce, handlers and deaths of the process interleave.               *)
FilesOutliveRefusals ==
    [][\A m \in Inbound :
           spool[m] = "full" /\ spool'[m] # "full" => m \in accepted]_sessionVars

(* A client that disconnects or cannot start is replaced, or recovers by   *)
(* itself, unless the worker stops.                                        *)
FailedClientsAreReplaced ==
    \A c \in Clients :
        current = c /\ clients[c].status \in Failed
            ~> current # c \/ clients[c].status \notin Failed

(* Every complete file is delivered in the end, across refusals, lost      *)
(* answers, reconnections and restarts.                                    *)
SpoolDrains == \A m \in Inbound : spool[m] = "full" ~> m \in accepted

(* "Capped exponential backoff": a client that fails like the one before   *)
(* it, neither having been ready, waits twice as long, up to the cap.      *)
BackoffGrows ==
    \A c \in DOMAIN clients \ {1} :
        LET before == clients[c - 1] IN
        /\ before.attempt > 0 /\ clients[c].attempt > 0
        /\ ~before.wasReady /\ ~clients[c].wasReady
        => \/ Delay(clients[c].attempt) = 2 * Delay(before.attempt)
           \/ Delay(clients[c].attempt) = DelayCap
=============================================================================
