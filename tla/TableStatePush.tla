--------------------------- MODULE TableStatePush ----------------------------
(***************************************************************************)
(* The gateway's WebSocket push of one round's table state: the connection *)
(* manager, the fan-out and the endpoint's reconciliation loop.  Broadcasts*)
(* run concurrently: one task per event delivered (the consumer prefetches *)
(* many) and one loop per socket.  Events may be missed (see               *)
(* EventDelivery); a snapshot is the version game-service had committed    *)
(* when it answered.  Init, Next and their like have a prefix here, so     *)
(* that this module and EventDelivery can be extended together.            *)
(***************************************************************************)
EXTENDS Integers, FiniteSets

CONSTANTS
    Sockets,        \* WebSockets that connect to the round
    Handlers,       \* events the consumer handles at a time
    MaxVersion,     \* bound on the changes of the round
    MaxErrors       \* bound on the requests to game-service that fail

ASSUME BoundsAssumption == MaxVersion \in Nat \ {0} /\ MaxErrors \in Nat
ASSUME TasksAssumption == Sockets \cap Handlers = {}

VARIABLES
    version,        \* what game-service answers with
    events,         \* events of the round the gateway has yet to handle
    registered,     \* _connections[round_id]
    open,           \* sockets the client has not closed
    loop,           \* per socket: "none" before it connects, "running", "ended"
    task,           \* per task: the broadcast it is executing
    shown,          \* the version a client displays, 0 before the first
    errors          \* failed requests so far

pushVars == <<version, events, registered, open, loop, task, shown, errors>>

Tasks == Sockets \cup Handlers
Error == 0          \* the snapshot of an answer with status 400 or above

Idle == [at |-> "idle", snapshot |-> Error, targets |-> {}]

PushInit ==
    /\ version = 1 /\ events = 0
    /\ registered = {} /\ open = {}
    /\ loop = [s \in Sockets |-> "none"]
    /\ task = [t \in Tasks |-> Idle]
    /\ shown = [s \in Sockets |-> 0]
    /\ errors = 0

Moves(t, state) == task' = [task EXCEPT ![t] = state]

-----------------------------------------------------------------------------
(* A command changes the round; its event arrives, or is missed. *)
Change ==
    /\ version < MaxVersion
    /\ version' = version + 1
    /\ events' \in {events, events + 1}
    /\ UNCHANGED <<registered, open, loop, task, shown, errors>>

(* The endpoint registers the socket and starts its first broadcast. *)
Connect(s) ==
    /\ loop[s] = "none"
    /\ open' = open \cup {s}
    /\ registered' = registered \cup {s}
    /\ loop' = [loop EXCEPT ![s] = "running"]
    /\ Moves(s, [Idle EXCEPT !.at = "fetching"])
    /\ UNCHANGED <<version, events, shown, errors>>

(* The client goes away; the gateway only notices when it sends. *)
Close(s) ==
    /\ s \in open
    /\ open' = open \ {s}
    /\ UNCHANGED <<version, events, registered, loop, task, shown, errors>>

(* handle_event: a round nobody subscribes to is not fetched. *)
HandleEvent(h) ==
    /\ events > 0
    /\ task[h] = Idle
    /\ events' = events - 1
    /\ Moves(h, IF registered = {} THEN Idle ELSE [Idle EXCEPT !.at = "fetching"])
    /\ UNCHANGED <<version, registered, open, loop, shown, errors>>

(* Mutant: only a client without any snapshot is reconciled. *)
ReconcileOnce(s) ==
    /\ loop[s] = "running"
    /\ task[s] = Idle
    /\ shown[s] = 0
    /\ Moves(s, [Idle EXCEPT !.at = "fetching"])
    /\ UNCHANGED <<version, events, registered, open, loop, shown, errors>>

(* The loop of a socket, after sleeping. *)
Reconcile(s) ==
    /\ loop[s] = "running"
    /\ task[s] = Idle
    /\ Moves(s, [Idle EXCEPT !.at = "fetching"])
    /\ UNCHANGED <<version, events, registered, open, loop, shown, errors>>

(* game-service answers the request of task t with what is committed. *)
Answered(t) ==
    /\ task[t].at = "fetching"
    /\ Moves(t, [task[t] EXCEPT !.at = "fetched", !.snapshot = version])
    /\ UNCHANGED <<version, events, registered, open, loop, shown, errors>>

(* It answers with an error status, which is broadcast instead. *)
Refused(t) ==
    /\ task[t].at = "fetching"
    /\ errors < MaxErrors
    /\ errors' = errors + 1
    /\ Moves(t, [task[t] EXCEPT !.at = "fetched", !.snapshot = Error])
    /\ UNCHANGED <<version, events, registered, open, loop, shown>>

(* The request raises.  In a handler the consumer retries the event, or    *)
(* gives it up; in a socket's loop it ends the endpoint, which unregisters *)
(* the socket, and the server closes it.                                   *)
Raises(t) ==
    /\ task[t].at = "fetching"
    /\ errors < MaxErrors
    /\ errors' = errors + 1
    /\ Moves(t, Idle)
    /\ registered' = registered \ {t}
    /\ open' = open \ {t}
    /\ loop' = [s \in Sockets |-> IF s = t THEN "ended" ELSE loop[s]]
    /\ IF t \in Handlers THEN events' \in {events, events + 1} ELSE events' = events
    /\ UNCHANGED <<version, shown>>

(* broadcast_json lists the sockets registered by now. *)
ListTargets(t) ==
    /\ task[t].at = "fetched"
    /\ Moves(t, [task[t] EXCEPT !.at = "sending", !.targets = registered])
    /\ UNCHANGED <<version, events, registered, open, loop, shown, errors>>

(* Mutant: the last subscription of the round takes the others with it. *)
DisconnectedAll(s) == {}

(* Mutant: the closed socket stays subscribed. *)
DisconnectedNone(s) == registered

(* TableStateConnectionManager.disconnect *)
Disconnected(s) == registered \ {s}

(* send_json: a socket unregistered meanwhile is skipped, a closed one is  *)
(* unregistered.  The exception never leaves send_json, so the loop of a   *)
(* closed socket goes on.                                                  *)
Send(t, s) ==
    /\ task[t].at = "sending"
    /\ s \in task[t].targets
    /\ Moves(t, [task[t] EXCEPT !.targets = @ \ {s}])
    /\ registered' = IF s \in registered \ open THEN Disconnected(s) ELSE registered
    /\ shown' = IF s \in registered \cap open /\ task[t].snapshot # Error
                THEN [shown EXCEPT ![s] = task[t].snapshot] ELSE shown
    /\ UNCHANGED <<version, events, open, loop, errors>>

Sent(t) ==
    /\ task[t].at = "sending"
    /\ task[t].targets = {}
    /\ Moves(t, Idle)
    /\ UNCHANGED <<version, events, registered, open, loop, shown, errors>>

TaskStep(t) ==
    \/ Answered(t) \/ Refused(t) \/ Raises(t) \/ ListTargets(t) \/ Sent(t)
    \/ \E s \in task[t].targets : Send(t, s)

PushNext ==
    \/ Change
    \/ \E s \in Sockets : Connect(s) \/ Close(s) \/ Reconcile(s)
    \/ \E h \in Handlers : HandleEvent(h)
    \/ \E t \in Tasks : TaskStep(t)

PushSpec == PushInit /\ [][PushNext]_pushVars

(* Requests are answered, time out or fail, sends end, and sleeping loops  *)
(* wake up.  Nothing is assumed of clients, commands or events.            *)
PushFairSpec ==
    /\ PushSpec
    /\ \A t \in Tasks : WF_pushVars(TaskStep(t))
    /\ \A s \in Sockets : WF_pushVars(Reconcile(s))

-----------------------------------------------------------------------------
(* Properties                                                              *)

PushTypeOK ==
    /\ version \in 1..MaxVersion /\ events \in Nat
    /\ registered \subseteq Sockets /\ open \subseteq Sockets
    /\ loop \in [Sockets -> {"none", "running", "ended"}]
    /\ task \in [Tasks -> [at: {"idle", "fetching", "fetched", "sending"},
                           snapshot: 0..MaxVersion, targets: SUBSET Sockets]]
    /\ shown \in [Sockets -> 0..MaxVersion]
    /\ errors \in Nat

(* However broadcasts, failures and other clients' departures overlap, a   *)
(* client that is still there stays subscribed and its loop running.       *)
OpenStaysSubscribed == \A s \in open : s \in registered /\ loop[s] = "running"

(* The gateway finds out about clients that are gone: none stays           *)
(* subscribed for ever.                                                    *)
ClosedIsForgotten == \A s \in Sockets : s \in registered \ open ~> s \notin registered

(* Broadcasts overtake one another and a client may be shown an older      *)
(* state after a newer one, and events may be missed: still, once the      *)
(* round stops changing, every client that stays ends up with its state.   *)
ClientsCatchUp ==
    \A s \in Sockets : <>[](s \in open => shown[s] = version)
=============================================================================
