---------------------------- MODULE EventDelivery ----------------------------
(***************************************************************************)
(* Domain events on their way from a service's outbox table to a consumer  *)
(* (shared/core/outbox and shared/core/messaging).  Every replica of the   *)
(* service runs run_outbox_loop; a consumer acknowledges a message, passes *)
(* it to its retry queue or rejects it to the dead-letter queue.           *)
(*                                                                         *)
(* A queue is a bag of messages.  A message copied by a retry carries its  *)
(* x-retry-count.  The broker is durable; connections and processes fail.  *)
(*                                                                         *)
(* An event is published to a topic exchange under its routing key.  The   *)
(* broker puts it on the consumer's queue if that has been bound to the    *)
(* key, and otherwise returns it: publish does not ask for an error then,  *)
(* so that the row is marked SENT in both cases.                           *)
(***************************************************************************)
EXTENDS Integers, FiniteSets, FiniteSetsExt

CONSTANTS
    Events,         \* ids of the rows of outbox_events, in insertion order
    RoutingKey,     \* the routing key of each event
    BoundKeys,      \* routing_keys of the consumer
    Workers,        \* replicas running the outbox loop
    BatchSize,      \* batch_size of _claim_batch
    MaxAttempts,    \* max_attempts of run_outbox_loop
    MaxRetries,     \* max_retries of the consumer
    MaxFaults       \* bound on rollbacks and lost connections

ASSUME EventsAssumption == Events \subseteq Nat /\ IsFiniteSet(Events)
ASSUME LimitsAssumption ==
    /\ BatchSize \in Nat \ {0} /\ MaxAttempts \in Nat \ {0}
    /\ MaxRetries \in Nat /\ MaxFaults \in Nat

VARIABLES
    rows,       \* committed outbox_events: status and attempts
    worker,     \* per worker: rows locked, rows left to publish, rows updated
    bound,      \* keys the consumer has bound its main queue to
    returned,   \* events published last under a key with no queue bound to it
    main, retry, dlq,   \* the consumer's three queues
    unacked,    \* messages the consumer has received and not acknowledged
    copied,     \* those of unacked that have been passed to the retry queue
    handled,    \* events the handler has completed
    published,  \* how often the broker has received an event
    faults      \* rollbacks and lost connections so far

routing == <<bound, returned>>
queues == <<routing, main, retry, dlq, unacked, copied, handled>>
vars == <<rows, worker, queues, published, faults>>

Statuses == {"PENDING", "SENT", "FAILED"}
Absent == [status |-> "ABSENT", attempts |-> 0]
Row == [status: Statuses, attempts: Nat] \cup {Absent}

Message == [event: Events, retries: 0..MaxRetries]
Put(queue, m) == [queue EXCEPT ![m] = @ + 1]
Take(queue, m) == [queue EXCEPT ![m] = @ - 1]
On(queue, e) == \E m \in Message : m.event = e /\ queue[m] > 0

NoTransaction == [locked |-> {}, left |-> {}, updates |-> [e \in {} |-> Absent]]

Init ==
    /\ rows = [e \in Events |-> Absent]
    /\ worker = [w \in Workers |-> NoTransaction]
    /\ bound = {} /\ returned = {}
    /\ main = [m \in Message |-> 0] /\ retry = main /\ dlq = main
    /\ unacked = main /\ copied = main
    /\ handled = {}
    /\ published = [e \in Events |-> 0]
    /\ faults = 0

-----------------------------------------------------------------------------
(* The outbox                                                              *)

(* add_outbox_event, in the transaction of the command that emits it. *)
AddEvent(e) ==
    /\ rows[e] = Absent
    /\ \A f \in Events : f < e => rows[f] # Absent
    /\ rows' = [rows EXCEPT ![e] = [status |-> "PENDING", attempts |-> 0]]
    /\ UNCHANGED <<worker, queues, published, faults>>

Pending == {e \in Events : rows[e].status = "PENDING"}
Locked == UNION {worker[w].locked : w \in Workers}

(* The first BatchSize rows of S in id order. *)
FirstRows(S) == {e \in S : Cardinality({f \in S : f < e}) < BatchSize}

(* Mutant: the batch is selected without locking it. *)
ClaimableUnlocked == FirstRows(Pending)

(* with_for_update(skip_locked=True) *)
Claimable == FirstRows(Pending \ Locked)

ClaimBatch(w) ==
    /\ worker[w] = NoTransaction
    /\ Claimable # {}
    /\ worker' = [worker EXCEPT ![w] = [@ EXCEPT !.locked = Claimable,
                                                 !.left = Claimable]]
    /\ UNCHANGED <<rows, queues, published, faults>>

(* Within the transaction of worker w, row e of the batch gets this value. *)
Mark(w, e, row) ==
    worker' = [worker EXCEPT ![w].left = @ \ {e},
                             ![w].updates = [f \in DOMAIN @ \cup {e} |->
                                               IF f = e THEN row ELSE @[f]]]

Routable(e) == RoutingKey[e] \in bound

(* The event reaches the broker, which confirms it whether or not a queue  *)
(* takes it.                                                               *)
Reaches(e) ==
    /\ published' = [published EXCEPT ![e] = @ + 1]
    /\ \/ /\ Routable(e)
          /\ main' = Put(main, [event |-> e, retries |-> 0])
          /\ returned' = returned \ {e}
       \/ /\ ~Routable(e)
          /\ returned' = returned \cup {e}
          /\ UNCHANGED main
    /\ UNCHANGED <<bound, retry, dlq, unacked, copied, handled>>

(* The broker confirms the message, returned or not, then _mark_sent. *)
Publish(w, e) ==
    /\ worker[w].left # {} /\ e = Min(worker[w].left)
    /\ Reaches(e)
    /\ Mark(w, e, [rows[e] EXCEPT !.status = "SENT"])
    /\ UNCHANGED <<rows, faults>>

(* Mutant: the attempt is not counted. *)
PublishFailsUncounted(w, e) ==
    /\ worker[w].left # {} /\ e = Min(worker[w].left)
    /\ Reaches(e) \/ UNCHANGED <<queues, published>>
    /\ Mark(w, e, rows[e])
    /\ UNCHANGED <<rows, faults>>

(* publish raises.  The message may have reached the broker all the same,  *)
(* when only its confirmation was lost.                                    *)
PublishFails(w, e) ==
    LET attempts == rows[e].attempts + 1
    IN  /\ worker[w].left # {} /\ e = Min(worker[w].left)
        /\ Reaches(e) \/ UNCHANGED <<queues, published>>
        /\ Mark(w, e, [status |-> IF attempts >= MaxAttempts THEN "FAILED" ELSE "PENDING",
                       attempts |-> attempts])
        /\ UNCHANGED <<rows, faults>>

CommitBatch(w) ==
    /\ worker[w] # NoTransaction /\ worker[w].left = {}
    /\ rows' = [e \in Events |-> IF e \in DOMAIN worker[w].updates
                                 THEN worker[w].updates[e] ELSE rows[e]]
    /\ worker' = [worker EXCEPT ![w] = NoTransaction]
    /\ UNCHANGED <<queues, published, faults>>

(* The process stops, or an update fails and the loop logs the error: the  *)
(* updates are rolled back, what was published stays published.            *)
Rollback(w) ==
    /\ worker[w] # NoTransaction
    /\ faults < MaxFaults
    /\ faults' = faults + 1
    /\ worker' = [worker EXCEPT ![w] = NoTransaction]
    /\ UNCHANGED <<rows, queues, published>>

-----------------------------------------------------------------------------
(* The consumer                                                            *)

(* setup_consumer_topology declares the queues and binds the main one to   *)
(* one key after another.  Bindings are durable; the loop around it tries  *)
(* again when the connection fails.                                        *)
BindKey(k) ==
    /\ k \in BoundKeys \ bound
    /\ bound' = bound \cup {k}
    /\ UNCHANGED <<rows, worker, returned, main, retry, dlq, unacked, copied, handled,
                   published, faults>>

(* Consumption starts once all keys are bound. *)
Deliver(m) ==
    /\ bound = BoundKeys
    /\ main[m] > 0
    /\ main' = Take(main, m)
    /\ unacked' = Put(unacked, m)
    /\ UNCHANGED <<rows, worker, routing, retry, dlq, copied, handled, published, faults>>

(* The handler returns and the message is acknowledged. *)
Handle(m) ==
    /\ unacked[m] > copied[m]
    /\ handled' = handled \cup {m.event}
    /\ unacked' = Take(unacked, m)
    /\ UNCHANGED <<rows, worker, routing, main, retry, dlq, copied, published, faults>>

(* Mutant: the copy on its way to the retry queue is acknowledged first. *)
CopyToRetryAcked(m) ==
    /\ unacked[m] > copied[m]
    /\ m.retries < MaxRetries
    /\ unacked' = Take(unacked, m)
    /\ \/ retry' = Put(retry, [m EXCEPT !.retries = @ + 1]) /\ UNCHANGED faults
       \/ faults < MaxFaults /\ faults' = faults + 1 /\ UNCHANGED retry
    /\ UNCHANGED <<rows, worker, routing, main, dlq, copied, handled, published>>


(* The handler raises: a copy with a higher count goes to the retry queue, *)
(* then the original is acknowledged.                                      *)
CopyToRetry(m) ==
    /\ unacked[m] > copied[m]
    /\ m.retries < MaxRetries
    /\ retry' = Put(retry, [m EXCEPT !.retries = @ + 1])
    /\ copied' = Put(copied, m)
    /\ UNCHANGED <<rows, worker, routing, main, dlq, unacked, handled, published, faults>>

AckCopied(m) ==
    /\ copied[m] > 0
    /\ copied' = Take(copied, m)
    /\ unacked' = Take(unacked, m)
    /\ UNCHANGED <<rows, worker, routing, main, retry, dlq, handled, published, faults>>

(* Retries exhausted: rejected without requeueing, so dead-lettered. *)
Reject(m) ==
    /\ unacked[m] > copied[m]
    /\ m.retries >= MaxRetries
    /\ dlq' = Put(dlq, m)
    /\ unacked' = Take(unacked, m)
    /\ UNCHANGED <<rows, worker, routing, main, retry, copied, handled, published, faults>>

(* x-message-ttl of the retry queue: back to the main queue. *)
RetryExpires(m) ==
    /\ retry[m] > 0
    /\ retry' = Take(retry, m)
    /\ main' = Put(main, m)
    /\ UNCHANGED <<rows, worker, routing, dlq, unacked, copied, handled, published, faults>>

(* The consumer loses its connection: the broker requeues what it did not  *)
(* acknowledge.                                                            *)
Disconnect ==
    /\ faults < MaxFaults
    /\ \E m \in Message : unacked[m] > 0
    /\ faults' = faults + 1
    /\ main' = [m \in Message |-> main[m] + unacked[m]]
    /\ unacked' = [m \in Message |-> 0] /\ copied' = [m \in Message |-> 0]
    /\ UNCHANGED <<rows, worker, routing, retry, dlq, handled, published>>

WorkerStep(w) ==
    \/ ClaimBatch(w)
    \/ \E e \in worker[w].left : Publish(w, e) \/ PublishFails(w, e)
    \/ CommitBatch(w)

BindStep == \E k \in BoundKeys : BindKey(k)

ConsumerStep ==
    \E m \in Message :
       \/ Deliver(m) \/ Handle(m) \/ CopyToRetry(m) \/ AckCopied(m) \/ Reject(m)
       \/ RetryExpires(m)

Next ==
    \/ \E e \in Events : AddEvent(e)
    \/ \E w \in Workers : WorkerStep(w) \/ Rollback(w)
    \/ BindStep \/ ConsumerStep
    \/ Disconnect

Spec == Init /\ [][Next]_vars

(* The loop polls every second, the consumer tries to bind its queue until *)
(* it is done, the broker delivers what is queued and moves on what has    *)
(* expired, and handlers end (the client has a timeout).                   *)
FairSpec ==
    /\ Spec
    /\ \A w \in Workers : WF_vars(WorkerStep(w))
    /\ WF_vars(BindStep)
    /\ WF_vars(ConsumerStep)

-----------------------------------------------------------------------------
(* Properties                                                              *)

TypeOK ==
    /\ rows \in [Events -> Row]
    /\ \A w \in Workers :
          /\ worker[w].left \subseteq worker[w].locked
          /\ worker[w].locked \subseteq Events
          /\ DOMAIN worker[w].updates = worker[w].locked \ worker[w].left
          /\ \A e \in DOMAIN worker[w].updates : worker[w].updates[e] \in Row \ {Absent}
    /\ \A queue \in {main, retry, dlq, unacked, copied} : queue \in [Message -> Nat]
    /\ \A m \in Message : copied[m] <= unacked[m]
    /\ bound \subseteq BoundKeys /\ returned \subseteq Events
    /\ handled \subseteq Events
    /\ published \in [Events -> Nat]
    /\ faults \in Nat

Delivered(e) == e \in handled \/ On(main, e) \/ On(retry, e) \/ On(unacked, e) \/ On(dlq, e)

(* SENT says of an event that the broker did not return (its key had been  *)
(* bound when _mark_sent followed publish): through rollbacks, lost        *)
(* connections, retries and dead-lettering it has been handled or is still *)
(* on one of the queues.  Of a returned event SENT says nothing: a key no  *)
(* consumer binds, or the gateway has not bound yet, leaves it nowhere.    *)
SentMeansDelivered ==
    \A e \in Events : rows[e].status = "SENT" => Delivered(e) \/ e \in returned

(* Two replicas of the loop never publish an event twice because both took *)
(* it: every further copy is paid for by a failed attempt or a fault.      *)
CopiesAreExcused ==
    \A e \in Events :
       LET open  == {w \in Workers : e \in DOMAIN worker[w].updates}
           known == {rows[e]} \cup {worker[w].updates[e] : w \in open}
           sent  == IF \E row \in known : row.status = "SENT" THEN 1 ELSE 0
       IN  published[e] <= sent + Max({row.attempts : row \in known}) + faults

(* A row that is SENT or FAILED is finished: no late worker sets it back. *)
FinishedStaysFinished ==
    [][\A e \in Events : rows[e].status \in {"SENT", "FAILED"} => rows'[e] = rows[e]]_rows

(* The loop gets to every row: it is published or given up. *)
RowsFinish ==
    \A e \in Events : rows[e].status = "PENDING" ~> rows[e].status \in {"SENT", "FAILED"}

=============================================================================
