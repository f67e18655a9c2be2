------------------------- MODULE EventDeliveryProofs -------------------------
(***************************************************************************)
(* For any number of events, replicas of the outbox loop, retries and      *)
(* faults: what a row marked SENT guarantees, that copies are paid for and *)
(* that a finished row is never taken up again.                            *)
(*                                                                         *)
(* SentMeansDelivered is not inductive.  An acknowledgement of a message   *)
(* that was passed to the retry queue takes it from unacked, so a message  *)
(* counts as safe there only while it has not been copied (Safe); and a    *)
(* row becomes SENT in a transaction that is open long before it commits,  *)
(* so the same must be known of the updates that are not committed yet.    *)
(* That an update never meets another one rests on the row locks: the      *)
(* batches of two workers are disjoint and hold PENDING rows only.         *)
(*                                                                         *)
(* The last part follows the delivered events to the gateway's clients: an *)
(* open client stays subscribed in TableStatePush.                         *)
(***************************************************************************)
EXTENDS EventDelivery, TableStatePush, TLAPS

Updates == UNION {[S -> Row \ {Absent}] : S \in SUBSET Events}
Transaction == [locked: SUBSET Events, left: SUBSET Events, updates: Updates]

QueuesTyped ==
    /\ main \in [Message -> Nat] /\ retry \in [Message -> Nat]
    /\ dlq \in [Message -> Nat] /\ unacked \in [Message -> Nat]
    /\ copied \in [Message -> Nat]
    /\ handled \in SUBSET Events
    /\ bound \in SUBSET BoundKeys /\ returned \in SUBSET Events

StateTyped ==
    /\ rows \in [Events -> Row]
    /\ worker \in [Workers -> Transaction]
    /\ QueuesTyped
    /\ published \in [Events -> Nat]
    /\ faults \in Nat

(* A transaction updates its rows one by one. *)
BatchShape ==
    \A w \in Workers :
       /\ worker[w].left \subseteq worker[w].locked
       /\ DOMAIN worker[w].updates = worker[w].locked \ worker[w].left

(* Row locks: taken on PENDING rows, held by one worker at a time. *)
RowsLocked ==
    /\ \A w \in Workers : \A e \in worker[w].locked : rows[e].status = "PENDING"
    /\ \A v, w \in Workers : v # w => worker[v].locked \cap worker[w].locked = {}

CopiesBounded == \A m \in Message : copied[m] <= unacked[m]

(* Nothing is claimed of an event the broker returned. *)
Safe(e) ==
    \/ e \in returned
    \/ e \in handled
    \/ On(main, e) \/ On(retry, e) \/ On(dlq, e)
    \/ \E m \in Message : m.event = e /\ unacked[m] > copied[m]

SentIsSafe ==
    /\ \A e \in Events : rows[e].status = "SENT" => Safe(e)
    /\ \A w \in Workers : \A e \in DOMAIN worker[w].updates :
          worker[w].updates[e].status = "SENT" => Safe(e)

(* How many copies of its message the value of a row accounts for. *)
Paid(row) == (IF row.status = "SENT" THEN 1 ELSE 0) + row.attempts

CopiesPaid ==
    /\ \A e \in Events :
          (\A w \in Workers : e \notin DOMAIN worker[w].updates)
             => published[e] <= Paid(rows[e]) + faults
    /\ \A w \in Workers : \A e \in DOMAIN worker[w].updates :
          /\ published[e] <= Paid(worker[w].updates[e]) + faults
          /\ Paid(worker[w].updates[e]) <= Paid(rows[e]) + 1

Inv ==
    /\ StateTyped /\ BatchShape /\ RowsLocked
    /\ CopiesBounded /\ SentIsSafe /\ CopiesPaid

-----------------------------------------------------------------------------
(* Queues                                                                  *)

(* Put adds one copy of a message and Take removes one, and neither does   *)
(* anything to the others.                                                 *)
LEMMA PutTake ==
    ASSUME NEW queue \in [Message -> Nat], NEW m \in Message
    PROVE  /\ Put(queue, m) \in [Message -> Nat]
           /\ Put(queue, m)[m] = queue[m] + 1
           /\ queue[m] > 0 => Take(queue, m) \in [Message -> Nat]
           /\ Take(queue, m)[m] = queue[m] - 1
           /\ \A n \in Message \ {m} : /\ Put(queue, m)[n] = queue[n]
                                       /\ Take(queue, m)[n] = queue[n]
  <1>. queue[m] \in Nat
    OBVIOUS
  <1>. QED  BY DEF Put, Take

(* A message put on a queue is on it, and pushes nothing off it. *)
LEMMA PutKeeps ==
    ASSUME NEW queue \in [Message -> Nat], NEW m \in Message, NEW e
    PROVE  /\ On(queue, e) => On(Put(queue, m), e)
           /\ On(Put(queue, m), m.event)
  <1>1. \A n \in Message : queue[n] \in Nat
    OBVIOUS
  <1>2. \A n \in Message : Put(queue, m)[n] >= queue[n]
    BY <1>1, PutTake
  <1>3. Put(queue, m)[m] > 0
    BY <1>1, PutTake
  <1>4. On(queue, e) => On(Put(queue, m), e)
    <2>1. SUFFICES ASSUME NEW n \in Message, n.event = e, queue[n] > 0
                   PROVE  On(Put(queue, m), e)
      BY DEF On
    <2>2. Put(queue, m)[n] \in Nat
      BY PutTake
    <2>. QED  BY <1>1, <1>2, <2>1, <2>2 DEF On
  <1>. QED  BY <1>3, <1>4 DEF On

(* Taking a message from a queue leaves every other event on it. *)
LEMMA TakeKeeps ==
    ASSUME NEW queue \in [Message -> Nat], NEW m \in Message, NEW e,
           On(queue, e), e # m.event
    PROVE  On(Take(queue, m), e)
  BY PutTake DEF On

(* A message is the record of its two columns. *)
LEMMA FirstMessage ==
    ASSUME NEW e \in Events
    PROVE  /\ [event |-> e, retries |-> 0] \in Message
           /\ [event |-> e, retries |-> 0].event = e
  BY LimitsAssumption DEF Message

(* The copy that goes to the retry queue is a message of the same event. *)
LEMMA RetryMessage ==
    ASSUME NEW m \in Message, m.retries < MaxRetries
    PROVE  /\ [m EXCEPT !.retries = @ + 1] \in Message
           /\ [m EXCEPT !.retries = @ + 1].event = m.event
  BY LimitsAssumption DEF Message

-----------------------------------------------------------------------------
(* The initial state                                                       *)

(* Nothing is locked, published or queued at first. *)
LEMMA InitInv == Init => Inv
  <1>. SUFFICES ASSUME Init PROVE Inv
    OBVIOUS
  <1>1. [e \in {} |-> Absent] \in Updates
    <2>1. [e \in {} |-> Absent] \in [{} -> Row \ {Absent}]
      OBVIOUS
    <2>. QED  BY <2>1 DEF Updates
  <1>2. NoTransaction \in Transaction
    BY <1>1 DEF NoTransaction, Transaction
  <1>3. StateTyped
    BY <1>2 DEF Init, StateTyped, QueuesTyped, Row
  <1>4. \A w \in Workers : /\ worker[w].locked = {} /\ worker[w].left = {}
                           /\ DOMAIN worker[w].updates = {}
    BY DEF Init, NoTransaction
  <1>5. BatchShape /\ RowsLocked
    BY <1>4 DEF BatchShape, RowsLocked
  <1>6. CopiesBounded
    BY DEF Init, CopiesBounded
  <1>7. SentIsSafe
    BY <1>4 DEF Init, SentIsSafe, Absent
  <1>8. CopiesPaid
    BY <1>4 DEF Init, CopiesPaid, Paid, Absent
  <1>. QED  BY <1>3, <1>5, <1>6, <1>7, <1>8 DEF Inv

-----------------------------------------------------------------------------
(* The outbox                                                              *)

(* Columns of a transaction. *)
LEMMA Columns ==
    ASSUME StateTyped, BatchShape, NEW w \in Workers
    PROVE  /\ worker[w] \in Transaction
           /\ worker[w].locked \subseteq Events /\ worker[w].left \subseteq Events
           /\ DOMAIN worker[w].updates \subseteq worker[w].locked
           /\ worker[w].updates \in [DOMAIN worker[w].updates -> Row \ {Absent}]
  <1>1. worker[w] \in Transaction
    BY DEF StateTyped
  <1>2. worker[w].updates \in Updates
    BY <1>1 DEF Transaction
  <1>3. worker[w].updates \in [DOMAIN worker[w].updates -> Row \ {Absent}]
    BY <1>2 DEF Updates
  <1>. QED  BY <1>1, <1>3 DEF Transaction, BatchShape

(* A row has a number of attempts, and so a number of copies it pays for. *)
LEMMA RowPays ==
    ASSUME NEW row \in Row
    PROVE  row.attempts \in Nat /\ Paid(row) \in Nat
  BY DEF Row, Absent, Paid

(* The queues of a state with the same queues, and what is safe there. *)
LEMMA SameQueues ==
    ASSUME UNCHANGED queues
    PROVE  /\ QueuesTyped => QueuesTyped'
           /\ CopiesBounded => CopiesBounded'
           /\ \A e \in Events : Safe(e) => Safe(e)'
  BY DEF queues, routing, QueuesTyped, CopiesBounded, Safe, On

(* A new row is PENDING, and no worker has seen it. *)
LEMMA AddEventInv == Inv /\ (\E e \in Events : AddEvent(e)) => Inv'
  <1>. SUFFICES ASSUME Inv, NEW e \in Events, AddEvent(e) PROVE Inv'
    OBVIOUS
  <1>. USE DEF Inv
  <1>1. UNCHANGED <<worker, queues, published, faults>> /\ rows[e] = Absent
        /\ rows' = [rows EXCEPT ![e] = [status |-> "PENDING", attempts |-> 0]]
    BY DEF AddEvent
  <1>2. /\ rows'[e].status = "PENDING" /\ rows'[e].attempts = 0
        /\ \A f \in Events \ {e} : rows'[f] = rows[f]
        /\ rows[e].attempts = 0 /\ rows[e].status = "ABSENT"
    BY <1>1 DEF StateTyped, Absent
  <1>3. StateTyped'
    <2>1. rows' \in [Events -> Row]
      BY <1>1 DEF StateTyped, Row, Statuses
    <2>. QED  BY <1>1, <2>1, SameQueues DEF StateTyped
  <1>4. \A w \in Workers : e \notin worker[w].locked
    BY <1>2 DEF RowsLocked
  <1>5. \A w \in Workers : worker[w].locked \subseteq Events
                        /\ DOMAIN worker[w].updates \subseteq worker[w].locked
    BY Columns
  <1>6. BatchShape' /\ CopiesBounded'
    BY <1>1, SameQueues DEF BatchShape
  <1>7. RowsLocked'
    <2>1. \A w \in Workers : \A f \in worker[w].locked : rows'[f] = rows[f]
      BY <1>2, <1>4, <1>5
    <2>. QED  BY <1>1, <2>1 DEF RowsLocked
  <1>8. SentIsSafe'
    <2>1. \A f \in Events : rows'[f].status = "SENT" => Safe(f)'
      BY <1>1, <1>2, SameQueues DEF SentIsSafe
    <2>2. \A w \in Workers : \A f \in DOMAIN worker[w].updates :
             worker[w].updates[f].status = "SENT" => Safe(f)'
      BY <1>1, <1>5, SameQueues DEF SentIsSafe
    <2>. QED  BY <1>1, <2>1, <2>2 DEF SentIsSafe
  <1>9. CopiesPaid'
    <2>1. Paid(rows'[e]) = Paid(rows[e])
      BY <1>2 DEF Paid
    <2>2. \A f \in Events : Paid(rows'[f]) = Paid(rows[f])
      BY <1>2, <2>1
    <2>3. \A w \in Workers : \A f \in DOMAIN worker[w].updates : f \in Events
      BY <1>5
    <2>. QED  BY <1>1, <2>2, <2>3 DEF CopiesPaid
  <1>. QED  BY <1>3, <1>6, <1>7, <1>8, <1>9

(* A batch is made of PENDING rows that no other worker has locked. *)
LEMMA ClaimBatchInv ==
    ASSUME Inv, NEW w \in Workers, ClaimBatch(w)
    PROVE  Inv'
  <1>. USE DEF Inv
  <1>1. PICK batch : batch = Claimable
    OBVIOUS
  <1>2. /\ worker[w] = NoTransaction
        /\ worker' = [worker EXCEPT ![w] = [@ EXCEPT !.locked = batch, !.left = batch]]
        /\ UNCHANGED <<rows, queues, published, faults>>
    BY <1>1 DEF ClaimBatch
  <1>3. /\ batch \subseteq Events
        /\ \A e \in batch : rows[e].status = "PENDING"
        /\ \A v \in Workers : batch \cap worker[v].locked = {}
    BY <1>1 DEF Claimable, FirstRows, Pending, Locked
  <1>4. worker[w] \in Transaction
    BY Columns
  <1>5. /\ worker'[w].locked = batch /\ worker'[w].left = batch
        /\ worker'[w].updates = worker[w].updates
        /\ \A v \in Workers \ {w} : worker'[v] = worker[v]
    BY <1>2, <1>4 DEF StateTyped, Transaction
  <1>6. DOMAIN worker[w].updates = {}
    BY <1>2 DEF NoTransaction
  <1>7. worker' \in [Workers -> Transaction]
    <2>1. [worker[w] EXCEPT !.locked = batch, !.left = batch] \in Transaction
      BY <1>3, <1>4 DEF Transaction
    <2>. QED  BY <1>2, <2>1 DEF StateTyped
  <1>8. StateTyped' /\ CopiesBounded'
    BY <1>2, <1>7, SameQueues DEF StateTyped
  <1>9. BatchShape'
    BY <1>5, <1>6 DEF BatchShape
  <1>10. RowsLocked'
    BY <1>2, <1>3, <1>5 DEF RowsLocked
  <1>11. \A v \in Workers : worker'[v].updates = worker[v].updates
    BY <1>5
  <1>12. \A v \in Workers : DOMAIN worker[v].updates \subseteq Events
    BY Columns
  <1>13. SentIsSafe'
    BY <1>2, <1>11, <1>12, SameQueues DEF SentIsSafe
  <1>14. CopiesPaid'
    BY <1>2, <1>11 DEF CopiesPaid
  <1>. QED  BY <1>8, <1>9, <1>10, <1>13, <1>14
(* What Publish and PublishFails have in common: a row of the batch of     *)
(* worker w that was left gets a value, and its message may have reached   *)
(* the queue.                                                              *)
LEMMA MarkInv ==
    ASSUME Inv, NEW w \in Workers, NEW e \in worker[w].left, NEW row \in Row \ {Absent},
           Mark(w, e, row), UNCHANGED <<rows, faults>>,
           Reaches(e) \/ UNCHANGED <<queues, published>>,
           row.status = "SENT" => Reaches(e),
           Paid(row) = Paid(rows[e]) + 1
    PROVE  Inv'
  <1>. USE DEF Inv
  <1>1. e \in Events /\ e \in worker[w].locked /\ worker[w] \in Transaction
        /\ e \notin DOMAIN worker[w].updates
    BY Columns DEF BatchShape
  <1>2. PICK marked : marked = [f \in DOMAIN worker[w].updates \cup {e} |->
                                  IF f = e THEN row ELSE worker[w].updates[f]]
    OBVIOUS
  <1>3. worker' = [worker EXCEPT ![w].left = @ \ {e}, ![w].updates = marked]
    BY <1>2 DEF Mark
  <1>4. /\ worker'[w].locked = worker[w].locked
        /\ worker'[w].left = worker[w].left \ {e}
        /\ worker'[w].updates = marked
        /\ \A v \in Workers \ {w} : worker'[v] = worker[v]
    BY <1>1, <1>3 DEF StateTyped, Transaction
  <1>5. /\ DOMAIN marked = DOMAIN worker[w].updates \cup {e}
        /\ marked[e] = row
        /\ \A f \in DOMAIN worker[w].updates : marked[f] = worker[w].updates[f]
    BY <1>1, <1>2
  <1>6. marked \in Updates
    <2>1. marked \in [DOMAIN worker[w].updates \cup {e} -> Row \ {Absent}]
      BY <1>2, Columns
    <2>2. DOMAIN worker[w].updates \cup {e} \in SUBSET Events
      BY <1>1, Columns
    <2>. QED  BY <2>1, <2>2 DEF Updates
  <1>7. worker' \in [Workers -> Transaction]
    <2>1. worker'[w] = [worker[w] EXCEPT !.left = worker[w].left \ {e}, !.updates = marked]
      BY <1>1, <1>3 DEF StateTyped
    <2>2. worker'[w] \in Transaction
      BY <1>1, <1>6, <2>1 DEF Transaction
    <2>3. worker' \in [Workers -> {worker'[v] : v \in Workers}]
      BY <1>3 DEF StateTyped
    <2>. QED  BY <1>4, <2>2, <2>3 DEF StateTyped
  <1>8. PICK m \in Message : m = [event |-> e, retries |-> 0] /\ m.event = e
    BY <1>1, FirstMessage
  <1>9. /\ QueuesTyped' /\ CopiesBounded' /\ published' \in [Events -> Nat]
        /\ \A f \in Events : Safe(f) => Safe(f)'
        /\ row.status = "SENT" => Safe(e)'
        /\ published'[e] <= published[e] + 1
        /\ \A f \in Events \ {e} : published'[f] = published[f]
    <2>1. CASE Reaches(e)
      <3>1. /\ published' = [published EXCEPT ![e] = @ + 1]
            /\ UNCHANGED <<bound, retry, dlq, unacked, copied, handled>>
            /\ \/ main' = Put(main, m) /\ returned' = returned \ {e}
               \/ main' = main /\ returned' = returned \cup {e}
        BY <1>8, <2>1 DEF Reaches
      <3>2. QueuesTyped' /\ CopiesBounded'
        BY <1>1, <3>1, PutTake DEF StateTyped, QueuesTyped, CopiesBounded
      <3>3. /\ On(main, e)' \/ e \in returned'
            /\ \A f \in Events : On(main, f) => On(main, f)'
        <4>1. main \in [Message -> Nat]
          BY DEF StateTyped, QueuesTyped
        <4>2. On(Put(main, m), e) /\ \A f \in Events : On(main, f) => On(Put(main, m), f)
          BY <1>8, <4>1, PutKeeps
        <4>. QED  BY <3>1, <4>2 DEF On
      <3>4. Safe(e)'
        BY <3>3 DEF Safe
      <3>5. \A f \in Events \ {e} : f \in returned => f \in returned'
        BY <3>1
      <3>6. \A f \in Events : Safe(f) => Safe(f)'
        BY <3>1, <3>3, <3>4, <3>5 DEF Safe, On
      <3>7. published' \in [Events -> Nat] /\ published'[e] = published[e] + 1
            /\ \A f \in Events \ {e} : published'[f] = published[f]
        BY <1>1, <3>1 DEF StateTyped
      <3>8. published[e] \in Nat
        BY <1>1 DEF StateTyped
      <3>. QED  BY <3>2, <3>4, <3>6, <3>7, <3>8
    <2>2. CASE UNCHANGED <<queues, published>> /\ ~Reaches(e)
      <3>1. published[e] \in Nat
        BY <1>1 DEF StateTyped
      <3>. QED  BY <2>2, <3>1, SameQueues DEF StateTyped
    <2>. QED  BY <2>1, <2>2
  <1>10. StateTyped' /\ CopiesBounded'
    BY <1>7, <1>9 DEF StateTyped
  <1>11. BatchShape'
    BY <1>1, <1>4, <1>5 DEF BatchShape
  <1>12. RowsLocked'
    BY <1>4 DEF RowsLocked
  <1>13. \A v \in Workers : DOMAIN worker[v].updates \subseteq Events
    BY Columns
  <1>14. SentIsSafe'
    <2>1. \A v \in Workers \ {w} : \A f \in DOMAIN worker'[v].updates :
             worker'[v].updates[f].status = "SENT" => Safe(f)'
      BY <1>4, <1>9, <1>13 DEF SentIsSafe
    <2>2. \A f \in DOMAIN worker'[w].updates :
             worker'[w].updates[f].status = "SENT" => Safe(f)'
      BY <1>4, <1>5, <1>9, <1>13 DEF SentIsSafe
    <2>. QED  BY <1>9, <2>1, <2>2 DEF SentIsSafe
  <1>15. \A v \in Workers \ {w} : e \notin DOMAIN worker[v].updates
    BY <1>1, Columns DEF RowsLocked
  <1>16. CopiesPaid'
    <2>1. \A f \in Events : (\A v \in Workers : f \notin DOMAIN worker'[v].updates)
             => published'[f] <= Paid(rows[f]) + faults
      <3>. SUFFICES ASSUME NEW f \in Events,
                           \A v \in Workers : f \notin DOMAIN worker'[v].updates
                    PROVE  published'[f] <= Paid(rows[f]) + faults
        OBVIOUS
      <3>1. f # e /\ \A v \in Workers : f \notin DOMAIN worker[v].updates
        BY <1>4, <1>5
      <3>. QED  BY <1>9, <3>1 DEF CopiesPaid
    <2>2. \A v \in Workers \ {w} : \A f \in DOMAIN worker'[v].updates :
             /\ published'[f] <= Paid(worker'[v].updates[f]) + faults
             /\ Paid(worker'[v].updates[f]) <= Paid(rows[f]) + 1
      BY <1>4, <1>9, <1>13, <1>15 DEF CopiesPaid
    <2>3. \A f \in DOMAIN worker[w].updates :
             /\ published'[f] <= Paid(marked[f]) + faults
             /\ Paid(marked[f]) <= Paid(rows[f]) + 1
      BY <1>1, <1>5, <1>9, <1>13 DEF CopiesPaid
    <2>4. /\ published'[e] <= Paid(marked[e]) + faults
          /\ Paid(marked[e]) <= Paid(rows[e]) + 1
      <3>1. published[e] <= Paid(rows[e]) + faults
        BY <1>1, <1>15 DEF CopiesPaid
      <3>2. published[e] \in Nat /\ published'[e] \in Nat /\ faults \in Nat
        BY <1>1, <1>9 DEF StateTyped
      <3>3. Paid(rows[e]) \in Nat
        BY <1>1, RowPays DEF StateTyped
      <3>. QED  BY <1>5, <1>9, <3>1, <3>2, <3>3
    <2>5. \A f \in DOMAIN worker'[w].updates :
             /\ published'[f] <= Paid(worker'[w].updates[f]) + faults
             /\ Paid(worker'[w].updates[f]) <= Paid(rows[f]) + 1
      BY <1>4, <1>5, <2>3, <2>4
    <2>. QED  BY <2>1, <2>2, <2>5 DEF CopiesPaid
  <1>. QED  BY <1>10, <1>11, <1>12, <1>14, <1>16

(* A published row is SENT in the transaction: one more copy, and it is    *)
(* paid for.                                                               *)
LEMMA PublishInv ==
    ASSUME Inv, NEW w \in Workers, NEW e \in worker[w].left, Publish(w, e)
    PROVE  Inv'
  <1>1. PICK row : row = [rows[e] EXCEPT !.status = "SENT"]
    OBVIOUS
  <1>2. e \in Events /\ rows[e].status = "PENDING"
    BY Columns DEF Inv, BatchShape, RowsLocked
  <1>3. rows[e] \in [status: Statuses, attempts: Nat]
    BY <1>2 DEF Inv, StateTyped, Row, Absent
  <1>4. row \in Row \ {Absent} /\ row.status = "SENT" /\ row.attempts = rows[e].attempts
    BY <1>1, <1>3 DEF Row, Absent, Statuses
  <1>5. Paid(row) = Paid(rows[e]) + 1
    BY <1>2, <1>3, <1>4 DEF Paid
  <1>6. Mark(w, e, row) /\ Reaches(e) /\ UNCHANGED <<rows, faults>>
    BY <1>1 DEF Publish
  <1>. QED  BY <1>4, <1>5, <1>6, MarkInv

(* A failed attempt is counted: it pays for the message that may have      *)
(* reached the queue all the same.                                         *)
LEMMA PublishFailsInv ==
    ASSUME Inv, NEW w \in Workers, NEW e \in worker[w].left, PublishFails(w, e)
    PROVE  Inv'
  <1>1. e \in Events /\ rows[e].status = "PENDING"
    BY Columns DEF Inv, BatchShape, RowsLocked
  <1>2. rows[e] \in [status: Statuses, attempts: Nat]
    BY <1>1 DEF Inv, StateTyped, Row, Absent
  <1>3. PICK status \in {"FAILED", "PENDING"} :
           status = IF rows[e].attempts + 1 >= MaxAttempts THEN "FAILED" ELSE "PENDING"
    OBVIOUS
  <1>4. PICK row : row = [status |-> status, attempts |-> rows[e].attempts + 1]
    OBVIOUS
  <1>5. row \in Row \ {Absent} /\ row.status # "SENT"
        /\ row.attempts = rows[e].attempts + 1
    BY <1>2, <1>3, <1>4 DEF Row, Absent, Statuses
  <1>6. Paid(row) = Paid(rows[e]) + 1
    BY <1>1, <1>2, <1>5 DEF Paid
  <1>7. /\ Mark(w, e, row) /\ UNCHANGED <<rows, faults>>
        /\ Reaches(e) \/ UNCHANGED <<queues, published>>
    BY <1>3, <1>4 DEF PublishFails
  <1>. QED  BY <1>5, <1>6, <1>7, MarkInv
(* The end of a transaction releases its rows and leaves the others alone. *)
LEMMA Released ==
    ASSUME StateTyped, BatchShape, NEW w \in Workers,
           worker' = [worker EXCEPT ![w] = NoTransaction]
    PROVE  /\ worker' \in [Workers -> Transaction]
           /\ worker'[w].locked = {} /\ DOMAIN worker'[w].updates = {}
           /\ \A v \in Workers \ {w} : worker'[v] = worker[v]
           /\ BatchShape'
  <1>1. [e \in {} |-> Absent] \in Updates
    <2>1. [e \in {} |-> Absent] \in [{} -> Row \ {Absent}]
      OBVIOUS
    <2>. QED  BY <2>1 DEF Updates
  <1>2. NoTransaction \in Transaction
    BY <1>1 DEF NoTransaction, Transaction
  <1>3. /\ worker' \in [Workers -> Transaction] /\ worker'[w] = NoTransaction
        /\ \A v \in Workers \ {w} : worker'[v] = worker[v]
    BY <1>2 DEF StateTyped
  <1>4. /\ NoTransaction.locked = {} /\ NoTransaction.left = {}
        /\ DOMAIN NoTransaction.updates = {}
    BY DEF NoTransaction
  <1>. QED  BY <1>3, <1>4 DEF BatchShape

(* A commit writes the updates of rows that only this worker has locked,   *)
(* so that they are the last word on them.                                 *)
LEMMA CommitBatchInv ==
    ASSUME Inv, NEW w \in Workers, CommitBatch(w)
    PROVE  Inv'
  <1>. USE DEF Inv
  <1>1. PICK updates : updates = worker[w].updates
    OBVIOUS
  <1>2. /\ rows' = [e \in Events |-> IF e \in DOMAIN updates THEN updates[e] ELSE rows[e]]
        /\ worker' = [worker EXCEPT ![w] = NoTransaction]
        /\ UNCHANGED <<queues, published, faults>>
    BY <1>1 DEF CommitBatch
  <1>3. /\ updates \in [DOMAIN updates -> Row \ {Absent}]
        /\ DOMAIN updates \subseteq worker[w].locked /\ DOMAIN updates \subseteq Events
    BY <1>1, Columns
  <1>4. /\ worker' \in [Workers -> Transaction]
        /\ worker'[w].locked = {} /\ DOMAIN worker'[w].updates = {}
        /\ \A v \in Workers \ {w} : worker'[v] = worker[v]
        /\ BatchShape'
    BY <1>2, Released
  <1>5. /\ rows' \in [Events -> Row]
        /\ \A e \in DOMAIN updates : rows'[e] = updates[e]
        /\ \A e \in Events \ DOMAIN updates : rows'[e] = rows[e]
    BY <1>2, <1>3 DEF StateTyped
  <1>6. StateTyped' /\ CopiesBounded'
    BY <1>2, <1>4, <1>5, SameQueues DEF StateTyped
  <1>7. \A v \in Workers \ {w} : /\ worker[v].locked \subseteq Events \ DOMAIN updates
                                 /\ DOMAIN worker[v].updates \subseteq worker[v].locked
    BY <1>3, Columns DEF RowsLocked
  <1>8. RowsLocked'
    BY <1>4, <1>5, <1>7 DEF RowsLocked
  <1>9. SentIsSafe'
    <2>1. \A e \in Events : rows'[e].status = "SENT" => Safe(e)'
      BY <1>1, <1>2, <1>5, SameQueues DEF SentIsSafe
    <2>2. \A v \in Workers : \A e \in DOMAIN worker'[v].updates :
             worker'[v].updates[e].status = "SENT" => Safe(e)'
      BY <1>2, <1>4, <1>7, SameQueues DEF SentIsSafe
    <2>. QED  BY <2>1, <2>2 DEF SentIsSafe
  <1>10. CopiesPaid'
    <2>1. \A e \in Events : (\A v \in Workers : e \notin DOMAIN worker'[v].updates)
             => published[e] <= Paid(rows'[e]) + faults
      <3>. SUFFICES ASSUME NEW e \in Events,
                           \A v \in Workers : e \notin DOMAIN worker'[v].updates
                    PROVE  published[e] <= Paid(rows'[e]) + faults
        OBVIOUS
      <3>1. CASE e \in DOMAIN updates
        BY <1>1, <1>5, <3>1 DEF CopiesPaid
      <3>2. CASE e \notin DOMAIN updates
        <4>1. \A v \in Workers : e \notin DOMAIN worker[v].updates
          BY <1>1, <1>4, <3>2
        <4>. QED  BY <1>5, <3>2, <4>1 DEF CopiesPaid
      <3>. QED  BY <3>1, <3>2
    <2>2. \A v \in Workers : \A e \in DOMAIN worker'[v].updates :
             /\ published[e] <= Paid(worker'[v].updates[e]) + faults
             /\ Paid(worker'[v].updates[e]) <= Paid(rows'[e]) + 1
      BY <1>4, <1>5, <1>7 DEF CopiesPaid
    <2>. QED  BY <1>2, <2>1, <2>2 DEF CopiesPaid
  <1>. QED  BY <1>4, <1>6, <1>8, <1>9, <1>10

(* A rollback forgets updates whose messages are out.  It forgets one      *)
(* publication per row at most, and the fault pays for it.                 *)
LEMMA RollbackInv ==
    ASSUME Inv, NEW w \in Workers, Rollback(w)
    PROVE  Inv'
  <1>. USE DEF Inv
  <1>1. /\ worker' = [worker EXCEPT ![w] = NoTransaction] /\ faults' = faults + 1
        /\ UNCHANGED <<rows, queues, published>>
    BY DEF Rollback
  <1>2. /\ worker' \in [Workers -> Transaction]
        /\ worker'[w].locked = {} /\ DOMAIN worker'[w].updates = {}
        /\ \A v \in Workers \ {w} : worker'[v] = worker[v]
        /\ BatchShape'
    BY <1>1, Released
  <1>3. StateTyped' /\ CopiesBounded'
    BY <1>1, <1>2, SameQueues DEF StateTyped
  <1>4. RowsLocked'
    BY <1>1, <1>2 DEF RowsLocked
  <1>5. \A v \in Workers : DOMAIN worker[v].updates \subseteq Events
    BY Columns
  <1>6. SentIsSafe'
    <2>1. \A e \in Events : rows'[e].status = "SENT" => Safe(e)'
      BY <1>1, SameQueues DEF SentIsSafe
    <2>2. \A v \in Workers : \A e \in DOMAIN worker'[v].updates :
             worker'[v].updates[e].status = "SENT" => Safe(e)'
      BY <1>1, <1>2, <1>5, SameQueues DEF SentIsSafe
    <2>. QED  BY <2>1, <2>2 DEF SentIsSafe
  <1>7. faults \in Nat /\ (\A e \in Events : published[e] \in Nat /\ Paid(rows[e]) \in Nat)
    BY RowPays DEF StateTyped
  <1>8. \A v \in Workers : \A e \in DOMAIN worker[v].updates :
           Paid(worker[v].updates[e]) \in Nat
    BY Columns, RowPays
  <1>9. CopiesPaid'
    <2>1. \A e \in Events : (\A v \in Workers : e \notin DOMAIN worker'[v].updates)
             => published[e] <= Paid(rows[e]) + (faults + 1)
      <3>. SUFFICES ASSUME NEW e \in Events,
                           \A v \in Workers : e \notin DOMAIN worker'[v].updates
                    PROVE  published[e] <= Paid(rows[e]) + (faults + 1)
        OBVIOUS
      <3>1. CASE e \in DOMAIN worker[w].updates
        <4>1. /\ published[e] <= Paid(worker[w].updates[e]) + faults
              /\ Paid(worker[w].updates[e]) <= Paid(rows[e]) + 1
              /\ Paid(worker[w].updates[e]) \in Nat
          BY <1>8, <3>1 DEF CopiesPaid
        <4>. QED  BY <1>7, <4>1
      <3>2. CASE e \notin DOMAIN worker[w].updates
        <4>1. published[e] <= Paid(rows[e]) + faults
          BY <1>2, <3>2 DEF CopiesPaid
        <4>. QED  BY <1>7, <4>1
      <3>. QED  BY <3>1, <3>2
    <2>2. \A v \in Workers \ {w} : \A e \in DOMAIN worker[v].updates :
             /\ published[e] <= Paid(worker[v].updates[e]) + (faults + 1)
             /\ Paid(worker[v].updates[e]) <= Paid(rows[e]) + 1
      BY <1>5, <1>7, <1>8 DEF CopiesPaid
    <2>3. \A v \in Workers : \A e \in DOMAIN worker'[v].updates :
             /\ published[e] <= Paid(worker'[v].updates[e]) + (faults + 1)
             /\ Paid(worker'[v].updates[e]) <= Paid(rows[e]) + 1
      BY <1>2, <2>2
    <2>. QED  BY <1>1, <2>1, <2>3 DEF CopiesPaid
  <1>. QED  BY <1>2, <1>3, <1>4, <1>6, <1>9

-----------------------------------------------------------------------------
(* The consumer                                                            *)

(* A step of the consumer that keeps what was safe safe keeps the          *)
(* invariant: it does not touch the outbox, and faults only go up.         *)
LEMMA QueueStepInv ==
    ASSUME Inv, UNCHANGED <<rows, worker, published>>, QueuesTyped', CopiesBounded',
           faults' = faults \/ faults' = faults + 1,
           \A e \in Events : Safe(e) => Safe(e)'
    PROVE  Inv'
  <1>. USE DEF Inv
  <1>1. StateTyped'
    BY DEF StateTyped
  <1>2. BatchShape' /\ RowsLocked'
    BY DEF BatchShape, RowsLocked
  <1>3. \A w \in Workers : DOMAIN worker[w].updates \subseteq Events
    BY Columns
  <1>4. SentIsSafe'
    <2>1. \A e \in Events : rows'[e].status = "SENT" => Safe(e)'
      BY DEF SentIsSafe
    <2>2. \A w \in Workers : \A e \in DOMAIN worker'[w].updates :
             worker'[w].updates[e].status = "SENT" => Safe(e)'
      BY <1>3 DEF SentIsSafe
    <2>. QED  BY <2>1, <2>2 DEF SentIsSafe
  <1>5. CopiesPaid'
    <2>1. faults \in Nat /\ faults' \in Nat /\ faults <= faults'
      BY <1>1 DEF StateTyped
    <2>2. \A e \in Events : published[e] \in Nat /\ Paid(rows[e]) \in Nat
      BY RowPays DEF StateTyped
    <2>3. \A w \in Workers : \A e \in DOMAIN worker[w].updates :
             Paid(worker[w].updates[e]) \in Nat
      BY Columns, RowPays
    <2>4. \A e \in Events : (\A w \in Workers : e \notin DOMAIN worker[w].updates)
             => published[e] <= Paid(rows[e]) + faults'
      BY <2>1, <2>2 DEF CopiesPaid
    <2>5. \A w \in Workers : \A e \in DOMAIN worker[w].updates :
             /\ published[e] <= Paid(worker[w].updates[e]) + faults'
             /\ Paid(worker[w].updates[e]) <= Paid(rows[e]) + 1
      BY <1>3, <2>1, <2>2, <2>3 DEF CopiesPaid
    <2>. QED  BY <2>4, <2>5 DEF CopiesPaid
  <1>. QED  BY <1>1, <1>2, <1>4, <1>5
(* A step that concerns message m only, by what it does to each queue:     *)
(* other events stay where they are.                                       *)
LEMMA OthersStaySafe ==
    ASSUME QueuesTyped, NEW m \in Message, NEW e \in Events, Safe(e), e # m.event,
           main' \in {main, Put(main, m), Take(main, m)},
           retry' \in {retry, Take(retry, m)}
              \cup {Put(retry, n) : n \in Message},
           dlq' \in {dlq, Put(dlq, m)},
           unacked' \in {unacked, Put(unacked, m), Take(unacked, m)},
           copied' \in {copied, Put(copied, m), Take(copied, m)},
           handled \subseteq handled', returned' = returned
    PROVE  Safe(e)'
  <1>. USE DEF QueuesTyped
  <1>1. CASE e \in handled \/ e \in returned
    BY <1>1 DEF Safe
  <1>2. CASE On(main, e)
    <2>1. On(Put(main, m), e) /\ On(Take(main, m), e)
      BY <1>2, PutKeeps, TakeKeeps
    <2>. QED  BY <1>2, <2>1 DEF Safe, On
  <1>3. CASE On(retry, e)
    <2>1. On(Take(retry, m), e) /\ \A n \in Message : On(Put(retry, n), e)
      BY <1>3, PutKeeps, TakeKeeps
    <2>. QED  BY <1>3, <2>1 DEF Safe, On
  <1>4. CASE On(dlq, e)
    <2>1. On(Put(dlq, m), e)
      BY <1>4, PutKeeps
    <2>. QED  BY <1>4, <2>1 DEF Safe, On
  <1>5. CASE \E n \in Message : n.event = e /\ unacked[n] > copied[n]
    <2>1. PICK n \in Message : n.event = e /\ unacked[n] > copied[n]
      BY <1>5
    <2>2. n \in Message \ {m}
      BY <2>1
    <2>3. unacked'[n] = unacked[n] /\ copied'[n] = copied[n]
      BY <2>2, PutTake
    <2>. QED  BY <2>1, <2>3 DEF Safe
  <1>. QED  BY <1>1, <1>2, <1>3, <1>4, <1>5 DEF Safe

(* Every step of the consumer with message m leaves its event handled, on  *)
(* a queue, or with the consumer and not copied; the count of copies stays *)
(* within what is unacknowledged.                                          *)
LEMMA ConsumerInv ==
    ASSUME Inv, NEW m \in Message,
           \/ Deliver(m) \/ Handle(m) \/ CopyToRetry(m) \/ AckCopied(m) \/ Reject(m)
           \/ RetryExpires(m)
    PROVE  Inv'
  <1>. USE DEF Inv
  <1>1. /\ QueuesTyped /\ m.event \in Events
        /\ UNCHANGED <<rows, worker, bound, returned, published, faults>>
        /\ copied[m] <= unacked[m]
    BY DEF StateTyped, CopiesBounded, Message, routing, Deliver, Handle, CopyToRetry,
           AckCopied, Reject, RetryExpires
  <1>2. /\ main[m] \in Nat /\ retry[m] \in Nat /\ unacked[m] \in Nat /\ copied[m] \in Nat
        /\ main \in [Message -> Nat] /\ retry \in [Message -> Nat]
        /\ dlq \in [Message -> Nat] /\ unacked \in [Message -> Nat]
        /\ copied \in [Message -> Nat]
    BY <1>1 DEF QueuesTyped
  <1>3. QueuesTyped' /\ CopiesBounded' /\ \A e \in Events : Safe(e) => Safe(e)'
    <2>1. CASE Deliver(m)
      <3>1. /\ main[m] > 0 /\ main' = Take(main, m) /\ unacked' = Put(unacked, m)
            /\ UNCHANGED <<retry, dlq, copied, handled>>
        BY <2>1 DEF Deliver
      <3>2. QueuesTyped'
        BY <1>1, <3>1, PutTake DEF QueuesTyped
      <3>3. unacked'[m] = unacked[m] + 1 /\ \A n \in Message \ {m} : unacked'[n] = unacked[n]
        BY <1>2, <3>1, PutTake
      <3>4. CopiesBounded' /\ unacked'[m] > copied'[m]
        BY <1>1, <1>2, <3>1, <3>3 DEF CopiesBounded
      <3>5. Safe(m.event)'
        BY <3>4 DEF Safe
      <3>6. \A e \in Events : Safe(e) /\ e # m.event => Safe(e)'
        BY <1>1, <3>1, OthersStaySafe
      <3>. QED  BY <3>2, <3>4, <3>5, <3>6
    <2>2. CASE Handle(m)
      <3>1. /\ unacked[m] > copied[m] /\ handled' = handled \cup {m.event}
            /\ unacked' = Take(unacked, m) /\ UNCHANGED <<main, retry, dlq, copied>>
        BY <2>2 DEF Handle
      <3>2. QueuesTyped'
        <4>1. unacked' \in [Message -> Nat]
          BY <1>1, <1>2, <3>1, PutTake
        <4>. QED  BY <1>1, <3>1, <4>1 DEF QueuesTyped
      <3>3. unacked'[m] = unacked[m] - 1 /\ \A n \in Message \ {m} : unacked'[n] = unacked[n]
        BY <1>2, <3>1, PutTake
      <3>4. CopiesBounded'
        BY <1>2, <3>1, <3>3 DEF CopiesBounded
      <3>5. Safe(m.event)'
        BY <3>1 DEF Safe
      <3>6. \A e \in Events : Safe(e) /\ e # m.event => Safe(e)'
        BY <1>1, <3>1, OthersStaySafe
      <3>. QED  BY <3>2, <3>4, <3>5, <3>6
    <2>3. CASE CopyToRetry(m)
      <3>1. PICK copy \in Message : copy = [m EXCEPT !.retries = @ + 1] /\ copy.event = m.event
        BY <2>3, RetryMessage DEF CopyToRetry
      <3>2. /\ unacked[m] > copied[m] /\ retry' = Put(retry, copy)
            /\ copied' = Put(copied, m) /\ UNCHANGED <<main, dlq, unacked, handled>>
        BY <2>3, <3>1 DEF CopyToRetry
      <3>3. QueuesTyped'
        BY <1>1, <3>2, PutTake DEF QueuesTyped
      <3>4. copied'[m] = copied[m] + 1 /\ \A n \in Message \ {m} : copied'[n] = copied[n]
        BY <1>2, <3>2, PutTake
      <3>5. CopiesBounded'
        BY <1>2, <3>2, <3>4 DEF CopiesBounded
      <3>6. On(Put(retry, copy), m.event)
        BY <1>2, <3>1, PutKeeps
      <3>7. Safe(m.event)'
        BY <3>2, <3>6 DEF Safe, On
      <3>8. \A e \in Events : Safe(e) /\ e # m.event => Safe(e)'
        BY <1>1, <3>2, OthersStaySafe
      <3>. QED  BY <3>3, <3>5, <3>7, <3>8
    <2>4. CASE AckCopied(m)
      <3>1. /\ copied[m] > 0 /\ copied' = Take(copied, m) /\ unacked' = Take(unacked, m)
            /\ UNCHANGED <<main, retry, dlq, handled>>
        BY <2>4 DEF AckCopied
      <3>2. QueuesTyped'
        <4>1. unacked' \in [Message -> Nat] /\ copied' \in [Message -> Nat]
          BY <1>1, <1>2, <3>1, PutTake
        <4>. QED  BY <1>1, <3>1, <4>1 DEF QueuesTyped
      <3>3. /\ unacked'[m] = unacked[m] - 1 /\ copied'[m] = copied[m] - 1
            /\ \A n \in Message \ {m} : unacked'[n] = unacked[n] /\ copied'[n] = copied[n]
        BY <1>2, <3>1, PutTake
      <3>4. CopiesBounded'
        BY <1>1, <1>2, <3>3 DEF CopiesBounded
      <3>5. \A n \in Message : unacked[n] > copied[n] => unacked'[n] > copied'[n]
        BY <1>2, <3>3
      <3>6. \A e \in Events : Safe(e) => Safe(e)'
        BY <1>1, <3>1, <3>5 DEF Safe, On
      <3>. QED  BY <3>2, <3>4, <3>6
    <2>5. CASE Reject(m)
      <3>1. /\ unacked[m] > copied[m] /\ dlq' = Put(dlq, m)
            /\ unacked' = Take(unacked, m) /\ UNCHANGED <<main, retry, copied, handled>>
        BY <2>5 DEF Reject
      <3>2. QueuesTyped'
        <4>1. unacked' \in [Message -> Nat] /\ dlq' \in [Message -> Nat]
          BY <1>1, <1>2, <3>1, PutTake
        <4>. QED  BY <1>1, <3>1, <4>1 DEF QueuesTyped
      <3>3. unacked'[m] = unacked[m] - 1 /\ \A n \in Message \ {m} : unacked'[n] = unacked[n]
        BY <1>2, <3>1, PutTake
      <3>4. CopiesBounded'
        BY <1>2, <3>1, <3>3 DEF CopiesBounded
      <3>5. On(Put(dlq, m), m.event)
        BY <1>2, PutKeeps
      <3>6. Safe(m.event)'
        BY <3>1, <3>5 DEF Safe, On
      <3>7. \A e \in Events : Safe(e) /\ e # m.event => Safe(e)'
        BY <1>1, <3>1, OthersStaySafe
      <3>. QED  BY <3>2, <3>4, <3>6, <3>7
    <2>6. CASE RetryExpires(m)
      <3>1. /\ retry[m] > 0 /\ retry' = Take(retry, m) /\ main' = Put(main, m)
            /\ UNCHANGED <<dlq, unacked, copied, handled>>
        BY <2>6 DEF RetryExpires
      <3>2. QueuesTyped' /\ CopiesBounded'
        BY <1>1, <1>2, <3>1, PutTake DEF QueuesTyped, CopiesBounded
      <3>3. On(Put(main, m), m.event)
        BY <1>2, PutKeeps
      <3>4. Safe(m.event)'
        BY <3>1, <3>3 DEF Safe, On
      <3>5. \A e \in Events : Safe(e) /\ e # m.event => Safe(e)'
        BY <1>1, <3>1, OthersStaySafe
      <3>. QED  BY <3>2, <3>4, <3>5
    <2>. QED  BY <2>1, <2>2, <2>3, <2>4, <2>5, <2>6
  <1>. QED  BY <1>1, <1>3, QueueStepInv

(* A further binding of the main queue moves no message. *)
LEMMA BindInv == Inv /\ BindStep => Inv'
  <1>. SUFFICES ASSUME Inv, NEW k \in BoundKeys, BindKey(k) PROVE Inv'
    BY DEF BindStep
  <1>1. /\ bound' = bound \cup {k}
        /\ UNCHANGED <<rows, worker, returned, main, retry, dlq, unacked, copied, handled,
                       published, faults>>
    BY DEF BindKey
  <1>2. QueuesTyped' /\ CopiesBounded'
    BY <1>1 DEF Inv, StateTyped, QueuesTyped, CopiesBounded
  <1>3. \A e \in Events : Safe(e) => Safe(e)'
    BY <1>1 DEF Safe, On
  <1>. QED  BY <1>1, <1>2, <1>3, QueueStepInv

(* A lost connection puts back every message that was not acknowledged. *)
LEMMA DisconnectInv == Inv /\ Disconnect => Inv'
  <1>. SUFFICES ASSUME Inv, Disconnect PROVE Inv'
    OBVIOUS
  <1>. USE DEF Inv
  <1>1. /\ main' = [m \in Message |-> main[m] + unacked[m]]
        /\ unacked' = [m \in Message |-> 0] /\ copied' = [m \in Message |-> 0]
        /\ UNCHANGED <<rows, worker, bound, returned, retry, dlq, handled, published>>
        /\ faults' = faults + 1
    BY DEF Disconnect, routing
  <1>2. QueuesTyped
    BY DEF StateTyped
  <1>3. QueuesTyped' /\ CopiesBounded'
    BY <1>1, <1>2 DEF QueuesTyped, CopiesBounded
  <1>4. \A m \in Message : /\ main[m] \in Nat /\ unacked[m] \in Nat /\ copied[m] \in Nat
                           /\ main'[m] = main[m] + unacked[m]
    BY <1>1, <1>2 DEF QueuesTyped
  <1>5. ASSUME NEW e \in Events, Safe(e) PROVE Safe(e)'
    <2>1. CASE On(main, e)
      BY <1>4, <2>1 DEF Safe, On
    <2>2. CASE \E m \in Message : m.event = e /\ unacked[m] > copied[m]
      BY <1>4, <2>2 DEF Safe, On
    <2>. QED  BY <1>1, <1>5, <2>1, <2>2 DEF Safe, On
  <1>. QED  BY <1>1, <1>3, <1>5, QueueStepInv

-----------------------------------------------------------------------------
(* The theorems                                                            *)

(* The inductive invariant of the outbox and the consumer. *)
THEOREM DeliverySafety == Spec => []Inv
  <1>1. Inv /\ [Next]_vars => Inv'
    <2>1. SUFFICES ASSUME Inv, [Next]_vars PROVE Inv'
      OBVIOUS
    <2>2. CASE \E e \in Events : AddEvent(e)
      BY <2>1, <2>2, AddEventInv
    <2>3. ASSUME NEW w \in Workers, WorkerStep(w) \/ Rollback(w) PROVE Inv'
      BY <2>1, <2>3, ClaimBatchInv, PublishInv, PublishFailsInv, CommitBatchInv, RollbackInv
         DEF WorkerStep
    <2>4. CASE ConsumerStep
      BY <2>1, <2>4, ConsumerInv DEF ConsumerStep
    <2>5. CASE BindStep \/ Disconnect
      BY <2>1, <2>5, BindInv, DisconnectInv
    <2>6. CASE UNCHANGED vars
      <3>1. UNCHANGED <<rows, worker, queues, published, faults>>
        BY <2>6 DEF vars
      <3>2. QueuesTyped' /\ CopiesBounded' /\ \A e \in Events : Safe(e) => Safe(e)'
        BY <2>1, <3>1, SameQueues DEF Inv, StateTyped
      <3>. QED  BY <2>1, <3>1, <3>2, QueueStepInv
    <2>. QED  BY <2>1, <2>2, <2>3, <2>4, <2>5, <2>6 DEF Next
  <1>. QED  BY <1>1, InitInv, PTL DEF Spec

(* Every row, transaction and queue has its type, and what a transaction   *)
(* has updated is what it has locked and no longer has to publish.         *)
THEOREM DeliveryTypeCorrect == Spec => []TypeOK
  <1>1. Inv => TypeOK
    <2>. SUFFICES ASSUME Inv PROVE TypeOK
      OBVIOUS
    <2>1. \A w \in Workers :
             /\ worker[w].left \subseteq worker[w].locked
             /\ worker[w].locked \subseteq Events
             /\ DOMAIN worker[w].updates = worker[w].locked \ worker[w].left
             /\ \A e \in DOMAIN worker[w].updates : worker[w].updates[e] \in Row \ {Absent}
      BY Columns DEF Inv, BatchShape
    <2>2. \A queue \in {main, retry, dlq, unacked, copied} : queue \in [Message -> Nat]
      BY DEF Inv, StateTyped, QueuesTyped
    <2>. QED  BY <2>1, <2>2 DEF Inv, StateTyped, QueuesTyped, CopiesBounded, TypeOK
  <1>. QED  BY <1>1, DeliverySafety, PTL

(* publish, _mark_sent and the commit, against rollbacks of the loop and   *)
(* acknowledgements, retries and lost connections of the consumer: a row   *)
(* that is SENT stands for a message that was handled or can still be, or  *)
(* one whose routing key no queue was bound to when it was published.      *)
THEOREM SentRowsAreDelivered == Spec => []SentMeansDelivered
  <1>1. Inv => SentMeansDelivered
    <2>. SUFFICES ASSUME Inv, NEW e \in Events, rows[e].status = "SENT"
                  PROVE  Delivered(e) \/ e \in returned
      BY DEF SentMeansDelivered
    <2>1. Safe(e)
      BY DEF Inv, SentIsSafe
    <2>2. \A m \in Message : unacked[m] \in Nat /\ copied[m] \in Nat
      BY DEF Inv, StateTyped, QueuesTyped
    <2>. QED  BY <2>1, <2>2 DEF Safe, Delivered, On
  <1>. QED  BY <1>1, DeliverySafety, PTL

(* SELECT ... FOR UPDATE SKIP LOCKED: a commit writes only rows that are   *)
(* PENDING, so a row that another replica finished stays as it is.         *)
THEOREM FinishedRowsStay == Spec => FinishedStaysFinished
  <1>1. Inv /\ [Next]_vars =>
          [\A e \in Events : rows[e].status \in {"SENT", "FAILED"} => rows'[e] = rows[e]]_rows
    <2>. SUFFICES ASSUME Inv, [Next]_vars, NEW e \in Events,
                         rows[e].status \in {"SENT", "FAILED"}, rows' # rows
                  PROVE  rows'[e] = rows[e]
      OBVIOUS
    <2>1. ASSUME NEW f \in Events, AddEvent(f) PROVE rows'[e] = rows[e]
      BY <2>1 DEF AddEvent, Absent, Inv, StateTyped
    <2>2. ASSUME NEW w \in Workers, CommitBatch(w) PROVE rows'[e] = rows[e]
      <3>1. e \notin worker[w].locked
        BY DEF Inv, RowsLocked
      <3>2. e \notin DOMAIN worker[w].updates
        BY <3>1, Columns DEF Inv
      <3>. QED  BY <2>2, <3>2 DEF CommitBatch
    <2>3. CASE \E w \in Workers : ~CommitBatch(w) /\ (WorkerStep(w) \/ Rollback(w))
      BY <2>3 DEF WorkerStep, ClaimBatch, Publish, PublishFails, Rollback
    <2>4. CASE BindStep \/ ConsumerStep \/ Disconnect \/ UNCHANGED vars
      BY <2>4 DEF BindStep, BindKey, ConsumerStep, Deliver, Handle, CopyToRetry, AckCopied, Reject,
                  RetryExpires, Disconnect, vars
    <2>. QED  BY <2>1, <2>2, <2>3, <2>4 DEF Next
  <1>. QED  BY <1>1, DeliverySafety, PTL DEF Spec, FinishedStaysFinished

(* The largest of one or two numbers of attempts. *)
LEMMA MaxOfTwo ==
    ASSUME NEW a \in Nat, NEW b \in Nat
    PROVE  Max({a, b}) \in Nat /\ Max({a, b}) >= a /\ Max({a, b}) >= b
  <1>1. \E x \in {a, b} : \A y \in {a, b} : x >= y
    <2>1. CASE a >= b
      BY <2>1
    <2>2. CASE b >= a
      BY <2>2
    <2>. QED  BY <2>1, <2>2
  <1>. QED  BY <1>1 DEF Max

(* Replicas that poll the same table never publish a row twice because     *)
(* both took it: what an event was published for is one SENT row, failed   *)
(* attempts that were counted, or faults.                                  *)
THEOREM CopiesArePaidFor == Spec => []CopiesAreExcused
  <1>1. Inv => CopiesAreExcused
    <2>. SUFFICES ASSUME Inv, NEW e \in Events
                  PROVE  LET holders == {w \in Workers : e \in DOMAIN worker[w].updates}
                             known   == {rows[e]} \cup {worker[w].updates[e] : w \in holders}
                             sent    == IF \E row \in known : row.status = "SENT" THEN 1 ELSE 0
                         IN  published[e] <= sent + Max({row.attempts : row \in known}) + faults
      BY DEF CopiesAreExcused
    <2>. DEFINE holders == {w \in Workers : e \in DOMAIN worker[w].updates}
                known == {rows[e]} \cup {worker[w].updates[e] : w \in holders}
                sent == IF \E row \in known : row.status = "SENT" THEN 1 ELSE 0
    <2>1. PICK row \in Row : known = {rows[e], row} /\ published[e] <= Paid(row) + faults
      <3>1. CASE holders = {}
        <4>1. known = {rows[e], rows[e]} /\ rows[e] \in Row
          BY <3>1 DEF Inv, StateTyped
        <4>2. published[e] <= Paid(rows[e]) + faults
          BY <3>1 DEF Inv, CopiesPaid
        <4>. QED  BY <4>1, <4>2
      <3>2. CASE holders # {}
        <4>1. PICK w \in Workers : e \in DOMAIN worker[w].updates
          BY <3>2
        <4>2. \A v \in Workers : DOMAIN worker[v].updates \subseteq worker[v].locked
          BY Columns DEF Inv
        <4>3. holders = {w}
          BY <4>1, <4>2 DEF Inv, RowsLocked
        <4>4. known = {rows[e], worker[w].updates[e]}
          BY <4>3
        <4>5. worker[w].updates[e] \in Row
          BY <4>1, Columns DEF Inv
        <4>6. published[e] <= Paid(worker[w].updates[e]) + faults
          BY <4>1 DEF Inv, CopiesPaid
        <4>. QED  BY <4>4, <4>5, <4>6
      <3>. QED  BY <3>1, <3>2
    <2>2. rows[e].attempts \in Nat /\ row.attempts \in Nat
      BY RowPays DEF Inv, StateTyped
    <2>3. {r.attempts : r \in known} = {rows[e].attempts, row.attempts}
      BY <2>1
    <2>4. PICK most \in Nat : most = Max({r.attempts : r \in known}) /\ most >= row.attempts
      BY <2>2, <2>3, MaxOfTwo
    <2>5. Paid(row) <= sent + most
      <3>1. CASE row.status = "SENT"
        BY <2>1, <2>2, <2>4, <3>1 DEF Paid
      <3>2. CASE row.status # "SENT"
        BY <2>2, <2>4, <3>2 DEF Paid
      <3>. QED  BY <3>1, <3>2
    <2>6. published[e] \in Nat /\ faults \in Nat /\ Paid(row) \in Nat /\ sent \in Nat
      BY <2>1, RowPays DEF Inv, StateTyped
    <2>7. published[e] <= sent + most + faults
      <3>. HIDE DEF sent
      <3>. QED  BY <2>1, <2>5, <2>6
    <2>. QED  BY <2>4, <2>7
  <1>. QED  BY <1>1, DeliverySafety, PTL
-----------------------------------------------------------------------------
(* What the gateway does with the events: the push of a round's table      *)
(* state (TableStatePush) to any number of clients, with any number of     *)
(* events handled at a time.                                               *)

(* OpenStaysSubscribed needs to know that the sockets a client holds open  *)
(* are among those that connected.                                         *)
PushInv == open \subseteq Sockets /\ DOMAIN loop = Sockets /\ OpenStaysSubscribed

LEMMA PushInitially == PushInit => PushInv
BY DEF PushInit, PushInv, OpenStaysSubscribed

LEMMA PushKept == PushInv /\ [PushNext]_pushVars => PushInv'
<1> SUFFICES ASSUME PushInv, [PushNext]_pushVars  PROVE PushInv'
  OBVIOUS
<1> USE DEF PushInv, OpenStaysSubscribed
<1>1. ASSUME UNCHANGED <<registered, open, loop>>  PROVE PushInv'
  BY <1>1
<1>2. CASE Change
  BY <1>1, <1>2 DEF Change
<1>3. ASSUME NEW s \in Sockets, Connect(s)  PROVE PushInv'
  BY <1>3 DEF Connect
<1>4. ASSUME NEW s \in Sockets, Close(s)  PROVE PushInv'
  BY <1>4 DEF Close
<1>5. ASSUME NEW s \in Sockets, Reconcile(s)  PROVE PushInv'
  BY <1>1, <1>5 DEF Reconcile
<1>6. ASSUME NEW h \in Handlers, HandleEvent(h)  PROVE PushInv'
  BY <1>1, <1>6 DEF HandleEvent
<1>7. ASSUME NEW t, TaskStep(t)  PROVE PushInv'
  <2>1. CASE Answered(t) \/ Refused(t) \/ ListTargets(t) \/ Sent(t)
    BY <1>1, <2>1 DEF Answered, Refused, ListTargets, Sent
  <2>2. CASE Raises(t)
    BY <2>2 DEF Raises
  <2>3. ASSUME NEW s, Send(t, s)  PROVE PushInv'
    <3>1. /\ registered' = IF s \in registered \ open THEN registered \ {s} ELSE registered
          /\ UNCHANGED <<open, loop>>
      BY <2>3 DEF Send, Disconnected
    <3> QED
      BY <3>1
  <2> QED
    BY <1>7, <2>1, <2>2, <2>3 DEF TaskStep
<1>8. CASE UNCHANGED pushVars
  BY <1>1, <1>8 DEF pushVars
<1> QED
  BY <1>2, <1>3, <1>4, <1>5, <1>6, <1>7, <1>8 DEF PushNext

(* round_routes.py and the connection manager: however broadcasts, failed  *)
(* requests and the departures of other clients overlap, a client that is  *)
(* still there is never unsubscribed, and its reconciliation loop runs.    *)
THEOREM OpenClientsStaySubscribed == PushSpec => []OpenStaysSubscribed
<1>1. PushInv => OpenStaysSubscribed
  BY DEF PushInv
<1> QED
  BY <1>1, PushInitially, PushKept, PTL DEF PushSpec
=============================================================================
