--------------------------- MODULE GatewayOutbox ---------------------------
(***************************************************************************)
(* The outbox of one gateway Session: the delivery rows that tell a chat   *)
(* adapter what the Tasks of the Session answer.                           *)
(*                                                                         *)
(* An event (one inbound message, run by one Task) owns up to MaxMessages  *)
(* interim messages, admitted while its Task runs, and one terminal row,   *)
(* the final answer or the error, written when the event is closed.  Row   *)
(* <<e, k>> is the k-th row of event e; <<e, Last>> is the terminal one.   *)
(* created_at, which the store forces to grow within an event, is k.       *)
(*                                                                         *)
(* The workers of the controller process claim rows under a lease, read    *)
(* the Gateway and its credentials, POST to the adapter and record the     *)
(* outcome.  The record names the process, not the worker and not the      *)
(* attempt: every worker of a process is the same claim owner.  A process  *)
(* is followed by another one; one worker of the old process may live on   *)
(* (the slot Zombie).                                                      *)
(*                                                                         *)
(* Store transactions are single steps (SQLite has one writer).  Time is   *)
(* the steps Lapse (a lease), Due (a retry delay) and Expire (a row).      *)
(***************************************************************************)
EXTENDS Integers

CONSTANTS
    NumEvents,      \* events of the Session, in transcript order
    MaxMessages,    \* InterimMessagesPerTask
    MaxAttempts,    \* DeliveryMaxAttempts
    MaxManual,      \* bound: manual retries of one row
    MaxExpiries,    \* bound: rows that reach their expiry while live
    MaxBoot,        \* bound: controller processes, one after another
    Workers,        \* the goroutines of a delivery batch
    Zombie          \* the slot of a worker whose process was superseded

ASSUME OutboxAssumption ==
    /\ NumEvents \in Nat /\ MaxMessages \in Nat /\ MaxManual \in Nat /\ MaxExpiries \in Nat
    /\ MaxAttempts \in Nat \ {0}
    /\ MaxBoot \in Nat \ {0}
    /\ Zombie \notin Workers

Events == 1 .. NumEvents
Last == MaxMessages + 1
Rows == Events \X (1 .. Last)
Slots == Workers \cup {Zombie}

\* kind = "message"; the other kinds, final and error, end the event.
IsMessage(r) == r[2] <= MaxMessages

\* The Session's order: transcript order of the events, then created_at.
Earlier(q, r) == q[1] < r[1] \/ (q[1] = r[1] /\ q[2] < r[2])

Live == {"Pending", "RetryScheduled", "Sending"}
Ended == {"Delivered", "Failed", "DeadLettered", "Expired"}

VARIABLES
    event,      \* "waiting" (no Task yet), "open" (TaskCreated) or "closed"
    row,        \* the delivery rows
    worker,     \* DeliverOnce, one run per slot and batch
    boot,       \* the controller process that leads
    seen,       \* rows the adapter has posted to the provider
    expiries    \* expiries so far

vars == <<event, row, worker, boot, seen, expiries>>

NoRow == [state |-> "None", attempts |-> 0, manual |-> 0, due |-> TRUE, expired |-> FALSE,
          owner |-> 0, leased |-> FALSE]
NewRow == [NoRow EXCEPT !.state = "Pending"]
RowRec == [state : Live \cup Ended \cup {"None", "Deleted"}, attempts : 0 .. MaxAttempts,
           manual : 0 .. MaxManual, due : BOOLEAN, expired : BOOLEAN, owner : 0 .. MaxBoot,
           leased : BOOLEAN]

\* A worker holds the copy of the row it claimed.
Resting(pc) == [pc |-> pc, row |-> <<1, 1>>, attempts |-> 0, manual |-> 0, owner |-> 0, answer |-> "none"]
WorkerRec == [pc : {"start", "check", "answer", "done"}, row : Rows \cup {<<1, 1>>},
              attempts : 0 .. MaxAttempts, manual : 0 .. MaxManual, owner : 0 .. MaxBoot,
              answer : {"none", "delivered", "retryable", "permanent"}]

Init ==
    /\ event = [e \in Events |-> "waiting"]
    /\ row = [r \in Rows |-> NoRow]
    /\ worker = [s \in Slots |-> Resting(IF s = Zombie THEN "done" ELSE "start")]
    /\ boot = 1
    /\ seen = {}
    /\ expiries = 0

\* A row leaves the queue: state, and claim_owner = '', claim_until = NULL.
End(x, state) == [x EXCEPT !.state = state, !.owner = 0, !.leased = FALSE, !.due = TRUE]

\* Nobody holds a lease on the row.
Unclaimed(x) == x.state \in {"Pending", "RetryScheduled"} \/ (x.state = "Sending" /\ ~x.leased)

----------------------------------------------------------------------------
(* The events: what the inbox does to the outbox. *)

\* The Task of the Session's head event is linked.
OpenEvent(e) ==
    /\ event[e] = "waiting"
    /\ \A d \in Events : d < e => event[d] = "closed"
    /\ event' = [event EXCEPT ![e] = "open"]
    /\ UNCHANGED <<row, worker, boot, seen, expiries>>

\* The running Task sends an interim message, the k-th of its event; rows are never
\* taken back, so the ones there are count against the lifetime quota.  A replayed
\* request finds its row and changes nothing.
enqueueGatewayMessageTx(e) ==
    /\ event[e] = "open"
    /\ \E k \in 1 .. MaxMessages :
          /\ \A j \in 1 .. MaxMessages : row[<<e, j>>].state = "None" <=> j >= k
          /\ row' = [row EXCEPT ![<<e, k>>] = NewRow]
    /\ UNCHANGED <<event, worker, boot, seen, expiries>>

\* The event is completed or expired, in one transaction with its terminal row.
\* An event that never got a Task expires at the head of the Session.
createGatewayDeliveryTx(e) ==
    /\ event[e] \in {"waiting", "open"}
    /\ \A d \in Events : d < e => event[d] = "closed"
    /\ event' = [event EXCEPT ![e] = "closed"]
    /\ row' = [row EXCEPT ![<<e, Last>>] = NewRow]
    /\ UNCHANGED <<worker, boot, seen, expiries>>

----------------------------------------------------------------------------
(* DeliverOnce. *)

\* The claim leaves rows that used up their attempts as they are.
MutantKeepsExhausted == row

\* Before it looks for work a claim abandons the rows that nobody holds and that
\* used up their attempts, and the interim messages that expired.
Abandoned ==
    [r \in Rows |->
        IF Unclaimed(row[r]) /\ row[r].attempts >= MaxAttempts THEN End(row[r], "DeadLettered")
        ELSE IF Unclaimed(row[r]) /\ IsMessage(r) /\ row[r].expired THEN End(row[r], "Expired")
        ELSE row[r]]

\* The claim does not look at the Session.
MutantClaimAnyRow(rows, r) ==
    Unclaimed(rows[r]) /\ rows[r].due /\ ~rows[r].expired /\ rows[r].attempts < MaxAttempts

\* A row that may be claimed: due, unexpired, unclaimed, with attempts left, and no
\* earlier row of the Session is still live.
Claimable(rows, r) ==
    /\ Unclaimed(rows[r]) /\ rows[r].due /\ ~rows[r].expired
    /\ rows[r].attempts < MaxAttempts
    /\ \A q \in Rows : Earlier(q, r) => rows[q].state \notin Live

\* The lease, and the copy of the row its worker takes along.
Claimed(x) == [x EXCEPT !.state = "Sending", !.owner = boot, !.leased = TRUE, !.attempts = x.attempts + 1]
Holding(r, x) == [pc |-> "check", row |-> r, attempts |-> x.attempts, manual |-> x.manual,
                  owner |-> x.owner, answer |-> "none"]

\* Sweep and claim are one transaction: when nothing is claimable it is rolled back,
\* the sweep with it.
ClaimNextGatewayDelivery(w) ==
    /\ worker[w].pc = "start"
    /\ \/ \E r \in Rows :
            /\ Claimable(Abandoned, r)
            /\ row' = [Abandoned EXCEPT ![r] = Claimed(@)]
            /\ worker' = [worker EXCEPT ![w] = Holding(r, Claimed(Abandoned[r]))]
       \/ /\ \A r \in Rows : ~Claimable(Abandoned, r)
          /\ worker' = [worker EXCEPT ![w] = Resting("done")]
          /\ UNCHANGED row
    /\ UNCHANGED <<event, boot, seen, expiries>>

\* The row is Sending and the process of the worker is its claim owner.
Owned(s) == LET x == row[worker[s].row] IN x.state = "Sending" /\ x.owner = worker[s].owner

\* An outcome is written if the row is still owned, else the store answers Conflict or
\* NotFound; either way the worker is through.
Record(s, x) ==
    /\ row' = IF Owned(s) THEN [row EXCEPT ![worker[s].row] = x] ELSE row
    /\ worker' = [worker EXCEPT ![s] = Resting("done")]

MarkGatewayDeliveryTerminal(s, state) == Record(s, End(row[worker[s].row], state))

ScheduleGatewayDeliveryRetry(s) ==
    Record(s, [End(row[worker[s].row], "RetryScheduled") EXCEPT !.due = FALSE])

\* A manual retry moves the expiry, so a worker that claimed the row before it holds an
\* earlier expiry than the row.
CopyLives(s) == ~row[worker[s].row].expired
CopyMayBeExpired(s) == row[worker[s].row].expired \/ row[worker[s].row].manual # worker[s].manual

\* Dead-letters when the attempts are used up or the next one would come after the
\* expiry; the delay may always be too long for what is left of the row's life.
retryOrDeadLetterDelivery(s) ==
    \/ MarkGatewayDeliveryTerminal(s, "DeadLettered")
    \/ worker[s].attempts < MaxAttempts /\ CopyLives(s) /\ ScheduleGatewayDeliveryRetry(s)

\* The reads before the POST end the attempt: the Gateway is gone or another one, the
\* message is no longer eligible; or the Gateway, its endpoint or credential is not ready;
\* or the row has expired meanwhile.
Preflight(s) ==
    /\ worker[s].pc = "check"
    /\ \/ MarkGatewayDeliveryTerminal(s, "DeadLettered")
       \/ retryOrDeadLetterDelivery(s)
       \/ CopyMayBeExpired(s) /\ MarkGatewayDeliveryTerminal(s, "Expired")
    /\ UNCHANGED <<event, boot, seen, expiries>>

\* The POST; nothing looks at the lease again before it.  "retryable" and "permanent" stand
\* for every answer that leaves it open whether the adapter posted: an error status, a
\* timeout, an unreadable body.
Post(s) ==
    /\ worker[s].pc = "check"
    /\ CopyLives(s)
    /\ \E answer \in {"delivered", "retryable", "permanent"}, posted \in BOOLEAN :
          /\ answer = "delivered" => posted
          /\ seen' = IF posted THEN seen \cup {worker[s].row} ELSE seen
          /\ worker' = [worker EXCEPT ![s].pc = "answer", ![s].answer = answer]
    /\ UNCHANGED <<event, row, boot, expiries>>

\* A row that is already Delivered is left as it is (the adapter repeats its receipt).
MarkGatewayDeliveryDelivered(s) == Record(s, End(row[worker[s].row], "Delivered"))

\* Any answer of the adapter counts as a delivery.
MutantAnyAnswerDelivers(s) ==
    /\ worker[s].pc = "answer"
    /\ MarkGatewayDeliveryDelivered(s)
    /\ UNCHANGED <<event, boot, seen, expiries>>

Outcome(s) ==
    /\ worker[s].pc = "answer"
    /\ \/ worker[s].answer = "delivered" /\ MarkGatewayDeliveryDelivered(s)
       \/ worker[s].answer = "retryable" /\ retryOrDeadLetterDelivery(s)
       \/ worker[s].answer = "permanent" /\ MarkGatewayDeliveryTerminal(s, "DeadLettered")
    /\ UNCHANGED <<event, boot, seen, expiries>>

\* The worker returns without recording anything: a store or Task write failed (the Task
\* is correlated before the row is marked), or its context ended.
Drop(s) ==
    /\ worker[s].pc \in {"check", "answer"}
    /\ worker' = [worker EXCEPT ![s] = Resting("done")]
    /\ UNCHANGED <<event, row, boot, seen, expiries>>

\* The next batch starts when every worker of this one has returned.
processDeliveryBatch ==
    /\ \A w \in Workers : worker[w].pc = "done"
    /\ worker' = [s \in Slots |-> IF s \in Workers THEN Resting("start") ELSE worker[s]]
    /\ UNCHANGED <<event, row, boot, seen, expiries>>

----------------------------------------------------------------------------
(* Operators, maintenance, time and crashes. *)

\* A requeued row starts again with no attempts, which is all this looks at.
MutantStartedByAttempts(x, r) == x.attempts > 0 \/ (~IsMessage(r) /\ x.state \in Ended)

\* A row has started when an attempt was made since the row or an operator requeued it;
\* an ended terminal row counts even if it never was sent.
Started(x, r) == x.attempts > 0 \/ x.manual > 0 \/ (~IsMessage(r) /\ x.state \in Ended)

\* An operator requeues a dead-lettered row; a message only while no later row of its
\* event has started.
RetryGatewayDelivery(r) ==
    /\ row[r].state \in {"DeadLettered", "Failed"}
    /\ row[r].manual < MaxManual
    /\ IsMessage(r) => \A l \in Rows : l[1] = r[1] /\ l[2] > r[2] => ~Started(row[l], l)
    /\ row' = [row EXCEPT ![r] = [NewRow EXCEPT !.manual = row[r].manual + 1]]
    /\ UNCHANGED <<event, worker, boot, seen, expiries>>

\* Maintenance expires what is due to expire and deletes, event by event, the rows of
\* closed events that all ended before the retention cutoff.
MaintainGatewayRecords ==
    \E old \in SUBSET {e \in Events : event[e] = "closed" /\ \A r \in Rows :
                                        r[1] = e => row[r].state \in Ended \cup {"None"}} :
        /\ row' = [r \in Rows |->
                      IF r[1] \in old THEN [NoRow EXCEPT !.state = "Deleted"]
                      ELSE IF Unclaimed(row[r]) /\ row[r].expired THEN End(row[r], "Expired")
                      ELSE row[r]]
        /\ row' # row
        /\ UNCHANGED <<event, worker, boot, seen, expiries>>

Lapse(r) ==
    /\ row[r].leased
    /\ row' = [row EXCEPT ![r].leased = FALSE]
    /\ UNCHANGED <<event, worker, boot, seen, expiries>>

Due(r) ==
    /\ row[r].state = "RetryScheduled" /\ ~row[r].due
    /\ row' = [row EXCEPT ![r].due = TRUE]
    /\ UNCHANGED <<event, worker, boot, seen, expiries>>

Expire(r) ==
    /\ row[r].state \in Live /\ ~row[r].expired
    /\ expiries < MaxExpiries
    /\ row' = [row EXCEPT ![r].expired = TRUE]
    /\ expiries' = expiries + 1
    /\ UNCHANGED <<event, worker, boot, seen>>

\* The process ends and the next one leads, with an owner name of its own.  At most one
\* worker of the old process is still on its way.
Restart ==
    /\ boot < MaxBoot
    /\ boot' = boot + 1
    /\ \E s \in Slots :
          worker' = [w \in Slots |-> IF w \in Workers THEN Resting("start")
                                     ELSE IF worker[s].pc \in {"check", "answer"} THEN worker[s]
                                     ELSE Resting("done")]
    /\ UNCHANGED <<event, row, seen, expiries>>

DeliverOnce(s) == Preflight(s) \/ Post(s) \/ Outcome(s) \/ Drop(s)

Next ==
    \/ \E e \in Events : OpenEvent(e) \/ enqueueGatewayMessageTx(e) \/ createGatewayDeliveryTx(e)
    \/ \E w \in Workers : ClaimNextGatewayDelivery(w)
    \/ \E s \in Slots : DeliverOnce(s)
    \/ processDeliveryBatch
    \/ \E r \in Rows : RetryGatewayDelivery(r) \/ Lapse(r) \/ Due(r) \/ Expire(r)
    \/ MaintainGatewayRecords
    \/ Restart

Spec == Init /\ [][Next]_vars

\* The delivery loop ticks as long as the process leads; every call DeliverOnce makes
\* returns (the POST has a timeout); maintenance runs on a timer; leases and retry delays
\* are bounded times.
FairSpec ==
    /\ Spec
    /\ \A w \in Workers : WF_vars(ClaimNextGatewayDelivery(w))
    /\ \A s \in Slots : WF_vars(DeliverOnce(s))
    /\ WF_vars(processDeliveryBatch) /\ WF_vars(MaintainGatewayRecords)
    /\ \A r \in Rows : WF_vars(Lapse(r)) /\ WF_vars(Due(r))

----------------------------------------------------------------------------
(* Properties. *)

\* The shape of the state; no row is attempted more than MaxAttempts times, however its
\* claims lapse and are taken over (claimNextGatewayDeliveryWrite).
TypeOK ==
    /\ event \in [Events -> {"waiting", "open", "closed"}]
    /\ row \in [Rows -> RowRec]
    /\ worker \in [Slots -> WorkerRec]
    /\ boot \in 1 .. MaxBoot
    /\ seen \subseteq Rows
    /\ expiries \in 0 .. MaxExpiries

\* Nothing overtakes: when a row of the Session has been started, by an attempt or by an
\* operator, every earlier row that is still live is a terminal row an operator requeued.
\* So no message is ever live behind a later send, whatever was retried, abandoned,
\* expired or claimed twice in between.
\* (ClaimNextGatewayDelivery's FIFO conditions together with RetryGatewayDelivery's fence.)
InSessionOrder ==
    \A q, r \in Rows :
        /\ Earlier(q, r) /\ row[q].state \in Live
        /\ row[r].attempts > 0 \/ row[r].manual > 0
        => ~IsMessage(q) /\ row[q].manual > 0

\* A row is recorded as delivered only if the adapter posted it, although the record is
\* keyed by the process and may come from a worker whose claim was taken over.
DeliveredWasPosted == \A r \in Rows : row[r].state = "Delivered" => r \in seen

\* A message whose row is live when it is posted, as it is while the worker's lease runs,
\* reaches the provider for the first time only before every later row of its event: in
\* admission order, never after the final answer.  A worker that another one has overtaken,
\* in this process or in an older one, still posts in order as long as nobody has ended
\* the row.
LivePostsInOrder ==
    [][\A r \in seen' \ seen : IsMessage(r) /\ row[r].state \in Live =>
          \A l \in seen : l[1] = r[1] => l[2] <= r[2]]_vars

\* A terminal row gets its turn: a row that waits for its first attempt is attempted in
\* the end, or leaves the queue, however often the rows before it fail, are left Sending
\* by a worker that died, or use up their attempts.
TurnComes == \A r \in Rows : (row[r].state = "Pending") ~> (row[r].attempts > 0 \/ row[r].state \notin Live)
=============================================================================
