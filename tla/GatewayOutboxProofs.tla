------------------------- MODULE GatewayOutboxProofs -------------------------
(***************************************************************************)
(* The order of the outbox of a gateway Session, for any number of events, *)
(* messages, attempts, retries, processes and workers.                     *)
(***************************************************************************)
EXTENDS GatewayOutbox, TLAPS

\* Zenon proves every leaf that names no other backend.
USE ZenonT(60)

\* A worker that is on its way holds a row.
Busy == \A s \in Slots : worker[s].pc \in {"check", "answer"} => worker[s].row \in Rows

\* What the order rests on: a row that is not there has no attempts, one that is being
\* sent or was dead-lettered has some; events are closed one after another, each with its
\* terminal row; an event without a Task has no rows; the rows of an event are deleted
\* together.
Rest ==
    /\ \A r \in Rows : row[r].state \in {"None", "Deleted"} => row[r].attempts = 0 /\ row[r].manual = 0
    /\ \A r \in Rows : row[r].state \in {"Sending", "DeadLettered", "Failed"} => row[r].attempts > 0
    /\ \A e \in Events : event[e] = "closed" <=> row[<<e, Last>>].state # "None"
    /\ \A r \in Rows : event[r[1]] = "waiting" => row[r].state = "None"
    /\ \A d, e \in Events : d < e /\ event[e] # "waiting" => event[d] = "closed"
    /\ \A q, r \in Rows : q[1] = r[1] /\ row[q].state = "Deleted" => row[r].state = "Deleted"

OrderInv == TypeOK /\ Busy /\ Rest /\ InSessionOrder

\* A row moves on in its queue: it is not started, not put back into the queue, and
\* neither appears nor disappears.
Move(x, y) ==
    /\ (y.attempts > 0 \/ y.manual > 0) => (x.attempts > 0 \/ x.manual > 0)
    /\ y.state \in Live => x.state \in Live /\ y.manual = x.manual
    /\ (y.state \in {"None", "Deleted"} \/ x.state \in {"None", "Deleted"})
          => y.state = x.state /\ y.attempts = x.attempts /\ y.manual = x.manual
    /\ y.state \in {"Sending", "DeadLettered", "Failed"} => y.attempts > 0

\* The constants are what the arithmetic below needs them to be.
LEMMA Numbers == MaxMessages \in Nat /\ MaxAttempts \in Nat /\ MaxAttempts > 0 /\ MaxManual \in Nat
                 /\ MaxBoot \in Nat /\ MaxBoot > 0 /\ MaxExpiries \in Nat /\ Last \in Nat
                 /\ \A e \in Events : <<e, Last>> \in Rows
BY SMTT(60), OutboxAssumption DEF Last, Rows, Events

\* Moves keep the order and what it rests on.
LEMMA MovesKeep ==
    ASSUME Rest, InSessionOrder, row \in [Rows -> RowRec], event' = event,
           \A r \in Rows : Move(row[r], row'[r])
    PROVE  Rest' /\ InSessionOrder'
<1>1. Rest'
  BY SMTT(60), Numbers DEF Rest, Move
<1>2. InSessionOrder'
  BY DEF InSessionOrder, Move
<1> QED BY <1>1, <1>2

\* What End leaves and what it sets.
LEMMA EndIs ==
    ASSUME NEW x \in RowRec, NEW st \in Live \cup Ended
    PROVE  /\ End(x, st) \in RowRec
           /\ End(x, st).state = st /\ End(x, st).attempts = x.attempts /\ End(x, st).manual = x.manual
<1> DEFINE a == [x EXCEPT !.state = st]
           b == [a EXCEPT !.owner = 0]
           c == [b EXCEPT !.leased = FALSE]
           d == [c EXCEPT !.due = TRUE]
<1>1. a \in RowRec /\ a.state = st /\ a.attempts = x.attempts /\ a.manual = x.manual
  BY DEF RowRec
<1>2. End(x, st) = d
  BY DEF End
<1> HIDE DEF a
<1>3. b \in RowRec /\ b.state = st /\ b.attempts = x.attempts /\ b.manual = x.manual
  BY SMTT(60), <1>1, Numbers DEF RowRec
<1> HIDE DEF b
<1>4. c \in RowRec /\ c.state = st /\ c.attempts = x.attempts /\ c.manual = x.manual
  BY <1>3 DEF RowRec
<1> HIDE DEF c
<1>5. d \in RowRec /\ d.state = st /\ d.attempts = x.attempts /\ d.manual = x.manual
  BY <1>4 DEF RowRec
<1> QED BY <1>2, <1>5

\* The sweep of a claim moves every row on, or leaves it.
LEMMA SweepMoves ==
    ASSUME Rest, row \in [Rows -> RowRec]
    PROVE  /\ Abandoned \in [Rows -> RowRec]
           /\ \A r \in Rows : Move(row[r], Abandoned[r])
<1> SUFFICES ASSUME NEW r \in Rows
             PROVE  Abandoned[r] \in RowRec /\ Move(row[r], Abandoned[r])
  BY DEF Abandoned
<1>1. row[r] \in RowRec
  OBVIOUS
<1>2. CASE Abandoned[r] = row[r]
  BY <1>1, <1>2 DEF Move, Rest
<1>3. ASSUME NEW st \in {"DeadLettered", "Expired"}, Abandoned[r] = End(row[r], st), Unclaimed(row[r]),
             st = "DeadLettered" => row[r].attempts >= MaxAttempts
      PROVE  Abandoned[r] \in RowRec /\ Move(row[r], Abandoned[r])
  <2>1. /\ End(row[r], st).state = st /\ End(row[r], st).attempts = row[r].attempts
        /\ End(row[r], st).manual = row[r].manual /\ End(row[r], st) \in RowRec
    BY <1>1, EndIs DEF Ended
  <2>2. row[r].state \in Live /\ row[r].attempts \in Nat
    BY SMTT(60), <1>1, <1>3, Numbers DEF Unclaimed, Live, RowRec
  <2> QED BY SMTT(60), <1>3, <2>1, <2>2, Numbers DEF Move, Live
<1> QED
  BY <1>2, <1>3 DEF Abandoned
\* Resting workers are workers, and hold no row.
LEMMA RestingIs ==
    ASSUME NEW pc \in {"start", "done"}
    PROVE  Resting(pc) \in WorkerRec /\ Resting(pc).pc = pc
BY SMTT(60), Numbers DEF Resting, WorkerRec

\* Writing an outcome that moves the row on keeps the invariant.
LEMMA RecordKeeps ==
    ASSUME OrderInv, NEW s \in Slots, worker[s].pc \in {"check", "answer"},
           NEW x \in RowRec, Owned(s) => Move(row[worker[s].row], x),
           Record(s, x), UNCHANGED <<event, boot, seen, expiries>>
    PROVE  OrderInv'
<1> USE DEF OrderInv
<1>1. worker[s].row \in Rows
  BY DEF Busy
<1>2. worker' = [worker EXCEPT ![s] = Resting("done")] /\ Resting("done") \in WorkerRec
      /\ Resting("done").pc = "done"
  BY RestingIs DEF Record
<1>3. row' \in [Rows -> RowRec] /\ \A r \in Rows : row'[r] = row[r] \/ Move(row[r], row'[r])
  BY <1>1 DEF Record, TypeOK
<1>4. \A r \in Rows : Move(row[r], row'[r])
  BY <1>3 DEF Move, Rest
<1>5. Rest' /\ InSessionOrder'
  BY <1>4, MovesKeep DEF TypeOK
<1>6. TypeOK' /\ Busy'
  BY <1>2, <1>3 DEF TypeOK, Busy
<1> QED BY <1>5, <1>6

\* Every end of an attempt is such an outcome.
LEMMA OutcomesMove ==
    ASSUME OrderInv, NEW s \in Slots, worker[s].pc \in {"check", "answer"},
           UNCHANGED <<event, boot, seen, expiries>>,
           \/ \E st \in Ended : MarkGatewayDeliveryTerminal(s, st)
           \/ retryOrDeadLetterDelivery(s)
           \/ MarkGatewayDeliveryDelivered(s)
    PROVE  OrderInv'
<1> USE DEF OrderInv
<1> DEFINE x == row[worker[s].row]
<1>1. x \in RowRec /\ worker[s].row \in Rows
  BY DEF Busy, TypeOK
<1>2. Owned(s) => x.state = "Sending" /\ x.attempts > 0
  BY <1>1 DEF Owned, Rest
<1>3. ASSUME NEW st \in Ended \cup {"RetryScheduled"}, NEW y \in RowRec, y.state = st,
             y.attempts = x.attempts, y.manual = x.manual, Record(s, y)
      PROVE  OrderInv'
  <2>1. Owned(s) => Move(x, y)
    BY <1>1, <1>2, <1>3 DEF Move, Live, Ended
  <2> QED BY <1>3, <2>1, RecordKeeps
<1>4. ASSUME NEW st \in Ended, Record(s, End(x, st)) PROVE OrderInv'
  BY <1>1, <1>3, <1>4, EndIs
<1>5. ASSUME ScheduleGatewayDeliveryRetry(s) PROVE OrderInv'
  <2> DEFINE y == End(x, "RetryScheduled")
             z == [y EXCEPT !.due = FALSE]
  <2>1. y \in RowRec /\ y.state = "RetryScheduled" /\ y.attempts = x.attempts /\ y.manual = x.manual
    BY <1>1, EndIs DEF Live
  <2>2. Record(s, z)
    BY <1>5 DEF ScheduleGatewayDeliveryRetry
  <2> HIDE DEF y
  <2>3. z \in RowRec /\ z.state = "RetryScheduled" /\ z.attempts = x.attempts /\ z.manual = x.manual
    BY <2>1 DEF RowRec
  <2> QED BY <1>3, <2>2, <2>3
<1> QED
  BY <1>4, <1>5 DEF MarkGatewayDeliveryTerminal, MarkGatewayDeliveryDelivered,
                    retryOrDeadLetterDelivery, Ended

\* A row that is not there yet.
LEMMA NewRowIs == NewRow \in RowRec /\ NewRow.state = "Pending" /\ NewRow.attempts = 0 /\ NewRow.manual = 0
                  /\ NoRow \in RowRec /\ NoRow.state = "None" /\ NoRow.attempts = 0 /\ NoRow.manual = 0
<1>1. NoRow \in RowRec /\ NoRow.state = "None" /\ NoRow.attempts = 0 /\ NoRow.manual = 0
  BY SMTT(60), Numbers DEF NoRow, RowRec
<1>2. NewRow = [NoRow EXCEPT !.state = "Pending"]
  BY DEF NewRow
<1> QED BY <1>1, <1>2 DEF RowRec, Live

\* The initial state.
LEMMA OrderInit == Init => OrderInv
<1> SUFFICES ASSUME Init PROVE OrderInv
  OBVIOUS
<1>1. \A r \in Rows : row[r] = NoRow
  BY DEF Init
<1>2. row \in [Rows -> RowRec]
  BY NewRowIs DEF Init
<1>3. worker \in [Slots -> WorkerRec] /\ \A s \in Slots : worker[s].pc \in {"start", "done"}
  BY RestingIs DEF Init
<1>4. TypeOK /\ Busy
  BY SMTT(60), <1>2, <1>3, Numbers DEF Init, TypeOK, Busy
<1>5. Rest
  BY <1>1, NewRowIs, Numbers DEF Rest, Init, Rows
<1>6. InSessionOrder
  BY SMTT(60), <1>1, NewRowIs DEF InSessionOrder
<1> QED BY <1>4, <1>5, <1>6 DEF OrderInv

\* Events: a new row comes after every row that was started.
LEMMA EventSteps ==
    ASSUME OrderInv, NEW e \in Events,
           OpenEvent(e) \/ enqueueGatewayMessageTx(e) \/ createGatewayDeliveryTx(e)
    PROVE  OrderInv'
<1> USE DEF OrderInv
<1>0. Events \subseteq Nat /\ \A r \in Rows : r[1] \in Events /\ r[2] \in 1 .. Last /\ r = <<r[1], r[2]>>
  BY SMTT(60), Numbers DEF Events, Rows
<1>1. CASE OpenEvent(e)
  <2>1. event' \in [Events -> {"waiting", "open", "closed"}] /\ TypeOK' /\ Busy'
    BY <1>1 DEF OpenEvent, TypeOK, Busy
  <2>2. Rest'
    BY <1>0, <1>1 DEF OpenEvent, Rest, TypeOK
  <2>3. InSessionOrder'
    BY <1>1 DEF OpenEvent, InSessionOrder
  <2> QED BY <2>1, <2>2, <2>3
<1>2. ASSUME NEW k \in 1 .. Last, row' = [row EXCEPT ![<<e, k>>] = NewRow],
             row[<<e, k>>].state = "None",
             UNCHANGED <<worker, boot, seen, expiries>>,
             \A l \in Rows : Earlier(<<e, k>>, l) => row[l].state = "None",
             event' \in [Events -> {"waiting", "open", "closed"}]
      PROVE  TypeOK' /\ Busy' /\ InSessionOrder' /\ <<e, k>> \in Rows
  <2>1. <<e, k>> \in Rows
    BY DEF Rows
  <2>2. TypeOK' /\ Busy'
    BY <1>2, <2>1, NewRowIs DEF TypeOK, Busy
  <2>3. ASSUME NEW q \in Rows, NEW r \in Rows, Earlier(q, r), row'[q].state \in Live,
               row'[r].attempts > 0 \/ row'[r].manual > 0
        PROVE  ~IsMessage(q) /\ row'[q].manual > 0
    <3>1. r # <<e, k>> /\ row'[r] = row[r]
      BY SMTT(60), <1>2, <2>1, <2>3, NewRowIs DEF TypeOK
    <3>2. row[r].state # "None"
      BY SMTT(60), <2>3, <3>1 DEF Rest
    <3>3. q # <<e, k>> /\ row'[q] = row[q]
      BY <1>2, <2>3, <3>2 DEF TypeOK
    <3> QED BY <2>3, <3>1, <3>3 DEF InSessionOrder
  <2> QED BY <2>1, <2>2, <2>3 DEF InSessionOrder
<1>3. ASSUME event[e] # "closed", NEW l \in Rows, l[1] > e PROVE row[l].state = "None"
  BY <1>0, <1>3 DEF Rest, TypeOK
<1>4. CASE enqueueGatewayMessageTx(e)
  <2>1. PICK k \in 1 .. MaxMessages :
          /\ \A j \in 1 .. MaxMessages : row[<<e, j>>].state = "None" <=> j >= k
          /\ row' = [row EXCEPT ![<<e, k>>] = NewRow]
    BY <1>4 DEF enqueueGatewayMessageTx
  <2>2. event[e] = "open" /\ UNCHANGED <<event, worker, boot, seen, expiries>>
    BY <1>4 DEF enqueueGatewayMessageTx
  <2>3. k \in 1 .. Last /\ k # Last /\ row[<<e, k>>].state = "None"
    BY SMTT(60), <2>1, Numbers DEF Last
  <2>4. ASSUME NEW l \in Rows, Earlier(<<e, k>>, l) PROVE row[l].state = "None"
    <3>1. CASE l[1] > e
      BY <1>3, <2>2, <3>1
    <3>2. CASE l[1] = e /\ l[2] = Last
      BY <1>0, <2>2, <3>2 DEF Rest
    <3>3. CASE l[1] = e /\ l[2] # Last /\ l[2] > k
      <4>1. l[2] \in 1 .. MaxMessages /\ l = <<e, l[2]>> /\ l[2] >= k
        BY SMTT(60), <1>0, <3>3, Numbers DEF Last
      <4> QED BY <2>1, <4>1
    <3> QED BY <1>0, <2>4, <3>1, <3>2, <3>3 DEF Earlier
  <2>5. TypeOK' /\ Busy' /\ InSessionOrder' /\ <<e, k>> \in Rows
    BY <1>2, <2>1, <2>2, <2>3, <2>4 DEF TypeOK
  <2>6. Rest'
    <3>1. row'[<<e, k>>] = NewRow /\ \A r \in Rows : r # <<e, k>> => row'[r] = row[r]
      BY <2>1, <2>5 DEF TypeOK
    <3>2. \A d \in Events : <<d, Last>> # <<e, k>> /\ <<d, Last>> \in Rows
      BY <2>3, Numbers
    <3>3. \A q \in Rows : q[1] = e => row[q].state # "Deleted"
      BY <2>3, <2>5 DEF Rest
    <3> QED BY SMTT(60), <2>2, <2>5, <3>1, <3>2, <3>3, NewRowIs DEF Rest
  <2> QED BY <2>5, <2>6
<1>5. CASE createGatewayDeliveryTx(e)
  <2>1. /\ event[e] # "closed" /\ event' = [event EXCEPT ![e] = "closed"]
        /\ \A d \in Events : d < e => event[d] = "closed"
        /\ row' = [row EXCEPT ![<<e, Last>>] = NewRow]
        /\ UNCHANGED <<worker, boot, seen, expiries>>
    BY <1>5 DEF createGatewayDeliveryTx
  <2>2. row[<<e, Last>>].state = "None" /\ Last \in 1 .. Last
    BY SMTT(60), <2>1, OutboxAssumption DEF Rest, Last
  <2>3. \A l \in Rows : Earlier(<<e, Last>>, l) => row[l].state = "None"
    <3> SUFFICES ASSUME NEW l \in Rows, Earlier(<<e, Last>>, l) PROVE row[l].state = "None"
      OBVIOUS
    <3>1. l[1] > e
      BY SMTT(60), <1>0, Numbers DEF Earlier
    <3> QED BY <1>3, <2>1, <3>1
  <2>4. event' \in [Events -> {"waiting", "open", "closed"}]
    BY <2>1 DEF TypeOK
  <2>5. TypeOK' /\ Busy' /\ InSessionOrder' /\ <<e, Last>> \in Rows
    BY <1>2, <2>1, <2>2, <2>3, <2>4
  <2>6. Rest'
    <3>1. row'[<<e, Last>>] = NewRow /\ \A r \in Rows : r # <<e, Last>> => row'[r] = row[r]
      BY <2>1, <2>5 DEF TypeOK
    <3>2. \A d \in Events : <<d, Last>> \in Rows /\ (<<d, Last>> = <<e, Last>> => d = e)
      BY Numbers
    <3>3. \A q \in Rows : q[1] = e => row[q].state # "Deleted"
      BY <2>2, <2>5 DEF Rest
    <3>4. event'[e] = "closed" /\ \A d \in Events : d # e => event'[d] = event[d]
      BY <2>1 DEF TypeOK
    <3>5. \A d \in Events : event'[d] = "closed" <=> row'[<<d, Last>>].state # "None"
      BY SMTT(60), <3>1, <3>2, <3>4, NewRowIs DEF Rest
    <3>6. \A r \in Rows : event'[r[1]] = "waiting" => row'[r].state = "None"
      BY SMTT(60), <1>0, <2>5, <3>1, <3>4, NewRowIs DEF Rest
    <3>7. \A c, d \in Events : c < d /\ event'[d] # "waiting" => event'[c] = "closed"
      BY SMTT(60), <2>1, <3>4 DEF Rest
    <3>8. \A q, r \in Rows : q[1] = r[1] /\ row'[q].state = "Deleted" => row'[r].state = "Deleted"
      BY SMTT(60), <2>5, <3>1, <3>3, NewRowIs DEF Rest
    <3> QED BY SMTT(60), <2>5, <3>1, <3>5, <3>6, <3>7, <3>8, NewRowIs DEF Rest
  <2> QED BY <2>5, <2>6
<1> QED BY <1>1, <1>4, <1>5

\* What a claim does to a row.
LEMMA ClaimedIs ==
    ASSUME NEW x \in RowRec, x.attempts < MaxAttempts, boot \in 0 .. MaxBoot
    PROVE  /\ Claimed(x) \in RowRec /\ Claimed(x).state = "Sending"
           /\ Claimed(x).attempts = x.attempts + 1 /\ Claimed(x).manual = x.manual
           /\ Claimed(x).attempts > 0
<1> DEFINE a == [x EXCEPT !.state = "Sending"]
           b == [a EXCEPT !.owner = boot]
           c == [b EXCEPT !.leased = TRUE]
           d == [c EXCEPT !.attempts = x.attempts + 1]
<1>0. x.attempts + 1 \in 0 .. MaxAttempts /\ x.attempts + 1 > 0
  BY SMTT(60), Numbers DEF RowRec
<1>1. a \in RowRec /\ a.state = "Sending" /\ a.manual = x.manual
  BY DEF RowRec, Live
<1>2. Claimed(x) = d
  BY DEF Claimed
<1> HIDE DEF a
<1>3. b \in RowRec /\ b.state = "Sending" /\ b.manual = x.manual
  BY <1>1 DEF RowRec
<1> HIDE DEF b
<1>4. c \in RowRec /\ c.state = "Sending" /\ c.manual = x.manual
  BY <1>3 DEF RowRec
<1> HIDE DEF c
<1>5. d \in RowRec /\ d.state = "Sending" /\ d.manual = x.manual /\ d.attempts = x.attempts + 1
  BY <1>0, <1>4 DEF RowRec
<1> QED BY <1>0, <1>2, <1>5

\* A claim sweeps, then starts a row before which nothing is live.
LEMMA ClaimStep ==
    ASSUME OrderInv, NEW w \in Workers, ClaimNextGatewayDelivery(w)
    PROVE  OrderInv'
<1> USE DEF OrderInv
<1>0. w \in Slots /\ row \in [Rows -> RowRec] /\ boot \in 0 .. MaxBoot /\ worker \in [Slots -> WorkerRec]
  BY SMTT(60), Numbers DEF Slots, TypeOK
<1>1. UNCHANGED <<event, boot, seen, expiries>>
  BY DEF ClaimNextGatewayDelivery
<1>2. Abandoned \in [Rows -> RowRec] /\ \A r \in Rows : Move(row[r], Abandoned[r])
  BY <1>0, SweepMoves
<1>3. CASE worker' = [worker EXCEPT ![w] = Resting("done")] /\ UNCHANGED row
  <2>1. TypeOK' /\ Busy'
    BY <1>0, <1>1, <1>3, RestingIs DEF TypeOK, Busy
  <2>2. Rest' /\ InSessionOrder'
    BY <1>1, <1>3 DEF Rest, InSessionOrder
  <2> QED BY <2>1, <2>2
<1>4. ASSUME NEW r \in Rows, Claimable(Abandoned, r),
             row' = [Abandoned EXCEPT ![r] = Claimed(Abandoned[r])],
             worker' = [worker EXCEPT ![w] = Holding(r, Claimed(Abandoned[r]))]
      PROVE  OrderInv'
  <2> DEFINE x == Abandoned[r]
             y == Claimed(x)
             h == Holding(r, y)
  <2>1. x \in RowRec /\ x.attempts < MaxAttempts /\ x.state \in Live /\ x.state \notin {"None", "Deleted"}
    BY <1>2, <1>4 DEF Claimable, Unclaimed, Live
  <2> HIDE DEF x
  <2>2. y \in RowRec /\ y.state = "Sending" /\ y.attempts = x.attempts + 1 /\ y.manual = x.manual /\ y.attempts > 0
    BY <1>0, <2>1, ClaimedIs
  <2> HIDE DEF y
  <2>3. h \in WorkerRec /\ h.row = r
    BY <2>2, Numbers DEF Holding, WorkerRec, RowRec
  <2> HIDE DEF h
  <2>4. row' \in [Rows -> RowRec] /\ row'[r] = y /\ \A q \in Rows : q # r => row'[q] = Abandoned[q]
    BY <1>2, <1>4, <2>2 DEF x, y
  <2>5. TypeOK' /\ Busy'
    BY <1>0, <1>1, <1>4, <2>3, <2>4 DEF TypeOK, Busy, h, y, x
  <2>6. Move(row[r], x)
    BY <1>2 DEF x
  <2>7. ASSUME NEW q \in Rows, q # r PROVE Move(row[q], row'[q])
    BY <1>2, <2>4, <2>7
  <2>8. Rest'
    <3>1. row[r].state \notin {"None", "Deleted"}
      BY <2>1, <2>6 DEF Move
    <3>2. \A q \in Rows : row'[q].state \in {"None", "Deleted"} \/ row[q].state \in {"None", "Deleted"}
             => row'[q].state = row[q].state /\ row'[q].attempts = row[q].attempts /\ row'[q].manual = row[q].manual
      BY <2>2, <2>4, <2>7, <3>1 DEF Move
    <3>3. \A q \in Rows : row'[q].state \in {"Sending", "DeadLettered", "Failed"} => row'[q].attempts > 0
      BY <2>2, <2>4, <2>7 DEF Move
    <3> QED BY SMTT(60), <1>1, <3>2, <3>3, Numbers DEF Rest
  <2>9. ASSUME NEW q \in Rows, NEW l \in Rows, Earlier(q, l), row'[q].state \in Live,
               row'[l].attempts > 0 \/ row'[l].manual > 0
        PROVE  ~IsMessage(q) /\ row'[q].manual > 0
    <3>1. ASSUME l = r PROVE FALSE
      <4>1. Abandoned[q].state \notin Live
        BY <1>4, <2>9, <3>1 DEF Claimable
      <4>2. q # r
        BY SMTT(60), <2>9, <3>1, OutboxAssumption DEF Earlier, Rows, Events, Last
      <4> QED BY <2>4, <2>9, <4>1, <4>2
    <3>2. row[l].attempts > 0 \/ row[l].manual > 0
      BY <2>7, <2>9, <3>1 DEF Move
    <3>3. row[q].state \in Live /\ row'[q].manual = row[q].manual
      BY <2>1, <2>2, <2>4, <2>6, <2>7, <2>9 DEF Move
    <3> QED BY <2>9, <3>2, <3>3 DEF InSessionOrder
  <2>10. InSessionOrder'
    BY <2>9 DEF InSessionOrder
  <2> QED BY <2>5, <2>8, <2>10
<1> QED BY <1>3, <1>4 DEF ClaimNextGatewayDelivery

\* The steps of a worker.
LEMMA WorkerStep ==
    ASSUME OrderInv, NEW s \in Slots, DeliverOnce(s)
    PROVE  OrderInv'
<1> USE DEF OrderInv
<1>1. CASE Preflight(s)
  BY <1>1, OutcomesMove DEF Preflight, Ended
<1>2. CASE Outcome(s)
  BY <1>2, OutcomesMove DEF Outcome, Ended
<1>3. CASE Post(s)
  <2>1. worker[s].row \in Rows /\ worker[s] \in WorkerRec
    BY <1>3 DEF Post, Busy, TypeOK
  <2>2. PICK answer \in {"delivered", "retryable", "permanent"} :
          worker' = [worker EXCEPT ![s].pc = "answer", ![s].answer = answer]
    BY <1>3 DEF Post
  <2> DEFINE a == [worker[s] EXCEPT !.pc = "answer"]
             b == [a EXCEPT !.answer = answer]
  <2>3. a \in WorkerRec /\ a.row \in Rows
    BY <2>1 DEF WorkerRec
  <2>4. worker' = [worker EXCEPT ![s] = b]
    BY <2>2 DEF TypeOK
  <2> HIDE DEF a
  <2>5. b \in WorkerRec /\ b.row \in Rows
    BY <2>3 DEF WorkerRec
  <2> HIDE DEF b
  <2>6. seen' \subseteq Rows /\ UNCHANGED <<event, row, boot, expiries>>
    BY <1>3, <2>1 DEF Post, TypeOK
  <2>7. TypeOK' /\ Busy'
    BY <2>4, <2>5, <2>6 DEF TypeOK, Busy
  <2> QED BY <2>6, <2>7 DEF Rest, InSessionOrder
<1>4. CASE Drop(s)
  <2>1. TypeOK' /\ Busy'
    BY <1>4, RestingIs DEF Drop, TypeOK, Busy
  <2> QED BY <1>4, <2>1 DEF Drop, Rest, InSessionOrder
<1> QED BY <1>1, <1>2, <1>3, <1>4 DEF DeliverOnce

\* A manual retry: a message is put back only where nothing after it was started.
LEMMA RetryStep ==
    ASSUME OrderInv, NEW r \in Rows, RetryGatewayDelivery(r)
    PROVE  OrderInv'
<1> USE DEF OrderInv
<1> DEFINE y == [NewRow EXCEPT !.manual = row[r].manual + 1]
<1>0. /\ row \in [Rows -> RowRec] /\ row[r] \in RowRec
      /\ row[r].state \in {"DeadLettered", "Failed"} /\ row[r].attempts > 0
      /\ row' = [row EXCEPT ![r] = y] /\ UNCHANGED <<event, worker, boot, seen, expiries>>
  BY DEF RetryGatewayDelivery, TypeOK, Rest
<1>1. y \in RowRec /\ y.state = "Pending" /\ y.attempts = 0 /\ y.manual > 0
  <2>1. row[r].manual + 1 \in 0 .. MaxManual /\ row[r].manual + 1 > 0
    BY SMTT(60), <1>0, Numbers DEF RetryGatewayDelivery, RowRec
  <2> QED BY <2>1, NewRowIs DEF RowRec
<1> HIDE DEF y
<1>2. row'[r] = y /\ \A q \in Rows : q # r => row'[q] = row[q]
  BY <1>0
<1>3. TypeOK' /\ Busy'
  BY <1>0, <1>1 DEF TypeOK, Busy
<1>4. Rest'
  BY SMTT(60), <1>0, <1>1, <1>2, Numbers DEF Rest
<1>5. Events \subseteq Nat /\ \A q \in Rows : q[1] \in Events /\ q[2] \in 1 .. Last /\ q = <<q[1], q[2]>>
  BY SMTT(60), Numbers DEF Events, Rows
<1>6. ASSUME NEW l \in Rows, Earlier(r, l), IsMessage(r), row[l].attempts > 0 \/ row[l].manual > 0
      PROVE  FALSE
  <2> DEFINE t == <<r[1], Last>>
  <2>1. \A k \in Rows : k[1] = r[1] /\ k[2] > r[2] => ~Started(row[k], k)
    BY <1>6 DEF RetryGatewayDelivery
  <2>2. l[1] > r[1]
    BY <1>5, <1>6, <2>1 DEF Earlier, Started
  <2>3. t \in Rows /\ t[1] = r[1] /\ t[2] > r[2] /\ ~IsMessage(t) /\ Earlier(t, l)
    BY SMTT(60), <1>5, <1>6, <2>2, Numbers DEF IsMessage, Last, Earlier
  <2>4. row[t].attempts = 0 /\ row[t].manual = 0 /\ row[t].state \notin Ended
    <3>1. ~Started(row[t], t) /\ row[t] \in RowRec
      BY <1>0, <2>1, <2>3
    <3> QED BY SMTT(60), <2>3, <3>1, Numbers DEF Started, RowRec
  <2>5. row[l].state # "None"
    BY SMTT(60), <1>6 DEF Rest
  <2>6. event[r[1]] = "closed"
    BY <1>5, <2>2, <2>5 DEF Rest
  <2>7. row[t].state # "None" /\ row[t].state # "Deleted"
    BY <1>0, <1>5, <2>3, <2>6 DEF Rest
  <2>8. row[t].state \in Live
    BY <1>0, <2>3, <2>4, <2>7 DEF RowRec
  <2> QED BY SMTT(60), <1>6, <2>3, <2>4, <2>8 DEF InSessionOrder
<1>7. ASSUME NEW q \in Rows, NEW l \in Rows, Earlier(q, l), row'[q].state \in Live,
             row'[l].attempts > 0 \/ row'[l].manual > 0
      PROVE  ~IsMessage(q) /\ row'[q].manual > 0
  <2>1. row[l].attempts > 0 \/ row[l].manual > 0
    BY <1>0, <1>2, <1>7
  <2>2. CASE q = r
    BY <1>1, <1>2, <1>6, <1>7, <2>1, <2>2
  <2>3. CASE q # r
    BY <1>2, <1>7, <2>1, <2>3 DEF InSessionOrder
  <2> QED BY <2>2, <2>3
<1>8. InSessionOrder'
  BY <1>7 DEF InSessionOrder
<1> QED BY <1>3, <1>4, <1>8

\* Maintenance ends rows or deletes the rows of an event together.
LEMMA MaintainStep ==
    ASSUME OrderInv, MaintainGatewayRecords
    PROVE  OrderInv'
<1> USE DEF OrderInv
<1>1. PICK old \in SUBSET {e \in Events : event[e] = "closed" /\ \A r \in Rows :
                                        r[1] = e => row[r].state \in Ended \cup {"None"}} :
          row' = [r \in Rows |->
                      IF r[1] \in old THEN [NoRow EXCEPT !.state = "Deleted"]
                      ELSE IF Unclaimed(row[r]) /\ row[r].expired THEN End(row[r], "Expired")
                      ELSE row[r]]
  BY DEF MaintainGatewayRecords
<1>2. UNCHANGED <<event, worker, boot, seen, expiries>> /\ row \in [Rows -> RowRec]
  BY DEF MaintainGatewayRecords, TypeOK
<1> DEFINE z == [NoRow EXCEPT !.state = "Deleted"]
<1>3. z \in RowRec /\ z.state = "Deleted" /\ z.attempts = 0 /\ z.manual = 0
  BY NewRowIs DEF RowRec
<1> HIDE DEF z
<1>4. \A r \in Rows : r[1] \in old => row'[r] = z
  BY <1>1 DEF z
<1>5. ASSUME NEW r \in Rows, r[1] \notin old PROVE row'[r] \in RowRec /\ Move(row[r], row'[r])
  <2>1. row[r] \in RowRec
    BY <1>2
  <2>2. CASE row'[r] = row[r]
    BY <2>1, <2>2 DEF Move, Rest
  <2>3. CASE Unclaimed(row[r]) /\ row'[r] = End(row[r], "Expired")
    <3>1. row'[r] \in RowRec /\ row'[r].state = "Expired" /\ row'[r].attempts = row[r].attempts
          /\ row'[r].manual = row[r].manual
      BY SMTT(60), <2>1, <2>3, EndIs DEF Ended
    <3>2. row[r].state \notin {"None", "Deleted"}
      BY <2>3 DEF Unclaimed
    <3> QED BY <3>1, <3>2 DEF Move, Live
  <2> QED BY <1>1, <1>5, <2>2, <2>3
<1>6. row' \in [Rows -> RowRec]
  BY <1>1, <1>3, <1>4, <1>5
<1>7. TypeOK' /\ Busy'
  BY <1>2, <1>6 DEF TypeOK, Busy
<1>8. Rest'
  <2>1. \A r \in Rows : row'[r].state \in {"None", "Deleted"} => row'[r].attempts = 0 /\ row'[r].manual = 0
    BY <1>3, <1>4, <1>5 DEF Rest, Move
  <2>2. \A r \in Rows : row'[r].state \in {"Sending", "DeadLettered", "Failed"} => row'[r].attempts > 0
    BY <1>3, <1>4, <1>5 DEF Rest, Move
  <2>3. ASSUME NEW e \in Events PROVE event'[e] = "closed" <=> row'[<<e, Last>>].state # "None"
    <3>1. <<e, Last>> \in Rows /\ <<e, Last>>[1] = e
      BY Numbers
    <3>2. CASE e \in old
      BY <1>1, <1>2, <1>3, <1>4, <3>1, <3>2
    <3>3. CASE e \notin old
      <4>1. Move(row[<<e, Last>>], row'[<<e, Last>>])
        BY <1>5, <3>1, <3>3
      <4> QED BY <1>2, <4>1 DEF Rest, Move
    <3> QED BY <3>2, <3>3
  <2>4. ASSUME NEW r \in Rows, event'[r[1]] = "waiting" PROVE row'[r].state = "None"
    <3>1. r[1] \notin old
      BY <1>1, <1>2, <2>4
    <3> QED BY <1>2, <1>5, <2>4, <3>1 DEF Rest, Move
  <2>5. ASSUME NEW q \in Rows, NEW r \in Rows, q[1] = r[1], row'[q].state = "Deleted" PROVE row'[r].state = "Deleted"
    <3>1. CASE q[1] \in old
      BY <1>3, <1>4, <2>5, <3>1
    <3>2. CASE q[1] \notin old
      <4>1. row[q].state = "Deleted"
        BY <1>5, <2>5, <3>2 DEF Move
      <4>2. row[r].state = "Deleted"
        BY <2>5, <4>1 DEF Rest
      <4> QED BY <1>5, <2>5, <3>2, <4>2 DEF Move
    <3> QED BY <3>1, <3>2
  <2> QED BY <1>2, <2>1, <2>2, <2>3, <2>4, <2>5 DEF Rest
<1>9. ASSUME NEW q \in Rows, NEW l \in Rows, Earlier(q, l), row'[q].state \in Live,
             row'[l].attempts > 0 \/ row'[l].manual > 0
      PROVE  ~IsMessage(q) /\ row'[q].manual > 0
  <2>1. q[1] \notin old /\ l[1] \notin old
    BY SMTT(60), <1>3, <1>4, <1>9 DEF Live
  <2> QED BY <1>5, <1>9, <2>1 DEF Move, InSessionOrder
<1>10. InSessionOrder'
  BY <1>9 DEF InSessionOrder
<1> QED BY <1>7, <1>8, <1>10

\* Time passes for one row.
LEMMA TimeStep ==
    ASSUME OrderInv, NEW r \in Rows, Lapse(r) \/ Due(r) \/ Expire(r)
    PROVE  OrderInv'
<1> USE DEF OrderInv
<1>1. row[r] \in RowRec /\ row \in [Rows -> RowRec]
  BY DEF TypeOK
<1>2. PICK y \in RowRec : /\ row' = [row EXCEPT ![r] = y]
                          /\ y.state = row[r].state /\ y.attempts = row[r].attempts /\ y.manual = row[r].manual
  <2>1. CASE Lapse(r)
    <3> DEFINE y == [row[r] EXCEPT !.leased = FALSE]
    <3>1. y \in RowRec /\ y.state = row[r].state /\ y.attempts = row[r].attempts /\ y.manual = row[r].manual
      BY <1>1 DEF RowRec
    <3> QED BY <1>1, <2>1, <3>1 DEF Lapse
  <2>2. CASE Due(r)
    <3> DEFINE y == [row[r] EXCEPT !.due = TRUE]
    <3>1. y \in RowRec /\ y.state = row[r].state /\ y.attempts = row[r].attempts /\ y.manual = row[r].manual
      BY <1>1 DEF RowRec
    <3> QED BY <1>1, <2>2, <3>1 DEF Due
  <2>3. CASE Expire(r)
    <3> DEFINE y == [row[r] EXCEPT !.expired = TRUE]
    <3>1. y \in RowRec /\ y.state = row[r].state /\ y.attempts = row[r].attempts /\ y.manual = row[r].manual
      BY <1>1 DEF RowRec
    <3> QED BY <1>1, <2>3, <3>1 DEF Expire
  <2> QED BY <2>1, <2>2, <2>3
<1>3. UNCHANGED <<event, worker, boot, seen>> /\ expiries' \in 0 .. MaxExpiries
  BY SMTT(60), Numbers DEF Lapse, Due, Expire, TypeOK
<1>4. \A q \in Rows : Move(row[q], row'[q])
  BY <1>1, <1>2 DEF Move, Rest
<1>5. Rest' /\ InSessionOrder'
  BY <1>1, <1>3, <1>4, MovesKeep
<1>6. TypeOK' /\ Busy'
  BY <1>1, <1>2, <1>3 DEF TypeOK, Busy
<1> QED BY <1>5, <1>6

\* Steps that only set workers.
LEMMA WorkersStep ==
    ASSUME OrderInv, UNCHANGED <<event, row, seen, expiries>>, boot' \in 1 .. MaxBoot,
           worker' \in [Slots -> WorkerRec], Busy'
    PROVE  OrderInv'
BY DEF OrderInv, TypeOK, Rest, InSessionOrder

\* Every step keeps the invariant.
LEMMA OrderNext == OrderInv /\ [Next]_vars => OrderInv'
<1> SUFFICES ASSUME OrderInv, [Next]_vars PROVE OrderInv'
  OBVIOUS
<1>1. CASE processDeliveryBatch
  <2>1. worker' \in [Slots -> WorkerRec] /\ Busy'
    BY <1>1, RestingIs DEF processDeliveryBatch, OrderInv, TypeOK, Busy
  <2> QED BY <1>1, <2>1, WorkersStep DEF processDeliveryBatch, OrderInv, TypeOK
<1>2. CASE Restart
  <2>1. worker' \in [Slots -> WorkerRec] /\ Busy'
    BY <1>2, RestingIs DEF Restart, OrderInv, TypeOK, Busy
  <2>2. boot' \in 1 .. MaxBoot
    BY SMTT(60), <1>2, Numbers DEF Restart, OrderInv, TypeOK
  <2> QED BY <1>2, <2>1, <2>2, WorkersStep DEF Restart
<1>3. CASE UNCHANGED vars
  <2>1. worker' \in [Slots -> WorkerRec] /\ Busy' /\ boot' \in 1 .. MaxBoot
    BY <1>3 DEF vars, OrderInv, TypeOK, Busy
  <2> QED BY <1>3, <2>1, WorkersStep DEF vars
<1> QED
  BY <1>1, <1>2, <1>3, EventSteps, ClaimStep, WorkerStep, RetryStep, TimeStep, MaintainStep DEF Next

\* The outbox keeps the types of its rows and workers: attempts never exceed MaxAttempts,
\* whatever crashes, lapses and manual retries happen (ClaimNextGatewayDelivery).
THEOREM OutboxTypes == Spec => []TypeOK
<1>1. OrderInv => TypeOK
  BY DEF OrderInv
<1> QED BY <1>1, OrderInit, OrderNext, PTL DEF Spec

\* No row of a gateway Session is live behind a started one, except a terminal row that an
\* operator requeued (ClaimNextGatewayDelivery, RetryGatewayDelivery).
THEOREM OutboxOrder == Spec => []InSessionOrder
<1>1. OrderInv => InSessionOrder
  BY DEF OrderInv
<1> QED BY <1>1, OrderInit, OrderNext, PTL DEF Spec

(***************************************************************************)
(* What the provider has seen.                                             *)
(***************************************************************************)

\* An attempt was made at the row, or it is gone.
Tried(x) == x.state = "Deleted" \/ x.attempts > 0 \/ x.manual > 0

\* Rows that were posted, and rows that a worker is on its way with, were tried; a worker
\* that was answered "delivered" had its row posted.
SeenInv ==
    /\ DeliveredWasPosted
    /\ \A r \in seen : Tried(row[r])
    /\ \A s \in Slots : worker[s].pc \in {"check", "answer"} => Tried(row[worker[s].row])
    /\ \A s \in Slots : worker[s].pc = "answer" /\ worker[s].answer = "delivered" => worker[s].row \in seen

\* No step forgets an attempt, except with the row.
LEMMA TriedStays ==
    ASSUME OrderInv, [Next]_vars, NEW r \in Rows, Tried(row[r])
    PROVE  Tried(row'[r])
<1> USE DEF OrderInv
<1>0. row \in [Rows -> RowRec] /\ row[r] \in RowRec
  BY DEF TypeOK
<1>1. CASE row' = row
  BY <1>1
<1>2. ASSUME NEW e \in Events, enqueueGatewayMessageTx(e) PROVE Tried(row'[r])
  <2>1. PICK k \in 1 .. MaxMessages :
          /\ \A j \in 1 .. MaxMessages : row[<<e, j>>].state = "None" <=> j >= k
          /\ row' = [row EXCEPT ![<<e, k>>] = NewRow]
    BY <1>2 DEF enqueueGatewayMessageTx
  <2>2. row[<<e, k>>].state = "None" /\ <<e, k>> \in Rows
    BY SMTT(60), <2>1, Numbers DEF Rows, Last
  <2>3. r # <<e, k>>
    BY SMTT(60), <2>2 DEF Tried, Rest
  <2> QED BY <1>0, <2>1, <2>3
<1>3. ASSUME NEW e \in Events, createGatewayDeliveryTx(e) PROVE Tried(row'[r])
  <2>1. row[<<e, Last>>].state = "None" /\ <<e, Last>> \in Rows
    BY <1>3, Numbers DEF createGatewayDeliveryTx, Rest
  <2>2. r # <<e, Last>>
    BY SMTT(60), <2>1 DEF Tried, Rest
  <2> QED BY <1>0, <1>3, <2>2 DEF createGatewayDeliveryTx
<1>4. ASSUME NEW w \in Workers, ClaimNextGatewayDelivery(w) PROVE Tried(row'[r])
  <2>1. Abandoned \in [Rows -> RowRec] /\ Move(row[r], Abandoned[r])
    BY <1>0, SweepMoves
  <2>2. Abandoned[r].attempts = row[r].attempts /\ Abandoned[r].manual = row[r].manual
    <3>1. \A st \in Ended : End(row[r], st).attempts = row[r].attempts /\ End(row[r], st).manual = row[r].manual
      BY <1>0, EndIs
    <3> QED BY <3>1 DEF Abandoned, Ended
  <2>3. Tried(Abandoned[r])
    BY <2>1, <2>2 DEF Tried, Move
  <2>4. CASE UNCHANGED row
    BY <2>4
  <2>5. ASSUME NEW q \in Rows, Claimable(Abandoned, q), row' = [Abandoned EXCEPT ![q] = Claimed(Abandoned[q])]
        PROVE  Tried(row'[r])
    <3>1. boot \in 0 .. MaxBoot /\ Abandoned[q].attempts < MaxAttempts
      BY SMTT(60), <2>5, Numbers DEF TypeOK, Claimable
    <3>2. Claimed(Abandoned[q]).attempts > 0
      BY <2>1, <3>1, ClaimedIs
    <3> QED BY <2>1, <2>3, <2>5, <3>2 DEF Tried
  <2> QED BY <1>4, <2>4, <2>5 DEF ClaimNextGatewayDelivery
<1>5. ASSUME NEW s \in Slots, DeliverOnce(s) PROVE Tried(row'[r])
  <2> DEFINE x == row[worker[s].row]
  <2>1. CASE UNCHANGED row
    BY <2>1
  <2>2. ASSUME worker[s].pc \in {"check", "answer"}, NEW y, Record(s, y), y.attempts = x.attempts, y.manual = x.manual
        PROVE  Tried(row'[r])
    <3>1. worker[s].row \in Rows
      BY <2>2 DEF Busy
    <3>2. CASE r = worker[s].row /\ Owned(s)
      <4>1. row'[r] = y /\ row[r].state = "Sending"
        BY <1>0, <2>2, <3>1, <3>2 DEF Record, Owned
      <4> QED BY <2>2, <3>2, <4>1 DEF Tried
    <3>3. CASE ~(r = worker[s].row /\ Owned(s))
      BY <1>0, <2>2, <3>1, <3>3 DEF Record
    <3> QED BY <3>2, <3>3
  <2>3. ASSUME worker[s].pc \in {"check", "answer"},
               \/ \E st \in Ended : MarkGatewayDeliveryTerminal(s, st)
               \/ retryOrDeadLetterDelivery(s)
               \/ MarkGatewayDeliveryDelivered(s)
        PROVE  Tried(row'[r])
    <3>1. x \in RowRec
      BY <1>0, <2>3 DEF Busy
    <3>2. ASSUME NEW st \in Ended, Record(s, End(x, st)) PROVE Tried(row'[r])
      <4>1. End(x, st).attempts = x.attempts /\ End(x, st).manual = x.manual
        BY <3>1, EndIs
      <4> QED BY <2>2, <2>3, <3>2, <4>1
    <3>3. ASSUME ScheduleGatewayDeliveryRetry(s) PROVE Tried(row'[r])
      <4> DEFINE y == End(x, "RetryScheduled")
                 z == [y EXCEPT !.due = FALSE]
      <4>1. y \in RowRec /\ y.attempts = x.attempts /\ y.manual = x.manual
        BY <3>1, EndIs DEF Live
      <4>2. Record(s, z)
        BY <3>3 DEF ScheduleGatewayDeliveryRetry
      <4> HIDE DEF y
      <4>3. z.attempts = x.attempts /\ z.manual = x.manual
        BY <4>1 DEF RowRec
      <4> QED BY <2>2, <2>3, <4>2, <4>3
    <3> QED BY <2>3, <3>2, <3>3 DEF MarkGatewayDeliveryTerminal, MarkGatewayDeliveryDelivered,
                    retryOrDeadLetterDelivery, Ended
  <2> QED BY <1>5, <2>1, <2>3 DEF DeliverOnce, Preflight, Post, Outcome, Drop, Ended
<1>6. ASSUME NEW q \in Rows, RetryGatewayDelivery(q) PROVE Tried(row'[r])
  <2> DEFINE y == [NewRow EXCEPT !.manual = row[q].manual + 1]
  <2>1. row' = [row EXCEPT ![q] = y] /\ row[q].manual \in Nat
    BY SMTT(60), <1>0, <1>6, Numbers DEF RetryGatewayDelivery, RowRec
  <2>2. y.manual > 0
    BY SMTT(60), <2>1, NewRowIs DEF RowRec
  <2> HIDE DEF y
  <2> QED BY <1>0, <2>1, <2>2 DEF Tried
<1>7. ASSUME NEW q \in Rows, Lapse(q) \/ Due(q) \/ Expire(q) PROVE Tried(row'[r])
  <2>1. row'[r].state = row[r].state /\ row'[r].attempts = row[r].attempts /\ row'[r].manual = row[r].manual
    BY SMTT(60), <1>0, <1>7 DEF Lapse, Due, Expire, RowRec
  <2> QED BY <2>1 DEF Tried
<1>8. CASE MaintainGatewayRecords
  <2>1. \/ row'[r] = [NoRow EXCEPT !.state = "Deleted"]
        \/ row'[r] = End(row[r], "Expired") /\ Unclaimed(row[r])
        \/ row'[r] = row[r]
    BY <1>8 DEF MaintainGatewayRecords
  <2>2. [NoRow EXCEPT !.state = "Deleted"].state = "Deleted"
    BY NewRowIs DEF RowRec
  <2>3. End(row[r], "Expired").attempts = row[r].attempts /\ End(row[r], "Expired").manual = row[r].manual
    BY <1>0, EndIs DEF Ended
  <2> QED BY <2>1, <2>2, <2>3 DEF Tried, Unclaimed
<1> QED
  BY <1>1, <1>2, <1>3, <1>4, <1>5, <1>6, <1>7, <1>8 DEF Next, vars, OpenEvent, processDeliveryBatch, Restart

\* A row becomes Delivered only by a worker that was answered "delivered".
LEMMA BecomesDelivered ==
    ASSUME OrderInv, [Next]_vars, NEW r \in Rows, row'[r].state = "Delivered", row[r].state # "Delivered"
    PROVE  \E s \in Slots : worker[s].pc = "answer" /\ worker[s].answer = "delivered" /\ worker[s].row = r
<1> USE DEF OrderInv
<1>0. row \in [Rows -> RowRec] /\ row[r] \in RowRec /\ row' # row
  BY DEF TypeOK
<1>1. \A st \in Live \cup Ended : End(row[r], st).state = st
  BY <1>0, EndIs
<1>2. NewRow.state = "Pending"
  BY NewRowIs
<1>3. ASSUME NEW e \in Events, enqueueGatewayMessageTx(e) \/ createGatewayDeliveryTx(e) PROVE FALSE
  <2>1. \E k : row' = [row EXCEPT ![<<e, k>>] = NewRow]
    BY <1>3 DEF enqueueGatewayMessageTx, createGatewayDeliveryTx
  <2> QED BY <1>0, <1>2, <2>1
<1>4. ASSUME NEW w \in Workers, ClaimNextGatewayDelivery(w) PROVE FALSE
  <2>1. PICK q \in Rows : Claimable(Abandoned, q) /\ row' = [Abandoned EXCEPT ![q] = Claimed(Abandoned[q])]
    BY <1>0, <1>4 DEF ClaimNextGatewayDelivery
  <2>2. Abandoned \in [Rows -> RowRec] /\ boot \in 0 .. MaxBoot /\ Abandoned[q].attempts < MaxAttempts
    BY SMTT(60), <1>0, <2>1, SweepMoves, Numbers DEF TypeOK, Claimable
  <2>3. Claimed(Abandoned[q]).state = "Sending"
    BY <2>2, ClaimedIs
  <2>4. Abandoned[r].state # "Delivered"
    BY <1>1 DEF Abandoned, Ended
  <2> QED BY <2>1, <2>2, <2>3, <2>4
<1>5. ASSUME NEW s \in Slots, worker[s].pc \in {"check", "answer"}, NEW y, y.state # "Delivered", Record(s, y)
      PROVE  FALSE
  <2>1. worker[s].row \in Rows
    BY <1>5 DEF Busy
  <2> QED BY <1>0, <1>5, <2>1 DEF Record
<1>6. ASSUME NEW s \in Slots, DeliverOnce(s)
      PROVE  worker[s].pc = "answer" /\ worker[s].answer = "delivered" /\ worker[s].row = r
  <2>1. worker[s].pc \in {"check", "answer"}
    BY <1>6 DEF DeliverOnce, Preflight, Post, Outcome, Drop
  <2>2. worker[s].row \in Rows /\ row[worker[s].row] \in RowRec
    BY <1>0, <2>1 DEF Busy
  <2> DEFINE x == row[worker[s].row]
  <2>3. ASSUME NEW st \in Ended, st # "Delivered" PROVE ~MarkGatewayDeliveryTerminal(s, st)
    <3>1. End(x, st).state # "Delivered"
      BY <2>2, <2>3, EndIs
    <3> QED BY <1>5, <2>1, <3>1 DEF MarkGatewayDeliveryTerminal
  <2>4. ~ScheduleGatewayDeliveryRetry(s)
    <3> DEFINE y == End(x, "RetryScheduled")
               z == [y EXCEPT !.due = FALSE]
    <3>1. y \in RowRec /\ y.state = "RetryScheduled"
      BY <2>2, EndIs DEF Live
    <3>2. ScheduleGatewayDeliveryRetry(s) <=> Record(s, z)
      BY DEF ScheduleGatewayDeliveryRetry
    <3> HIDE DEF y
    <3>3. z.state = "RetryScheduled"
      BY <3>1 DEF RowRec
    <3> QED BY <1>5, <2>1, <3>2, <3>3
  <2>5. worker[s].pc = "answer" /\ worker[s].answer = "delivered" /\ MarkGatewayDeliveryDelivered(s)
    BY <1>0, <1>6, <2>3, <2>4 DEF DeliverOnce, Preflight, Post, Outcome, Drop, retryOrDeadLetterDelivery, Ended
  <2>6. worker[s].row = r
    BY <1>0, <2>2, <2>5 DEF MarkGatewayDeliveryDelivered, Record
  <2> QED BY <2>5, <2>6
<1>7. ASSUME NEW q \in Rows, RetryGatewayDelivery(q) PROVE FALSE
  <2> DEFINE y == [NewRow EXCEPT !.manual = row[q].manual + 1]
  <2>1. y.state = "Pending"
    BY NewRowIs DEF RowRec
  <2>2. row' = [row EXCEPT ![q] = y]
    BY <1>7 DEF RetryGatewayDelivery
  <2> HIDE DEF y
  <2> QED BY <1>0, <2>1, <2>2
<1>8. ASSUME NEW q \in Rows, Lapse(q) \/ Due(q) \/ Expire(q) PROVE FALSE
  BY SMTT(60), <1>0, <1>8 DEF Lapse, Due, Expire, RowRec
<1>9. ASSUME MaintainGatewayRecords PROVE FALSE
  <2>1. [NoRow EXCEPT !.state = "Deleted"].state = "Deleted"
    BY NewRowIs DEF RowRec
  <2> QED BY <1>1, <1>9, <2>1 DEF MaintainGatewayRecords, Ended
<1> QED
  BY <1>0, <1>3, <1>4, <1>6, <1>7, <1>8, <1>9 DEF Next, vars, OpenEvent, processDeliveryBatch, Restart

\* A worker after a step: it is resting, it is the worker of some slot before the step, it
\* has just claimed a row, or it has just posted.
LEMMA WorkerAfter ==
    ASSUME OrderInv, [Next]_vars, NEW s \in Slots
    PROVE  \/ worker'[s].pc \in {"start", "done"}
           \/ \E t \in Slots : worker'[s] = worker[t]
           \/ worker'[s].pc = "check" /\ worker'[s].row \in Rows /\ row'[worker'[s].row].attempts > 0
           \/ /\ Post(s) /\ worker[s].pc = "check" /\ worker'[s].pc = "answer" /\ worker'[s].row = worker[s].row
              /\ worker'[s].answer = "delivered" => worker[s].row \in seen'
<1>0. /\ worker \in [Slots -> WorkerRec] /\ row \in [Rows -> RowRec] /\ boot \in 0 .. MaxBoot
      /\ Workers \subseteq Slots /\ Rest
  BY SMTT(60), Numbers DEF OrderInv, TypeOK, Slots
<1>1. CASE UNCHANGED worker
  BY <1>1
<1>2. ASSUME NEW w \in Workers, ClaimNextGatewayDelivery(w),
             NEW q \in Rows, Claimable(Abandoned, q), row' = [Abandoned EXCEPT ![q] = Claimed(Abandoned[q])],
             worker' = [worker EXCEPT ![w] = Holding(q, Claimed(Abandoned[q]))]
      PROVE  \/ \E t \in Slots : worker'[s] = worker[t]
             \/ worker'[s].pc = "check" /\ worker'[s].row \in Rows /\ row'[worker'[s].row].attempts > 0
  <2>1. Abandoned \in [Rows -> RowRec] /\ Abandoned[q].attempts < MaxAttempts
    BY <1>0, <1>2, SweepMoves DEF Claimable
  <2>2. Claimed(Abandoned[q]).attempts > 0 /\ row'[q] = Claimed(Abandoned[q])
    BY <1>0, <1>2, <2>1, ClaimedIs
  <2>3. CASE s = w
    <3>1. worker'[s] = Holding(q, Claimed(Abandoned[q]))
      BY <1>0, <1>2, <2>3
    <3>2. worker'[s].pc = "check" /\ worker'[s].row = q
      BY SMTT(60), <3>1 DEF Holding
    <3> QED BY <2>2, <3>2
  <2>4. CASE s # w
    BY <1>0, <1>2, <2>4
  <2> QED BY <2>3, <2>4
<1>3. ASSUME NEW t \in Slots, worker' = [worker EXCEPT ![t] = Resting("done")]
      PROVE  worker'[s].pc = "done" \/ worker'[s] = worker[s]
  BY <1>0, <1>3, RestingIs
<1>4. ASSUME NEW t \in Slots, Post(t)
      PROVE  \/ worker'[s] = worker[s]
             \/ /\ Post(s) /\ worker[s].pc = "check" /\ worker'[s].pc = "answer" /\ worker'[s].row = worker[s].row
                /\ worker'[s].answer = "delivered" => worker[s].row \in seen'
  <2>1. PICK answer \in {"delivered", "retryable", "permanent"} :
          /\ worker' = [worker EXCEPT ![t].pc = "answer", ![t].answer = answer]
          /\ answer = "delivered" => worker[t].row \in seen'
    BY <1>4 DEF Post
  <2> DEFINE a == [worker[t] EXCEPT !.pc = "answer"]
             b == [a EXCEPT !.answer = answer]
  <2>2. a \in WorkerRec /\ a.row = worker[t].row /\ a.pc = "answer"
    BY <1>0 DEF WorkerRec
  <2>3. worker' = [worker EXCEPT ![t] = b]
    BY <1>0, <2>1
  <2> HIDE DEF a
  <2>4. b.row = worker[t].row /\ b.pc = "answer" /\ b.answer = answer
    BY <2>2 DEF WorkerRec
  <2> HIDE DEF b
  <2>5. worker[t].pc = "check"
    BY <1>4 DEF Post
  <2>6. CASE s = t
    BY <1>0, <1>4, <2>1, <2>3, <2>4, <2>5, <2>6
  <2>7. CASE s # t
    BY <1>0, <2>3, <2>7
  <2> QED BY <2>6, <2>7
<1>5. CASE processDeliveryBatch
  BY <1>0, <1>5, RestingIs DEF processDeliveryBatch
<1>6. CASE Restart
  BY <1>0, <1>6, RestingIs DEF Restart
<1>7. ASSUME NEW t \in Slots, DeliverOnce(t), ~Post(t) PROVE worker' = [worker EXCEPT ![t] = Resting("done")]
  BY <1>7 DEF DeliverOnce, Preflight, Outcome, Drop, retryOrDeadLetterDelivery, MarkGatewayDeliveryTerminal,
              MarkGatewayDeliveryDelivered, ScheduleGatewayDeliveryRetry, Record
<1>8. ASSUME NEW w \in Workers, ClaimNextGatewayDelivery(w)
      PROVE  \/ \E t \in Slots : worker'[s] = worker[t]
             \/ worker'[s].pc = "done"
             \/ worker'[s].pc = "check" /\ worker'[s].row \in Rows /\ row'[worker'[s].row].attempts > 0
  BY <1>0, <1>2, <1>3, <1>8 DEF ClaimNextGatewayDelivery
<1>9. ASSUME NEW t \in Slots, DeliverOnce(t)
      PROVE  \/ worker'[s].pc = "done"
             \/ worker'[s] = worker[s]
             \/ /\ Post(s) /\ worker[s].pc = "check" /\ worker'[s].pc = "answer" /\ worker'[s].row = worker[s].row
                /\ worker'[s].answer = "delivered" => worker[s].row \in seen'
  BY <1>3, <1>4, <1>7, <1>9
<1> QED
  BY <1>1, <1>5, <1>6, <1>8, <1>9 DEF Next, vars, OpenEvent, enqueueGatewayMessageTx, createGatewayDeliveryTx,
     RetryGatewayDelivery, Lapse, Due, Expire, MaintainGatewayRecords

\* Who becomes Delivered, and who is on its way, after a step.
LEMMA SeenNext == OrderInv /\ SeenInv /\ [Next]_vars => SeenInv'
<1> SUFFICES ASSUME OrderInv, SeenInv, [Next]_vars PROVE SeenInv'
  OBVIOUS
<1>0. /\ row \in [Rows -> RowRec] /\ worker \in [Slots -> WorkerRec] /\ seen \subseteq Rows /\ Busy
      /\ Workers \subseteq Slots
  BY DEF OrderInv, TypeOK, Slots
<1>1. \A r \in Rows : Tried(row[r]) => Tried(row'[r])
  BY TriedStays
<1>2. seen \subseteq seen' /\ (seen' # seen => \E s \in Slots : Post(s))
  BY DEF Next, vars, OpenEvent, enqueueGatewayMessageTx, createGatewayDeliveryTx, ClaimNextGatewayDelivery,
         DeliverOnce, Preflight, Post, Outcome, Drop, processDeliveryBatch, RetryGatewayDelivery, Lapse, Due,
         Expire, MaintainGatewayRecords, Restart
<1>3. \A s \in Slots : Post(s) => seen' \subseteq seen \cup {worker[s].row} /\ Tried(row[worker[s].row])
                                   /\ worker[s].row \in Rows
  BY <1>0 DEF Post, SeenInv, Busy
<1>4. \A r \in seen' : r \in Rows /\ Tried(row'[r])
  BY <1>0, <1>1, <1>2, <1>3 DEF SeenInv
<1>5. DeliveredWasPosted'
  BY SMTT(60), <1>0, <1>2, BecomesDelivered DEF DeliveredWasPosted, SeenInv
<1>6. \A s \in Slots : worker'[s].pc \in {"check", "answer"} => Tried(row'[worker'[s].row])
  BY SMTT(60), <1>0, <1>1, WorkerAfter DEF SeenInv, Tried, Busy
<1>7. \A s \in Slots : worker'[s].pc = "answer" /\ worker'[s].answer = "delivered" => worker'[s].row \in seen'
  BY <1>2, WorkerAfter DEF SeenInv
<1> QED BY <1>4, <1>5, <1>6, <1>7 DEF SeenInv

\* Nothing is posted at the start.
LEMMA SeenInit == Init => SeenInv
<1> SUFFICES ASSUME Init PROVE SeenInv
  OBVIOUS
<1>1. \A r \in Rows : row[r].state = "None"
  BY DEF Init, NoRow
<1>2. \A s \in Slots : worker[s].pc \in {"start", "done"}
  BY RestingIs DEF Init
<1>3. seen = {}
  BY DEF Init
<1> QED BY <1>1, <1>2, <1>3 DEF SeenInv, DeliveredWasPosted

\* A row is recorded as delivered only if the adapter posted it, also when the worker that
\* records it has lost its claim (Service.DeliverOnce, MarkGatewayDeliveryDelivered).
THEOREM OutboxDelivered == Spec => []DeliveredWasPosted
<1>1. SeenInv => DeliveredWasPosted
  BY DEF SeenInv
<1> QED BY <1>1, OrderInit, OrderNext, SeenInit, SeenNext, PTL DEF Spec

\* One step posts a live message only ahead of everything that follows it in its event.
LEMMA PostStep ==
    ASSUME OrderInv, SeenInv, [Next]_vars, NEW r \in seen' \ seen,
           IsMessage(r), row[r].state \in Live, NEW l \in seen, l[1] = r[1]
    PROVE  l[2] <= r[2]
<1>1. PICK s \in Slots : Post(s)
  BY DEF Next, vars, OpenEvent, enqueueGatewayMessageTx, createGatewayDeliveryTx, ClaimNextGatewayDelivery,
         DeliverOnce, Preflight, Post, Outcome, Drop, processDeliveryBatch, RetryGatewayDelivery, Lapse, Due,
         Expire, MaintainGatewayRecords, Restart
<1>2. r = worker[s].row /\ worker[s].pc = "check"
  BY <1>1 DEF Post
<1>3. r \in Rows /\ l \in Rows
  BY <1>2 DEF OrderInv, Busy, TypeOK
<1>4. row[l].state # "Deleted"
  BY <1>3 DEF OrderInv, Rest, Live
<1>5. row[l].attempts > 0 \/ row[l].manual > 0
  BY <1>4 DEF SeenInv, Tried
<1>6. ~Earlier(r, l)
  BY <1>3, <1>5 DEF OrderInv, InSessionOrder
<1>7. r[2] \in Nat /\ l[2] \in Nat
  BY SMTT(60), <1>3, Numbers DEF Rows, Last
<1> QED BY SMTT(60), <1>6, <1>7 DEF Earlier

\* A message that is posted while its row is live reaches the provider in admission order
\* and never after the final answer of its event, also from a worker that lost its claim
\* (ClaimNextGatewayDelivery, RetryGatewayDelivery, Service.DeliverOnce).
THEOREM OutboxPosts == Spec => LivePostsInOrder
<1>1. OrderInv /\ SeenInv /\ [Next]_vars =>
        [\A r \in seen' \ seen : IsMessage(r) /\ row[r].state \in Live =>
            \A l \in seen : l[1] = r[1] => l[2] <= r[2]]_vars
  BY PostStep
<1> QED BY <1>1, OrderInit, OrderNext, SeenInit, SeenNext, PTL DEF Spec, LivePostsInOrder
==============================================================================
