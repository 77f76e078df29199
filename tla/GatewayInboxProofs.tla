-------------------------- MODULE GatewayInboxProofs --------------------------
(***************************************************************************)
(* The messages of a gateway Session, their order, its lock and the Tasks  *)
(* that run, for any number of messages, leaders, Tasks and faults.        *)
(***************************************************************************)
EXTENDS GatewayInbox, TLAPS

\* Zenon proves every leaf that names no other backend.
USE ZenonT(60)

\* Events are admitted one after the other, and have no Task before they are linked.
Rows ==
    /\ \A e, f \in Events : f < e /\ event[e].state # "none" => event[f].state # "none"
    /\ \A e \in Events : event[e].state \in {"none", "Queued", "Dispatching", "DeadLettered"} => event[e].uid = 0
    /\ \A e \in Events : event[e].uid <= task[e].uid

\* A dispatcher on its way has an event; it links a Task that was there, and projects an
\* event whose Task has ended, or is another one by now.
Fits(x, ev, tk) ==
    /\ x.pc # "idle" => x.ev \in Events
    /\ x.pc = "link" => x.uid <= tk[x.ev].uid
    /\ x.pc = "project" =>
        /\ ev[x.ev].state \in {"TaskCreated", "Completed", "Expired"}
        /\ tk[x.ev].here /\ tk[x.ev].uid = ev[x.ev].uid => tk[x.ev].phase = "Done"
AllFit == \A d \in Dispatchers : Fits(disp[d], event, task)

InboxInv == TypeOK /\ InOrder /\ LockAgrees /\ RunsLinked /\ Rows /\ AllFit

\* What may happen to a Task that does not start: it ends, is deleted, or is created anew.
TaskMove(x, y) ==
    /\ x.uid <= y.uid
    /\ y.here /\ y.phase = "Running" => x.here /\ x.phase = "Running" /\ y.uid = x.uid
    /\ y.here /\ y.uid = x.uid => x.here /\ (x.phase = "Done" => y.phase = "Done")

\* Every dispatcher stays where it is, or gets to a place that fits.
DispMoves == \A d \in Dispatchers : disp'[d] = disp[d] \/ Fits(disp'[d], event', task')

\* The constants are what the arithmetic below needs them to be.
LEMMA Numbers == NumEvents \in Nat /\ NumLeaders \in Nat /\ NumLeaders > 0 /\ MaxUid \in Nat /\ MaxUid > 0 /\ MaxFaults \in Nat
                 /\ Events \subseteq Nat \ {0} /\ Dispatchers \subseteq Nat \ {0} /\ None \notin Dispatchers
BY SMTT(60), InboxAssumption DEF Events, Dispatchers, None

\* A step that changes no event and not the lock keeps the invariant.
LEMMA QuietKeeps ==
    ASSUME InboxInv, TypeOK', event' = event, lock' = lock,
           \A e \in Events : TaskMove(task[e], task'[e]), DispMoves
    PROVE  InboxInv'
<1> USE DEF InboxInv
<1>1. InOrder' /\ LockAgrees'
  BY DEF InOrder, LockAgrees
<1>2. \A e \in Events : /\ task[e] \in TaskRec /\ task'[e] \in TaskRec /\ event[e] \in EventRec
                        /\ task[e].uid \in Nat /\ task'[e].uid \in Nat /\ event[e].uid \in Nat
  BY SMTT(60), Numbers DEF TypeOK, TaskRec, EventRec
<1>3. RunsLinked'
  BY <1>2 DEF RunsLinked, TaskMove
<1>4. Rows'
  BY SMTT(60), <1>2 DEF Rows, TaskMove
<1>5. ASSUME NEW d \in Dispatchers, disp'[d] = disp[d]
      PROVE  Fits(disp[d], event', task')
  <2>1. Fits(disp[d], event, task) /\ disp[d] \in DispRec /\ disp[d].uid \in Nat
    BY SMTT(60), Numbers DEF AllFit, TypeOK, DispRec
  <2>2. (disp[d].pc # "idle" => disp[d].ev \in Events)
    BY <2>1 DEF Fits
  <2>3. disp[d].pc = "link" => disp[d].uid <= task'[disp[d].ev].uid
    BY SMTT(60), <1>2, <2>1, <2>2 DEF Fits, TaskMove
  <2>4. disp[d].pc = "project" =>
          (task'[disp[d].ev].here /\ task'[disp[d].ev].uid = event[disp[d].ev].uid => task'[disp[d].ev].phase = "Done")
    BY SMTT(60), <1>2, <2>1, <2>2 DEF Fits, TaskMove, Rows
  <2> QED BY <1>5, <2>1, <2>2, <2>3, <2>4 DEF Fits
<1>6. AllFit'
  BY <1>5 DEF AllFit, DispMoves
<1> QED BY <1>1, <1>3, <1>4, <1>6

\* A step that moves one event on, from one state to another, and the lock with it, keeps
\* the invariant.
EventMove(x, y, e) ==
    /\ y.state # "none" /\ (x.state = "none" => \A f \in Events : f < e => event[f].state # "none")
    /\ x.state = "none" => y.state \in {"Queued", "DeadLettered"}
    /\ y.state \in {"Queued", "Dispatching", "DeadLettered"} => y.uid = 0 /\ x.state \notin {"TaskCreated", "Completed", "Expired"}
    /\ y.uid <= task[e].uid
    /\ y.uid # x.uid => x.state = "Dispatching"
    /\ y.state \in {"Completed", "DeadLettered"} => ~(task[e].here /\ task[e].phase = "Running")
    /\ x.state = "Completed" => y.state = "Completed"
    /\ x.state = "Expired" => y.state \in {"Expired", "Completed"}

\* A step that writes one row as EventMove allows, and keeps order and lock, keeps the invariant.
LEMMA EventKeeps ==
    ASSUME InboxInv, TypeOK', task' = task, NEW e \in Events,
           \A f \in Events : f # e => event'[f] = event[f],
           EventMove(event[e], event'[e], e), DispMoves, InOrder', LockAgrees'
    PROVE  InboxInv'
<1> USE DEF InboxInv
<1>1. \A f \in Events : /\ task[f] \in TaskRec /\ event'[f] \in EventRec /\ event[f] \in EventRec
                        /\ task[f].uid \in Nat /\ event'[f].uid \in Nat /\ event[f].uid \in Nat
  BY SMTT(60), Numbers DEF TypeOK, TaskRec, EventRec
<1>2. RunsLinked'
  BY SMTT(60), <1>1 DEF RunsLinked, EventMove, EventRec, Pending
<1>3. Rows'
  BY SMTT(60), <1>1, Numbers DEF Rows, EventMove
<1>4. ASSUME NEW d \in Dispatchers, disp'[d] = disp[d]
      PROVE  Fits(disp[d], event', task')
  <2>1. Fits(disp[d], event, task)
    BY DEF AllFit
  <2>2. CASE disp[d].ev # e \/ disp[d].pc # "project"
    BY <2>1, <2>2 DEF Fits
  <2>3. CASE disp[d].ev = e /\ disp[d].pc = "project"
    BY <1>1, <2>1, <2>3 DEF Fits, EventMove, EventRec, Pending
  <2> QED BY <2>2, <2>3
<1>5. AllFit'
  BY <1>4 DEF AllFit, DispMoves
<1> QED BY <1>2, <1>3, <1>5

\* Where a dispatcher gets to.
LEMMA StopMoves ==
    ASSUME TypeOK, NEW d \in Dispatchers, Stops(d)
    PROVE  disp' \in [Dispatchers -> DispRec] /\ DispMoves
<1>1. Idle \in DispRec /\ Idle.pc = "idle"
  BY SMTT(60), Numbers DEF Idle, DispRec
<1>2. disp' \in [Dispatchers -> DispRec] /\ disp'[d] = Idle /\ \A c \in Dispatchers : c # d => disp'[c] = disp[c]
  BY <1>1 DEF TypeOK, Stops
<1>3. Fits(Idle, event', task')
  BY <1>1 DEF Fits
<1> QED BY <1>2, <1>3 DEF DispMoves

Steps == {"resolve", "late", "renew", "create", "retry", "delete", "confirm", "expire", "sweep", "claimed"}

\* A dispatcher that goes on to a step which relies on no Task keeps to what dispatchers may do.
LEMMA GoMoves ==
    ASSUME TypeOK, AllFit, NEW d \in Dispatchers, disp[d].pc # "idle", NEW pc \in Steps, Goes(d, pc)
    PROVE  disp' \in [Dispatchers -> DispRec] /\ DispMoves
<1>1. disp[d] \in DispRec /\ disp[d].ev \in Events
  BY DEF TypeOK, AllFit, Fits
<1>2. [disp[d] EXCEPT !.pc = pc] \in DispRec /\ [disp[d] EXCEPT !.pc = pc].pc = pc
      /\ [disp[d] EXCEPT !.pc = pc].ev = disp[d].ev
  BY <1>1 DEF DispRec, Steps
<1>3. disp' = [disp EXCEPT ![d] = [disp[d] EXCEPT !.pc = pc]]
  BY DEF Goes, TypeOK
<1>4. disp' \in [Dispatchers -> DispRec] /\ disp'[d] = [disp[d] EXCEPT !.pc = pc]
      /\ \A c \in Dispatchers : c # d => disp'[c] = disp[c]
  BY <1>2, <1>3 DEF TypeOK
<1>5. Fits([disp[d] EXCEPT !.pc = pc], event', task')
  BY <1>1, <1>2 DEF Fits, Steps
<1> QED BY <1>4, <1>5 DEF DispMoves

\* So does one that goes to link the Task it has created or found.
LEMMA LinkMoves ==
    ASSUME TypeOK, AllFit, NEW d \in Dispatchers, disp[d].pc # "idle", NEW u \in 0 .. MaxUid,
           Links(d, u), u <= task'[disp[d].ev].uid
    PROVE  disp' \in [Dispatchers -> DispRec] /\ DispMoves
<1> DEFINE y == [disp[d] EXCEPT !.pc = "link"]
           z == [y EXCEPT !.uid = u]
<1>1. disp[d] \in DispRec /\ disp[d].ev \in Events
  BY DEF TypeOK, AllFit, Fits
<1>2. y \in DispRec /\ y.pc = "link" /\ y.ev = disp[d].ev
  BY <1>1 DEF DispRec
<1>3. disp' = [disp EXCEPT ![d] = z]
  BY DEF TypeOK, Links
<1> HIDE DEF y
<1>4. z \in DispRec /\ z.pc = "link" /\ z.ev = disp[d].ev /\ z.uid = u
  BY <1>2, Numbers DEF DispRec
<1> HIDE DEF z
<1>5. disp' \in [Dispatchers -> DispRec] /\ disp'[d] = z /\ \A c \in Dispatchers : c # d => disp'[c] = disp[c]
  BY <1>3, <1>4 DEF TypeOK
<1>6. Fits(z, event', task')
  BY <1>1, <1>4 DEF Fits
<1> QED BY <1>5, <1>6 DEF DispMoves

\* A dispatcher at work has an event, with a row and a Task name.
LEMMA AtWork ==
    ASSUME InboxInv, NEW d \in Dispatchers, disp[d].pc # "idle"
    PROVE  /\ Ev(d) \in Events /\ event[Ev(d)] \in EventRec /\ task[Ev(d)] \in TaskRec
           /\ task[Ev(d)].uid \in 0 .. MaxUid /\ task[Ev(d)].uid \in Nat
           /\ disp[d].uid \in 0 .. MaxUid
<1>1. Ev(d) \in Events
  BY DEF InboxInv, AllFit, Fits, Ev
<1>2. event[Ev(d)] \in EventRec /\ task[Ev(d)] \in TaskRec /\ disp[d] \in DispRec
  BY <1>1 DEF InboxInv, TypeOK
<1> QED BY SMTT(60), <1>1, <1>2, Numbers DEF TaskRec, DispRec

\* A fault is one of the faults.
LEMMA FaultTypes ==
    ASSUME TypeOK, Fault \/ UNCHANGED faults
    PROVE  faults' \in 0 .. MaxFaults
BY SMTT(60), Numbers DEF TypeOK, Fault

\* Tasks that stay as they are.
LEMMA TasksStay ==
    ASSUME TypeOK, NEW e \in Events, task'[e] = task[e]
    PROVE  TaskMove(task[e], task'[e])
<1>1. task[e] \in TaskRec /\ task[e].uid \in Nat
  BY SMTT(60), Numbers DEF TypeOK, TaskRec
<1> QED BY SMTT(60), <1>1 DEF TaskMove

\* The steps of a dispatch that write neither an event nor a Task.
LEMMA DecideKeeps ==
    ASSUME InboxInv, NEW d \in Dispatchers,
           reconcileExistingDispatchTask(d) \/ resolveDispatchBinding(d) \/ handleExpiredDispatchClaim(d)
    PROVE  InboxInv'
<1> USE DEF InboxInv
<1>1. /\ disp[d].pc # "idle" /\ UNCHANGED <<event, age, lock, task, config, faults, foreign, leader>>
      /\ (\E pc \in Steps : Goes(d, pc)) \/ Links(d, task[Ev(d)].uid)
  <2>1. CASE reconcileExistingDispatchTask(d)
    <3>1. disp[d].pc # "idle" /\ UNCHANGED <<event, age, lock, task, config, faults, foreign, leader>>
      BY <2>1 DEF reconcileExistingDispatchTask, At
    <3>2. Goes(d, "resolve") \/ Goes(d, "delete") \/ Links(d, task[Ev(d)].uid)
      BY <2>1 DEF reconcileExistingDispatchTask
    <3> QED BY <3>1, <3>2 DEF Steps
  <2>2. CASE resolveDispatchBinding(d)
    <3>1. disp[d].pc # "idle" /\ UNCHANGED <<event, age, lock, task, config, faults, foreign, leader>>
      BY <2>2 DEF resolveDispatchBinding, At
    <3>2. Goes(d, "retry") \/ Goes(d, "delete") \/ Goes(d, "renew") \/ Goes(d, "late")
      BY <2>2 DEF resolveDispatchBinding, TypeOK
    <3> QED BY <3>1, <3>2 DEF Steps
  <2>3. CASE handleExpiredDispatchClaim(d)
    <3>1. disp[d].pc # "idle" /\ UNCHANGED <<event, age, lock, task, config, faults, foreign, leader>>
      BY <2>3 DEF handleExpiredDispatchClaim, At
    <3>2. Goes(d, "expire") \/ Links(d, task[Ev(d)].uid)
      BY <2>3 DEF handleExpiredDispatchClaim
    <3> QED BY <3>1, <3>2 DEF Steps
  <2> QED BY <2>1, <2>2, <2>3
<1>2. disp' \in [Dispatchers -> DispRec] /\ DispMoves
  <2>1. CASE \E pc \in Steps : Goes(d, pc)
    BY <1>1, <2>1, GoMoves
  <2>2. CASE Links(d, task[Ev(d)].uid)
    <3>1. task[Ev(d)].uid \in 0 .. MaxUid /\ task[Ev(d)].uid <= task'[disp[d].ev].uid
      BY SMTT(60), <1>1, AtWork DEF Ev
    <3> QED BY <1>1, <2>2, <3>1, LinkMoves
  <2> QED BY <1>1, <2>1, <2>2
<1>3. TypeOK'
  BY <1>1, <1>2 DEF TypeOK
<1>4. \A e \in Events : TaskMove(task[e], task'[e])
  BY <1>1, TasksStay
<1> QED BY <1>1, <1>2, <1>3, <1>4, QuietKeeps

\* What the writes of a dispatch leave in a row.
ClaimRow(x, st, o, l) == [x EXCEPT !.state = st, !.owner = o, !.live = l]

\* What a claim, a retry or an admission writes to a row.
LEMMA RowWritten ==
    ASSUME NEW x \in EventRec, NEW st \in Pending \cup {"Completed", "Expired", "DeadLettered"},
           NEW o \in Dispatchers \cup {None}, NEW l \in BOOLEAN
    PROVE  /\ ClaimRow(x, st, o, l) \in EventRec /\ ClaimRow(x, st, o, l).state = st /\ ClaimRow(x, st, o, l).owner = o
           /\ ClaimRow(x, st, o, l).uid = x.uid /\ ClaimRow(x, st, o, l).delivery = x.delivery
<1> DEFINE a == [x EXCEPT !.state = st]
           b == [a EXCEPT !.owner = o]
           c == [b EXCEPT !.live = l]
<1>1. a \in EventRec /\ a.state = st /\ a.uid = x.uid /\ a.delivery = x.delivery
  BY DEF EventRec
<1>2. ClaimRow(x, st, o, l) = c
  BY DEF ClaimRow
<1> HIDE DEF a
<1>3. b \in EventRec /\ b.state = st /\ b.owner = o /\ b.uid = x.uid /\ b.delivery = x.delivery
  BY <1>1 DEF EventRec
<1> HIDE DEF b
<1>4. c \in EventRec /\ c.state = st /\ c.owner = o /\ c.uid = x.uid /\ c.delivery = x.delivery
  BY <1>3 DEF EventRec
<1> QED BY <1>2, <1>4

ExpiredRow(x, dl) == [x EXCEPT !.state = "Expired", !.owner = None, !.live = FALSE, !.delivery = dl]
LinkedRow(x, u) == [x EXCEPT !.state = "TaskCreated", !.owner = None, !.live = FALSE, !.uid = u]

\* What an expiry writes to a row.
LEMMA RowExpires ==
    ASSUME NEW x \in EventRec
    PROVE  ExpiredRow(x, "expiry") \in EventRec /\ ExpiredRow(x, "expiry").state = "Expired" /\ ExpiredRow(x, "expiry").uid = x.uid
<1> DEFINE c == ClaimRow(x, "Expired", None, FALSE)
           y == [c EXCEPT !.delivery = "expiry"]
<1>1. c \in EventRec /\ c.state = "Expired" /\ c.uid = x.uid
  <2>1. "Expired" \in Pending \cup {"Completed", "Expired", "DeadLettered"} /\ None \in Dispatchers \cup {None} /\ FALSE \in BOOLEAN
    BY DEF Pending
  <2> HIDE DEF c
  <2>2. c = ClaimRow(x, "Expired", None, FALSE)
    BY DEF c
  <2> QED BY <2>1, <2>2, RowWritten
<1>2. ExpiredRow(x, "expiry") = y
  BY DEF ClaimRow, ExpiredRow
<1> HIDE DEF c
<1>3. y \in EventRec /\ y.state = "Expired" /\ y.uid = x.uid
  BY <1>1 DEF EventRec
<1> HIDE DEF y
<1> QED BY <1>2, <1>3

\* What linking a Task writes to a row.
LEMMA RowLinks ==
    ASSUME NEW x \in EventRec, NEW u \in 0 .. MaxUid
    PROVE  LinkedRow(x, u) \in EventRec /\ LinkedRow(x, u).state = "TaskCreated" /\ LinkedRow(x, u).uid = u
<1> DEFINE c == ClaimRow(x, "TaskCreated", None, FALSE)
           y == [c EXCEPT !.uid = u]
<1>1. c \in EventRec /\ c.state = "TaskCreated" /\ c.uid = x.uid
  <2>1. "TaskCreated" \in Pending \cup {"Completed", "Expired", "DeadLettered"} /\ None \in Dispatchers \cup {None} /\ FALSE \in BOOLEAN
    BY DEF Pending
  <2> HIDE DEF c
  <2>2. c = ClaimRow(x, "TaskCreated", None, FALSE)
    BY DEF c
  <2> QED BY <2>1, <2>2, RowWritten
<1>2. LinkedRow(x, u) = y
  BY DEF ClaimRow, LinkedRow
<1> HIDE DEF c
<1>3. y \in EventRec /\ y.state = "TaskCreated" /\ y.uid = u
  BY <1>1 DEF EventRec
<1> HIDE DEF y
<1> QED BY <1>2, <1>3

AnsweredRow(x, st, dl) == [x EXCEPT !.state = st, !.delivery = dl]

\* What an answer writes to a row.
LEMMA RowAnswered ==
    ASSUME NEW x \in EventRec, NEW st \in {"Completed", "DeadLettered"}, NEW dl \in {"final", "denial"}
    PROVE  AnsweredRow(x, st, dl) \in EventRec /\ AnsweredRow(x, st, dl).state = st /\ AnsweredRow(x, st, dl).uid = x.uid
<1> DEFINE a == [x EXCEPT !.state = st]
           y == [a EXCEPT !.delivery = dl]
<1>1. a \in EventRec /\ a.state = st /\ a.uid = x.uid
  BY DEF EventRec
<1>2. AnsweredRow(x, st, dl) = y
  BY DEF AnsweredRow
<1> HIDE DEF a
<1>3. y \in EventRec /\ y.state = st /\ y.uid = x.uid
  BY <1>1 DEF EventRec
<1> QED BY <1>2, <1>3

\* The lock is that of the one event that is dispatched or linked.
LEMMA LockIs ==
    ASSUME InboxInv, NEW e \in Events
    PROVE  /\ event[e].state \in {"Dispatching", "TaskCreated"} =>
                /\ lock = <<e, event[e].uid>> /\ Unlocked(e) = Free
                /\ \A f \in Events : f # e => event[f].state \notin {"Dispatching", "TaskCreated"}
           /\ event[e].state \notin {"Dispatching", "TaskCreated"} => Unlocked(e) = lock
<1>1. ASSUME event[e].state \in {"Dispatching", "TaskCreated"}, NEW f \in Events, f # e,
             event[f].state \in {"Dispatching", "TaskCreated"}
      PROVE  FALSE
  BY SMTT(60), <1>1, Numbers DEF InboxInv, InOrder, Pending
<1>2. event[e].state \in {"Dispatching", "TaskCreated"} => lock = <<e, event[e].uid>> /\ Unlocked(e) = Free
  BY DEF InboxInv, LockAgrees, Unlocked
<1>3. event[e].state \notin {"Dispatching", "TaskCreated"} => Unlocked(e) = lock
  <2>1. ASSUME lock = <<e, event[e].uid>> PROVE lock[1] = e /\ lock # Free
    BY <2>1, Numbers DEF Free
  <2> QED BY <2>1 DEF InboxInv, LockAgrees, Unlocked
<1> QED BY <1>1, <1>2, <1>3

\* An event that leaves the dispatch, or the queue, and takes its lock with it.
LEMMA LeaveKeeps ==
    ASSUME InboxInv, NEW e \in Events, \A f \in Events : f # e => event'[f] = event[f],
           event'[e].state \notin {"Dispatching", "TaskCreated"}, event[e].state # "none",
           lock' = Unlocked(e),
           event'[e].state = "Queued" => event[e].state = "Dispatching"
    PROVE  InOrder' /\ LockAgrees' /\ lock' \in {Free} \cup (Events \X (0 .. MaxUid))
<1> USE DEF InboxInv
<1>1. lock' \in {Free, lock} /\ lock \in {Free} \cup (Events \X (0 .. MaxUid))
  BY DEF Unlocked, TypeOK
<1>2. InOrder'
  <2>1. \A f \in Events : event'[f].state \in {"Dispatching", "TaskCreated"} => f # e /\ event'[f] = event[f]
    OBVIOUS
  <2>2. ASSUME NEW f \in Events, event'[f].state \in {"Dispatching", "TaskCreated"}, e < f
        PROVE  event'[e].state \notin Pending
    BY <2>1, <2>2 DEF InOrder, Pending
  <2> QED BY <2>1, <2>2 DEF InOrder
<1>3. CASE event[e].state \in {"Dispatching", "TaskCreated"}
  <2>1. lock' = Free /\ \A f \in Events : event'[f].state \notin {"Dispatching", "TaskCreated"}
    BY <1>3, LockIs
  <2> QED BY <1>1, <1>2, <2>1 DEF LockAgrees
<1>4. CASE event[e].state \notin {"Dispatching", "TaskCreated"}
  <2>1. lock' = lock
    BY <1>4, LockIs
  <2>2. lock # Free => lock[1] \in Events /\ lock[1] # e
    BY <1>1, <1>4 DEF LockAgrees
  <2>3. LockAgrees'
    BY <2>1, <2>2 DEF LockAgrees
  <2> QED BY <1>1, <1>2, <2>1, <2>3
<1> QED BY <1>3, <1>4

----------------------------------------------------------------------------
(* The actions, one lemma for each or for a few that are alike. *)

\* The FIFO claim takes the Session's lock with the oldest message.
LEMMA ClaimKeeps ==
    ASSUME InboxInv, NEW d \in Dispatchers, NEW e \in Events, ClaimNextGatewayEvent(d, e)
    PROVE  InboxInv'
<1> USE DEF InboxInv
<1> DEFINE y == ClaimRow(event[e], "Dispatching", d, TRUE)
           z == [pc |-> "claimed", ev |-> e, uid |-> 0]
<1>1. event[e] \in EventRec /\ event[e].uid \in 0 .. MaxUid
  BY DEF TypeOK, EventRec
<1>2. y \in EventRec /\ y.state = "Dispatching" /\ y.uid = event[e].uid
  <2>1. "Dispatching" \in Pending \cup {"Completed", "Expired", "DeadLettered"} /\ d \in Dispatchers \cup {None} /\ TRUE \in BOOLEAN
    BY DEF Pending
  <2> QED BY ONLY <1>1, <2>1, RowWritten, ZenonT(60)
<1>3. event' = [event EXCEPT ![e] = y]
  BY DEF ClaimNextGatewayEvent, ClaimRow, TypeOK
<1>4. event[e].state \in {"Queued", "Dispatching"} /\ lock' = <<e, event[e].uid>>
      /\ (\A f \in Events : f < e => event[f].state \notin Pending) /\ (\A f \in Events : f # e => event[f].state # "TaskCreated")
      /\ lock \in {Free, <<e, event[e].uid>>}
  BY DEF ClaimNextGatewayEvent, Claimable
<1>5. UNCHANGED <<age, task, config, faults, foreign, leader>> /\ disp' = [disp EXCEPT ![d] = z]
  BY DEF ClaimNextGatewayEvent
<1> HIDE DEF y
<1>6. event' \in [Events -> EventRec] /\ event'[e] = y /\ \A f \in Events : f # e => event'[f] = event[f]
  BY <1>2, <1>3 DEF TypeOK
<1>7. \A f \in Events : f # e => event[f].state \notin {"Dispatching", "TaskCreated"}
  <2> SUFFICES ASSUME NEW f \in Events, f # e, event[f].state = "Dispatching" PROVE FALSE
    BY <1>4
  <2>1. lock = <<f, event[f].uid>>
    BY DEF LockAgrees
  <2>2. lock[1] = f /\ lock # Free
    BY <2>1, Numbers DEF Free
  <2> QED BY <1>4, <2>1, <2>2
<1>8. lock'[1] = e /\ lock' \in Events \X (0 .. MaxUid)
  BY <1>1, <1>4
<1>9. InOrder' /\ LockAgrees'
  <2>1. \A f \in Events : event'[f].state \in {"Dispatching", "TaskCreated"} => f = e
    BY <1>6, <1>7
  <2>2. \A f \in Events : f < e => event'[f].state \notin Pending
    BY SMTT(60), <1>4, <1>6, Numbers
  <2>3. lock' = <<e, event'[e].uid>> /\ event'[e].state = "Dispatching"
    BY <1>2, <1>4, <1>6
  <2>4. InOrder'
    BY <2>1, <2>2 DEF InOrder
  <2>5. LockAgrees'
    BY <1>8, <2>1, <2>3 DEF LockAgrees
  <2> QED BY <2>4, <2>5
<1>10. disp' \in [Dispatchers -> DispRec] /\ DispMoves
  <2>1. z \in DispRec /\ Fits(z, event', task')
    BY SMTT(60), Numbers DEF DispRec, Fits, Events
  <2> HIDE DEF z
  <2>2. disp' \in [Dispatchers -> DispRec] /\ disp'[d] = z /\ \A c \in Dispatchers : c # d => disp'[c] = disp[c]
    BY <1>5, <2>1 DEF TypeOK
  <2> QED BY <2>1, <2>2 DEF DispMoves
<1>11. TypeOK'
  BY <1>5, <1>6, <1>8, <1>10 DEF TypeOK
<1>12. event[e].uid = 0 /\ task[e].uid \in Nat
  BY SMTT(60), <1>4, Numbers DEF Rows, TypeOK, TaskRec
<1>13. EventMove(event[e], event'[e], e)
  BY SMTT(60), <1>2, <1>4, <1>6, <1>12 DEF EventMove
<1> QED BY <1>5, <1>6, <1>9, <1>10, <1>11, <1>13, EventKeeps

\* A dispatcher stops, and whatever it wrote is an event that left, with its lock.
LEMMA SettleKeeps ==
    ASSUME InboxInv, NEW d \in Dispatchers, NEW e \in Events, NEW y \in EventRec, Stops(d),
           event' \in [Events -> EventRec], event'[e] = y, \A f \in Events : f # e => event'[f] = event[f],
           lock' = Unlocked(e),
           UNCHANGED <<age, task, config, faults, foreign, leader>>,
           y.uid = event[e].uid,
           \/ y.state = "Queued" /\ event[e].state = "Dispatching"
           \/ y.state = "Expired" /\ event[e].state \in Pending
           \/ y.state = "Completed" /\ event[e].state = "TaskCreated" /\ ~(task[e].here /\ task[e].phase = "Running")
    PROVE  InboxInv'
<1> USE DEF InboxInv
<1>1. event' \in [Events -> EventRec] /\ event'[e] = y /\ \A f \in Events : f # e => event'[f] = event[f]
  OBVIOUS
<1>2. disp' \in [Dispatchers -> DispRec] /\ DispMoves
  BY StopMoves
<1>3. InOrder' /\ LockAgrees' /\ lock' \in {Free} \cup (Events \X (0 .. MaxUid))
  <2>1. event'[e].state \notin {"Dispatching", "TaskCreated"} /\ event[e].state # "none"
        /\ (event'[e].state = "Queued" => event[e].state = "Dispatching")
    BY <1>1 DEF Pending
  <2> QED BY <1>1, <2>1, LeaveKeeps
<1>4. TypeOK'
  BY <1>1, <1>2, <1>3 DEF TypeOK
<1>5. EventMove(event[e], event'[e], e)
  BY <1>1 DEF EventMove, Rows, Pending
<1> QED BY <1>1, <1>2, <1>3, <1>4, <1>5, EventKeeps

\* A dispatcher stops without having written anything.
LEMMA StopKeeps ==
    ASSUME InboxInv, NEW d \in Dispatchers, Stops(d), UNCHANGED <<event, age, lock, task, config, foreign, leader>>,
           Fault \/ UNCHANGED faults
    PROVE  InboxInv'
<1> USE DEF InboxInv
<1>1. disp' \in [Dispatchers -> DispRec] /\ DispMoves
  BY StopMoves
<1>2. faults' \in 0 .. MaxFaults
  BY FaultTypes
<1>3. TypeOK'
  BY <1>1, <1>2 DEF TypeOK
<1>4. \A e \in Events : TaskMove(task[e], task'[e])
  BY TasksStay
<1> QED BY <1>1, <1>3, <1>4, QuietKeeps

\* A message put back in the queue gives the lock back.
LEMMA RetryKeeps ==
    ASSUME InboxInv, NEW d \in Dispatchers, RetryGatewayEvent(d)
    PROVE  InboxInv'
<1> DEFINE e == Ev(d)
           y == ClaimRow(event[e], "Queued", None, FALSE)
<1>1. disp[d].pc # "idle" /\ Stops(d) /\ UNCHANGED <<age, task, config, faults, foreign, leader>>
  BY DEF RetryGatewayEvent, At
<1>2. e \in Events /\ event[e] \in EventRec
  BY <1>1, AtWork
<1>3. CASE Owns(d, e)
  <2>1. event' = [event EXCEPT ![e] = y] /\ lock' = Unlocked(e) /\ event[e].state = "Dispatching"
    BY <1>3 DEF RetryGatewayEvent, ClaimRow, Owns
  <2>2. "Queued" \in Pending \cup {"Completed", "Expired", "DeadLettered"} /\ None \in Dispatchers \cup {None} /\ FALSE \in BOOLEAN
    BY DEF Pending
  <2> HIDE DEF e
  <2>3. y \in EventRec /\ y.state = "Queued" /\ y.uid = event[e].uid
    BY ONLY <1>2, <2>2, RowWritten, ZenonT(60)
  <2> HIDE DEF y
  <2>4. event' \in [Events -> EventRec] /\ event'[e] = y /\ \A f \in Events : f # e => event'[f] = event[f]
    BY <1>2, <2>1, <2>3 DEF InboxInv, TypeOK
  <2> QED BY <1>1, <1>2, <2>1, <2>3, <2>4, SettleKeeps
<1>4. CASE ~Owns(d, e)
  <2>1. UNCHANGED <<event, lock>>
    BY <1>4 DEF RetryGatewayEvent
  <2> QED BY <1>1, <2>1, StopKeeps
<1> QED BY <1>3, <1>4

\* An expired message gives the lock back, whoever expires it.
LEMMA ExpireKeeps ==
    ASSUME InboxInv, NEW d \in Dispatchers, expireGatewayEvent(d)
    PROVE  InboxInv'
<1> DEFINE e == Ev(d)
           y == ExpiredRow(event[e], "expiry")
           fits == ExpiryFits(IF At(d, "sweep") THEN None ELSE d, e)
<1>1. disp[d].pc # "idle" /\ Stops(d) /\ UNCHANGED <<age, task, config, faults, foreign, leader>>
  BY DEF expireGatewayEvent, At
<1>2. e \in Events /\ event[e] \in EventRec
  BY <1>1, AtWork
<1>3. CASE fits
  <2>1. event' = [event EXCEPT ![e] = y] /\ lock' = Unlocked(e)
    BY <1>3 DEF expireGatewayEvent, ExpiredRow
  <2>2. event[e].state \in Pending
    BY <1>3 DEF ExpiryFits, Pending
  <2> HIDE DEF e
  <2>3. y \in EventRec /\ y.state = "Expired" /\ y.uid = event[e].uid
    BY <1>2, RowExpires
  <2> HIDE DEF y
  <2>4. event' \in [Events -> EventRec] /\ event'[e] = y /\ \A f \in Events : f # e => event'[f] = event[f]
    BY <1>2, <2>1, <2>3 DEF InboxInv, TypeOK
  <2> QED BY <1>1, <1>2, <2>1, <2>2, <2>3, <2>4, SettleKeeps
<1>4. CASE ~fits
  <2>1. UNCHANGED <<event, lock>>
    BY <1>4 DEF expireGatewayEvent
  <2> QED BY <1>1, <2>1, StopKeeps
<1> QED BY <1>3, <1>4

\* A projected message gives the lock back.
LEMMA ProjectKeeps ==
    ASSUME InboxInv, NEW d \in Dispatchers, ProjectGatewayTerminal(d)
    PROVE  InboxInv'
<1> DEFINE e == Ev(d)
           y == AnsweredRow(event[e], "Completed", "final")
<1>1. disp[d].pc = "project" /\ Stops(d) /\ UNCHANGED <<age, task, config, faults, foreign, leader>>
  BY DEF ProjectGatewayTerminal, At
<1>2. e \in Events /\ event[e] \in EventRec
  BY <1>1, AtWork
<1>3. CASE event[e].state = "TaskCreated"
  <2>1. event' = [event EXCEPT ![e] = y] /\ lock' = Unlocked(e)
    BY <1>3 DEF ProjectGatewayTerminal, AnsweredRow
  <2>2. ~(task[e].here /\ task[e].phase = "Running")
    <3>1. Fits(disp[d], event, task)
      BY DEF InboxInv, AllFit
    <3> QED BY <1>1, <1>2, <3>1 DEF Fits, InboxInv, RunsLinked, Ev
  <2> HIDE DEF e
  <2>3. y \in EventRec /\ y.state = "Completed" /\ y.uid = event[e].uid
    BY <1>2, RowAnswered
  <2> HIDE DEF y
  <2>4. event' \in [Events -> EventRec] /\ event'[e] = y /\ \A f \in Events : f # e => event'[f] = event[f]
    BY <1>2, <2>1, <2>3 DEF InboxInv, TypeOK
  <2> QED BY <1>1, <1>2, <1>3, <2>1, <2>2, <2>3, <2>4, SettleKeeps
<1>4. CASE event[e].state # "TaskCreated"
  <2>1. UNCHANGED <<event, lock>>
    BY <1>4 DEF ProjectGatewayTerminal
  <2> QED BY <1>1, <2>1, StopKeeps
<1> QED BY <1>3, <1>4

\* Linking names the Task the dispatcher has seen, in the row and in the lock.
LEMMA LinkKeeps ==
    ASSUME InboxInv, NEW d \in Dispatchers, linkGatewayTask(d)
    PROVE  InboxInv'
<1> DEFINE e == Ev(d)
           u == disp[d].uid
           y == LinkedRow(event[e], u)
<1>1. disp[d].pc = "link" /\ Stops(d) /\ UNCHANGED <<age, task, config, faults, foreign, leader>>
  BY DEF linkGatewayTask, At
<1>2. e \in Events /\ event[e] \in EventRec /\ u \in 0 .. MaxUid /\ task[e].uid \in Nat
  BY <1>1, AtWork
<1>3. CASE LinkFits(d, e) /\ event' = [event EXCEPT ![e] = y] /\ lock' = <<e, u>>
  <2>1. event[e].state = "Dispatching" /\ u <= task[e].uid
    <3>1. Fits(disp[d], event, task)
      BY DEF InboxInv, AllFit
    <3> QED BY <1>1, <1>3, <3>1 DEF LinkFits, Owns, Fits, Ev
  <2> HIDE DEF e, u
  <2>2. y \in EventRec /\ y.state = "TaskCreated" /\ y.uid = u
    BY <1>2, RowLinks
  <2> HIDE DEF y
  <2>3. event' \in [Events -> EventRec] /\ event'[e] = y /\ \A f \in Events : f # e => event'[f] = event[f]
    BY <1>2, <1>3, <2>2 DEF InboxInv, TypeOK
  <2>4. disp' \in [Dispatchers -> DispRec] /\ DispMoves
    BY <1>1, StopMoves DEF InboxInv
  <2>5. lock' \in Events \X (0 .. MaxUid) /\ lock'[1] = e
    BY <1>2, <1>3
  <2>6. TypeOK'
    BY <1>1, <2>3, <2>4, <2>5 DEF InboxInv, TypeOK
  <2>7. \A f \in Events : event'[f].state \in {"Dispatching", "TaskCreated"} => f = e
    BY <1>2, <2>1, <2>3, LockIs
  <2>8. InOrder'
    <3>1. ASSUME NEW f \in Events, f < e PROVE event'[f].state \notin Pending
      BY SMTT(60), <1>2, <2>1, <2>3, <3>1, Numbers DEF InboxInv, InOrder
    <3> QED BY <2>7, <3>1 DEF InOrder
  <2>9. LockAgrees'
    BY <1>2, <1>3, <2>2, <2>3, <2>5, <2>7 DEF LockAgrees
  <2>10. EventMove(event[e], event'[e], e)
    BY <2>1, <2>2, <2>3 DEF EventMove
  <2> QED BY <1>1, <1>2, <2>3, <2>4, <2>6, <2>8, <2>9, <2>10, EventKeeps
<1>4. CASE UNCHANGED <<event, lock>>
  BY <1>1, <1>4, StopKeeps
<1> QED BY <1>3, <1>4 DEF linkGatewayTask, LinkedRow

\* A row is written that keeps its state and its UID.
LEMMA SameKeeps ==
    ASSUME InboxInv, NEW e \in Events, NEW y \in EventRec,
           event' \in [Events -> EventRec], event'[e] = y, \A f \in Events : f # e => event'[f] = event[f],
           y.state = event[e].state, y.uid = event[e].uid, y.state \in {"Dispatching", "DeadLettered"},
           UNCHANGED <<age, lock, task, config, foreign, leader>>,
           Fault \/ UNCHANGED faults, disp' \in [Dispatchers -> DispRec], DispMoves
    PROVE  InboxInv'
<1> USE DEF InboxInv
<1>1. event' \in [Events -> EventRec] /\ event'[e] = y /\ \A f \in Events : f # e => event'[f] = event[f]
  OBVIOUS
<1>2. \A f \in Events : event'[f].state = event[f].state /\ event'[f].uid = event[f].uid
  BY <1>1
<1>3. InOrder'
  BY <1>2 DEF InOrder
<1>4. LockAgrees'
  <2>1. lock # Free => lock[1] \in Events
    BY DEF TypeOK
  <2> QED BY <1>2, <2>1 DEF LockAgrees
<1>5. faults' \in 0 .. MaxFaults
  BY FaultTypes
<1>6. TypeOK'
  BY <1>1, <1>5 DEF TypeOK
<1>7. EventMove(event[e], event'[e], e)
  BY <1>1 DEF EventMove, Rows, RunsLinked
<1> QED BY <1>1, <1>3, <1>4, <1>6, <1>7, EventKeeps

\* Renewing a claim changes only its term.
LEMMA RenewKeeps ==
    ASSUME InboxInv, NEW d \in Dispatchers, RenewGatewayEventClaim(d)
    PROVE  InboxInv'
<1> DEFINE e == Ev(d)
           y == [event[e] EXCEPT !.live = TRUE]
<1>1. disp[d].pc # "idle" /\ UNCHANGED <<age, lock, task, config, faults, foreign, leader>>
  BY DEF RenewGatewayEventClaim, At
<1>2. e \in Events /\ event[e] \in EventRec
  BY <1>1, AtWork
<1>3. CASE Owns(d, e) /\ (Goes(d, "create") \/ Goes(d, "retry")) /\ event' = [event EXCEPT ![e] = y]
  <2>1. event[e].state = "Dispatching"
    BY <1>3 DEF Owns
  <2> HIDE DEF e
  <2>2. y \in EventRec /\ y.state = event[e].state /\ y.uid = event[e].uid
    BY <1>2 DEF EventRec
  <2>3. disp' \in [Dispatchers -> DispRec] /\ DispMoves
    BY <1>1, <1>3, GoMoves DEF Steps, InboxInv
  <2> HIDE DEF y
  <2>4. event' \in [Events -> EventRec] /\ event'[e] = y /\ \A f \in Events : f # e => event'[f] = event[f]
    BY <1>2, <1>3, <2>2 DEF InboxInv, TypeOK
  <2> QED BY <1>1, <1>2, <2>1, <2>2, <2>3, <2>4, SameKeeps
<1>4. CASE Stops(d) /\ UNCHANGED event
  BY <1>1, <1>4, StopKeeps
<1> QED BY <1>3, <1>4 DEF RenewGatewayEventClaim

----------------------------------------------------------------------------
(* The actions that write a Task. *)

\* A Task that does not start is written.
LEMMA TaskKeeps ==
    ASSUME InboxInv, NEW e \in Events, NEW y \in TaskRec, TaskMove(task[e], y),
           task' \in [Events -> TaskRec], task'[e] = y, \A f \in Events : f # e => task'[f] = task[f],
           UNCHANGED <<event, age, lock, config, foreign, leader>>,
           Fault \/ UNCHANGED faults, disp' \in [Dispatchers -> DispRec], DispMoves
    PROVE  InboxInv'
<1> USE DEF InboxInv
<1>1. faults' \in 0 .. MaxFaults
  BY FaultTypes
<1>2. TypeOK'
  BY <1>1 DEF TypeOK
<1>3. \A f \in Events \ {e} : TaskMove(task[f], task'[f])
  BY TasksStay
<1> QED BY <1>2, <1>3, QuietKeeps

\* Dispatchers that stay where they are.
LEMMA DispStay ==
    ASSUME TypeOK, UNCHANGED disp
    PROVE  disp' \in [Dispatchers -> DispRec] /\ DispMoves
BY DEF TypeOK, DispMoves

\* A Task is deleted, goes on being deleted, or ends.
DeletingRow(x, how) == [x EXCEPT !.deleting = how]

\* What a deletion does to a Task.
LEMMA DeletedTask ==
    ASSUME NEW x \in TaskRec, NEW how \in {"no", "yes", "overdue"}
    PROVE  DeletingRow(x, how) \in TaskRec /\ TaskMove(x, DeletingRow(x, how))
<1> DEFINE y == DeletingRow(x, how)
<1>1. x.uid \in Nat
  BY SMTT(60), Numbers DEF TaskRec
<1>2. y \in TaskRec /\ y.uid = x.uid /\ y.here = x.here /\ y.phase = x.phase
  BY DEF TaskRec, DeletingRow
<1> HIDE DEF y
<1>3. TaskMove(x, y)
  BY SMTT(60), <1>1, <1>2 DEF TaskMove
<1> QED BY <1>2, <1>3 DEF y

EndedRow(x) == [x EXCEPT !.phase = "Done"]

\* What the end of a Task does to it.
LEMMA EndedTask ==
    ASSUME NEW x \in TaskRec, x.here
    PROVE  EndedRow(x) \in TaskRec /\ TaskMove(x, EndedRow(x))
<1> DEFINE y == EndedRow(x)
<1>1. x.uid \in Nat
  BY SMTT(60), Numbers DEF TaskRec
<1>2. y \in TaskRec /\ y.uid = x.uid /\ y.here = x.here /\ y.phase = "Done"
  BY DEF TaskRec, EndedRow
<1> HIDE DEF y
<1>3. TaskMove(x, y)
  BY SMTT(60), <1>1, <1>2 DEF TaskMove
<1> QED BY <1>2, <1>3 DEF y

\* Deleting a Task that was not linked keeps the invariant.
LEMMA DeleteKeeps ==
    ASSUME InboxInv, NEW d \in Dispatchers, deleteUnlinkedGatewayTask(d)
    PROVE  InboxInv'
<1> USE DEF InboxInv
<1> DEFINE e == Ev(d)
           y == DeletingRow(task[e], "yes")
<1>1. disp[d].pc # "idle" /\ UNCHANGED <<event, age, lock, config, faults, foreign, leader>>
  BY DEF deleteUnlinkedGatewayTask, At
<1>2. e \in Events /\ task[e] \in TaskRec
  BY <1>1, AtWork
<1>3. CASE task' = [task EXCEPT ![e] = y] /\ Goes(d, "confirm")
  <2>1. disp' \in [Dispatchers -> DispRec] /\ DispMoves
    BY <1>1, <1>3, GoMoves DEF Steps
  <2>2. y \in TaskRec /\ TaskMove(task[e], y)
    BY <1>2, DeletedTask
  <2> HIDE DEF y
  <2>3. task' \in [Events -> TaskRec] /\ task'[e] = y /\ \A f \in Events : f # e => task'[f] = task[f]
    BY <1>2, <1>3, <2>2 DEF TypeOK
  <2> HIDE DEF e
  <2> QED BY <1>1, <1>2, <2>1, <2>2, <2>3, TaskKeeps
<1>4. CASE UNCHANGED task /\ Goes(d, "expire")
  <2>1. disp' \in [Dispatchers -> DispRec] /\ DispMoves
    BY <1>1, <1>4, GoMoves DEF Steps
  <2>2. TypeOK' /\ \A f \in Events : TaskMove(task[f], task'[f])
    BY <1>1, <1>4, <2>1, TasksStay DEF TypeOK
  <2> QED BY <1>1, <2>1, <2>2, QuietKeeps
<1>5. CASE UNCHANGED task /\ Stops(d)
  BY <1>1, <1>5, StopKeeps
<1> QED BY <1>3, <1>4, <1>5 DEF deleteUnlinkedGatewayTask, DeletingRow

\* So does what happens to Tasks outside the gateway.
LEMMA OwnersKeep ==
    ASSUME InboxInv, NEW e \in Events, deleteTask(e) \/ removeTask(e) \/ finishTask(e)
    PROVE  InboxInv'
<1> USE DEF InboxInv
<1>1. UNCHANGED <<event, age, lock, config, foreign, leader, disp>> /\ (Fault \/ UNCHANGED faults)
  <2>1. CASE deleteTask(e)
    BY <2>1 DEF deleteTask
  <2>2. CASE removeTask(e)
    BY <2>2 DEF removeTask
  <2>3. CASE finishTask(e)
    BY <2>3 DEF finishTask
  <2> QED BY <2>1, <2>2, <2>3
<1>2. disp' \in [Dispatchers -> DispRec] /\ DispMoves
  BY <1>1, DispStay
<1>3. task[e] \in TaskRec /\ task[e].uid \in Nat
  BY SMTT(60), Numbers DEF TypeOK, TaskRec
<1>4. ASSUME NEW y \in TaskRec, TaskMove(task[e], y),
             task' \in [Events -> TaskRec], task'[e] = y, \A f \in Events : f # e => task'[f] = task[f]
      PROVE  InboxInv'
  BY <1>1, <1>2, <1>4, TaskKeeps
<1>5. ASSUME NEW how \in {"yes", "overdue"}, task' = [task EXCEPT ![e] = DeletingRow(task[e], how)]
      PROVE  InboxInv'
  <2> DEFINE y == DeletingRow(task[e], how)
  <2>1. y \in TaskRec /\ TaskMove(task[e], y)
    BY <1>3, DeletedTask
  <2> HIDE DEF y
  <2>2. task' \in [Events -> TaskRec] /\ task'[e] = y /\ \A f \in Events : f # e => task'[f] = task[f]
    BY <1>5, <2>1 DEF TypeOK, y
  <2> QED BY <1>4, <2>1, <2>2
<1>6. CASE task[e].here /\ task' = [task EXCEPT ![e] = EndedRow(task[e])]
  <2> DEFINE y == EndedRow(task[e])
  <2>1. y \in TaskRec /\ TaskMove(task[e], y)
    BY <1>3, <1>6, EndedTask
  <2> HIDE DEF y
  <2>2. task' \in [Events -> TaskRec] /\ task'[e] = y /\ \A f \in Events : f # e => task'[f] = task[f]
    BY <1>6, <2>1 DEF TypeOK, y
  <2> QED BY <1>4, <2>1, <2>2
<1>7. CASE task' = [task EXCEPT ![e] = [task[e] EXCEPT !.here = FALSE, !.phase = "Pending", !.deleting = "no"]]
  <2> DEFINE a == [task[e] EXCEPT !.here = FALSE]
             b == [a EXCEPT !.phase = "Pending"]
             c == [b EXCEPT !.deleting = "no"]
  <2>2. a \in TaskRec /\ a.here = FALSE /\ a.uid = task[e].uid
    BY <1>3 DEF TaskRec
  <2>3. task' = [task EXCEPT ![e] = c]
    BY <1>7
  <2> HIDE DEF a
  <2>4. b \in TaskRec /\ b.here = FALSE /\ b.uid = task[e].uid
    BY <2>2 DEF TaskRec
  <2> HIDE DEF b
  <2>5. c \in TaskRec /\ c.here = FALSE /\ c.uid = task[e].uid
    BY <2>4 DEF TaskRec
  <2> HIDE DEF c
  <2>6. TaskMove(task[e], c)
    BY SMTT(60), <1>3, <2>5 DEF TaskMove
  <2>7. task' \in [Events -> TaskRec] /\ task'[e] = c /\ \A f \in Events : f # e => task'[f] = task[f]
    BY <2>3, <2>5 DEF TypeOK
  <2> QED BY <1>4, <2>5, <2>6, <2>7
<1> QED BY <1>5, <1>6, <1>7 DEF deleteTask, removeTask, finishTask, DeletingRow, EndedRow

\* A Task is created with a new UID, or found as it is.
LEMMA CreateKeeps ==
    ASSUME InboxInv, NEW d \in Dispatchers, createOrFindGatewayTask(d)
    PROVE  InboxInv'
<1> USE DEF InboxInv
<1> DEFINE e == Ev(d)
           y == [uid |-> task[e].uid + 1, here |-> TRUE, phase |-> "Pending", deleting |-> "no"]
<1>1. disp[d].pc # "idle" /\ UNCHANGED <<event, age, lock, config, foreign, leader>>
  BY DEF createOrFindGatewayTask, At
<1>2. Fault \/ UNCHANGED faults
  BY DEF createOrFindGatewayTask
<1>3. e \in Events /\ task[e] \in TaskRec /\ task[e].uid \in 0 .. MaxUid /\ task[e].uid \in Nat
  BY <1>1, AtWork
<1>4. ASSUME UNCHANGED task, disp' \in [Dispatchers -> DispRec], DispMoves
      PROVE  InboxInv'
  <2>1. faults' \in 0 .. MaxFaults
    BY <1>2, FaultTypes
  <2>2. TypeOK'
    BY <1>1, <1>4, <2>1 DEF TypeOK
  <2>3. \A f \in Events : TaskMove(task[f], task'[f])
    BY <1>4, TasksStay
  <2> QED BY <1>1, <1>4, <2>2, <2>3, QuietKeeps
<1>5. CASE UNCHANGED task /\ Stops(d)
  BY <1>4, <1>5, StopMoves
<1>6. CASE UNCHANGED task /\ (Goes(d, "retry") \/ Goes(d, "delete"))
  BY <1>1, <1>4, <1>6, GoMoves DEF Steps
<1>7. CASE UNCHANGED task /\ Links(d, task[e].uid)
  <2>1. task[e].uid <= task'[disp[d].ev].uid
    BY SMTT(60), <1>3, <1>7 DEF Ev
  <2> QED BY <1>1, <1>3, <1>4, <1>7, <2>1, LinkMoves
<1>8. CASE /\ task[e].uid < MaxUid /\ task' = [task EXCEPT ![e] = y]
           /\ Stops(d) \/ Links(d, task[e].uid + 1)
  <2>1. y \in TaskRec /\ y.uid = task[e].uid + 1 /\ y.phase = "Pending"
    BY SMTT(60), <1>3, <1>8, Numbers DEF TaskRec
  <2> HIDE DEF y
  <2>2. task' \in [Events -> TaskRec] /\ task'[e] = y /\ \A f \in Events : f # e => task'[f] = task[f]
    BY <1>3, <1>8, <2>1 DEF TypeOK
  <2>3. TaskMove(task[e], y)
    BY SMTT(60), <1>3, <2>1 DEF TaskMove
  <2>4. disp' \in [Dispatchers -> DispRec] /\ DispMoves
    <3>1. CASE Stops(d)
      BY <3>1, StopMoves
    <3>2. CASE Links(d, task[e].uid + 1)
      <4>1. task[e].uid + 1 \in 0 .. MaxUid /\ task[e].uid + 1 <= task'[disp[d].ev].uid
        BY SMTT(60), <1>3, <1>8, <2>1, <2>2, Numbers DEF Ev
      <4> QED BY <1>1, <3>2, <4>1, LinkMoves
    <3> QED BY <1>8, <3>1, <3>2
  <2> HIDE DEF e
  <2> QED BY <1>1, <1>2, <1>3, <2>1, <2>2, <2>3, <2>4, TaskKeeps
<1> QED
  BY <1>5, <1>6, <1>7, <1>8 DEF createOrFindGatewayTask

\* A dispatcher begins with an event of its own.
Begins(d, e, pc) == disp' = [disp EXCEPT ![d] = [pc |-> pc, ev |-> e, uid |-> 0]]

\* A pass of the maintenance loop starts on a row.
LEMMA BeginMoves ==
    ASSUME TypeOK, NEW d \in Dispatchers, NEW e \in Events, NEW pc \in {"sweep", "project"},
           Begins(d, e, pc),
           pc = "project" => /\ event'[e].state = "TaskCreated"
                             /\ task'[e].phase = "Done"
    PROVE  disp' \in [Dispatchers -> DispRec] /\ DispMoves
<1> DEFINE z == [pc |-> pc, ev |-> e, uid |-> 0]
<1>1. z \in DispRec /\ Fits(z, event', task')
  BY SMTT(60), Numbers DEF DispRec, Fits, Events
<1> HIDE DEF z
<1>2. disp' \in [Dispatchers -> DispRec] /\ disp'[d] = z /\ \A c \in Dispatchers : c # d => disp'[c] = disp[c]
  BY <1>1 DEF TypeOK, Begins, z
<1> QED BY <1>1, <1>2 DEF DispMoves

\* The passes for expired and finished messages only read.
LEMMA PassesKeep ==
    ASSUME InboxInv, NEW d \in Dispatchers, NEW e \in Events, ExpireQueuedEvents(d, e) \/ ProjectTerminals(d, e)
    PROVE  InboxInv'
<1> USE DEF InboxInv
<1> DEFINE y == DeletingRow(task[e], "yes")
<1>1. UNCHANGED <<event, age, lock, config, faults, foreign, leader>>
  BY DEF ExpireQueuedEvents, ProjectTerminals
<1>2. \/ UNCHANGED task /\ Begins(d, e, "sweep")
      \/ UNCHANGED task /\ Begins(d, e, "project") /\ event[e].state = "TaskCreated" /\ task[e].phase = "Done"
      \/ task' = [task EXCEPT ![e] = y] /\ UNCHANGED disp
  BY DEF ExpireQueuedEvents, ProjectTerminals, DeletingRow, Begins
<1>3. CASE UNCHANGED task /\ disp' \in [Dispatchers -> DispRec] /\ DispMoves
  <2>1. TypeOK' /\ \A f \in Events : TaskMove(task[f], task'[f])
    BY <1>1, <1>3, TasksStay DEF TypeOK
  <2> QED BY <1>1, <1>3, <2>1, QuietKeeps
<1>4. CASE UNCHANGED task /\ Begins(d, e, "sweep")
  <2>1. disp' \in [Dispatchers -> DispRec] /\ DispMoves
    BY <1>4, BeginMoves
  <2> QED BY <1>3, <1>4, <2>1
<1>5. CASE UNCHANGED task /\ Begins(d, e, "project") /\ event[e].state = "TaskCreated" /\ task[e].phase = "Done"
  <2>1. disp' \in [Dispatchers -> DispRec] /\ DispMoves
    BY <1>1, <1>5, BeginMoves
  <2> QED BY <1>3, <1>5, <2>1
<1>6. CASE task' = [task EXCEPT ![e] = y] /\ UNCHANGED disp
  <2>1. disp' \in [Dispatchers -> DispRec] /\ DispMoves
    BY <1>6, DispStay
  <2>2. task[e] \in TaskRec
    BY DEF TypeOK
  <2>3. y \in TaskRec /\ TaskMove(task[e], y)
    BY <2>2, DeletedTask
  <2> HIDE DEF y
  <2>4. task' \in [Events -> TaskRec] /\ task'[e] = y /\ \A f \in Events : f # e => task'[f] = task[f]
    BY <1>6, <2>3 DEF TypeOK
  <2> QED BY <1>1, <2>1, <2>3, <2>4, TaskKeeps
<1> QED BY <1>2, <1>4, <1>5, <1>6

\* The Task starts: its event is linked to it.
LEMMA AcquireKeeps ==
    ASSUME InboxInv, NEW e \in Events, acquireSessionLock(e)
    PROVE  InboxInv'
<1> USE DEF InboxInv
<1>1. UNCHANGED <<event, age, config, disp, faults, foreign, leader>> /\ task[e].here /\ task[e].phase = "Pending"
  BY DEF acquireSessionLock, Ours
<1>2. task[e] \in TaskRec /\ task[e].uid \in 0 .. MaxUid /\ task[e].uid \in Nat
  BY SMTT(60), Numbers DEF TypeOK, TaskRec
<1>3. disp' \in [Dispatchers -> DispRec] /\ DispMoves
  BY <1>1, DispStay
<1>4. CASE task' = [task EXCEPT ![e] = EndedRow(task[e])] /\ UNCHANGED lock
  <2> DEFINE y == EndedRow(task[e])
  <2>1. y \in TaskRec /\ TaskMove(task[e], y)
    BY <1>1, <1>2, EndedTask
  <2> HIDE DEF y
  <2>2. task' \in [Events -> TaskRec] /\ task'[e] = y /\ \A f \in Events : f # e => task'[f] = task[f]
    BY <1>4, <2>1 DEF TypeOK, y
  <2> QED BY <1>1, <1>3, <1>4, <2>1, <2>2, TaskKeeps
<1>5. CASE TaskLinked(e) /\ task' = [task EXCEPT ![e].phase = "Running"] /\ lock' = <<e, task[e].uid>>
  <2> DEFINE y == [task[e] EXCEPT !.phase = "Running"]
  <2>1. y \in TaskRec /\ y.uid = task[e].uid /\ y.phase = "Running"
    BY <1>2 DEF TaskRec
  <2> HIDE DEF y
  <2>2. task' \in [Events -> TaskRec] /\ task'[e] = y /\ \A f \in Events : f # e => task'[f] = task[f]
    BY <1>5, <2>1 DEF TypeOK, y
  <2>3. event[e].state = "TaskCreated" /\ event[e].uid = task[e].uid
    BY <1>5 DEF TaskLinked
  <2>4. lock' = lock
    BY <1>5, <2>3, LockIs
  <2>5. TypeOK'
    BY <1>1, <1>3, <2>2, <2>4 DEF TypeOK
  <2>6. InOrder' /\ LockAgrees'
    BY <1>1, <2>4 DEF InOrder, LockAgrees
  <2>7. RunsLinked'
    BY <1>1, <2>1, <2>2, <2>3 DEF RunsLinked
  <2>8. Rows'
    BY <1>1, <2>1, <2>2 DEF Rows
  <2>9. ASSUME NEW d \in Dispatchers PROVE Fits(disp[d], event, task')
    <3>1. Fits(disp[d], event, task)
      BY DEF AllFit
    <3>2. CASE disp[d].ev # e
      BY <2>2, <3>1, <3>2 DEF Fits
    <3>3. CASE disp[d].ev = e
      <4>1. disp[d].pc # "project"
        BY <1>1, <2>3, <3>1, <3>3 DEF Fits
      <4> QED BY <2>1, <2>2, <3>1, <3>3, <4>1 DEF Fits
    <3> QED BY <3>2, <3>3
  <2>10. AllFit'
    BY <1>1, <2>9 DEF AllFit
  <2> QED BY <2>5, <2>6, <2>7, <2>8, <2>10
<1> QED BY <1>4, <1>5 DEF acquireSessionLock, EndedRow

\* Admission, and the answer to a message that was not admitted.
LEMMA AdmitKeeps ==
    ASSUME InboxInv, NEW e \in Events, AdmitGatewayEvent(e)
    PROVE  InboxInv'
<1> USE DEF InboxInv
<1>1. UNCHANGED <<age, lock, task, config, disp, foreign, leader>> /\ event[e].state = "none"
      /\ \A f \in Events : f < e => event[f].state # "none"
  BY DEF AdmitGatewayEvent
<1>2. event[e] \in EventRec /\ event[e].uid = 0
  BY <1>1 DEF TypeOK, Rows
<1>3. /\ event' \in [Events -> EventRec] /\ \A f \in Events : f # e => event'[f] = event[f]
      /\ event'[e].state \in {"Queued", "DeadLettered"} /\ event'[e].uid = 0
  <2>2. CASE event' = [event EXCEPT ![e] = AnsweredRow(event[e], "DeadLettered", "denial")]
    <3> DEFINE y == AnsweredRow(event[e], "DeadLettered", "denial")
    <3>1. y \in EventRec /\ y.state = "DeadLettered" /\ y.uid = 0
      BY <1>2, RowAnswered
    <3> HIDE DEF y
    <3>2. event' \in [Events -> EventRec] /\ event'[e] = y /\ \A f \in Events : f # e => event'[f] = event[f]
      BY <2>2, <3>1 DEF TypeOK, y
    <3> QED BY <3>1, <3>2
  <2>3. ASSUME NEW st \in {"Queued", "DeadLettered"}, event' = [event EXCEPT ![e].state = st]
        PROVE  /\ event' \in [Events -> EventRec] /\ \A f \in Events : f # e => event'[f] = event[f]
               /\ event'[e].state \in {"Queued", "DeadLettered"} /\ event'[e].uid = 0
    <3> DEFINE y == [event[e] EXCEPT !.state = st]
    <3>1. y \in EventRec /\ y.state = st /\ y.uid = 0
      BY <1>2 DEF EventRec, Pending
    <3> HIDE DEF y
    <3>2. event' \in [Events -> EventRec] /\ event'[e] = y /\ \A f \in Events : f # e => event'[f] = event[f]
      BY <2>3, <3>1 DEF TypeOK, y
    <3> QED BY <3>1, <3>2
  <2> QED BY <2>2, <2>3 DEF AdmitGatewayEvent, AnsweredRow
<1>4. Fault \/ UNCHANGED faults
  BY DEF AdmitGatewayEvent
<1>5. disp' \in [Dispatchers -> DispRec] /\ DispMoves /\ faults' \in 0 .. MaxFaults
  BY <1>1, <1>4, DispStay, FaultTypes
<1>6. TypeOK'
  BY <1>1, <1>3, <1>5 DEF TypeOK
<1>7. \A f \in Events : event'[f].state \in {"Dispatching", "TaskCreated"} => f < e /\ event'[f] = event[f]
  <2> SUFFICES ASSUME NEW f \in Events, event'[f].state \in {"Dispatching", "TaskCreated"}
               PROVE  f < e /\ event'[f] = event[f]
    OBVIOUS
  <2>1. f # e /\ event'[f] = event[f]
    BY <1>3
  <2>2. ~(e < f)
    BY <1>1, <2>1 DEF Rows
  <2> QED BY SMTT(60), <2>1, <2>2, Numbers
<1>8. InOrder'
  <2> SUFFICES ASSUME NEW f \in Events, NEW g \in Events, g < f, event'[f].state \in {"Dispatching", "TaskCreated"}
               PROVE  event'[g].state \notin Pending
    BY DEF InOrder
  <2>1. g # e /\ event'[g] = event[g] /\ event'[f] = event[f]
    BY SMTT(60), <1>3, <1>7, Numbers
  <2> QED BY <2>1 DEF InOrder
<1>9. LockAgrees'
  <2>1. lock # Free => lock[1] \in Events /\ lock[1] # e
    BY <1>1 DEF TypeOK, LockAgrees
  <2> QED BY <1>1, <1>3, <1>7, <2>1 DEF LockAgrees
<1>10. EventMove(event[e], event'[e], e)
  <2>1. task[e].uid \in Nat /\ ~(task[e].here /\ task[e].phase = "Running")
    BY SMTT(60), <1>1, Numbers DEF TypeOK, TaskRec, RunsLinked
  <2> QED BY SMTT(60), <1>1, <1>2, <1>3, <2>1 DEF EventMove
<1> QED BY <1>1, <1>3, <1>5, <1>6, <1>8, <1>9, <1>10, EventKeeps

\* Acknowledging a duplicate, or the lapse of a claim, changes neither state nor Task.
LEMMA AnswerKeeps ==
    ASSUME InboxInv, NEW e \in Events, acknowledgeDuplicateEvent(e) \/ lapse(e)
    PROVE  InboxInv'
<1> USE DEF InboxInv
<1>1. UNCHANGED <<age, lock, task, config, disp, foreign, leader>> /\ event[e].state \in {"Dispatching", "DeadLettered"}
      /\ (Fault \/ UNCHANGED faults)
  BY DEF acknowledgeDuplicateEvent, lapse
<1>2. event[e] \in EventRec
  BY DEF TypeOK
<1>3. disp' \in [Dispatchers -> DispRec] /\ DispMoves
  BY <1>1, DispStay
<1>4. CASE event' = [event EXCEPT ![e].delivery = "denial"]
  <2> DEFINE y == [event[e] EXCEPT !.delivery = "denial"]
  <2>1. y \in EventRec /\ y.state = event[e].state /\ y.uid = event[e].uid
    BY <1>2 DEF EventRec
  <2> HIDE DEF y
  <2>2. event' \in [Events -> EventRec] /\ event'[e] = y /\ \A f \in Events : f # e => event'[f] = event[f]
    BY <1>4, <2>1 DEF TypeOK, y
  <2>3. y.state \in {"Dispatching", "DeadLettered"}
    BY <1>1, <2>1
  <2> QED BY <1>1, <1>3, <2>1, <2>2, <2>3, SameKeeps
<1>5. CASE event' = [event EXCEPT ![e].live = FALSE]
  <2> DEFINE y == [event[e] EXCEPT !.live = FALSE]
  <2>1. y \in EventRec /\ y.state = event[e].state /\ y.uid = event[e].uid
    BY <1>2 DEF EventRec
  <2> HIDE DEF y
  <2>2. event' \in [Events -> EventRec] /\ event'[e] = y /\ \A f \in Events : f # e => event'[f] = event[f]
    BY <1>5, <2>1 DEF TypeOK, y
  <2>3. y.state \in {"Dispatching", "DeadLettered"}
    BY <1>1, <2>1
  <2> QED BY <1>1, <1>3, <2>1, <2>2, <2>3, SameKeeps
<1> QED BY <1>4, <1>5 DEF acknowledgeDuplicateEvent, lapse

\* Configuration, elections and time touch no row and no Task.
LEMMA TimeKeeps ==
    ASSUME InboxInv, configure \/ elect \/ (\E e \in Events : grow(e))
    PROVE  InboxInv'
<1> USE DEF InboxInv
<1>1. UNCHANGED <<event, lock, task, disp, foreign>> /\ (Fault \/ UNCHANGED faults)
  BY DEF configure, elect, grow
<1>2. config' \in {"ready", "notReady", "changed"}
  BY DEF configure, elect, grow, TypeOK
<1>3. leader' \in Dispatchers
  BY SMTT(60), Numbers DEF configure, elect, grow, TypeOK, Dispatchers
<1>4. age' \in [Events -> {"fresh", "ending", "expired"}]
  BY DEF configure, elect, grow, TypeOK
<1>5. disp' \in [Dispatchers -> DispRec] /\ DispMoves /\ faults' \in 0 .. MaxFaults
  BY <1>1, DispStay, FaultTypes
<1>6. TypeOK'
  BY <1>1, <1>2, <1>3, <1>4, <1>5 DEF TypeOK
<1>7. \A e \in Events : TaskMove(task[e], task'[e])
  BY <1>1, TasksStay
<1> QED BY <1>1, <1>5, <1>6, <1>7, QuietKeeps

----------------------------------------------------------------------------

\* The invariant holds at the start.
LEMMA InboxInit == Init => InboxInv
<1> SUFFICES ASSUME Init PROVE InboxInv
  OBVIOUS
<1>1. TypeOK
  <2>1. event \in [Events -> EventRec]
    BY SMTT(60), Numbers DEF Init, EventRec
  <2>2. task \in [Events -> TaskRec]
    <3>1. 0 \in 0 .. MaxUid /\ \A e \in Events : (e \in foreign) \in BOOLEAN
      BY SMTT(60), Numbers
    <3> QED BY <3>1 DEF Init, TaskRec
  <2>3. disp \in [Dispatchers -> DispRec]
    BY SMTT(60), Numbers DEF Init, DispRec, Idle
  <2>4. foreign \subseteq MayCollide
    BY DEF Init
  <2>5. lock = Free /\ config = "ready" /\ leader \in Dispatchers /\ faults \in 0 .. MaxFaults
    BY SMTT(60), Numbers DEF Init, Dispatchers
  <2>6. age \in [Events -> {"fresh", "ending", "expired"}]
    BY DEF Init
  <2> QED BY <2>1, <2>2, <2>3, <2>4, <2>5, <2>6 DEF TypeOK
<1>2. \A e \in Events : event[e].state = "none" /\ event[e].uid = 0 /\ task[e].uid = 0 /\ task[e].phase = "Pending"
  BY DEF Init
<1>3. InOrder /\ RunsLinked /\ Rows
  BY SMTT(60), <1>2 DEF InOrder, RunsLinked, Rows
<1>4. LockAgrees
  BY <1>2 DEF LockAgrees, Init
<1>5. AllFit
  BY DEF AllFit, Fits, Init, Idle
<1> QED BY <1>1, <1>3, <1>4, <1>5 DEF InboxInv

\* Every step keeps the invariant.
LEMMA InboxNext == InboxInv /\ [Next]_vars => InboxInv'
<1> SUFFICES ASSUME InboxInv, [Next]_vars PROVE InboxInv'
  OBVIOUS
<1>1. ASSUME NEW d \in Dispatchers, Dispatch(d) PROVE InboxInv'
  BY <1>1, DecideKeeps, RenewKeeps, CreateKeeps, LinkKeeps, RetryKeeps, DeleteKeeps, ExpireKeeps, ProjectKeeps DEF Dispatch
<1>2. ASSUME NEW d \in Dispatchers, abandon(d) PROVE InboxInv'
  <2>1. Stops(d) /\ UNCHANGED <<event, age, lock, task, config, foreign, leader>> /\ (Fault \/ UNCHANGED faults)
    BY <1>2 DEF abandon
  <2> QED BY <2>1, StopKeeps
<1>3. ASSUME NEW d \in Dispatchers, NEW e \in Events, Begin(d, e) PROVE InboxInv'
  BY <1>3, ClaimKeeps, PassesKeep DEF Begin
<1>4. ASSUME NEW e \in Events,
             \/ AdmitGatewayEvent(e) \/ acknowledgeDuplicateEvent(e)
             \/ acquireSessionLock(e) \/ finishTask(e) \/ deleteTask(e) \/ removeTask(e)
             \/ grow(e) \/ lapse(e)
      PROVE  InboxInv'
  BY <1>4, AdmitKeeps, AnswerKeeps, AcquireKeeps, OwnersKeep, TimeKeeps
<1>5. ASSUME configure \/ elect PROVE InboxInv'
  BY <1>5, TimeKeeps
<1>6. CASE UNCHANGED vars
  <2>1. UNCHANGED <<event, age, lock, task, config, foreign, leader, disp, faults>>
    BY <1>6 DEF vars
  <2>2. disp' \in [Dispatchers -> DispRec] /\ DispMoves
    BY <2>1, DispStay DEF InboxInv
  <2>3. TypeOK' /\ \A e \in Events : TaskMove(task[e], task'[e])
    BY <2>1, TasksStay DEF TypeOK, InboxInv
  <2> QED BY <2>1, <2>2, <2>3, QuietKeeps
<1> QED BY <1>1, <1>2, <1>3, <1>4, <1>5, <1>6 DEF Next

\* The invariant the rest follows from holds in every reachable state.
THEOREM InboxInvariant == Spec => []InboxInv
BY InboxInit, InboxNext, PTL DEF Spec

\* The rows, the lock, the Tasks and the dispatchers have their types in every reachable state.
THEOREM InboxTypes == Spec => []TypeOK
<1>1. InboxInv => TypeOK
  BY DEF InboxInv
<1> QED BY <1>1, InboxInvariant, PTL

\* However many processes dispatch the messages of a Session, they leave its queue in order,
\* one at a time (ClaimNextGatewayEvent, RetryGatewayEvent, MarkGatewayEventTaskCreated).
THEOREM InboxOrder == Spec => []InOrder
<1>1. InboxInv => InOrder
  BY DEF InboxInv
<1> QED BY <1>1, InboxInvariant, PTL

\* The Session's lock is held exactly by the event that is dispatched or linked, with the UID
\* the event records, after every claim, link, retry, expiry and projection.
THEOREM InboxLock == Spec => []LockAgrees
<1>1. InboxInv => LockAgrees
  BY DEF InboxInv
<1> QED BY <1>1, InboxInvariant, PTL

\* A Task that acquireSessionLock let run is the one its event is linked to.
THEOREM InboxRuns == Spec => []RunsLinked
<1>1. InboxInv => RunsLinked
  BY DEF InboxInv
<1> QED BY <1>1, InboxInvariant, PTL

\* A row is written only in a state that its transaction's WHERE clause admits, which no
\* completed and no expired event is in.
LEMMA SettledStep ==
    ASSUME InboxInv, [Next]_vars, NEW e \in Events, event[e].state \in {"Completed", "Expired"}
    PROVE  event'[e] = event[e]
<1> USE DEF InboxInv
<1>1. ASSUME NEW d \in Dispatchers, Dispatch(d) PROVE event'[e] = event[e]
  <2>1. CASE reconcileExistingDispatchTask(d) \/ resolveDispatchBinding(d) \/ handleExpiredDispatchClaim(d)
    BY <2>1 DEF reconcileExistingDispatchTask, resolveDispatchBinding, handleExpiredDispatchClaim
  <2>2. CASE createOrFindGatewayTask(d) \/ deleteUnlinkedGatewayTask(d)
    BY <2>2 DEF createOrFindGatewayTask, deleteUnlinkedGatewayTask
  <2>3. CASE RenewGatewayEventClaim(d)
    BY <2>3 DEF RenewGatewayEventClaim, Owns, TypeOK
  <2>4. CASE linkGatewayTask(d)
    BY <2>4 DEF linkGatewayTask, LinkFits, Owns, TypeOK
  <2>5. CASE RetryGatewayEvent(d)
    BY <2>5 DEF RetryGatewayEvent, Owns, TypeOK
  <2>6. CASE expireGatewayEvent(d)
    BY <2>6 DEF expireGatewayEvent, ExpiryFits, TypeOK
  <2>7. CASE ProjectGatewayTerminal(d)
    BY <2>7 DEF ProjectGatewayTerminal, TypeOK
  <2> QED BY <1>1, <2>1, <2>2, <2>3, <2>4, <2>5, <2>6, <2>7 DEF Dispatch
<1>2. ASSUME NEW d \in Dispatchers, NEW f \in Events, Begin(d, f) PROVE event'[e] = event[e]
  <2>1. CASE ClaimNextGatewayEvent(d, f)
    BY <2>1 DEF ClaimNextGatewayEvent, Claimable, TypeOK
  <2>2. CASE ExpireQueuedEvents(d, f) \/ ProjectTerminals(d, f)
    BY <2>2 DEF ExpireQueuedEvents, ProjectTerminals
  <2> QED BY <1>2, <2>1, <2>2 DEF Begin
<1>3. ASSUME NEW f \in Events, AdmitGatewayEvent(f) \/ acknowledgeDuplicateEvent(f) \/ lapse(f) PROVE event'[e] = event[e]
  <2>1. CASE AdmitGatewayEvent(f)
    BY <2>1 DEF AdmitGatewayEvent, TypeOK
  <2>2. CASE acknowledgeDuplicateEvent(f) \/ lapse(f)
    BY <2>2 DEF acknowledgeDuplicateEvent, lapse, TypeOK
  <2> QED BY <1>3, <2>1, <2>2
<1>4. ASSUME NEW f \in Events, acquireSessionLock(f) \/ finishTask(f) \/ deleteTask(f) \/ removeTask(f) \/ grow(f)
      PROVE  event'[e] = event[e]
  BY <1>4 DEF acquireSessionLock, finishTask, deleteTask, removeTask, grow
<1>5. ASSUME NEW d \in Dispatchers, abandon(d) PROVE event'[e] = event[e]
  BY <1>5 DEF abandon
<1>6. CASE configure \/ elect \/ UNCHANGED vars
  BY <1>6 DEF configure, elect, vars
<1> QED BY <1>1, <1>2, <1>3, <1>4, <1>5, <1>6 DEF Next

\* A message is answered once: what a completed or expired event says never changes again.
THEOREM InboxSettled == Spec => SettledOnce
<1>1. InboxInv /\ [Next]_vars => [\A e \in Events : event[e].state \in {"Completed", "Expired"} => event'[e] = event[e]]_vars
  BY SettledStep
<1> QED BY <1>1, InboxInvariant, PTL DEF Spec, SettledOnce
=============================================================================
