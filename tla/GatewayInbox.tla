---------------------------- MODULE GatewayInbox ----------------------------
(***************************************************************************)
(* The inbound half of the chat gateway: the messages of one Session, the  *)
(* Tasks they become, and the answer each of them gets.                    *)
(*                                                                         *)
(* A message is a row of gateway_events in SQLite; its Task is a           *)
(* Kubernetes object with a name derived from the message.  A dispatcher   *)
(* (the leader's processing loop) claims the oldest message together with  *)
(* the Session's lock, creates the Task and links the two; the Task runs   *)
(* only when it is linked.  After a change of leader the old loop begins   *)
(* nothing new, but it may still be anywhere in its dispatch.              *)
(* Each SQLite transaction and each call to the API server is one step.    *)
(*                                                                         *)
(* Messages are numbered in the order of their admission, which is the     *)
(* order of transcript_order.  Times are what the code compares them for:  *)
(* an event is fresh, ending (less than the minimum execution window left) *)
(* or expired; a claim is live or has lapsed.                              *)
(***************************************************************************)
EXTENDS Integers, FiniteSets

CONSTANTS
    NumEvents,      \* bound: messages sent to the Session
    NumLeaders,     \* bound: processes that become leader, one after the other
    MayCollide,     \* messages whose Task name an unrelated Task may have
    PendingLimits,  \* PendingPerSession of the processes, old and new
    MaxUid,         \* bound: creations of one message's Task
    MaxFaults       \* bound: failed calls, deletions, edits, claims that run out on the leader

Events == 1 .. NumEvents
Dispatchers == 1 .. NumLeaders
None == 0

ASSUME InboxAssumption ==
    /\ NumEvents \in Nat /\ NumLeaders \in Nat \ {0} /\ MayCollide \subseteq Events
    /\ PendingLimits \subseteq Nat \ {0} /\ MaxUid \in Nat \ {0} /\ MaxFaults \in Nat

VARIABLES
    event,          \* gateway_events: state, claim_owner, claim_until, task_uid, delivery
    age,            \* of each event, against expires_at
    lock,           \* active_task and active_task_uid of the Session
    task,           \* the Task under each event's Task name
    foreign,        \* the messages whose Task name is taken
    config,         \* the admitted Gateway, GatewayBinding and Agent
    leader,         \* the process that runs the loop
    disp,           \* each dispatcher: where it is, its event, the UID it will link
    faults

vars == <<event, age, lock, task, foreign, config, leader, disp, faults>>

Free == <<0, 0>>
Pending == {"Queued", "Dispatching", "TaskCreated"}
Idle == [pc |-> "idle", ev |-> 0, uid |-> 0]

Init ==
    /\ event = [e \in Events |-> [state |-> "none", owner |-> None, live |-> FALSE, uid |-> 0, delivery |-> "none"]]
    /\ age = [e \in Events |-> "fresh"]
    /\ lock = Free
    /\ foreign \in SUBSET MayCollide
    /\ task = [e \in Events |-> [uid |-> 0, here |-> e \in foreign, phase |-> "Pending", deleting |-> "no"]]
    /\ config = "ready"
    /\ leader = 1
    /\ disp = [d \in Dispatchers |-> Idle]
    /\ faults = 0

Fault == faults < MaxFaults /\ faults' = faults + 1

At(d, pc) == disp[d].pc = pc
Ev(d) == disp[d].ev
Goes(d, pc) == disp' = [disp EXCEPT ![d].pc = pc]
Links(d, uid) == disp' = [disp EXCEPT ![d] = [@ EXCEPT !.pc = "link", !.uid = uid]]
Stops(d) == disp' = [disp EXCEPT ![d] = Idle]

\* gatewayTaskMatchesExpected and gatewayTaskCorrelatesWithEvent.
Ours(e) == task[e].here /\ e \notin foreign

\* The dispatcher still has the claim (MarkGatewayEventTaskCreated, RetryGatewayEvent).
Owns(d, e) == event[e].state = "Dispatching" /\ event[e].owner = d

MutantUnlockedClaim(e) == IF lock = <<e, 0>> THEN Free ELSE lock
Unlocked(e) == IF lock = <<e, event[e].uid>> THEN Free ELSE lock

----------------------------------------------------------------------------
(* Admission. *)

\* A full Session dead-letters the message; its denial is a write of its own, which a
\* repeated delivery of the message makes up for.
AdmitGatewayEvent(e) ==
    /\ event[e].state = "none" /\ \A f \in Events : f < e => event[f].state # "none"
    /\ \E limit \in PendingLimits :
        IF Cardinality({f \in Events : event[f].state \in Pending}) < limit
        THEN event' = [event EXCEPT ![e].state = "Queued"] /\ UNCHANGED faults
        ELSE \/ event' = [event EXCEPT ![e] = [@ EXCEPT !.state = "DeadLettered", !.delivery = "denial"]] /\ UNCHANGED faults
             \/ event' = [event EXCEPT ![e].state = "DeadLettered"] /\ Fault
    /\ UNCHANGED <<age, lock, task, config, disp, foreign, leader>>

acknowledgeDuplicateEvent(e) ==
    /\ event[e].state = "DeadLettered" /\ event[e].delivery = "none"
    /\ event' = [event EXCEPT ![e].delivery = "denial"]
    /\ UNCHANGED <<age, lock, task, config, disp, faults, foreign, leader>>

----------------------------------------------------------------------------
(* DispatchOnce. *)

\* The oldest message of the Session, with nothing before it and nothing linked.
MutantClaimable(e) ==
    /\ \/ event[e].state = "Queued" /\ age[e] # "expired"
       \/ event[e].state = "Dispatching" /\ ~event[e].live
    /\ lock \in {Free, <<e, event[e].uid>>}
MutantClaimableQueued(e) ==
    /\ event[e].state = "Queued" /\ age[e] # "expired"
    /\ lock \in {Free, <<e, event[e].uid>>}
    /\ \A f \in Events : f < e => event[f].state \notin Pending
    /\ \A f \in Events : f # e => event[f].state # "TaskCreated"
Claimable(e) ==
    /\ \/ event[e].state = "Queued" /\ age[e] # "expired"
       \/ event[e].state = "Dispatching" /\ ~event[e].live
    /\ lock \in {Free, <<e, event[e].uid>>}
    /\ \A f \in Events : f < e => event[f].state \notin Pending
    /\ \A f \in Events : f # e => event[f].state # "TaskCreated"

ClaimNextGatewayEvent(d, e) ==
    /\ d = leader /\ At(d, "idle") /\ Claimable(e)
    /\ event' = [event EXCEPT ![e] = [@ EXCEPT !.state = "Dispatching", !.owner = d, !.live = TRUE]]
    /\ lock' = <<e, event[e].uid>>
    /\ disp' = [disp EXCEPT ![d] = [pc |-> "claimed", ev |-> e, uid |-> 0]]
    /\ UNCHANGED <<age, task, config, faults, foreign, leader>>

\* A Task left by an earlier dispatch is linked, unless what admitted it has changed.
reconcileExistingDispatchTask(d) ==
    LET e == Ev(d) IN
    /\ At(d, "claimed")
    /\ \/ ~task[e].here /\ Goes(d, "resolve")
       \/ task[e].here /\ config = "changed" /\ Goes(d, "delete")
       \/ Ours(e) /\ config # "changed" /\ Links(d, task[e].uid)
       \/ e \in foreign /\ config # "changed" /\ Goes(d, IF age[e] = "fresh" THEN "resolve" ELSE "delete")
    /\ UNCHANGED <<event, age, lock, task, config, faults, foreign, leader>>

\* The admitted Gateway, GatewayBinding and Agent, then the time that is left.
resolveDispatchBinding(d) ==
    /\ At(d, "resolve")
    /\ Goes(d, CASE config = "changed" -> "delete"
                 [] config = "notReady" -> "retry"
                 [] OTHER -> IF age[Ev(d)] = "fresh" THEN "renew" ELSE "late")
    /\ UNCHANGED <<event, age, lock, task, config, faults, foreign, leader>>

handleExpiredDispatchClaim(d) ==
    /\ At(d, "late")
    /\ IF Ours(Ev(d)) THEN Links(d, task[Ev(d)].uid) ELSE Goes(d, "expire")
    /\ UNCHANGED <<event, age, lock, task, config, faults, foreign, leader>>

\* Other Tasks of the namespace may have used up its limit; an existing Task may be linked.
namespaceTaskCapacityAvailable(e) == {TRUE} \cup (IF task[e].here THEN {} ELSE {FALSE})

\* Compares the claim with the time read at the end of resolveDispatchBinding, so that a
\* claim that has run out since is renewed; one that another dispatcher took is not.
RenewGatewayEventClaim(d) ==
    LET e == Ev(d) IN
    /\ At(d, "renew")
    /\ \/ /\ Owns(d, e)
          /\ \E available \in namespaceTaskCapacityAvailable(e) : Goes(d, IF available THEN "create" ELSE "retry")
          /\ event' = [event EXCEPT ![e].live = TRUE]
       \/ ~(Owns(d, e) /\ event[e].live) /\ Stops(d) /\ UNCHANGED event
    /\ UNCHANGED <<age, lock, task, config, faults, foreign, leader>>

\* The Task's policy is frozen first, where it has one, which takes the claim.  An
\* answer that is lost is made up for by reading the Task; a failure that may have left
\* one behind keeps the claim; a definitive one ends the message.
createOrFindGatewayTask(d) ==
    LET e == Ev(d)
        created == [task EXCEPT ![e] = [uid |-> @.uid + 1, here |-> TRUE, phase |-> "Pending", deleting |-> "no"]]
    IN  /\ At(d, "create")
        /\ \/ ~(Owns(d, e) /\ event[e].live /\ age[e] # "expired") /\ Stops(d) /\ UNCHANGED <<task, faults>>
           \/ e \in foreign /\ Goes(d, "retry") /\ UNCHANGED <<task, faults>>
           \/ Ours(e) /\ Links(d, task[e].uid) /\ UNCHANGED <<task, faults>>
           \/ /\ ~task[e].here /\ task[e].uid < MaxUid
              /\ task' = created
              /\ \/ Links(d, task[e].uid + 1) /\ UNCHANGED faults
                 \/ Stops(d) /\ Fault
           \/ ~task[e].here /\ (Stops(d) \/ Goes(d, "delete")) /\ Fault /\ UNCHANGED task
        /\ UNCHANGED <<event, age, lock, config, foreign, leader>>

\* MarkGatewayEventTaskCreated: only the claim's owner links, and only once.
LinkFits(d, e) ==
    Owns(d, e) /\ lock[1] = e /\ lock[2] \in {0, disp[d].uid}
linkGatewayTask(d) ==
    LET e == Ev(d)
        uid == disp[d].uid
    IN  /\ At(d, "link")
        /\ \/ /\ LinkFits(d, e)
              /\ event' = [event EXCEPT ![e] = [@ EXCEPT !.state = "TaskCreated", !.owner = None, !.live = FALSE, !.uid = uid]]
              /\ lock' = <<e, uid>>
           \/ ~LinkFits(d, e) /\ UNCHANGED <<event, lock>>
        /\ Stops(d)
        /\ UNCHANGED <<age, task, config, faults, foreign, leader>>

RetryGatewayEvent(d) ==
    LET e == Ev(d) IN
    /\ At(d, "retry")
    /\ IF Owns(d, e)
       THEN /\ event' = [event EXCEPT ![e] = [@ EXCEPT !.state = "Queued", !.owner = None, !.live = FALSE]]
            /\ lock' = Unlocked(e)
       ELSE UNCHANGED <<event, lock>>
    /\ Stops(d)
    /\ UNCHANGED <<age, task, config, faults, foreign, leader>>

\* The message will not run: its unlinked Task is deleted, by UID, and must be gone, or
\* past the grace period of its cleanup, before the event expires.
deleteUnlinkedGatewayTask(d) ==
    LET e == Ev(d) IN
    /\ \/ At(d, "delete") /\ (~Ours(e) \/ task[e].deleting = "overdue") /\ Goes(d, "expire") /\ UNCHANGED task
       \/ /\ At(d, "delete") /\ Ours(e) /\ task[e].deleting # "overdue"
          /\ task' = [task EXCEPT ![e].deleting = "yes"] /\ Goes(d, "confirm")
       \/ At(d, "confirm") /\ ~task[e].here /\ Goes(d, "expire") /\ UNCHANGED task
       \/ At(d, "confirm") /\ task[e].here /\ Stops(d) /\ UNCHANGED task
    /\ UNCHANGED <<event, age, lock, config, faults, foreign, leader>>

\* ExpireGatewayEventWithDelivery: an event that is being dispatched expires only for the
\* claim's owner, a queued or a linked one for anybody, and none of them twice.
ExpiryFits(owner, e) ==
    event[e].state \in {"Queued", "TaskCreated"} \/ (event[e].state = "Dispatching" /\ event[e].owner = owner)
expireGatewayEvent(d) ==
    LET e == Ev(d) IN
    /\ At(d, "expire") \/ At(d, "sweep")
    /\ IF ExpiryFits(IF At(d, "sweep") THEN None ELSE d, e)
       THEN /\ event' = [event EXCEPT ![e] = [@ EXCEPT !.state = "Expired", !.owner = None, !.live = FALSE, !.delivery = "expiry"]]
            /\ lock' = Unlocked(e)
       ELSE UNCHANGED <<event, lock>>
    /\ Stops(d)
    /\ UNCHANGED <<age, task, config, faults, foreign, leader>>

----------------------------------------------------------------------------
(* The other passes of the loop. *)

\* The head of the Session's queue has expired.
ExpireQueuedEvents(d, e) ==
    /\ d = leader /\ At(d, "idle") /\ event[e].state = "Queued" /\ age[e] = "expired"
    /\ \A f \in Events : f < e => event[f].state \notin Pending
    /\ disp' = [disp EXCEPT ![d] = [pc |-> "sweep", ev |-> e, uid |-> 0]]
    /\ UNCHANGED <<event, age, lock, task, config, faults, foreign, leader>>

\* A linked event: its Task is gone, was replaced, has ended, or outlives the message.
ProjectTerminals(d, e) ==
    LET same == task[e].here /\ task[e].uid = event[e].uid /\ e \notin foreign
        late == age[e] = "expired"
        Next_(pc) == disp' = [disp EXCEPT ![d] = [pc |-> pc, ev |-> e, uid |-> 0]]
    IN  /\ d = leader /\ At(d, "idle") /\ event[e].state = "TaskCreated"
        /\ \/ (~task[e].here \/ (~same /\ late)) /\ Next_("sweep") /\ UNCHANGED task
           \/ same /\ task[e].phase = "Done" /\ Next_("project") /\ UNCHANGED task
           \/ same /\ task[e].phase # "Done" /\ late /\ task[e].deleting = "overdue" /\ Next_("sweep") /\ UNCHANGED task
           \/ /\ same /\ task[e].phase # "Done" /\ late /\ task[e].deleting = "no"
              /\ task' = [task EXCEPT ![e].deleting = "yes"] /\ UNCHANGED disp
        /\ UNCHANGED <<event, age, lock, config, faults, foreign, leader>>

\* The answer, the event and the lock, in one transaction.
MutantProjectGatewayTerminal(d) ==
    LET e == Ev(d) IN
    /\ At(d, "project")
    /\ event' = [event EXCEPT ![e] = [@ EXCEPT !.state = "Completed", !.delivery = "final"]]
    /\ lock' = Unlocked(e)
    /\ Stops(d)
    /\ UNCHANGED <<age, task, config, faults, foreign, leader>>
ProjectGatewayTerminal(d) ==
    LET e == Ev(d) IN
    /\ At(d, "project")
    /\ IF event[e].state = "TaskCreated"
       THEN /\ event' = [event EXCEPT ![e] = [@ EXCEPT !.state = "Completed", !.delivery = "final"]]
            /\ lock' = Unlocked(e)
       ELSE UNCHANGED <<event, lock>>
    /\ Stops(d)
    /\ UNCHANGED <<age, task, config, faults, foreign, leader>>

\* A call fails, or the process stops, in the middle of a dispatch: the claim stays.
abandon(d) ==
    /\ disp[d].pc # "idle"
    /\ IF d = leader THEN Fault ELSE UNCHANGED faults
    /\ Stops(d)
    /\ UNCHANGED <<event, age, lock, task, config, foreign, leader>>

\* Another process becomes leader.
elect ==
    /\ leader < NumLeaders /\ leader' = leader + 1
    /\ UNCHANGED <<event, age, lock, task, config, disp, faults, foreign>>

----------------------------------------------------------------------------
(* The Task, its controller, its owner, and time. *)

\* acquireSessionLock: a Task of a gateway Session runs when its event is linked to it,
\* waits while that is pending, and fails otherwise.
MutantTaskLinked(e) == event[e].state \in {"Dispatching", "TaskCreated"}
TaskLinked(e) == event[e].state = "TaskCreated" /\ event[e].uid = task[e].uid
acquireSessionLock(e) ==
    /\ Ours(e) /\ task[e].phase = "Pending" /\ task[e].deleting = "no"
    /\ lock = Free \/ (lock[1] = e /\ lock[2] \in {0, task[e].uid})
    /\ \/ /\ TaskLinked(e)
          /\ task' = [task EXCEPT ![e].phase = "Running"] /\ lock' = <<e, task[e].uid>>
       \/ /\ ~TaskLinked(e) /\ ~(event[e].state = "Dispatching" /\ event[e].uid = 0)
          /\ task' = [task EXCEPT ![e].phase = "Done"] /\ UNCHANGED lock
    /\ UNCHANGED <<event, age, config, disp, faults, foreign, leader>>

\* The Task ends.  Neither its finalization nor its transcript releases a gateway Session.
finishTask(e) ==
    /\ task[e].here /\ task[e].phase = "Running"
    /\ task' = [task EXCEPT ![e].phase = "Done"]
    /\ UNCHANGED <<event, age, lock, config, disp, faults, foreign, leader>>

\* Somebody deletes the Task; its finalizers finish, or go on past the grace period.
deleteTask(e) ==
    /\ Ours(e) /\ task[e].deleting = "no" /\ task' = [task EXCEPT ![e].deleting = "yes"]
    /\ Fault
    /\ UNCHANGED <<event, age, lock, config, disp, foreign, leader>>
removeTask(e) ==
    /\ task[e].here /\ task[e].deleting # "no"
    /\ \/ task' = [task EXCEPT ![e] = [@ EXCEPT !.here = FALSE, !.phase = "Pending", !.deleting = "no"]]
       \/ task[e].deleting = "yes" /\ task' = [task EXCEPT ![e].deleting = "overdue"]
    /\ UNCHANGED <<event, age, lock, config, disp, faults, foreign, leader>>

\* The Gateway, its binding or the Agent is edited or replaced, or becomes unready.
configure ==
    /\ config # "changed"
    /\ config' \in {"ready", "notReady", "changed"} \ {config}
    /\ Fault
    /\ UNCHANGED <<event, age, lock, task, disp, foreign, leader>>

grow(e) ==
    /\ event[e].state \in Pending /\ age[e] # "expired"
    /\ age' = [age EXCEPT ![e] = IF @ = "fresh" THEN "ending" ELSE "expired"]
    /\ UNCHANGED <<event, lock, task, config, disp, faults, foreign, leader>>

lapse(e) ==
    LET led == disp[leader].ev = e IN
    /\ event[e].state = "Dispatching" /\ event[e].live
    /\ IF led THEN Fault ELSE UNCHANGED faults
    /\ event' = [event EXCEPT ![e].live = FALSE]
    /\ UNCHANGED <<age, lock, task, config, disp, foreign, leader>>

----------------------------------------------------------------------------
Dispatch(d) ==
    \/ reconcileExistingDispatchTask(d) \/ resolveDispatchBinding(d) \/ handleExpiredDispatchClaim(d)
    \/ RenewGatewayEventClaim(d) \/ createOrFindGatewayTask(d)
    \/ linkGatewayTask(d) \/ RetryGatewayEvent(d) \/ deleteUnlinkedGatewayTask(d)
    \/ expireGatewayEvent(d) \/ ProjectGatewayTerminal(d)
Begin(d, e) == ClaimNextGatewayEvent(d, e) \/ ExpireQueuedEvents(d, e) \/ ProjectTerminals(d, e)

Next ==
    \/ \E d \in Dispatchers : Dispatch(d) \/ abandon(d) \/ \E e \in Events : Begin(d, e)
    \/ \E e \in Events :
        \/ AdmitGatewayEvent(e) \/ acknowledgeDuplicateEvent(e)
        \/ acquireSessionLock(e) \/ finishTask(e) \/ deleteTask(e) \/ removeTask(e)
        \/ grow(e) \/ lapse(e)
    \/ configure \/ elect

Spec == Init /\ [][Next]_vars

\* The leader's loop runs, its calls are answered, deletions make progress and time passes.  A
\* Task need not end, nor start, and nobody need send, delete or configure anything; an
\* adapter repeats a message that was not acknowledged.
FairSpec ==
    /\ Spec
    /\ WF_vars(Dispatch(leader) \/ \E e \in Events : Begin(leader, e))
    /\ WF_vars(\E e \in Events : removeTask(e)) /\ WF_vars(\E e \in Events : grow(e))
    /\ WF_vars(\E e \in Events : lapse(e)) /\ WF_vars(\E e \in Events : acknowledgeDuplicateEvent(e))

----------------------------------------------------------------------------
(* Properties. *)

\* The rows, the Tasks and the dispatchers.
EventRec == [state : Pending \cup {"none", "Completed", "Expired", "DeadLettered"}, owner : Dispatchers \cup {None},
             live : BOOLEAN, uid : 0 .. MaxUid, delivery : {"none", "final", "expiry", "denial"}]
TaskRec == [uid : 0 .. MaxUid, here : BOOLEAN, phase : {"Pending", "Running", "Done"}, deleting : {"no", "yes", "overdue"}]
DispRec == [pc : {"idle", "claimed", "resolve", "late", "renew", "create", "link", "retry",
                  "delete", "confirm", "expire", "sweep", "project"},
            ev : 0 .. NumEvents, uid : 0 .. MaxUid]

\* The type invariant.
TypeOK ==
    /\ event \in [Events -> EventRec]
    /\ age \in [Events -> {"fresh", "ending", "expired"}]
    /\ lock \in {Free} \cup (Events \X (0 .. MaxUid))
    /\ task \in [Events -> TaskRec]
    /\ foreign \subseteq MayCollide
    /\ config \in {"ready", "notReady", "changed"}
    /\ leader \in Dispatchers
    /\ disp \in [Dispatchers -> DispRec]
    /\ faults \in 0 .. MaxFaults

\* "Messages for a busy Session wait in order": an event that has left the queue has only
\* settled ones before it, and no two are dispatched or linked at a time.
InOrder ==
    \A e, f \in Events : f < e /\ event[e].state \in {"Dispatching", "TaskCreated"} => event[f].state \notin Pending

\* The Session's lock and its messages agree: it is held exactly while an event is being
\* dispatched or is linked, under that event's Task name and UID; it is neither lost to a
\* dispatcher whose claim has lapsed nor left behind by one.
LockAgrees ==
    /\ \A e \in Events : event[e].state \in {"Dispatching", "TaskCreated"} => lock = <<e, event[e].uid>>
    /\ lock # Free => event[lock[1]].state \in {"Dispatching", "TaskCreated"}

\* A Task that runs is the one its event is linked to, however many dispatchers created,
\* found, deleted or linked Tasks of that name.
RunsLinked ==
    \A e \in Events : task[e].here /\ task[e].phase = "Running" =>
        event[e].uid = task[e].uid /\ event[e].state \in {"TaskCreated", "Expired"}

\* A settled event stays as it is: its state, its answer and the Task it was linked to.
SettledOnce ==
    [][\A e \in Events : event[e].state \in {"Completed", "Expired"} => event'[e] = event[e]]_vars

\* Every admitted message is answered.
EventSettles ==
    \A e \in Events : event[e].state # "none" ~> event[e].delivery # "none"
=============================================================================
