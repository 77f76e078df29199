--------------------------- MODULE PromptDispatch ---------------------------
(***************************************************************************)
(* One standalone ACP Task and its PromptAttempt, dispatched by a          *)
(* succession of controllers.                                              *)
(*                                                                         *)
(* The dispatcher (internal/controller/acp_dispatcher.go) walks the        *)
(* durable PromptAttempt through its states, sends the prompt to the       *)
(* runtime supervisor exactly once, and settles the Task.  A controller    *)
(* that takes over later (acp_recovery.go) decides from the durable state  *)
(* alone whether the prompt may be dispatched again.  The promise is that  *)
(* a prompt which may have been accepted is never replayed.                *)
(*                                                                         *)
(* Controller e is the process that holds controller epoch e.  It may go   *)
(* on running after a later epoch has been opened: it then still reads,    *)
(* still talks to the runtime, and still patches the Task status, which no *)
(* epoch fences.  What fences it is                                        *)
(*   - the epoch check and the version check of every PromptAttempt write, *)
(*   - the epoch check of the terminal projection (outbox), and            *)
(*   - the supervisor, whose boot is bound to one controller epoch.        *)
(*                                                                         *)
(* Every PromptAttempt write is two steps here, the read that fixes the    *)
(* expected version and the compare-and-swap, because anything may happen  *)
(* between them.                                                           *)
(***************************************************************************)
EXTENDS Integers, FiniteSets, TLC

CONSTANTS
    MaxEpoch,       \* the controllers 1..MaxEpoch
    MaxBoot,        \* the supervisor boots 1..MaxBoot
    MaxFaults,      \* store calls that fail, or succeed with a lost answer
    MaxVersion,     \* bound on the PromptAttempt version
    Overlap         \* TRUE: a controller may go on running after a takeover

ASSUME DispatchAssumption ==
    /\ MaxEpoch \in Nat \ {0}
    /\ MaxBoot \in Nat \ {0}
    /\ MaxFaults \in Nat
    /\ MaxVersion \in Nat \ {0}
    /\ Overlap \in BOOLEAN

Controllers == 1 .. MaxEpoch

\* The states of a PromptAttempt.
PreSubmission == {"Queued", "Reserved", "SessionStarting", "Planned"}
Submitted == {"Submitting", "SubmittedUnknown", "Accepted", "Running", "Settling"}
Terminal == {"Succeeded", "Failed", "Cancelled", "OutcomeUnknown"}
States == PreSubmission \cup Submitted \cup Terminal

\* The execution transitions the store accepts.
promptExecutionTransitions ==
    [s \in States |->
        CASE s = "Queued"           -> {"Reserved", "Failed", "Cancelled"}
          [] s = "Reserved"         -> {"SessionStarting", "Failed", "Cancelled"}
          [] s = "SessionStarting"  -> {"Planned", "Failed", "Cancelled"}
          [] s = "Planned"          -> {"Submitting", "Failed", "Cancelled"}
          [] s = "Submitting"       -> {"Accepted", "SubmittedUnknown", "Failed", "Cancelled"}
          [] s = "SubmittedUnknown" -> {"OutcomeUnknown"}
          [] s = "Accepted"         -> {"Running", "Settling", "Failed", "Cancelled", "OutcomeUnknown"}
          [] s = "Running"          -> {"Settling", "Failed", "Cancelled", "OutcomeUnknown"}
          [] s = "Settling"         -> {"Succeeded", "Failed", "Cancelled", "OutcomeUnknown"}
          [] OTHER                  -> {}]

VARIABLES
    epoch,      \* the controller epoch that is open
    att,        \* PromptAttempt: state, version, and whether a write ever landed
                \* after its epoch was superseded (ghost)
    task,       \* Task.status.execution: state, controllerEpoch, and the outcome
                \* once it is told together with the terminal phase
    proj,       \* the terminal projection in the outbox, or "none"
    delivered,  \* the outbox record has been applied and completed
    receipt,    \* a prompt result receipt is stored
    result,     \* the Task result is stored
    journal,    \* the prompt's lifecycle record in the event journal
    cancel,     \* the Task is being deleted, or its deadline has passed
    rt,         \* the supervisor: boot, controller epoch, prompt
    net,        \* prompt requests written but not yet handled
    answer,     \* the supervisor's answer to each controller
    accepts,    \* how often a supervisor accepted the prompt (ghost)
    faults,     \* injected faults so far
    proc        \* each controller's dispatch of this Task

vars == <<epoch, att, task, proj, delivered, receipt, result, journal, cancel,
          rt, net, answer, accepts, faults, proc>>

----------------------------------------------------------------------------
(* Process state. *)

\* pc    where the controller is in its handling of the Task
\* ver   the expected version of the write being made, 0 when none is
\* boot  the supervisor boot its runtime session is bound to
\* goal  the terminal state it is settling on
\* rec   it is recovering the Task of an earlier epoch
Idle == [pc |-> "idle", ver |-> 0, boot |-> 0, goal |-> "none", rec |-> FALSE]
Down == [Idle EXCEPT !.pc = "down"]

PCs == {"down", "idle", "reserve", "reserved", "start", "started", "plan", "planned",
        "session", "submit", "submitting", "send", "await", "accept", "run",
        "running", "stream", "broken", "receipt", "settle", "settling", "result", "lifecycle", "succeed",
        "succeeded", "requeue", "requeued", "unsent", "finish", "enqueue", "project",
        "recover", "readmit", "raise"}

settleOn(e, goal) == proc' = [proc EXCEPT ![e].pc = "finish", ![e].ver = 0, ![e].goal = goal]
drop(e) == proc' = [proc EXCEPT ![e] = Idle]
goto(e, pc) ==
    IF pc = "idle" THEN drop(e) ELSE proc' = [proc EXCEPT ![e].pc = pc, ![e].ver = 0]

\* An error ends the handling of the Task.  In the callback for the runtime's
\* acceptance event it ends the prompt stream instead.
abandon(e) ==
    IF proc[e].pc \in {"accept", "run", "running"} THEN goto(e, "broken") ELSE drop(e)

runtimeVars == <<rt, net, answer, accepts>>
recordVars == <<receipt, result, journal>>
outboxVars == <<proj, delivered>>

----------------------------------------------------------------------------
(* Reads and writes of the PromptAttempt. *)

\* A store call fails, or its answer is lost.
Fault == faults < MaxFaults /\ faults' = faults + 1

\* Mutant: the expected version is not compared.
MutantNoVersionCheck(e) == att.ver < MaxVersion

\* What is compared at the moment of a write is the expected version: the fence was
\* checked with the read, and the write may land after its epoch is superseded.
CanCommit(e) == att.ver = proc[e].ver /\ att.ver < MaxVersion

\* The read before a write: the attempt that already has the target state is
\* left alone, any state other than `from` is an error, and so is a stale fence.
ReadForTransition(e, from, to, next) ==
    /\ proc[e].ver = 0
    /\ \/ att.state = to /\ goto(e, next)
       \/ att.state \notin from \cup {to} /\ abandon(e)
       \/ /\ att.state \in from \ {to}
          /\ IF e = epoch
             THEN proc' = [proc EXCEPT ![e].ver = att.ver]
             ELSE abandon(e)
    /\ UNCHANGED <<att, faults>>

\* The compare-and-swap.
CommitTransition(e, to, next) ==
    /\ proc[e].ver # 0
    /\ \/ /\ CanCommit(e)
          /\ att' = [state |-> to, ver |-> att.ver + 1, late |-> att.late \/ e # epoch]
          /\ \/ goto(e, next) /\ UNCHANGED faults
             \/ abandon(e) /\ Fault
       \/ ~CanCommit(e) /\ abandon(e) /\ UNCHANGED <<att, faults>>
       \/ abandon(e) /\ Fault /\ UNCHANGED att

\* transitionAttempt: from one named state to the next.
transitionAttempt(e, here, from, to, next) ==
    /\ proc[e].pc = here
    /\ \/ ReadForTransition(e, {from}, to, next)
       \/ CommitTransition(e, to, next)
    /\ UNCHANGED <<epoch, task, outboxVars, recordVars, cancel, runtimeVars>>

\* patchExecution: no fence, no expected version, no look at the attempt.
patchExecution(e, here, state, next) ==
    /\ proc[e].pc = here
    /\ \/ /\ task' = [task EXCEPT !.state = state]
          /\ goto(e, next)
          /\ UNCHANGED faults
       \/ abandon(e) /\ Fault /\ UNCHANGED task
    /\ UNCHANGED <<epoch, att, outboxVars, recordVars, cancel, runtimeVars>>

\* The patches that also stamp the controller's epoch on the Task.
patchReserved(e, here, state, next) ==
    /\ proc[e].pc = here
    /\ \/ /\ task' = [task EXCEPT !.state = state, !.epoch = e]
          /\ goto(e, next)
          /\ UNCHANGED faults
       \/ drop(e) /\ Fault /\ UNCHANGED task
    /\ UNCHANGED <<epoch, att, outboxVars, recordVars, cancel, runtimeVars>>

----------------------------------------------------------------------------
(* Dispatch: from the queue to the request. *)

\* dispatchOnce and reserveTask: a Task of this epoch that is Queued or
\* Reserved.  A cancelled or expired Task is settled before admission, the
\* others need a runtime pool that admits this epoch.
PickUp(e) ==
    /\ proc[e].pc = "idle"
    /\ task.state \in {"Queued", "Reserved"}
    /\ task.epoch = e
    /\ \/ cancel /\ settleOn(e, "Cancelled")
       \/ ~cancel /\ rt.epoch = e /\ goto(e, "reserve")
    /\ UNCHANGED <<epoch, att, task, outboxVars, recordVars, cancel, runtimeVars, faults>>

\* preparePromptAttemptReservation: a Queued attempt is reserved, a Reserved one
\* is ready, one left ahead by an incomplete rollback is brought back when the
\* Task is still Reserved, and any other is not dispatched.
Reserve(e) ==
    /\ proc[e].pc = "reserve"
    /\ IF proc[e].ver = 0 /\ att.state \in {"SessionStarting", "Planned"}
       THEN /\ IF task.state = "Reserved" THEN goto(e, "requeue") ELSE drop(e)
            /\ UNCHANGED <<att, faults>>
       ELSE \/ ReadForTransition(e, {"Queued"}, "Reserved", "reserved")
            \/ CommitTransition(e, "Reserved", "reserved")
    /\ UNCHANGED <<epoch, task, outboxVars, recordVars, cancel, runtimeVars>>

Reserved(e) == patchReserved(e, "reserved", "Reserved", "start")

\* loadVerifiedACPDispatchExecution and the transition to SessionStarting.
StartSession(e) ==
    /\ proc[e].pc = "start" /\ proc[e].ver = 0 => att.state = "Reserved"
    /\ transitionAttempt(e, "start", "Reserved", "SessionStarting", "started")

VerifyFails(e) ==
    /\ proc[e].pc = "start" /\ proc[e].ver = 0 /\ att.state # "Reserved"
    /\ drop(e)
    /\ UNCHANGED <<epoch, att, task, outboxVars, recordVars, cancel, runtimeVars, faults>>

SessionStarted(e) == patchExecution(e, "started", "SessionStarting", "plan")
Plan(e) == transitionAttempt(e, "plan", "SessionStarting", "Planned", "planned")
Planned(e) == patchExecution(e, "planned", "Planned", "session")

\* The runtime session.  A cancelled Task is settled, a supervisor that is gone,
\* fenced or full sends the Task back to Reserved, a workspace that cannot be
\* prepared fails it.
CreateSession(e) ==
    /\ proc[e].pc = "session"
    /\ \/ cancel /\ settleOn(e, "Cancelled") /\ UNCHANGED faults
       \/ ~cancel /\ att.state # "Planned" /\ drop(e) /\ UNCHANGED faults
       \/ ~cancel /\ att.state = "Planned" /\ settleOn(e, "Failed") /\ UNCHANGED faults
       \/ /\ ~cancel /\ att.state = "Planned" /\ goto(e, "requeue")
          /\ IF rt.epoch = e THEN Fault ELSE UNCHANGED faults
       \/ /\ ~cancel /\ att.state = "Planned" /\ rt.epoch = e
          /\ proc' = [proc EXCEPT ![e].pc = "submit", ![e].boot = rt.boot]
          /\ UNCHANGED faults
    /\ UNCHANGED <<epoch, att, task, outboxVars, recordVars, cancel, runtimeVars>>

Submit(e) == transitionAttempt(e, "submit", "Planned", "Submitting", "submitting")
Submitting(e) == patchExecution(e, "submitting", "Submitting", "send")

\* requeuePreSubmissionTask, and the same step of recoverStaleTask: the attempt
\* goes back to Reserved unless it has passed Planned.
requeuePreSubmissionTask(e) ==
    /\ proc[e].pc = "requeue"
    /\ \/ ReadForTransition(e, {"SessionStarting", "Planned"}, "Reserved", "requeued")
       \/ CommitTransition(e, "Reserved", "requeued")
    /\ UNCHANGED <<epoch, task, outboxVars, recordVars, cancel, runtimeVars>>

Requeued(e) == patchReserved(e, "requeued", "Reserved", "idle")

----------------------------------------------------------------------------
(* The request and its answer. *)

\* The request is written to the connection of the bound supervisor boot.
SendPrompt(e) ==
    /\ proc[e].pc = "send"
    /\ net' = net \cup {[from |-> e, boot |-> proc[e].boot]}
    /\ answer' = [answer EXCEPT ![e] = "none"]
    /\ goto(e, "await")
    /\ UNCHANGED <<epoch, att, task, outboxVars, recordVars, cancel, rt, accepts, faults>>

\* No byte of the request was written.  A retryable transport error requeues
\* the attempt, any other settles it.
SendUnsent(e) ==
    /\ proc[e].pc = "send"
    /\ \/ cancel /\ settleOn(e, "Cancelled") /\ UNCHANGED faults
       \/ ~cancel /\ settleOn(e, "Failed") /\ Fault
       \/ ~cancel /\ goto(e, "unsent") /\ Fault
    /\ UNCHANGED <<epoch, att, task, outboxVars, recordVars, cancel, runtimeVars>>

\* requeueProvenNotAcceptedPromptAdmission.
requeueProvenNotAccepted(e) ==
    /\ proc[e].pc = "unsent"
    /\ \/ /\ proc[e].ver = 0
          /\ IF att.state = "Submitting" /\ e = epoch
             THEN proc' = [proc EXCEPT ![e].ver = att.ver]
             ELSE drop(e)
          /\ UNCHANGED <<att, faults>>
       \/ CommitTransition(e, "Reserved", "requeued")
    /\ UNCHANGED <<epoch, task, outboxVars, recordVars, cancel, runtimeVars>>

\* Mutant: the supervisor does not compare the request's fence with its own.
MutantNoRuntimeFence(r) == r \in net /\ rt.prompt = "idle"

\* handleStartPrompt: the supervisor compares the fence, then admits at most one
\* prompt per boot, and may be out of prompt slots.
RuntimeAccepts(r) ==
    /\ r.boot = rt.boot /\ r.from = rt.epoch
    /\ rt.prompt = "idle"

handleStartPrompt(r) ==
    /\ r \in net
    /\ net' = net \ {r}
    /\ \/ /\ RuntimeAccepts(r)
          /\ rt' = [rt EXCEPT !.prompt = "running"]
          /\ accepts' = accepts + 1
          /\ answer' = [answer EXCEPT ![r.from] = "accepted"]
          /\ UNCHANGED faults
       \/ /\ RuntimeAccepts(r)
          /\ answer' = [answer EXCEPT ![r.from] = "limited"]
          /\ Fault
          /\ UNCHANGED <<rt, accepts>>
       \/ /\ RuntimeAccepts(r)
          /\ answer' = [answer EXCEPT ![r.from] = "refused"]
          /\ Fault
          /\ UNCHANGED <<rt, accepts>>
       \/ /\ ~RuntimeAccepts(r)
          /\ answer' = [answer EXCEPT ![r.from] = "rejected"]
          /\ UNCHANGED <<rt, accepts, faults>>
    /\ UNCHANGED <<epoch, att, task, outboxVars, recordVars, cancel, proc>>

\* The journal records one acceptance and, after it, one terminal event.
appendAccepted == journal' = IF journal = "none" THEN "accepted" ELSE journal
appendTerminalIfAccepted(event) ==
    journal' = IF journal = "accepted" THEN event ELSE journal

\* The stream's first answer.  The acceptance event is journaled before the
\* attempt moves.  A full pool is waited out and the request sent again to the
\* same instance, a full external runtime requeues the attempt.  A supervisor
\* that proves it did not accept fails it.  Any other rejection is a stream error.
ObserveAnswer(e) ==
    /\ proc[e].pc = "await"
    /\ \/ /\ answer[e] = "accepted" /\ appendAccepted
          /\ goto(e, "accept")
       \/ /\ answer[e] = "limited"
          /\ \/ ~cancel /\ rt.boot = proc[e].boot /\ goto(e, "send")
             \/ ~cancel /\ goto(e, "unsent")
             \/ cancel /\ settleOn(e, "Cancelled")
             \/ ~cancel /\ rt.boot # proc[e].boot /\ settleOn(e, "Failed")
          /\ UNCHANGED journal
       \/ answer[e] = "refused" /\ settleOn(e, "Failed") /\ UNCHANGED journal
       \/ answer[e] = "rejected" /\ goto(e, "broken") /\ UNCHANGED journal
    /\ UNCHANGED <<epoch, att, task, outboxVars, receipt, result, cancel, runtimeVars, faults>>

Accept(e) == transitionAttempt(e, "accept", "Submitting", "Accepted", "run")
Run(e) == transitionAttempt(e, "run", "Accepted", "Running", "running")
Running(e) == patchExecution(e, "running", "Running", "stream")

\* The connection is lost or the Task's context ends, with the request written.
StreamBreaks(e) ==
    /\ proc[e].pc \in {"await", "stream"}
    /\ goto(e, "broken")
    /\ UNCHANGED <<epoch, att, task, outboxVars, recordVars, cancel, runtimeVars, faults>>

\* The bound supervisor boot still answers this controller.
Reachable(e) == rt.boot = proc[e].boot /\ rt.epoch = e

\* Mutant: a broken stream without a seen acceptance is taken for unsent.
MutantBreakIsUnsent(e) ==
    /\ proc[e].pc = "broken"
    /\ goto(e, "unsent")
    /\ UNCHANGED <<epoch, att, task, outboxVars, recordVars, cancel, runtimeVars, faults>>

\* handlePromptStreamError, once bytes were written.  Without a cancellation the
\* outcome is unknown.  With one the supervisor is asked to cancel: what it
\* proves is recorded, and what it cannot prove is unknown.  A journal that
\* cannot be written fails the attempt.
handlePromptStreamError(e) ==
    /\ proc[e].pc = "broken"
    /\ \/ /\ appendTerminalIfAccepted("unknown")
          /\ settleOn(e, "OutcomeUnknown")
          /\ UNCHANGED <<rt, faults>>
       \/ /\ cancel /\ Reachable(e) /\ rt.prompt # "idle"
          /\ LET settled == IF rt.prompt = "running" THEN "cancelled" ELSE rt.prompt
             IN /\ rt' = [rt EXCEPT !.prompt = settled]
                /\ appendTerminalIfAccepted(settled)
                /\ settleOn(e, CASE settled = "cancelled" -> "Cancelled"
                                 [] settled = "failed"    -> "Failed"
                                 [] OTHER                 -> "OutcomeUnknown")
          /\ UNCHANGED faults
       \/ settleOn(e, "Failed") /\ Fault /\ UNCHANGED <<journal, rt>>
    /\ UNCHANGED <<epoch, att, task, outboxVars, receipt, result, cancel, net, answer, accepts>>

\* The stream's terminal event.
ObserveTerminal(e) ==
    /\ proc[e].pc = "stream"
    /\ Reachable(e)
    /\ \/ /\ rt.prompt = "completed"
          /\ proc' = [proc EXCEPT ![e].pc = "receipt", ![e].goal = "Succeeded"]
          /\ UNCHANGED <<journal, faults>>
       \/ /\ rt.prompt \in {"failed", "cancelled"}
          /\ journal' = rt.prompt
          /\ settleOn(e, IF rt.prompt = "failed" THEN "Failed" ELSE "Cancelled")
          /\ UNCHANGED faults
       \/ /\ rt.prompt \in {"failed", "cancelled"}
          /\ settleOn(e, "Failed") /\ Fault /\ UNCHANGED journal
    /\ UNCHANGED <<epoch, att, task, outboxVars, receipt, result, cancel, runtimeVars>>

----------------------------------------------------------------------------
(* Settling a completed prompt. *)

\* transitionAttemptToSettlingWithResult: read, store the receipt, swap.
SaveReceipt(e) ==
    /\ proc[e].pc = "receipt"
    /\ \/ /\ receipt' = TRUE
          /\ IF att.state = "Running" /\ e = epoch
             THEN proc' = [proc EXCEPT ![e].pc = "settle", ![e].ver = att.ver]
             ELSE drop(e)
          /\ UNCHANGED faults
       \/ drop(e) /\ Fault /\ UNCHANGED receipt
    /\ UNCHANGED <<epoch, att, task, outboxVars, result, journal, cancel, runtimeVars>>

Settle(e) ==
    /\ proc[e].pc = "settle"
    /\ CommitTransition(e, "Settling", IF proc[e].rec THEN "succeed" ELSE "settling")
    /\ UNCHANGED <<epoch, task, outboxVars, recordVars, cancel, runtimeVars>>

Settling(e) == patchExecution(e, "settling", "Settling", "result")

\* persistTaskResult; the buffered output is flushed first.
SaveResult(e) ==
    /\ proc[e].pc = "result"
    /\ \/ result' = TRUE /\ goto(e, "lifecycle") /\ UNCHANGED faults
       \/ settleOn(e, "Failed") /\ Fault /\ UNCHANGED result
       \/ drop(e) /\ Fault /\ result' \in {result, TRUE}
    /\ UNCHANGED <<epoch, att, task, outboxVars, receipt, journal, cancel, runtimeVars>>

\* The terminal event is journaled after the result is stored.
JournalCompleted(e) ==
    /\ proc[e].pc = "lifecycle"
    /\ \/ journal' = "completed" /\ goto(e, "succeed") /\ UNCHANGED faults
       \/ settleOn(e, "Failed") /\ Fault /\ UNCHANGED journal
    /\ UNCHANGED <<epoch, att, task, outboxVars, receipt, result, cancel, runtimeVars>>

Succeed(e) ==
    transitionAttempt(e, "succeed", "Settling", "Succeeded",
                      IF proc[e].rec THEN "enqueue" ELSE "succeeded")

Succeeded(e) == patchExecution(e, "succeeded", "Succeeded", "enqueue")

----------------------------------------------------------------------------
(* Settling a prompt that did not complete. *)

\* transitionAttemptToTerminal and persistOutcomeUnknown.  The second goes
\* through SubmittedUnknown, and leaves an attempt alone that is not past
\* Submitting or already terminal.
FinishTarget(e) ==
    IF proc[e].goal = "OutcomeUnknown" /\ att.state = "Submitting"
    THEN "SubmittedUnknown"
    ELSE proc[e].goal

Finish(e) ==
    /\ proc[e].pc = "finish"
    /\ \/ /\ proc[e].ver = 0
          /\ IF FinishTarget(e) \in promptExecutionTransitions[att.state]
             THEN IF e = epoch
                  THEN proc' = [proc EXCEPT ![e].ver = att.ver]
                  ELSE drop(e)
             ELSE \/ /\ att.state = proc[e].goal \/ proc[e].goal = "OutcomeUnknown"
                     /\ goto(e, "enqueue")
                  \/ proc[e].goal # "OutcomeUnknown" /\ drop(e)
          /\ UNCHANGED <<att, faults>>
       \/ CommitTransition(e, FinishTarget(e),
             IF FinishTarget(e) = "SubmittedUnknown" THEN "finish" ELSE "enqueue")
    /\ UNCHANGED <<epoch, task, outboxVars, recordVars, cancel, runtimeVars>>

\* Mutant: the projection is written without the epoch fence.
MutantUnfencedProjection(e) ==
    /\ proc[e].pc = "enqueue"
    /\ proj \in {"none", proc[e].goal}
    /\ proj' = proc[e].goal
    /\ goto(e, "project")
    /\ UNCHANGED <<epoch, att, task, delivered, recordVars, cancel, runtimeVars, faults>>

\* enqueueStandaloneTaskProjection: the first projection stays, an equal one is
\* accepted, a different one is a conflict, and a new one is fenced.
EnqueueProjection(e) ==
    /\ proc[e].pc = "enqueue"
    /\ \/ proj = proc[e].goal /\ goto(e, "project") /\ UNCHANGED <<proj, faults>>
       \/ proj \notin {"none", proc[e].goal} /\ drop(e) /\ UNCHANGED <<proj, faults>>
       \/ /\ proj = "none" /\ e = epoch
          /\ proj' = proc[e].goal
          /\ \/ goto(e, "project") /\ UNCHANGED faults
             \/ drop(e) /\ Fault
       \/ proj = "none" /\ e # epoch /\ drop(e) /\ UNCHANGED <<proj, faults>>
       \/ drop(e) /\ Fault /\ UNCHANGED proj
    /\ UNCHANGED <<epoch, att, task, delivered, recordVars, cancel, runtimeVars>>

\* The status patch of failTaskWithProjection and completeSuccessWithDelivery.
ProjectTask(e) ==
    /\ proc[e].pc = "project"
    /\ \/ /\ task' = [task EXCEPT !.state = proc[e].goal, !.outcome = proc[e].goal]
          /\ IF proc[e].rec /\ proc[e].goal = "Succeeded"
             THEN goto(e, "raise") ELSE drop(e)
          /\ UNCHANGED faults
       \/ drop(e) /\ Fault /\ UNCHANGED task
    /\ UNCHANGED <<epoch, att, outboxVars, recordVars, cancel, runtimeVars>>

\* The outbox projector applies a pending projection to the Task and completes
\* it; a lost completion leaves it pending.
DeliverProjection(e) ==
    /\ e = epoch /\ proc[e].pc # "down"
    /\ proj # "none" /\ ~delivered
    /\ task' = [task EXCEPT !.state = proj, !.outcome = proj]
    /\ \/ delivered' = TRUE /\ UNCHANGED faults
       \/ UNCHANGED delivered /\ Fault
    /\ UNCHANGED <<epoch, att, proj, recordVars, cancel, runtimeVars, proc>>

----------------------------------------------------------------------------
(* Recovery. *)

\* The stale scan: a Task stamped with an earlier epoch.
RecoverStale(e) ==
    /\ proc[e].pc = "idle"
    /\ task.epoch < e
    /\ proc' = [proc EXCEPT ![e].pc = "recover", ![e].rec = TRUE]
    /\ UNCHANGED <<epoch, att, task, outboxVars, recordVars, cancel, runtimeVars, faults>>

\* Mutant: an accepted prompt is taken for a completed one.
MutantAcceptedIsCompleted == IF journal = "accepted" THEN "completed" ELSE journal

\* What the journal, the receipt and the result prove of a prompt that is past
\* its request-write boundary.
Evidence ==
    CASE journal \in {"failed", "cancelled", "unknown"} -> journal
      [] journal = "completed" -> IF result THEN "completed" ELSE "none"
      [] journal = "accepted" /\ att.state = "Settling" /\ receipt -> "receipt"
      [] OTHER -> "none"

\* recoverStaleTask for an attempt that is past the boundary: the proven outcome,
\* or OutcomeUnknown; never the queue.
RecoverSubmitted(e) ==
    /\ att.state \in Submitted
    /\ LET completed == /\ Evidence \in {"completed", "receipt"}
                        /\ att.state \in {"Accepted", "Running", "Settling"}
       IN \/ /\ completed
             /\ IF att.state = "Settling"
                THEN proc' = [proc EXCEPT ![e].pc = "succeed", ![e].goal = "Succeeded"]
                ELSE IF e = epoch
                     THEN proc' = [proc EXCEPT ![e].pc = "settle", ![e].ver = att.ver, ![e].goal = "Succeeded"]
                     ELSE drop(e)
             /\ result' = TRUE
             /\ journal' = "completed"
          \/ /\ ~completed
             /\ settleOn(e, CASE Evidence = "failed"    -> "Failed"
                              [] Evidence = "cancelled" -> "Cancelled"
                              [] OTHER                  -> "OutcomeUnknown")
             /\ appendTerminalIfAccepted("unknown")
             /\ UNCHANGED result

\* recoverStaleTask.
recoverStaleTask(e) ==
    /\ proc[e].pc = "recover"
    /\ \/ /\ att.state \in {"Queued", "Reserved"}
          /\ proc' = [proc EXCEPT ![e].pc = "readmit", ![e].goal = att.state]
          /\ UNCHANGED <<result, journal>>
       \/ /\ att.state \in {"SessionStarting", "Planned"}
          /\ IF e = epoch
             THEN proc' = [proc EXCEPT ![e].pc = "requeue", ![e].ver = att.ver]
             ELSE drop(e)
          /\ UNCHANGED <<result, journal>>
       \/ RecoverSubmitted(e)
       \/ /\ att.state \in Terminal
          /\ CASE proj = att.state -> goto(e, "raise")
               [] proj \notin {"none", att.state} -> drop(e)
               [] att.state = "Succeeded" /\ ~result -> drop(e)
               [] OTHER -> proc' = [proc EXCEPT ![e].pc = "enqueue", ![e].goal = att.state]
          /\ UNCHANGED <<result, journal>>
    /\ UNCHANGED <<epoch, att, task, outboxVars, receipt, cancel, runtimeVars, faults>>

\* Mutant: the readmitted Task keeps its old epoch.
MutantEpochKept(e) == patchExecution(e, "readmit", proc[e].goal, "idle")

\* patchRecoveredTaskReserved: the Task is admitted again under this epoch.
Readmit(e) == patchReserved(e, "readmit", proc[e].goal, "idle")

\* patchRecoveredTerminalEpoch.
RaiseEpoch(e) ==
    /\ proc[e].pc = "raise"
    /\ task' = [task EXCEPT !.epoch = IF @ < e THEN e ELSE @]
    /\ drop(e)
    /\ UNCHANGED <<epoch, att, outboxVars, recordVars, cancel, runtimeVars, faults>>

\* scheduleACPDeliveryRecoveries: a Task of this epoch whose attempt is terminal
\* while the Task does not tell so.  A success is projected unless its projection
\* exists; for the others only the epoch is stamped.
RecoverTerminal(e) ==
    /\ proc[e].pc = "idle"
    /\ task.epoch >= e
    /\ att.state \in Terminal /\ (task.state # att.state \/ task.outcome = "none")
    /\ \/ /\ att.state = "Succeeded" /\ result /\ proj = "none"
          /\ proc' = [proc EXCEPT ![e].pc = "enqueue", ![e].goal = "Succeeded"]
          /\ UNCHANGED task
       \/ /\ att.state # "Succeeded"
          /\ task' = [task EXCEPT !.epoch = e]
          /\ UNCHANGED proc
    /\ UNCHANGED <<epoch, att, outboxVars, recordVars, cancel, runtimeVars, faults>>

----------------------------------------------------------------------------
(* The environment. *)

\* The Task is deleted, or its deadline passes.
RequestCancel ==
    /\ ~cancel /\ cancel' = TRUE
    /\ UNCHANGED <<epoch, att, task, outboxVars, recordVars, runtimeVars, faults, proc>>

\* The prompt ends in the runtime.
RuntimeFinish ==
    /\ rt.prompt = "running"
    /\ \E outcome \in {"completed", "failed"} : rt' = [rt EXCEPT !.prompt = outcome]
    /\ UNCHANGED <<epoch, att, task, outboxVars, recordVars, cancel, net, answer, accepts, faults, proc>>

\* The supervisor's pod is replaced: the old boot is gone before the new one,
\* bound to the open epoch, exists.  A boot is kept for every later epoch.
RuntimeReplace ==
    /\ rt.boot < MaxBoot
    /\ rt.epoch # epoch \/ rt.boot + (MaxEpoch - epoch) < MaxBoot
    /\ rt' = [boot |-> rt.boot + 1, epoch |-> epoch, prompt |-> "idle"]
    /\ UNCHANGED <<epoch, att, task, outboxVars, recordVars, cancel, net, answer, accepts, faults, proc>>

\* A controller opens the next epoch; the one before it may still be running.
Takeover ==
    /\ epoch < MaxEpoch
    /\ Overlap \/ proc[epoch].pc = "down"
    /\ epoch' = epoch + 1
    /\ proc' = [proc EXCEPT ![epoch + 1] = Idle]
    /\ UNCHANGED <<att, task, outboxVars, recordVars, cancel, runtimeVars, faults>>

\* A controller dies; the last one does not.
Crash(e) ==
    /\ e < MaxEpoch
    /\ proc[e].pc # "down"
    /\ proc' = [proc EXCEPT ![e] = Down]
    /\ UNCHANGED <<epoch, att, task, outboxVars, recordVars, cancel, runtimeVars, faults>>

----------------------------------------------------------------------------
(* The specification. *)

\* queueACPRuntimeTask has created the attempt and queued the Task.
Init ==
    /\ epoch = 1
    /\ att = [state |-> "Queued", ver |-> 1, late |-> FALSE]
    /\ task = [state |-> "Queued", epoch |-> 1, outcome |-> "none"]
    /\ proj = "none" /\ delivered = FALSE
    /\ receipt = FALSE /\ result = FALSE /\ journal = "none"
    /\ cancel = FALSE
    /\ rt = [boot |-> 1, epoch |-> 1, prompt |-> "idle"]
    /\ net = {} /\ answer = [e \in Controllers |-> "none"]
    /\ accepts = 0 /\ faults = 0
    /\ proc = [e \in Controllers |-> IF e = 1 THEN Idle ELSE Down]

Dispatch(e) ==
    \/ PickUp(e) \/ Reserve(e) \/ Reserved(e) \/ StartSession(e) \/ VerifyFails(e)
    \/ SessionStarted(e) \/ Plan(e) \/ Planned(e) \/ CreateSession(e)
    \/ Submit(e) \/ Submitting(e) \/ requeuePreSubmissionTask(e) \/ Requeued(e)
    \/ SendPrompt(e) \/ SendUnsent(e) \/ requeueProvenNotAccepted(e)
    \/ ObserveAnswer(e) \/ Accept(e) \/ Run(e) \/ Running(e)
    \/ StreamBreaks(e) \/ handlePromptStreamError(e) \/ ObserveTerminal(e)

Settlement(e) ==
    \/ SaveReceipt(e) \/ Settle(e) \/ Settling(e) \/ SaveResult(e)
    \/ JournalCompleted(e) \/ Succeed(e) \/ Succeeded(e)
    \/ Finish(e) \/ EnqueueProjection(e) \/ ProjectTask(e) \/ DeliverProjection(e)

Recovery(e) ==
    \/ RecoverStale(e) \/ recoverStaleTask(e) \/ Readmit(e) \/ RaiseEpoch(e)
    \/ RecoverTerminal(e)

Step(e) == Dispatch(e) \/ Settlement(e) \/ Recovery(e)

Next ==
    \/ \E e \in Controllers : Step(e) \/ Crash(e)
    \/ \E r \in net : handleStartPrompt(r)
    \/ RequestCancel \/ RuntimeFinish \/ RuntimeReplace \/ Takeover

Spec == Init /\ [][Next]_vars

\* Controllers run their dispatch and outbox goroutines, the supervisor answers
\* and ends its prompts, a dead leader is replaced, one that lost its lease
\* exits, and the pool rolls its supervisor to a new epoch.
FairSpec ==
    /\ Spec
    /\ \A e \in Controllers : WF_vars(Step(e)) /\ WF_vars(DeliverProjection(e))
    /\ \A e \in Controllers : WF_vars(e # epoch /\ Crash(e))
    /\ WF_vars(\E r \in net : handleStartPrompt(r))
    /\ WF_vars(RuntimeFinish)
    /\ WF_vars(rt.epoch # epoch /\ RuntimeReplace)
    /\ WF_vars(proc[epoch].pc = "down" /\ Takeover)

----------------------------------------------------------------------------
(* Properties. *)

\* The shape of the state.
TypeOK ==
    /\ epoch \in Controllers
    /\ att \in [state : States, ver : 1 .. MaxVersion, late : BOOLEAN]
    /\ task \in [state : States, epoch : Controllers, outcome : Terminal \cup {"none"}]
    /\ proj \in Terminal \cup {"none"}
    /\ delivered \in BOOLEAN /\ receipt \in BOOLEAN /\ result \in BOOLEAN /\ cancel \in BOOLEAN
    /\ journal \in {"none", "accepted", "completed", "failed", "cancelled", "unknown"}
    /\ rt \in [boot : 1 .. MaxBoot, epoch : Controllers,
               prompt : {"idle", "running", "completed", "failed", "cancelled"}]
    /\ net \subseteq [from : Controllers, boot : 0 .. MaxBoot]
    /\ answer \in [Controllers -> {"none", "accepted", "limited", "refused", "rejected"}]
    /\ accepts \in Nat
    /\ faults \in 0 .. MaxFaults
    /\ proc \in [Controllers ->
         [pc : PCs, ver : 0 .. MaxVersion, boot : 0 .. MaxBoot,
          goal : Terminal \cup {"none", "Queued", "Reserved"}, rec : BOOLEAN]]

\* "A prompt that may have been accepted is never automatically replayed": over
\* every takeover, crash, requeue and supervisor replacement, at most one
\* supervisor boot ever accepts the prompt.
AcceptedOnce == accepts <= 1

\* The same promise one step earlier: while a request that could still be
\* accepted is on its way, or after one was, the durable attempt is past the
\* request-write boundary, so that no controller will take it for unsent.
NeverBackInQueue ==
    accepts > 0 \/ (\E r \in net : RuntimeAccepts(r)) => att.state \notin PreSubmission

\* The Task, and the outbox record the reclamation of the attempt relies on, tell
\* the outcome the attempt has, as long as no write landed after its epoch was
\* superseded; a superseded controller may otherwise do what it likes.
ProjectionAgrees ==
    ~att.late => /\ proj # "none" => proj = att.state
                 /\ task.outcome # "none" => task.outcome = att.state

\* A success is backed by an accepted prompt, a stored receipt and a stored
\* result, also when a recovery concluded it.
SuccessIsReal == att.state = "Succeeded" => accepts = 1 /\ receipt /\ result

\* Whatever controllers and supervisors die, the Task is settled in the end and
\* carries the open epoch, if no store call fails and a controller is gone
\* before the next one starts.
TaskSettles == <>[](task.outcome # "none" /\ task.epoch = epoch)

\* A settled attempt is never written again, whoever still holds a write to it.
TerminalStays == [][att.state \in Terminal => att' = att]_vars

=============================================================================
