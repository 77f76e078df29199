------------------------- MODULE WorkspaceAttachment -------------------------
(***************************************************************************)
(* The one-writer attachment of a Session's execution workspace.           *)
(*                                                                         *)
(* Tasks of a Session share a workspace object.  A Task attaches by taking *)
(* a Lease, creating a Secret with a fresh bearer token for the next       *)
(* attachment epoch, renewing the Lease as a fence and patching the        *)
(* workspace, in this order; a Task that has ended revokes its attachment, *)
(* waits until the provider's adapter has released the epoch, deletes the  *)
(* Secret and the Lease and suspends the workspace for the next Task.      *)
(*                                                                         *)
(* A worker is one reconciliation of one Task.  Each call to the API       *)
(* server is a step; a controller may stop, or be replaced by another that *)
(* reconciles the same Task, after any of them.  A patch of the workspace  *)
(* is optimistic: it fails unless the worker's copy is still current.      *)
(* Bearers are numbered; a digest is the number of its bearer.             *)
(***************************************************************************)
EXTENDS Integers, FiniteSets

CONSTANTS
    NumTasks,       \* bound: Tasks of the Session
    Workers,        \* reconciliations that can be under way at a time
    MaxEpoch,       \* bound: attachment epochs
    MaxBearers,     \* bound: bearers, each with its Secret
    MaxFaults,      \* bound: failed calls, stopped reconciliations, overlapping leaders, expiries
    Cold            \* what the adapter reports of a workspace that has no compute yet

Tasks == 1 .. NumTasks
Epochs == 1 .. MaxEpoch

ASSUME AttachmentAssumption ==
    /\ NumTasks \in Nat /\ MaxEpoch \in Nat /\ MaxBearers \in Nat
    /\ MaxFaults \in Nat /\ Cold \subseteq {"Ready", "Pending"}

VARIABLES
    ws,             \* the ExecutionWorkspace, its annotations and its status
    lease,          \* the attachment Lease
    secret,         \* the bearer in each epoch's Secret; 0 when there is none
    task,           \* what each Task carries: ended, recorded epoch, settled
    wk,             \* the workers
    fresh,          \* the workers whose copy of the workspace is current
    strayed,        \* history: reconciliations of one Task overlapped, or a Lease ran out
    granted,        \* history: the Task and the digest first published under each epoch
    bearers, faults

vars == <<ws, lease, secret, task, wk, fresh, strayed, granted, bearers, faults>>

NoAtt == [task |-> 0, epoch |-> 0, digest |-> 0, expired |-> FALSE]
NoLease == [holder |-> 0, epoch |-> 0, expired |-> FALSE]
Idle == [pc |-> "idle", task |-> 0, epoch |-> 0, digest |-> 0, claimed |-> FALSE, keep |-> FALSE, plan |-> "none"]

Init ==
    /\ \E s \in Cold :
         ws = [att |-> NoAtt, epoch |-> 0, desired |-> "Ready", stamp |-> 0, receipt |-> <<0, 0>>, demand |-> 0,
               attached |-> 0, state |-> s, seen |-> TRUE]
    /\ lease = NoLease
    /\ secret = [e \in Epochs |-> 0]
    /\ task = [t \in Tasks |-> [ended |-> FALSE, epoch |-> 0, settled |-> FALSE]]
    /\ wk = [w \in Workers |-> Idle]
    /\ fresh = {} /\ strayed = FALSE
    /\ granted = [e \in Epochs |-> [task |-> 0, digest |-> 0]]
    /\ bearers = 0 /\ faults = 0

At(w, pc) == wk[w].pc = pc
Task(w) == wk[w].task
Goes(w, pc) == wk' = [wk EXCEPT ![w] = [@ EXCEPT !.pc = pc]]
Fault == faults < MaxFaults /\ faults' = faults + 1

\* Reads give the worker a current copy; any write makes the others' copies stale.
Reads(w) == fresh' = fresh \cup {w}
Writes(w, new) == ws' = new /\ fresh' = {w}
WritesLast(new) == ws' = new /\ fresh' = {}
Idles(w) == wk' = [wk EXCEPT ![w] = Idle]
Stops(w) == Idles(w) /\ fresh' = fresh \ {w}

----------------------------------------------------------------------------
(* WorkspaceAttachmentManager. *)

\* WorkspaceReusable and validateWorkspaceAttachmentAttempt: a detached workspace whose
\* status is up to date, or the same Task's own expired and enforced attachment.
MutantReusable == ws.att = NoAtt /\ ws.desired \in {"Ready", "Suspended"}
Reusable == ws.att = NoAtt /\ ws.seen /\ ws.state \in {"Ready", "Suspended"} /\ ws.desired \in {"Ready", "Suspended"}
Stamped == ws.epoch > 0 /\ ws.stamp = ws.epoch

\* An external provider provides no compute before an attachment is acknowledged: a new
\* workspace, or a stopped one that was resumed, is attached while it is Pending.
Handshake == ws.att = NoAtt /\ ws.seen /\ ws.desired = "Ready" /\ ws.state = "Pending" /\ ~Stamped
Rotatable(t) ==
    /\ ws.att.task = t /\ ws.att.expired /\ ws.seen /\ ws.desired = "Ready"
    /\ ws.epoch = ws.att.epoch /\ ws.attached = ws.att.epoch
Valid(t) == IF ws.att = NoAtt THEN Reusable \/ Handshake ELSE Rotatable(t)

Highest(S) == CHOOSE x \in S : \A y \in S : y <= x
MutantNextWorkspaceAttachmentEpoch == Highest({ws.att.epoch, ws.attached}) + 1
nextWorkspaceAttachmentEpoch == Highest({ws.epoch, ws.att.epoch, ws.attached}) + 1

MutantEpochsLeft == TRUE
EpochsLeft == nextWorkspaceAttachmentEpoch <= MaxEpoch

\* Free, expired, or held by the same Task.
LeaseFits(t) == lease.holder \in {0, t} \/ lease.expired
acquireLease(w) ==
    /\ At(w, "lease")
    /\ IF LeaseFits(Task(w))
       THEN /\ lease' = [lease EXCEPT !.holder = Task(w), !.expired = FALSE]
            /\ wk' = [wk EXCEPT ![w] = [@ EXCEPT !.pc = "read", !.claimed = lease.holder # Task(w) \/ lease.expired]]
            /\ UNCHANGED fresh
       ELSE Stops(w) /\ UNCHANGED lease
    /\ UNCHANGED <<ws, secret, task, granted, bearers, faults>>

\* The epochs, MaxEpoch of them here, can run out.
readWorkspace(w) ==
    /\ At(w, "read")
    /\ \/ /\ Valid(Task(w)) /\ EpochsLeft
          /\ wk' = [wk EXCEPT ![w] = [@ EXCEPT !.pc = "secret", !.epoch = nextWorkspaceAttachmentEpoch]]
          /\ UNCHANGED faults
       \/ ~(Valid(Task(w)) /\ EpochsLeft) /\ Goes(w, "clean") /\ UNCHANGED faults
       \/ Goes(w, "clean") /\ Fault
    /\ UNCHANGED <<ws, lease, secret, task, fresh, granted, bearers>>

\* A Secret that an earlier attempt left for this epoch is recovered with its bearer.
createSecret(w) ==
    LET e == wk[w].epoch IN
    /\ At(w, "secret")
    /\ \/ /\ secret[e] = 0 /\ bearers < MaxBearers
          /\ bearers' = bearers + 1 /\ secret' = [secret EXCEPT ![e] = bearers']
          /\ wk' = [wk EXCEPT ![w] = [@ EXCEPT !.pc = "fence", !.digest = bearers']]
          /\ UNCHANGED faults
       \/ /\ secret[e] # 0 /\ wk' = [wk EXCEPT ![w] = [@ EXCEPT !.pc = "fence", !.digest = secret[e]]]
          /\ UNCHANGED <<secret, bearers, faults>>
       \/ Goes(w, "clean") /\ Fault /\ UNCHANGED <<secret, bearers>>
    /\ UNCHANGED <<ws, lease, task, fresh, granted>>

\* Each round of the loop reads the workspace again.
revalidate(w) ==
    /\ At(w, "fence")
    /\ \/ /\ Valid(Task(w)) /\ nextWorkspaceAttachmentEpoch = wk[w].epoch
          /\ Goes(w, "renew") /\ Reads(w) /\ UNCHANGED faults
       \/ /\ ~(Valid(Task(w)) /\ nextWorkspaceAttachmentEpoch = wk[w].epoch)
          /\ Goes(w, "clean") /\ UNCHANGED <<fresh, faults>>
       \/ Goes(w, "clean") /\ Fault /\ UNCHANGED fresh
    /\ UNCHANGED <<ws, lease, secret, task, granted, bearers>>

\* An attempt that lost the Lease, or cannot tell, leaves its Secret to the holder.
Unfenced(w) == wk' = [wk EXCEPT ![w] = [@ EXCEPT !.pc = "clean", !.keep = TRUE]]
renewAttachmentLeaseFence(w) ==
    /\ At(w, "renew")
    /\ \/ /\ lease.holder = Task(w) /\ ~lease.expired /\ lease' = [lease EXCEPT !.epoch = wk[w].epoch]
          /\ (Goes(w, "patch") /\ UNCHANGED faults) \/ (Unfenced(w) /\ Fault)
       \/ ~(lease.holder = Task(w) /\ ~lease.expired) /\ Unfenced(w) /\ UNCHANGED <<lease, faults>>
       \/ Unfenced(w) /\ Fault /\ UNCHANGED lease
    /\ UNCHANGED <<ws, secret, task, fresh, granted, bearers>>

Attached(w) ==
    [ws EXCEPT !.att = [task |-> Task(w), epoch |-> wk[w].epoch, digest |-> wk[w].digest, expired |-> FALSE],
               !.epoch = wk[w].epoch, !.desired = "Ready", !.seen = FALSE]

\* A conflict starts another round; an answer that is lost after the write is a failure to
\* the worker.  A rotation goes on to delete the expired bearer.
PatchFits(w) == w \in fresh
patchAttachment(w) ==
    LET e == wk[w].epoch IN
    /\ At(w, "patch")
    /\ \/ /\ PatchFits(w) /\ Writes(w, Attached(w))
          /\ granted' = IF granted[e].task = 0
                        THEN [granted EXCEPT ![e] = [task |-> Task(w), digest |-> wk[w].digest]] ELSE granted
          /\ \/ Goes(w, IF ws.att = NoAtt THEN "record" ELSE "drop") /\ UNCHANGED faults
             \/ Goes(w, "clean") /\ Fault
       \/ ~PatchFits(w) /\ Goes(w, "fence") /\ UNCHANGED <<ws, fresh, granted, faults>>
       \/ Goes(w, "clean") /\ Fault /\ UNCHANGED <<ws, fresh, granted>>
    /\ UNCHANGED <<lease, secret, task, bearers>>

\* cleanupFailedAttachmentAttempt: the Secret of a published attachment stays.
cleanupReads(w) ==
    LET active == ws.att # NoAtt /\ wk[w].digest # 0 /\ ~wk[w].keep /\ ws.att.epoch = wk[w].epoch IN
    /\ At(w, "clean")
    /\ IF active THEN Stops(w)
       ELSE /\ wk' = [wk EXCEPT ![w] =
                       [@ EXCEPT !.pc = IF wk[w].digest # 0 /\ ~wk[w].keep THEN "unsecret" ELSE "unlease",
                                 !.claimed = wk[w].claimed /\ ws.att = NoAtt]]
            /\ UNCHANGED fresh
    /\ UNCHANGED <<ws, lease, secret, task, granted, bearers, faults>>

cleanupSecret(w) ==
    LET e == wk[w].epoch IN
    /\ At(w, "unsecret")
    /\ secret' = IF secret[e] = wk[w].digest THEN [secret EXCEPT ![e] = 0] ELSE secret
    /\ Goes(w, "unlease")
    /\ UNCHANGED <<ws, lease, task, fresh, granted, bearers, faults>>

cleanupLease(w) ==
    /\ At(w, "unlease")
    /\ lease' = IF wk[w].claimed /\ lease.holder = Task(w) THEN NoLease ELSE lease
    /\ Stops(w)
    /\ UNCHANGED <<ws, secret, task, granted, bearers, faults>>

----------------------------------------------------------------------------
(* ensureACPClassWorkspace: a Task that has not ended. *)

\* A controller reconciles a Task once at a time; one that is being replaced may still be at it.
Takes(w, t) ==
    /\ At(w, "idle")
    /\ IF \E v \in Workers : wk[v].task = t THEN Fault /\ strayed' = TRUE ELSE UNCHANGED <<faults, strayed>>
Waiting(w, t) == Takes(w, t) /\ ~task[t].ended
Begins(w, t, pc) == wk' = [wk EXCEPT ![w] = [Idle EXCEPT !.pc = pc, !.task = t]]

\* A suspended workspace is resumed; demand is recorded while it is still suspending.
resumeWorkspace(w, t) ==
    /\ Waiting(w, t) /\ ws.desired = "Suspended"
    /\ IF ws.state = "Suspended"
       THEN WritesLast([ws EXCEPT !.desired = "Ready", !.demand = t, !.seen = FALSE])
       ELSE ws.demand # t /\ WritesLast([ws EXCEPT !.demand = t])
    /\ UNCHANGED <<lease, secret, task, wk, granted, bearers>>

\* A detached workspace with no settlement pending, or the Task's own expired attachment.
Attachable(t) ==
    /\ ws.desired = "Ready" /\ ws.seen /\ Valid(t)
    /\ ws.att = NoAtt => ~Stamped
beginAttach(w, t) ==
    /\ Waiting(w, t) /\ Attachable(t) /\ Begins(w, t, "lease")
    /\ UNCHANGED <<ws, lease, secret, task, fresh, granted, bearers>>

\* Attached and enforced: the previous bearer, the old stamp and the demand are cleared and
\* the epoch is recorded on the Task.  A pass that would change nothing is left out.
Adoptable(t) == ws.att.task = t /\ ws.seen /\ ws.attached = ws.att.epoch /\ ~ws.att.expired
adoptAttachment(w, t) ==
    LET e == ws.att.epoch IN
    /\ Waiting(w, t) /\ Adoptable(t)
    /\ ws.stamp # 0 \/ ws.demand # 0 \/ task[t].epoch # e \/ (e > 1 /\ secret[e - 1] # 0)
    /\ secret' = IF e > 1 THEN [secret EXCEPT ![e - 1] = 0] ELSE secret
    /\ wk' = [wk EXCEPT ![w] = [Idle EXCEPT !.pc = "adopt", !.task = t, !.epoch = e]] /\ Reads(w)
    /\ UNCHANGED <<ws, lease, task, granted, bearers>>

recordACPWorkspaceDetachAction(w) ==
    /\ At(w, "adopt")
    /\ IF w \in fresh
       THEN Writes(w, [ws EXCEPT !.stamp = 0, !.demand = 0]) /\ Goes(w, "record")
       ELSE Stops(w) /\ UNCHANGED ws
    /\ UNCHANGED <<lease, secret, task, granted, bearers, faults>>

markACPTaskAttachmentEpoch(w) ==
    /\ At(w, "record")
    /\ task' = [task EXCEPT ![Task(w)].epoch = wk[w].epoch] /\ Stops(w)
    /\ UNCHANGED <<ws, lease, secret, granted, bearers, faults>>

\* The end of a rotation: the expired bearer is deleted.
dropExpiredBearer(w) ==
    /\ At(w, "drop")
    /\ secret' = [secret EXCEPT ![wk[w].epoch - 1] = 0] /\ Stops(w)
    /\ UNCHANGED <<ws, lease, task, granted, bearers, faults>>

----------------------------------------------------------------------------
(* settleACPClassWorkspace: a Task that has ended and whose frozen action is Suspend. *)

MutantReceiptCoversTask(t) == ws.receipt[1] = t \/ ws.receipt[2] > 0
acpWorkspaceSettlementReceiptCoversTask(t) ==
    \/ ws.receipt[1] = t
    \/ ws.receipt[2] > 0 /\ (task[t].epoch = 0 \/ ws.receipt[2] >= task[t].epoch)

Covered(t) == ws.att.task # t /\ ws.demand # t /\ acpWorkspaceSettlementReceiptCoversTask(t)
ByOther(t) == ws.att # NoAtt /\ ws.att.task # t

\* The receipt of a workspace that is suspended already never moves backward.
Receipted(t) == IF ws.receipt[1] # t /\ ws.receipt[2] <= task[t].epoch THEN [ws EXCEPT !.receipt = <<t, task[t].epoch>>] ELSE ws

\* What is left to do once the attachment is revoked depends on the copy the pass reads here.
DetachPlan(t) ==
    CASE ws.desired = "Quarantined" -> "credentials"
      [] ws.desired = "Suspended" /\ Receipted(t) = ws -> "mark"
      [] OTHER -> "patch"

\* The Task is marked, or its live epoch is recorded before anything is revoked.
settleACPClassWorkspace(w, t) ==
    /\ Takes(w, t) /\ task[t].ended /\ ~task[t].settled
    /\ IF Covered(t) \/ ByOther(t)
       THEN task' = [task EXCEPT ![t].settled = TRUE] /\ UNCHANGED <<wk, fresh>>
       ELSE /\ task' = IF ws.att # NoAtt THEN [task EXCEPT ![t].epoch = ws.att.epoch] ELSE task
            /\ wk' = [wk EXCEPT ![w] = [Idle EXCEPT !.pc = IF ws.epoch > 0 THEN "stamp" ELSE "suspend", !.task = t,
                                        !.epoch = ws.epoch, !.keep = Stamped, !.claimed = ws.att # NoAtt,
                                        !.plan = DetachPlan(t)]]
            /\ Reads(w)
    /\ UNCHANGED <<ws, lease, secret, granted, bearers>>

\* claimed says that the worker read an attachment of its Task, keep that the stamp was there.
markACPWorkspaceRevocationStarted(w) ==
    LET next == IF wk[w].claimed THEN "begin" ELSE "final" IN
    /\ At(w, "stamp")
    /\ \/ wk[w].keep /\ Goes(w, next) /\ UNCHANGED <<ws, fresh>>
       \/ ~wk[w].keep /\ w \in fresh /\ Writes(w, [ws EXCEPT !.stamp = wk[w].epoch]) /\ Goes(w, next)
       \/ ~wk[w].keep /\ w \notin fresh /\ Stops(w) /\ UNCHANGED ws
    /\ UNCHANGED <<lease, secret, task, granted, bearers, faults>>

BeginRevocation(w) ==
    LET e == wk[w].epoch
        high == Highest({ws.epoch, e, ws.attached})
    IN
    /\ At(w, "begin")
    /\ IF ws.att.epoch \notin {0, e} \/ (ws.att = NoAtt /\ ws.epoch = high)
       THEN Stops(w) /\ UNCHANGED ws
       ELSE Idles(w) /\ WritesLast([ws EXCEPT !.att = NoAtt, !.epoch = high, !.seen = FALSE])
    /\ UNCHANGED <<lease, secret, task, granted, bearers, faults>>

\* Refused while the epoch is not the current detached one or the adapter enforces it.
Released(e) == ws.att = NoAtt /\ ws.epoch = e /\ ws.attached # e
FinalizeRevocation(w) ==
    /\ At(w, "final") /\ Goes(w, IF Released(wk[w].epoch) THEN "bearer" ELSE "late")
    /\ UNCHANGED <<ws, lease, secret, task, fresh, granted, bearers, faults>>

finalizeSecret(w) ==
    /\ At(w, "bearer") /\ secret' = [secret EXCEPT ![wk[w].epoch] = 0] /\ Goes(w, "unhold")
    /\ UNCHANGED <<ws, lease, task, fresh, granted, bearers, faults>>

\* A Lease without an epoch is fenced to this one first.
deleteWorkspaceOwnedAttachmentLeaseForEpoch(w) ==
    /\ At(w, "unhold")
    /\ IF lease.epoch \in {0, wk[w].epoch}
       THEN lease' = NoLease /\ Goes(w, "suspend")
       ELSE Goes(w, "late") /\ UNCHANGED lease
    /\ UNCHANGED <<ws, secret, task, fresh, granted, bearers, faults>>

\* Before the detach timeout the settlement is tried again.
waitForRelease(w) ==
    /\ At(w, "late") /\ Stops(w)
    /\ UNCHANGED <<ws, lease, secret, task, granted, bearers, faults>>
MutantQuarantine(w) ==
    /\ At(w, "late") /\ w \in fresh /\ ws.attached = ws.epoch
    /\ Writes(w, [ws EXCEPT !.desired = "Quarantined", !.seen = FALSE]) /\ Goes(w, "qsecret")
    /\ UNCHANGED <<lease, secret, task, granted, bearers, faults>>
quarantineACPWorkspacePastDetachTimeout(w) ==
    /\ At(w, "late") /\ w \in fresh
    /\ Writes(w, [ws EXCEPT !.desired = "Quarantined", !.seen = FALSE]) /\ Goes(w, "qsecret")
    /\ UNCHANGED <<lease, secret, task, granted, bearers, faults>>

deleteACPWorkspaceAttachmentCredentials(w) ==
    \/ /\ At(w, "qsecret") /\ Goes(w, "qlease")
       /\ secret' = IF wk[w].epoch > 0 THEN [secret EXCEPT ![wk[w].epoch] = 0] ELSE secret
       /\ UNCHANGED <<ws, lease, task, fresh, granted, bearers, faults>>
    \/ /\ At(w, "qlease") /\ lease' = NoLease /\ Stops(w) /\ task' = [task EXCEPT ![Task(w)].settled = TRUE]
       /\ UNCHANGED <<ws, secret, granted, bearers, faults>>

\* suspendACPWorkspaceWithinQuota: one patch suspends, retires the stamp and the demand and
\* leaves the receipt.
Suspended(t) ==
    [ws EXCEPT !.desired = "Suspended", !.stamp = 0, !.receipt = <<t, task[t].epoch>>, !.demand = 0, !.seen = FALSE]

applyDetachAction(w) ==
    LET t == Task(w) IN
    /\ At(w, "suspend")
    /\ \/ wk[w].plan = "credentials" /\ Goes(w, "qsecret") /\ UNCHANGED <<ws, fresh>>
       \/ wk[w].plan = "mark" /\ Goes(w, "mark") /\ UNCHANGED <<ws, fresh>>
       \/ wk[w].plan = "patch" /\ w \notin fresh /\ Stops(w) /\ UNCHANGED ws
       \/ /\ wk[w].plan = "patch" /\ w \in fresh /\ Goes(w, "mark")
          /\ Writes(w, IF ws.desired = "Suspended" THEN Receipted(t) ELSE Suspended(t))
    /\ UNCHANGED <<lease, secret, task, granted, bearers, faults>>

markACPTaskWorkspaceSettled(w) ==
    /\ At(w, "mark") /\ task' = [task EXCEPT ![Task(w)].settled = TRUE] /\ Stops(w)
    /\ UNCHANGED <<ws, lease, secret, granted, bearers, faults>>

----------------------------------------------------------------------------
(* The environment. *)

\* The provider's adapter observes the object and enforces what it asks for; core admission
\* of the new generation is part of it.
Reported ==
    CASE ws.desired # "Ready" -> {ws.desired}
      [] ws.desired = "Ready" /\ ws.att # NoAtt -> {"Attached"}
      [] OTHER -> IF ws.state = "Attached" THEN {"Ready"} ELSE Cold
adapterSync ==
    /\ ~ws.seen
    /\ \E s \in Reported : ws' = [ws EXCEPT !.seen = TRUE, !.attached = ws.att.epoch, !.state = s]
    /\ fresh' = {}
    /\ UNCHANGED <<lease, secret, task, wk, granted, bearers, faults>>

\* A Task completes, fails or is cancelled.
endTask(t) ==
    /\ ~task[t].ended /\ task' = [task EXCEPT ![t].ended = TRUE]
    /\ UNCHANGED <<ws, lease, secret, wk, fresh, granted, bearers, faults>>

\* The time to live of the Lease, or of the attachment's bearer, runs out.
expire ==
    /\ Fault
    /\ \/ lease.holder # 0 /\ ~lease.expired /\ lease' = [lease EXCEPT !.expired = TRUE] /\ strayed' = TRUE /\ UNCHANGED ws
       \/ ws.att # NoAtt /\ ~ws.att.expired /\ ws' = [ws EXCEPT !.att.expired = TRUE] /\ UNCHANGED <<lease, strayed>>
    /\ UNCHANGED <<secret, task, wk, fresh, granted, bearers>>

\* The controller stops, or loses the leadership, in the middle of a pass.
crash(w) ==
    /\ ~At(w, "idle") /\ Stops(w) /\ Fault
    /\ UNCHANGED <<ws, lease, secret, task, granted, bearers>>

Step(w) ==
    \/ acquireLease(w) \/ readWorkspace(w) \/ createSecret(w) \/ revalidate(w) \/ renewAttachmentLeaseFence(w)
    \/ patchAttachment(w) \/ cleanupReads(w) \/ cleanupSecret(w) \/ cleanupLease(w)
    \/ recordACPWorkspaceDetachAction(w) \/ markACPTaskAttachmentEpoch(w) \/ dropExpiredBearer(w)
    \/ markACPWorkspaceRevocationStarted(w) \/ BeginRevocation(w) \/ FinalizeRevocation(w) \/ finalizeSecret(w)
    \/ deleteWorkspaceOwnedAttachmentLeaseForEpoch(w) \/ waitForRelease(w)
    \/ quarantineACPWorkspacePastDetachTimeout(w) \/ deleteACPWorkspaceAttachmentCredentials(w)
    \/ applyDetachAction(w) \/ markACPTaskWorkspaceSettled(w)

Moves(w) == Step(w) /\ UNCHANGED strayed
Settles(t) == \E w \in Workers : settleACPClassWorkspace(w, t)
Syncs == adapterSync /\ UNCHANGED strayed

Next ==
    \/ \E w \in Workers : Moves(w) \/ (crash(w) /\ UNCHANGED strayed)
    \/ \E w \in Workers, t \in Tasks : resumeWorkspace(w, t) \/ beginAttach(w, t) \/ adoptAttachment(w, t)
    \/ \E t \in Tasks : Settles(t) \/ (endTask(t) /\ UNCHANGED strayed)
    \/ Syncs \/ expire

Spec == Init /\ [][Next]_vars

\* A pass that is under way goes on, the adapter observes every change, the work queue comes
\* back to a Task that has not settled, and a detach timeout that keeps being waited for runs out.
TimesOut == (\E w \in Workers : quarantineACPWorkspacePastDetachTimeout(w)) /\ UNCHANGED strayed
FairSpec ==
    /\ Spec /\ WF_vars(Syncs) /\ SF_vars(TimesOut)
    /\ \A w \in Workers : WF_vars(Moves(w))
    /\ \A t \in Tasks : SF_vars(Settles(t))

----------------------------------------------------------------------------
(* Properties. *)

Digests == 0 .. MaxBearers
WorkerSteps == {"idle", "lease", "read", "secret", "fence", "renew", "patch", "clean", "unsecret", "unlease", "drop",
                "adopt", "record", "stamp", "begin", "final", "bearer", "unhold", "late", "qsecret", "qlease",
                "suspend", "mark"}
Plans == {"none", "credentials", "mark", "patch"}

\* The workspace, the Lease, the Secrets and the workers keep their types, and no Secret is
\* numbered past the last bearer that was made.
TypeOK ==
    /\ ws.att.task \in 0 .. NumTasks /\ ws.att.epoch \in 0 .. MaxEpoch /\ ws.att.digest \in Digests
    /\ ws.epoch \in 0 .. MaxEpoch /\ ws.attached \in 0 .. MaxEpoch /\ ws.stamp \in 0 .. MaxEpoch
    /\ ws.desired \in {"Ready", "Suspended", "Quarantined"} /\ ws.demand \in 0 .. NumTasks
    /\ lease \in [holder : 0 .. NumTasks, epoch : 0 .. MaxEpoch, expired : BOOLEAN]
    /\ secret \in [Epochs -> 0 .. bearers] /\ bearers \in Digests
    /\ task \in [Tasks -> [ended : BOOLEAN, epoch : 0 .. MaxEpoch, settled : BOOLEAN]]
    /\ wk \in [Workers -> [pc : WorkerSteps, task : 0 .. NumTasks, epoch : 0 .. MaxEpoch, digest : Digests,
                           claimed : BOOLEAN, keep : BOOLEAN, plan : Plans]]

\* The adapter never enforces one Task's epoch while another Task is attached.  A workspace asked
\* to suspend has no attachment, and the epoch its settlement revoked is released; the adapter can
\* still enforce an older one only if a rotation of the same Task replaced it before the adapter
\* looked.  However the passes of two Tasks and two leaders interleave, one Task writes at a time.
OneWriter ==
    /\ ws.att # NoAtt /\ ws.attached # 0 => granted[ws.attached].task = ws.att.task
    /\ ws.desired = "Suspended" =>
         /\ ws.att = NoAtt
         /\ ws.attached # 0 => ws.attached # ws.epoch /\ granted[ws.attached].task = granted[ws.epoch].task

\* An attachment epoch is published once: every publication, a rotation and a second Task's patch
\* over a standing attachment included, has an epoch above all earlier ones, however many attempts
\* failed in between.
Publishes == ws'.att \notin {ws.att, NoAtt} /\ ~ws'.att.expired
EpochsAdvance ==
    [][Publishes => \A e \in Epochs : granted[e].task # 0 => e < ws'.att.epoch]_vars

\* Once a Task has settled, the bearer of its last attachment is gone, as long as no pass outlived
\* its Lease or its leader: neither a receipt of another Task, nor a quarantine, nor a rotation of
\* the bearer before it skips the deletion.
LastEpochOf(t, e) == granted[e].task = t /\ \A f \in Epochs : granted[f].task = t => f <= e
SettledWithoutBearer ==
    ~strayed => \A t \in Tasks, e \in Epochs :
        task[t].settled /\ LastEpochOf(t, e) => secret[e] # granted[e].digest

\* Every Task that has ended settles: settleACPClassWorkspace completes its marker or releases it
\* after the quarantine, whatever Lease or attachment other passes left behind.  Neither mark is
\* ever taken back, so it is said of all Tasks at once: again and again none is waiting.
TaskSettles == []<>(\A t \in Tasks : task[t].ended => task[t].settled)

=============================================================================
