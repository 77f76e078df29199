# TLA+ models of orka

Orka runs AI agents as Kubernetes `Task`s. Its correctness rests on a handful of
protocols between processes that crash, overlap and retry: who is the controller,
what a superseded controller may still do, when a prompt may be sent again, who holds
a Session, in which order answers reach a chat. This directory models those protocols
in TLA+, checks them with TLC on small instances and proves the main invariants with
TLAPS for every value of the constants.

`PROJECT.json` is the index: components, runs, mutants (a changed definition under which
a property must fail), the map from definitions to source lines, hazards and theorems.

## 1. The system

| part | state | operations | who else it meets |
|---|---|---|---|
| controller epoch | one coordination Lease (epoch, holder, mutation token), the `ControllerEpoch` mirror | acquire, sync of the mirror, fenced mutation | every control-store write |
| ACP dispatcher and recovery | `PromptAttempt`, Task status, result receipt, result, event journal | reserve, plan, submit, stream, settle, requeue, recover | supervisor, outbox, epoch |
| ACP supervisor | boot, bound epoch, prompts, operation records | create session, start prompt, cancel | dispatcher |
| Task terminal outbox | projections in SQLite | enqueue, claim, apply to the Task | dispatcher, Session turns |
| Session control and turns | mutation Lease, `SessionControl`, turns, `BranchClaim` | acquire, open turn, finalize, reconcile, clean up | dispatcher, publication |
| publication | `Publication`, `BranchClaim`, `ExternalEffect`s | prepare, publish, verify, pull request, recover | publisher service, forge |
| runtime pools | capacity reservations, active instance | claim, renew, release, roll | dispatcher, drain |
| gateway inbox | events of a Session in SQLite | admit, claim, create and link the Task, expire, project | Task controller, outbox |
| gateway outbox | delivery rows in SQLite | admit, claim, POST, record, retry, maintain | adapters |
| Task webhooks | `status.webhookDelivery` | claim, send, record, supersede | receivers |
| workspace attachment | attachment Lease, epoch, token Secret, workspace spec | attach, rotate, revoke | providers |
| MCP approvals | approval events, external effect | request, decide, execute, recover | supervisor, reviewers |
| Task controller | phases, Session lock, finalizers | reconcile | all of the above |
| storage service | datasets, epochs, operation receipts | advance, replay | control store |

Everything else (REST API, UI, CLI, connectors, monitors, scans, model clients, tools) is
request handling, policy or I/O over these stores. `PROJECT.json` lists every part with
what is modelled of it or why nothing is.

What is hard here, and what the models aim at:

* a controller that has lost its lease keeps running; only some of its writes are fenced;
* every durable change is several writes to several stores, and a crash fits between any two;
* expected versions, Lease snapshots and event copies are read in one call and used in another;
* locks and claims expire by time while the call they guard is still under way;
* a request whose answer is lost may have been carried out;
* retries, manual or automatic, reset counters other decisions read.

## 2. Modules

| module | models | proofs |
|---|---|---|
| `ControllerEpoch` | `internal/store/kube/controller_epoch.go`, `internal/controller/controller_epoch.go` | `ControllerEpochProofs` (types, one holder per epoch, the mirror, the mutation lock) |
| `PromptDispatch` | `internal/controller/acp_dispatcher.go`, `acp_recovery.go`, `acp_outbox.go`, the `PromptAttempt` store, prompt admission in the supervisor | `PromptDispatchProofs` |
| `SessionTurn` | `session_control.go`, `session_turn.go` and `session_cleanup.go` in `internal/store/kube`, `session_turn_persistence.go` in `internal/store/sqlite`, `acp_dispatcher_session.go`, `acp_session.go` and `acp_recovery.go` in `internal/controller` | `SessionTurnProofs` (lemmas per kind of store step, invariants, refinement) |
| `SerialSession` | what a Session promises: one Task at a time extends the conversation | abstract; implemented by `SessionTurn` |
| `GatewayInbox` | `internal/gateway/service.go` (dispatch), `internal/store/sqlite/gateway_store.go`, the Session lock of the Task controller | `GatewayInboxProofs` |
| `GatewayOutbox` | `internal/gateway/service.go` (delivery), `internal/store/sqlite/gateway_store.go` | `GatewayOutboxProofs` |
| `WorkspaceAttachment` | `execution_workspace_attachment.go`, `acp_workspace_lifecycle.go` and `acp_workspace_retention.go` in `internal/controller` | `WorkspaceAttachmentProofs` (types, one writer, epochs), `WorkspaceAttachmentBearers` |
| `Publication` | `acp_publication.go`, `acp_publication_recovery.go` and `acp_external_effect.go` in `internal/controller`, the stores of both, `internal/publisher` | `PublicationProofs` (invariants, action properties, the wedged states) |

`MC<module>` adds the model values and definitions TLC's instances use. The modules compose
through their interfaces: `PromptDispatch` takes from `ControllerEpoch` that an epoch has one
controller and that a fenced write may still land after a takeover if its version is the
expected one (`RecordEpochMonotone` is what then still holds); `SessionTurn` takes from it that
one store operation runs at a time; `GatewayOutbox` takes from the inbox that the events of a
Session close one after another, each in one transaction with its terminal row, which is
`InOrder` and `SettledOnce` of `GatewayInbox`.

### ControllerEpoch

Each thread (a controller's manager, or the drain goroutine of `acp_upgrade_drain.go`) has a
program counter and the locals its Go function holds between two API-server calls: the Lease
snapshot, the object it read, the decision it took. Every call is a step, every write a
compare-and-swap on `resourceVersion`. `Cas*` is `CompareAndSwapControllerEpoch`, `Sync*` is
`syncControllerEpochStatus` with its validations, `Mut*` is `requireControllerEpoch`, the write
it guards and `releaseControllerEpochMutation`. `Crash` stops a thread anywhere; an operator
may save, lose and restore the Lease, which gives it a new UID. `Expire` passes the two
minutes of a mutation token at any time. `target` is any record of the control store,
reduced to its version and the epoch of its last write.

An epoch record is `[epoch, holder]`: the Lease's domain version equals its epoch
(`controllerEpochFromLease` rejects others) and digest and timestamps are functions of both.

### PromptDispatch

One standalone Task. Controller `e` is the process of epoch `e`; with `Overlap` it runs on
after a takeover. An attempt write is two steps, the read that fixes the expected version and
checks the fence, and the swap, which compares the version only. The supervisor's boot is
bound to one epoch, accepts one prompt and answers accepted, limited, refused or rejected; a
written request stays in `net` until a supervisor handles it, whether or not its controller
still listens. Receipt, result, journal, Task status and outbox are separate variables
written in the code's order, so recovery can meet every prefix of them. `late` records that
a write landed after its epoch was superseded.

### GatewayOutbox

The delivery rows of one Session. `<<e, k>>` is row `k` of event `e`, the last being the
terminal one. Workers claim, check, post and record; outcomes are keyed by the process, as in
the code. `seen` is what the adapter has posted to the provider. A restart may leave one
worker of the old process behind. SQLite transactions are single steps, and time is the steps
`Lapse`, `Due` and `Expire`.

### SessionTurn and SerialSession

One Session and the Tasks that share it. `lease` is the coordination Lease, `control` the
status of the `RuntimeSessionControl` that mirrors it, `claim` the `BranchClaim`; `turn` and
`transcript` are SQLite. No transaction spans two of them. One store operation is one action
(the interlock lets one run at a time), but it may be cut short after any of its writes: the
parameter `n` counts the writes that landed, and a partial run spends a fault. `worker` is
the dispatch of each Task with the copy of the control it holds between operations; a crash
resets it and makes the Task `stale`. `cleanup` is the Session's durable cleanup intent.
An attempt goes back to Reserved before its prompt is submitted and, after that, only on the
proof that the prompt was not accepted (`requeueProvenNotAccepted`), with or without its binding;
one that is bound already stays bound as it is (`Binds`, the same-state return of
`transitionAttempt`). A publication ends verified, unresolved (Session and claim are blocked) or
withheld, before anything was pushed. The turns of the Tasks in `MaySkip` may stay out of the
transcript (`SkipTranscriptAppend`).

`SerialSession` has a holder, a generation and a log. `SessionTurn` implements it with the
mapping `Granted`: the holder of the Lease, unless the control already records that this lease
was released before its prompt. The log is the transcript.

### GatewayInbox

The messages of one Session. `event` is the row of each in `gateway_events`, `lock` the
Session's active Task, `task` the Kubernetes Task under each message's derived name. `disp` is
each leader's dispatch loop with its event and the UID it is about to link; an old loop begins
nothing new after a change of leader but may be anywhere in its dispatch. Admission with the
pending limit, the FIFO claim, recovery of an earlier dispatch's Task, renewal, creation,
link, retry, late deletion, expiry, dead letters and the terminal projection are actions; a
SQLite transaction or an API call is one step.

### WorkspaceAttachment

The one-writer attachment of a workspace. A worker is one reconciliation of one Task, one step
per API call, with a copy of the workspace that `fresh` says is current or not (the patches
are optimistic). Attach takes the Lease, creates the Secret, fences and patches; revocation
stamps, begins, waits for the adapter, deletes Secret and Lease and suspends. What is left to do
after the revocation is decided from the copy the settlement read (`DetachPlan`): to delete
credentials or to mark the Task needs no write of the workspace and so no current copy. `Cold` is
what the adapter reports of a workspace without compute: one of an external provider is Pending
until it is attached (`Handshake`). The adapter and the timeout of a detach are the environment.
`granted` is the first publication under each epoch; `strayed` is set when passes of one Task overlapped or
the Lease ran out under its holder. The expiry of a bearer, and its rotation, do not set it.

### Publication

Standalone Tasks that publish to one branch. `pass` is the controller's pass over a Task,
live or recovering; `pub`, `ack`, `pr` and `delivery` are its durable state; `effect`, `reply`
and `attempts` the ledger of external effects with its leases; `journal` and `late` the
publisher's receipts and the requests it still serves after their caller is gone. The branch is the
sequence of its commits, so an ancestor is a prefix. A live pass runs under a context that is detached from
the Task's cancellation (`acp_publication.go:79`): the watcher only cancels a Prepared
Publication. When the delivery window runs out, calls and store writes fail, which are the faults
`CallLost` and `StoreError`.

## 3. What is checked

| run | what it asks | instance | result |
|---|---|---|---|
| `epoch_takeover` | `OneHolderPerEpoch`, `MirrorFollowsLease`, `InterlockExclusive`, `RecordEpochMonotone`, `AdvanceRespectsInterlock` | 2 controllers that overlap, 1 drain reader, 2 epochs, 1 mutation each, 1 lost Lease | 1.4 M states |
| `epoch_restart` | `TakeoverCompletes`: a replacement acquires after any crash of its predecessors | 3 controllers one after another, 3 epochs, fair | 14 k states |
| `epoch_crash_tail` | `CrashTailReconcilable` | 2 controllers, 1 reader | violated |
| `dispatch_overlap` | `AcceptedOnce`, `NeverBackInQueue`, `SuccessIsReal`, `ProjectionAgrees`, `TerminalStays` | 2 overlapping controllers, 3 boots, 1 failed or lost call | 1.6 M states |
| `dispatch_live` | `TaskSettles` | 3 controllers, 4 boots, crashes, fair | 37 k states |
| `session_faults` | `PromptHoldsLease`, `TranscriptInOrder`, `ProjectedAfterRelease`, `BaselinesAgree`, `CleanupQuiescent`, `ImplementsSerial`, `TurnSettles` | 2 Tasks, 1 cancellable, 1 that may skip the transcript, 2 generations, 2 operations cut short, 1 restart, fair | 464 k states |
| `inbox_leaders` | `InOrder`, `LockAgrees`, `RunsLinked`, `SettledOnce`, `EventSettles` | 2 messages, 2 leaders, 2 Task incarnations, 1 fault, fair | 226 k states |
| `outbox_session` | `DeliveredWasPosted`, `InSessionOrder`, `LivePostsInOrder` | 2 events, 1 message each, 1 manual retry, 2 processes | 718 k states |
| `outbox_live` | `TurnComes` | 1 event, 2 attempts, 2 workers, 2 processes, 1 expiry, fair | 95 k states |
| `attach_writers` | `OneWriter`, `EpochsAdvance`, `SettledWithoutBearer`, `TaskSettles` | 2 Tasks, 2 workers, 2 epochs, 4 bearers, providers with and without the handshake, 1 fault, fair | 285 k states |
| `publication_faults` | `CancelledNeverPushed`, `DeliveredIsReal`, `ClaimBarrier`, `SettledStays`, `FastForward`, `DeliverySettles` | 2 Tasks, 1 cancellable with a pull request; 3 faults and 1 foreign push when one publishes, 1 of either when both do, fair | 173 k states |
| `publication_unknown` | `UnknownPushReconciled` | 1 Task, 2 faults, fair | violated |

The two violated runs state a sentence of the repository that the code does not keep;
`findings` in `PROJECT.json` quotes it and says what the counterexample does.

* `epoch_crash_tail`: the sync writes the mirror's status from a Lease snapshot it validated
  earlier. If the CAS hashes the mirror in between, the mirror no longer matches the Lease's
  digest of its predecessor and no later sync, mutation or acquisition gets past it.
* `publication_unknown`: a push reported with an unknown outcome settles its effect as
  Succeeded; if the controller then stops while verifying, every recovery tries to settle the
  same effect as OutcomeUnknown, is refused, and the Publication stays in Verifying.

**Bounds.** Two epochs give one takeover with both controllers alive, which is what overlap
needs; three sequential ones let a recovery be recovered. One mutation per controller meets
every state of the lock. Three supervisor boots let a request reach a boot older and newer
than its controller's. One fault reaches every error return once; a Session gets two, so that
a resumed finalization is cut short again, and a restart beside them. Two generations let one
turn follow another whose finalization is unfinished. Two messages and two leaders give a
message that waits and a loop that was overtaken. Two epochs of an attachment give a rotation or a second Task.
A publication gets three faults, which use up the attempts of a preparation (two here) and cut the recovery short as well;
while two Tasks share the branch the sum of faults and foreign moves is `MaxShared`, one.
Two events with one message and a terminal row each have every pair of rows the FIFO rules
tell apart; one attempt with one manual retry has both ways a row starts. `MaxVersion` is
above what the other bounds can reach in the fair runs, so it stops nothing there.

**Deadlock** is not checked: with bounded epochs, boots and attempts every instance ends.

**Fairness.** Only what the code schedules. Controllers run their loops and every call
returns or fails; a process that lost leadership stops (the manager returns an error and `cmd/main.go` exits);
a dead leader is replaced; the pool rolls its supervisor to the current epoch; the runtime
ends its prompts; delivery and maintenance loops tick; leases and delays are bounded times; the
Session's Tasks are dispatched, finalized and recovered round after round; the gateway's loop
of the current leader, the removal of deleted Tasks, and the expiry of claims and messages go on; reconciliations
under way proceed and the adapter syncs. Strong fairness is used twice, in `WorkspaceAttachment`: a Task that has
ended is reconciled again and again although overlapping passes may hold it up in between, and
the detach timeout of a revocation is a time that passes although a sync may disable the step for a moment.
Takeovers, crashes of the leader, cancellations, faults, lost Leases, reconciliations and retries by
operators are never fair.

`TaskSettles` of `WorkspaceAttachment` and `DeliverySettles` speak of all Tasks in one formula, which TLC
checks in one pass over the graph. They imply the statement for each Task: a Task that has ended stays so, and a
delivery that never settles can only be wedged from some time on. `TurnSettles` has the same form; its fairness is one
conjunct per Task, because the dispatcher comes back to every Task on its rounds and takes whichever step is next for it.

## 4. What is proved

For any sets of controllers and readers, any numbers of events, messages, Tasks, workers,
epochs, attempts, faults and restarts:

| theorem | statement |
|---|---|
| `TypeCorrect` | `ControllerEpoch` keeps its types |
| `OneHolder` | no epoch is granted twice and a controller's fence was granted to it |
| `MirrorFollows` | `MirrorFollowsLease` |
| `Interlock` | while a mutation's token is unexpired the Lease carries it, at the mutation's epoch |
| `RecordMonotone` | no fenced write lowers the epoch of a record, late ones included |
| `AdvanceWaits` | the epoch advances by one and never past an unexpired lock |
| `DispatchTypes` | `PromptDispatch` keeps its types |
| `PromptAcceptedOnce` | `AcceptedOnce` |
| `BoundaryHolds` | `NeverBackInQueue` |
| `SuccessHolds` | `SuccessIsReal` |
| `OutboxAgrees` | `ProjectionAgrees` |
| `SettledStays` | `TerminalStays` |
| `SessionTypes` | `SessionTurn` keeps its types |
| `SessionPrompts` | `PromptHoldsLease` |
| `SessionTranscript` | `TranscriptInOrder` |
| `SessionProjection` | `ProjectedAfterRelease` |
| `SessionBaselines` | `BaselinesAgree` |
| `SessionCleanup` | `CleanupQuiescent` |
| `SessionSerial` | `SessionTurn` implements `SerialSession` |
| `InboxTypes` | `GatewayInbox` keeps its types |
| `InboxOrder` | `InOrder` |
| `InboxLock` | `LockAgrees` |
| `InboxRuns` | `RunsLinked` |
| `InboxSettled` | `SettledOnce` |
| `OutboxTypes` | types, and no row exceeds its attempts |
| `OutboxOrder` | `InSessionOrder` |
| `OutboxDelivered` | `DeliveredWasPosted` |
| `OutboxPosts` | `LivePostsInOrder` |
| `AttachmentTypes` | `WorkspaceAttachment` keeps its types |
| `OneTaskWrites` | `OneWriter` |
| `EpochsNeverReused` | `EpochsAdvance` |
| `NoBearerOutlivesSettlement` | `SettledWithoutBearer`, for runs that have not `strayed` |
| `PublicationTypes` | `Publication` keeps its types |
| `PublicationCancelledNeverPushed` | `CancelledNeverPushed` |
| `PublicationDeliveredIsReal` | `DeliveredIsReal` |
| `PublicationClaimBarrier` | `ClaimBarrier` |
| `PublicationSettledStays` | `SettledStays` |
| `PublicationFastForward` | `FastForward` |
| `PublicationWedged` | a recovery that stopped `Wedged`, past validation, stays so and its delivery never settles |

The assumptions are the named `ASSUME`s of the modules: bounds are naturals, `None` is not a
value of any optional field, a zombie slot is no worker, no Task is called `"none"` or `"other"`
(the free claim and the foreign commit of `Publication`), and a branch a Task expects consists of commits of Tasks.

*One holder* (`ControllerEpochProofs`). `OneHolderPerEpoch` is not inductive: it must know
where an epoch can come from. The mirror's binding to a Lease UID never changes once set. An
advance needs a mirror bound to the very Lease it advances, so a restored Lease with another
UID cannot advance. While the mirror is unbound only epoch 1 has been granted, and epoch 1
needs the creation of the mirror, which succeeds once. `Knows` says what each program counter
has established about the copies the thread holds.

*Mirror* (`ControllerEpochProofs`). `MirrorFollowsLease` becomes inductive with `Copied`, which says
what the mirror copy of a thread shows of its Lease copy: a sync that will write the status of a
bound mirror found it at the snapshot's epoch or the one before, one that will bind has written
the status, and a CAS about to name its predecessor found the snapshot's own epoch, which the
mirror has not gone behind since. A status written from a stale snapshot then either repeats what the
mirror shows or takes it to the Lease's epoch, because no granted epoch is ahead of the Lease
the mirror is bound to.

*Dispatch* (`PromptDispatchProofs`). `DispatchInv` joins four parts. `VersionInv`: a write that can
still commit was read from the state the attempt is still in. `BoundaryInv`: a controller past its own
write has outrun the earlier ones, whose expected versions are behind and who can no longer
read for a write; so only the controller whose epoch the supervisor has can have a request accepted,
and while it has one under way, or once it was accepted, nobody is left who could take the attempt
back over the request boundary. `EvidenceInv`: what the controllers, the journal and the attempt say
has happened, has. `ProjectionInv`: what the controller of the open epoch is about to
tell is what the attempt says. Every step of a controller but the request itself is a `ProcStep`: it moves one
controller, commits at most one write it had read for, and gets to the steps the invariant speaks of in a few
ways; the lemmas up to `ControllerStep` show that for each action, and the four lemmas
`VersionStep` to `ProjectionStep` prove the invariant from `ProcStep` alone.

*Interlock* (`ControllerEpochProofs`). The Lease copy a CAS or a mutation replaces was
unlocked when read, a mutation's copy is of its own epoch, and the Lease equals the locked
copy until the token expires. For late writes: the version a write expects was read before the
fence was checked, and at that check every granted epoch was at most the fence; so if the
version still matches, no later epoch has written.

*Session* (`SessionTurnProofs`). None of the six properties is inductive
alone; `SessionInv` joins them with what relates the stores. `LeaseInv`: the Lease is at
most one generation ahead of its mirror, and then a Task holds it; what the mirror shows is
held, and its last operation is of a generation that is over. `TurnInv`: an open turn has the
mirrored lease and no turn is ahead of the control. `BaseInv`: behind a lease the claim is at
the Session's baseline or where the finalization of that turn put it. `WorkerInv` and `PromptInv` say what each step of a
dispatch has established about its attempt, turn and copy of the control: a lease its Task has is the one it will ask for,
so an attempt that keeps an older binding opens no turn, and one that passes the boundary is bound to the open one. Every action
is one of a few kinds of store step (acquire, bump, release, settle, finalize, reconcile, clean
up), each cut short at any of its writes; the lemmas of the first half prove each kind
once and those of the second assign every action its kind.

*Refinement* (`SessionTurnProofs`). From `SessionInv`, a step that takes the Lease for a new
generation is `Grant`, the commit of a turn is `Extend`, the release that shows first, in the
control or in the Lease, is `GiveBack`, and everything else leaves `Granted`, the generation and
the transcript as they are.

*Inbox* (`GatewayInboxProofs`). `Rows`: messages are admitted one after the other, and only
linked ones have a UID, never above the last one given to their Task. `Fits`: a dispatcher
that will link holds a UID its Task had at some time, and one that projects found the event
linked and its Task ended or replaced; both stay true when it is overtaken, because UIDs only
grow and a linked event does not go back to the queue.

*Order* (`GatewayOutboxProofs`). Absent and deleted rows have no attempts, Sending ones have
some; events close one after another with their terminal row; a waiting event has no rows; the
rows of an event are deleted together. So a manual retry of a message finds the terminal row
absent, or live and untouched, hence nothing later in the Session started. For posts: rows
workers hold, and rows in `seen`, have been tried, so a live row means no later row of its
event was seen.

*Attachment* (`WorkspaceAttachmentProofs`). `OneWriter` rests on what a current copy of the workspace
is worth. `AttachInv` says that the workspace's epoch is the highest one published and the attachment
has it, that the adapter enforces no later epoch, and, of a worker whose copy is current (`Fits`), that
an attempt about to patch may still attach at the next epoch, that a settlement past its stamp has a
detached workspace of its epoch, and past `FinalizeRevocation`'s test a released one. A write by anyone else takes
the copy's currency away, so the optimistic patch is refused. What the adapter enforces is an epoch of the Task that
published last. `EpochsAdvance` follows: a patch, over a standing attachment too, publishes the epoch after the workspace's.

*Bearers* (`WorkspaceAttachmentBearers`). `SettledWithoutBearer` needs two more invariants.
`RecordInv`: a Task records only epochs that were published for it, only a Task that has ended has
settled or left the receipt, the receipt is not ahead of the workspace, a quarantine is for good, and a
settlement that is about to delete the Lease has deleted the bearer of its epoch. `BearerInv` is for runs that
have not `strayed`, where no two passes of one Task overlapped and no Lease ran out, which is the premise of
`SettledWithoutBearer` too. There each Task has one pass, an attaching Task has published
nothing or rotates the bearer of its own attachment (`Entitled`), and a settlement suspends or marks its Task only
after its last bearer is deleted. The Task of a bearer that is still in its Secret and was not rotated (`Live`) holds
the Lease, fenced to the workspace's epoch or to the one of its rotation, has not settled and is covered by no
receipt (`Covers`). A current attempt about to patch holds the Lease fenced to its epoch (`Fenced`):
so a bearer is never published beside a live one of another Task.

*Publication* (`PublicationProofs`). `PublicationInv` ties the four records of a Task together.
`Stage`: the step of a pass fits the state of the Publication, so a compare-and-swap that fails has
lost to the cancellation watcher alone. `Calls`: a call is only made under an effect in flight, so its
return cannot overwrite a settled effect. `Holds`: the claim is the Task's from before the Publication
is created until it settles with a known outcome, which keeps the claim from every other Task. `Told`:
the publish receipt is stored while verifying, and the delivery is not told more than the Publication says.
What a pass, a reply, a journal or the Publication calls delivered (`Says`) has `landed`; and a commit that has
landed, or whose publish request may still be served `late`, has a Publication past the publishing decision.
`BranchInv`: the commits on the branch were pushed by their own Tasks or by others, and without a foreign
move every landed commit is in its history; a push is made only on the branch its Task expected, so it
extends it. Each action has a lemma showing `Good`: the invariant again, what is settled stays, and the branch
is fast-forwarded.

*Wedged* (`PublicationProofs`). `Stuck` follows a recovery pass through the steps it can reach from a wedged
state (`Round`). Settled effects stay, so the pass replays the same error or reaches the same verdict, fails
at the same settlement or delivery, and stops; steps of other Tasks, the publisher, time and
foreign moves leave what it reads alone. This is the reason `DeliverySettles` excepts `Wedged`, and it
extends the finding of `publication_unknown` from one instance to any. The theorem is not vacuous: the
instance of `publication_faults` has stopped passes in each of the three states.

Only model-checked: the liveness properties (`TakeoverCompletes`, both `TaskSettles`, `TurnComes`,
`TurnSettles`, `EventSettles`, `DeliverySettles`), because the prover has neither fairness nor
ENABLED. The two runs that end in a violation are counterexamples and need no proof.

## 5. What is not modelled

Within the modelled parts: Session-bound Tasks, delivery and publication after the outcome,
pool capacity and reclamation in `PromptDispatch`; the outbox's claim leases and dead letters
for Task projections; refused preparations and lineage mismatches in `SessionTurn`; several
Sessions, denials and transcript updates in `GatewayOutbox`; workspaces that are not suspended
on detach, or have no durable session to suspend, failed workspaces and the quota of suspended ones in `WorkspaceAttachment`; Session-bound publications, cloning and the git and forge
calls in `Publication`; the drain marker. Timestamps, digests, credentials and wording are
abstracted everywhere. Webhooks, pool reservations, MCP approvals and the storage service are
protocols of the same kind that have no module yet.

Met while modelling and not expressed as a property of a run. Writes that outlive their guard:

* A fenced write delayed past the two minutes of its mutation lock commits under the old epoch
  (`controller_epoch.go:1010`; the comment at line 28 promises exclusion).
* Once a write outlived its fence (`late`), `persistOutcomeUnknown` may accept an attempt
  another controller settled and project another outcome.
* With overlapping controllers `TaskSettles` of `PromptDispatch` does not hold: `patchExecution`
  is neither fenced nor compared, so a superseded controller can put a readmitted Task back to a state the
  current one does not dispatch, until the next takeover.
* Nothing bounds the reads between an outbox claim and its POST by the lease, so a stalled
  worker posts a message behind its event's final answer (`service.go:1596`).
* A stale inbox dispatcher can expire an event its successor has linked; the next message then
  runs beside the linked Task (`gateway_store.go:1081`).
* `Attach` does not check the revocation stamp again before its patch
  (`acp_workspace_lifecycle.go:412`).

States nothing leaves, or only late:

* A rollback that fails after the Task was projected Planned leaves it where no retry of the
  same epoch looks (`acp_dispatcher.go:1207`).
* A Failed, Cancelled or OutcomeUnknown attempt whose projection could not be enqueued is
  projected again only after the next takeover.
* A requeued or recovered Task that is cancelled before its next dispatch keeps the Session's
  Lease (`acp_dispatcher_session.go:708`); `TurnSettles` excepts it as `LeftBehind`.
* After a release before the prompt whose mirror write failed, the next acquisition is refused
  at every retry (`session_control.go:355`).
* A finalization cut short after it cleared the Lease never activates its projection if the next
  Task takes the Lease, is not mirrored and is cancelled.
* An attachment Lease fenced by another attempt to the next epoch makes the finalization of a
  revocation refuse until the detach timeout quarantines the workspace.
* After a rotation the adapter has not acknowledged, `FinalizeRevocation` finds the new epoch released while the adapter
  still enforces the old one, and the workspace is suspended; the comment before it
  (`acp_workspace_lifecycle.go:1210`) says that "the adapter released the enforced epoch". The old epoch is of the same
  Task, which is what `OneWriter` says.
* An overlapping pass of a settled Task may publish an attachment nobody revokes, and with two
  faults the clean-up of a failed attempt deletes the Secret of a published attachment;
  `SettledWithoutBearer` is therefore stated for runs that have not `strayed`.
* `Wedged` in `Publication` lists three states recovery meets on every round and cannot leave
  (proved as `PublicationWedged`).
  A stop before the Publication exists, which recovery settles as a conflict, an error after it was created, and a crash
  between the terminal delivery and the reclaim each leave the branch claim behind.
* A claim of the gateway outbox that finds nothing rolls its sweep back, so the last exhausted
  row of a Session stays Sending until maintenance expires it.
* One hung read before the POST stops the delivery loop, because a batch waits for all workers.
