---------------------------- MODULE SessionTurn ----------------------------
(***************************************************************************)
(* One logical Session shared by several Tasks: the mutation lease that    *)
(* serializes their prompts and the finalization of their turns.           *)
(*                                                                         *)
(* The state is spread over three stores.  Kubernetes keeps a coordination *)
(* Lease, the RuntimeSessionControl whose status mirrors it, the           *)
(* BranchClaim and the PromptAttempts; SQLite keeps the turns, the         *)
(* transcript and the terminal projections.  No transaction spans two of   *)
(* them.  A store operation is one action here: the mutation interlock     *)
(* (module ControllerEpoch) lets one run at a time.  It is cut short after *)
(* any of its writes, though: the parameter n of an action counts the      *)
(* writes that landed, and anything but a full run spends one of MaxFaults *)
(* (an API error, a lost response, or the point where a crash strikes).    *)
(*                                                                         *)
(* What is compared as a digest or a resourceVersion in the code is        *)
(* equality here: every update of the Lease changes its holder, and every  *)
(* acquisition its generation.                                             *)
(***************************************************************************)
EXTENDS Integers, Sequences

CONSTANTS
    Tasks,          \* Tasks with a SessionRef to this Session
    Cancellable,    \* the ones that may be cancelled, deleted or time out
    MaySkip,        \* the ones whose SessionRef may keep their turn out of the transcript
    None,
    MaxGen,         \* bound: lease generations
    MaxFaults,      \* bound: operations cut short
    MaxCrashes      \* bound: controller restarts

ASSUME SessionAssumption ==
    /\ Cancellable \subseteq Tasks /\ MaySkip \subseteq Tasks /\ None \notin Tasks
    /\ MaxGen \in Nat \ {0} /\ MaxFaults \in Nat /\ MaxCrashes \in Nat

Gens == 1 .. MaxGen
Keys == Tasks \X Gens

\* Operation and holder identities: <<"turn", t, g>> holds the Lease for a prompt;
\* <<"release", t, g>>, <<"finalize", t, g>> and <<"reconcile", sha, g>> are LastOperationIDs.
NoOp == <<"none", None, 0>>
Key(t, g) == <<"turn", t, g>>
Held == {"turn"} \X Tasks \X Gens
Reconciliations == {"reconcile"} \X (0 .. MaxGen) \X Gens
Ops == {NoOp} \cup ({"release", "finalize"} \X Tasks \X Gens) \cup Reconciliations

VARIABLES
    lease,          \* the coordination Lease
    control,        \* RuntimeSessionControl status
    claim,          \* the Session's BranchClaim
    attempt,        \* the PromptAttempt of each Task
    turn,           \* session_turns; "projected": finalized, outbox row active
    transcript,     \* the turns in the order their messages were appended
    worker,         \* the dispatch of each Task, with its copy of the control
    stale,          \* Tasks stamped with an older controller epoch
    cancelled,
    cleanup,        \* the durable cleanup intent, with its fence
    faults, crashes

stores == <<lease, control, claim, turn, transcript>>
vars == <<lease, control, claim, attempt, turn, transcript, worker, stale, cancelled, cleanup, faults, crashes>>

NewControl == [version |-> 1, gen |-> 0, lease |-> NoOp, avail |-> "Available", op |-> NoOp, base |-> 0]
Resting == [pc |-> "idle", snap |-> NewControl]

\* CreateSessionControl has run: Lease and status exist.
Init ==
    /\ lease = [gen |-> 0, holder |-> NoOp]
    /\ control = NewControl
    /\ claim = [sha |-> 0, avail |-> "Available", op |-> NoOp]
    /\ attempt = [t \in Tasks |-> [state |-> "Reserved", gen |-> 0, pub |-> "none", base |-> 0]]
    /\ turn = [k \in Keys |-> "none"]
    /\ transcript = <<>>
    /\ worker = [t \in Tasks |-> Resting]
    /\ stale = [t \in Tasks |-> FALSE]
    /\ cancelled = [t \in Tasks |-> FALSE]
    /\ cleanup = [state |-> "none", version |-> 0, gen |-> 0]
    /\ faults = 0 /\ crashes = 0

\* An operation went through, or was cut short.
Whole == UNCHANGED faults
Cut == faults < MaxFaults /\ faults' = faults + 1

Goes(t, pc) == worker' = [worker EXCEPT ![t].pc = pc]
Rests(t) == worker' = [worker EXCEPT ![t] = Resting]

----------------------------------------------------------------------------
(* What the operations compare. *)

\* verifyMirroredSessionLease of the lease of turn <<t, g>>.
Mirrored(t, g) == control.lease = Key(t, g) /\ lease = [gen |-> g, holder |-> Key(t, g)]

\* The generation a dispatch works for: its own lease's, if its copy of the control
\* shows that the Task holds it already, else the next one.
LeaseGen(t) ==
    LET snap == worker[t].snap IN IF snap.lease = Key(t, snap.gen) THEN snap.gen ELSE snap.gen + 1

MutantCleared == lease
Cleared == [lease EXCEPT !.holder = NoOp]

\* sessionCleanupPending: an intent, or its completion, is recorded.
MutantSessionCleanupPending == cleanup.state = "done"
sessionCleanupPending == cleanup.state # "none"

\* The control says that a pre-prompt lease is released; the Lease is still held.
PendingRelease == control.lease = NoOp /\ control.op[1] = "release" /\ lease.holder # NoOp
ReleasePendingHolder == lease.holder[1] = "turn" /\ control.op = <<"release", lease.holder[2], lease.gen>>

----------------------------------------------------------------------------
(* Preparation of a Task's turn. *)

\* EnsureSession and the planning reads; a cancelled Task is settled first.  The attempt may
\* be bound already, by a dispatch that was cut short.
planTaskSession(t) ==
    /\ worker[t].pc = "idle" /\ ~stale[t] /\ ~cancelled[t]
    /\ attempt[t].state \in {"Reserved", "Starting"}
    /\ cleanup.state # "done"
    /\ worker' = [worker EXCEPT ![t] = [pc |-> "planned", snap |-> control]]
    /\ UNCHANGED <<stores, attempt, stale, cancelled, cleanup, faults, crashes>>

Binds(t) ==
    IF attempt[t].state = "Starting"
    THEN UNCHANGED attempt
    ELSE attempt' = [attempt EXCEPT ![t] = [@ EXCEPT !.state = "Starting", !.gen = LeaseGen(t)]]

\* The attempt is bound to the lease before the lease is taken.  transitionAttempt leaves one
\* that is in its new state already alone, whatever generation that one is bound to.
bindAttempt(t) ==
    /\ worker[t].pc = "planned"
    /\ LeaseGen(t) <= MaxGen
    /\ \/ Whole /\ Goes(t, "bound") /\ Binds(t)
       \/ Cut /\ Rests(t) /\ (Binds(t) \/ UNCHANGED attempt)
    /\ UNCHANGED <<stores, stale, cancelled, cleanup, crashes>>

\* The Lease is held, its release is not pending, and it is not the one asked for.
MutantLeaseTaken(t, g) == FALSE
LeaseTaken(t, g) == lease.holder # NoOp /\ ~PendingRelease /\ lease # [gen |-> g, holder |-> Key(t, g)]

\* AcquireSessionMutationLease refuses, without a write: a cleanup is pending, the copy is
\* out of date or blocked, the Session is leased, or the Lease is held by someone else.
AcquireRefused(t) ==
    LET snap == worker[t].snap
        g == LeaseGen(t)
    IN  \/ snap.avail # "Available" \/ snap.lease \notin {NoOp, Key(t, g)}
        \/ sessionCleanupPending
        \/ IF control.lease # NoOp /\ control.lease[2] = t
           THEN ~Mirrored(t, g)
           ELSE \/ control.version # snap.version \/ control.gen # snap.gen
                \/ control.avail # "Available" \/ control.lease # NoOp
                \/ PendingRelease /\ ~ReleasePendingHolder
                \/ LeaseTaken(t, g)
                \/ (lease.holder = NoOp \/ PendingRelease) /\ lease.gen # snap.gen

\* The writes: 1. clear a Lease whose release is pending; 2. take the Lease; 3. mirror it.
\* A lease that the Task holds already is confirmed without a write.
AcquireSessionMutationLease(t) ==
    LET g == LeaseGen(t)
        mine == control.lease = Key(t, g)
    IN  /\ worker[t].pc = "bound"
        /\ IF AcquireRefused(t)
           THEN Whole /\ Goes(t, "requeue") /\ UNCHANGED <<lease, control>>
           ELSE \E n \in 0 .. 3 :
                 /\ lease' = CASE n = 0 \/ mine -> lease
                               [] n = 1 /\ ~mine -> IF PendingRelease THEN Cleared ELSE lease
                               [] n >= 2 /\ ~mine -> [gen |-> g, holder |-> Key(t, g)]
                 /\ control' = IF n = 3 /\ ~mine
                               THEN [control EXCEPT !.version = @ + 1, !.gen = g, !.lease = Key(t, g)]
                               ELSE control
                 /\ \/ n = 3 /\ Whole /\ worker' = [worker EXCEPT ![t] = [pc |-> "leased", snap |-> control']]
                    \/ Cut /\ Goes(t, "requeue")
        /\ UNCHANGED <<claim, attempt, turn, transcript, stale, cancelled, cleanup, crashes>>

\* OpenTurn.  After an error handleSessionTurnOpenFailure reads the turn: found, it goes on
\* with it; not found, it releases the lease; unreadable, it requeues the Task.
CreateSessionTurn(t) ==
    LET k == <<t, LeaseGen(t)>>
        fits == control.version = worker[t].snap.version /\ Mirrored(t, k[2]) /\ attempt[t].gen = k[2]
    IN  /\ worker[t].pc = "leased"
        /\ \/ /\ turn[k] = "open" \/ (turn[k] = "none" /\ fits)
              /\ turn' = [turn EXCEPT ![k] = "open"]
              /\ \/ Whole /\ Goes(t, "opened")
                 \/ Cut /\ Goes(t, "requeue")
           \/ /\ turn[k] = "none"
              /\ \/ Cut \/ (~fits /\ Whole)
              /\ Goes(t, "release") /\ UNCHANGED turn
        /\ UNCHANGED <<lease, control, claim, attempt, transcript, stale, cancelled, cleanup, crashes>>

\* ReleaseSessionMutationLease, its fence and its writes: 1. the control; 2. the Lease.
ReleaseFits(snap, t, g) ==
    /\ ~sessionCleanupPending
    /\ \/ control.op = <<"release", t, g>> /\ control.lease = NoOp
       \/ control.version = snap.version /\ Mirrored(t, g)
    /\ lease.gen = g /\ lease.holder \in {NoOp, Key(t, g)}
ReleaseWrites(t, g, n) ==
    /\ control' = IF n >= 1 /\ control.lease = Key(t, g)
                  THEN [control EXCEPT !.version = @ + 1, !.lease = NoOp, !.op = <<"release", t, g>>]
                  ELSE control
    /\ lease' = IF n >= 2 THEN Cleared ELSE lease

\* The turn could not be opened: release, and requeue whatever came of it.
ReleaseMutationLease(t) ==
    LET g == LeaseGen(t) IN
    /\ worker[t].pc = "release"
    /\ \/ /\ ReleaseFits(worker[t].snap, t, g)
          /\ \E n \in 0 .. 2 : ReleaseWrites(t, g, n) /\ IF n = 2 THEN Whole ELSE Cut
       \/ ~ReleaseFits(worker[t].snap, t, g) /\ Whole /\ UNCHANGED <<lease, control>>
    /\ Goes(t, "requeue")
    /\ UNCHANGED <<claim, attempt, turn, transcript, stale, cancelled, cleanup, crashes>>

\* requeuePreSubmissionTask: the attempt is Reserved again and forgets its binding; the
\* Session keeps whatever lease and turn it has.
Unbound(t) == attempt' = [attempt EXCEPT ![t] = [@ EXCEPT !.state = "Reserved", !.gen = 0]]

requeuePreSubmissionTask(t) ==
    /\ worker[t].pc = "requeue" \/ (worker[t].pc = "idle" /\ ~stale[t] /\ ~cancelled[t])
    /\ attempt[t].state = "Starting"
    /\ \/ Whole /\ Unbound(t)
       \/ Cut /\ UNCHANGED attempt
    /\ Rests(t)
    /\ UNCHANGED <<stores, stale, cancelled, cleanup, crashes>>

----------------------------------------------------------------------------
(* From the open turn to the settled attempt. *)

\* Creating or configuring the RuntimeSession fails before the prompt is submitted.
runtimeSessionFails(t) ==
    /\ worker[t].pc \in {"opened", "ready"}
    /\ Cut /\ Goes(t, "requeue")
    /\ UNCHANGED <<stores, attempt, stale, cancelled, cleanup, crashes>>

\* The generation is recorded, or it is the recorded one already (no write).
CommitSessionRuntimeGeneration(t) ==
    LET g == LeaseGen(t)
        fits == control.avail = "Available" /\ Mirrored(t, g)
    IN  /\ worker[t].pc = "opened"
        /\ \/ ~fits /\ Whole /\ Goes(t, "requeue") /\ UNCHANGED control
           \/ /\ fits
              /\ \/ UNCHANGED control
                 \/ control.version = worker[t].snap.version /\ control' = [control EXCEPT !.version = @ + 1]
              /\ \/ Whole /\ worker' = [worker EXCEPT ![t] = [pc |-> "ready", snap |-> control']]
                 \/ Cut /\ Goes(t, "requeue")
        /\ UNCHANGED <<lease, claim, attempt, turn, transcript, stale, cancelled, cleanup, crashes>>

\* The request-write boundary: once the attempt is past it, it is not requeued without a proof
\* that the runtime did not accept the prompt.
MutantSubmitPrompt(t) ==
    /\ worker[t].pc \in {"leased", "ready"} /\ attempt[t].state = "Starting"
    /\ \/ Whole /\ Goes(t, "running") /\ attempt' = [attempt EXCEPT ![t].state = "Submitted"]
       \/ Cut /\ Goes(t, "requeue") /\ UNCHANGED attempt
    /\ UNCHANGED <<stores, stale, cancelled, cleanup, crashes>>
submitPrompt(t) ==
    /\ worker[t].pc = "ready" /\ attempt[t].state = "Starting"
    /\ \/ Whole /\ Goes(t, "running") /\ attempt' = [attempt EXCEPT ![t].state = "Submitted"]
       \/ Cut /\ Goes(t, "requeue") /\ UNCHANGED attempt
    /\ UNCHANGED <<stores, stale, cancelled, cleanup, crashes>>

\* requeueProvenNotAcceptedPromptAdmission: the prompt was not sent, or was refused for its rate.
\* The attempt is Reserved again, and keeps its binding if nothing was sent.
requeueProvenNotAccepted(t) ==
    /\ worker[t].pc = "running"
    /\ \E g \in {0, attempt[t].gen} : attempt' = [attempt EXCEPT ![t] = [@ EXCEPT !.state = "Reserved", !.gen = g]]
    /\ Cut /\ Rests(t)
    /\ UNCHANGED <<stores, stale, cancelled, cleanup, crashes>>

\* The prompt reaches a terminal state and its publication one of: none, withheld (it ended
\* before anything was pushed), verified (the branch is at the turn's commit), unresolved
\* (Session and claim will be blocked).
Deliveries == {"none", "withheld", "verified", "unresolved"}
Ends(t, pub) == attempt' = [attempt EXCEPT ![t] = [@ EXCEPT !.state = "Ended", !.pub = pub, !.base = claim.sha]]

settlePrompt(t) ==
    /\ worker[t].pc = "running"
    /\ \E pub \in Deliveries : Ends(t, pub)
    /\ Rests(t)
    /\ UNCHANGED <<stores, stale, cancelled, cleanup, faults, crashes>>

\* handlePreSubmissionContextDone: the deadline passes while the open turn is prepared.
deadlineBeforeSubmission(t) ==
    /\ worker[t].pc \in {"opened", "ready"} /\ cancelled[t]
    /\ Ends(t, "none") /\ Rests(t)
    /\ UNCHANGED <<stores, stale, cancelled, cleanup, faults, crashes>>

----------------------------------------------------------------------------
(* Finalization of a turn across the stores. *)

Finalize(t) == <<"finalize", t, attempt[t].gen>>
FinalBase(t) == IF attempt[t].pub = "verified" THEN attempt[t].gen ELSE control.base
FinalAvail(t) == IF attempt[t].pub = "unresolved" THEN "Blocked" ELSE "Available"

\* finalizeBranchClaimForSessionTurn, for a turn with a publication.
MutantFinalClaim(t) == [sha |-> claim.sha, avail |-> FinalAvail(t), op |-> Finalize(t)]
FinalClaim(t) ==
    [sha |-> IF FinalBase(t) = 0 THEN claim.sha ELSE FinalBase(t), avail |-> FinalAvail(t), op |-> Finalize(t)]
ClaimFits(t) == claim = FinalClaim(t) \/ (claim.op # Finalize(t) /\ claim.avail = "Available" /\ claim.sha = attempt[t].base)

FinalControl(t) ==
    [control EXCEPT !.version = @ + 1, !.lease = NoOp, !.op = Finalize(t), !.avail = FinalAvail(t), !.base = FinalBase(t)]

\* What completePersistedSessionTurnFinalization asks of the control and the Lease.
MutantFinalizationFits(t) == Mirrored(t, attempt[t].gen)
FinalizationFits(t) ==
    LET g == attempt[t].gen IN
    IF control.op = Finalize(t)
    THEN control.lease = NoOp /\ control.avail = FinalAvail(t) /\ control.base = FinalBase(t)
         /\ lease.gen = g /\ lease.holder \in {NoOp, Key(t, g)}
    ELSE Mirrored(t, g)

\* CommitSealedSessionTurnFinalization: a turn that is finalized already appends nothing, and
\* neither does one of a Task with SkipTranscriptAppend.
MutantAppends(k) == transcript' = Append(transcript, k)
Appends(k) ==
    \/ turn[k] = "open" /\ transcript' = Append(transcript, k)
    \/ (turn[k] # "open" \/ k[1] \in MaySkip) /\ UNCHANGED transcript

\* FinalizeSessionTurn, or ResumeSessionTurnFinalization of a turn already finalized.  The
\* writes: 1. turn, transcript and deferred projection, in SQLite; 2. the claim; 3. the
\* control; 4. the Lease; 5. the projection is activated.  A generation that the Session
\* has left behind only has its projection activated.
FinalizeSessionTurn(t) ==
    LET g == attempt[t].gen
        k == <<t, g>>
        commits == turn[k] = "open"
    IN  /\ worker[t].pc = "idle"
        /\ attempt[t].state = "Ended" /\ g > 0 /\ turn[k] \in {"open", "finalized"}
        /\ \/ /\ ~commits /\ control.gen > g
              /\ turn' = [turn EXCEPT ![k] = "projected"]
              /\ Whole /\ UNCHANGED <<lease, control, claim, transcript>>
           \/ /\ control.gen <= g /\ FinalizationFits(t)
              /\ \E n \in 1 .. 5 :
                  /\ n = 1 => commits
                  /\ n >= 2 /\ attempt[t].pub # "none" => ClaimFits(t)
                  /\ turn' = [turn EXCEPT ![k] = IF n = 5 THEN "projected" ELSE "finalized"]
                  /\ Appends(k)
                  /\ claim' = IF n >= 2 /\ attempt[t].pub # "none" THEN FinalClaim(t) ELSE claim
                  /\ control' = IF n >= 3 /\ control.op # Finalize(t) THEN FinalControl(t) ELSE control
                  /\ lease' = IF n >= 4 THEN Cleared ELSE lease
                  /\ \/ n = 5 /\ Whole
                     \/ Cut
        /\ UNCHANGED <<attempt, worker, stale, cancelled, cleanup, crashes>>

----------------------------------------------------------------------------
(* Cancellation before the dispatch, and recovery after a restart. *)

\* A Task is deleted, cancelled, or reaches its deadline.
cancelTask(t) ==
    /\ t \in Cancellable /\ ~cancelled[t] /\ attempt[t].state # "Ended"
    /\ cancelled' = [cancelled EXCEPT ![t] = TRUE]
    /\ UNCHANGED <<stores, attempt, worker, stale, cleanup, faults, crashes>>

\* quiesceInterruptedTaskSessionPreparation, then the cancellation of the attempt: a
\* Task without a binding ends at once; an open turn is kept for its finalization; a lease
\* without a turn is released, if the control shows it, and the attempt unbound.
settleTaskBeforeRuntimeAdmission(t) ==
    LET g == attempt[t].gen
        k == <<t, g>>
        Cancelled(gen) == attempt' = [attempt EXCEPT ![t] = [@ EXCEPT !.state = "Ended", !.gen = gen, !.base = claim.sha]]
    IN  /\ worker[t].pc = "idle" /\ ~stale[t] /\ cancelled[t]
        /\ attempt[t].state \in {"Reserved", "Starting"}
        /\ \/ g = 0 /\ Whole /\ Cancelled(0) /\ UNCHANGED <<lease, control>>
           \/ /\ g > 0 /\ turn[k] = "open" /\ control.lease = Key(t, g)
              /\ Whole /\ Cancelled(g) /\ UNCHANGED <<lease, control>>
           \/ /\ g > 0 /\ turn[k] = "none"
              /\ \/ control.lease = NoOp /\ UNCHANGED <<lease, control>>
                 \/ control.lease = Key(t, g) /\ ReleaseFits(control, t, g) /\ ReleaseWrites(t, g, 2)
              /\ \/ Whole /\ Cancelled(0)
                 \/ Cut /\ Unbound(t)
           \/ /\ g > 0 /\ turn[k] = "none" /\ control.lease = Key(t, g) /\ ReleaseFits(control, t, g)
              /\ Cut /\ UNCHANGED attempt
              /\ \E n \in 1 .. 2 : ReleaseWrites(t, g, n)
        /\ UNCHANGED <<claim, turn, transcript, worker, stale, cancelled, cleanup, crashes>>

\* The controller restarts: the dispatches are gone, every Task has an old epoch.
Crash ==
    /\ crashes < MaxCrashes /\ crashes' = crashes + 1
    /\ worker' = [t \in Tasks |-> Resting]
    /\ stale' = [t \in Tasks |-> TRUE]
    /\ UNCHANGED <<stores, attempt, cancelled, cleanup, faults>>

\* A prompt past its request-write boundary ends with the journaled outcome or an unknown
\* one; anything earlier goes back to Reserved without its binding.
recoverStaleTask(t) ==
    /\ stale[t] /\ worker[t].pc = "idle"
    /\ stale' = [stale EXCEPT ![t] = FALSE]
    /\ CASE attempt[t].state = "Starting" -> Unbound(t)
         [] attempt[t].state = "Submitted" -> \E pub \in Deliveries : Ends(t, pub)
         [] OTHER -> UNCHANGED attempt
    /\ UNCHANGED <<stores, worker, cancelled, cleanup, faults, crashes>>

----------------------------------------------------------------------------
(* Operator reconciliation of a blocked Session. *)

\* ReconcileSessionControl, with the remote branch observed at sha.  The writes: 1. the
\* Lease, without a new generation; 2. the claim; 3. the control; 4. the Lease is cleared.
ReconcileSessionControl(sha) ==
    LET op == <<"reconcile", sha, control.gen>>
        committed == control.op = op
    IN  /\ ~sessionCleanupPending
        /\ control.lease = NoOp /\ control.gen > 0 /\ lease.gen = control.gen
        /\ lease.holder \in {NoOp, op}
        /\ (committed /\ lease.holder = op) \/ control.avail = "Blocked"
        /\ claim.op = op \/ claim.avail = "Blocked"
        /\ \E n \in 1 .. 4 :
            /\ lease' = IF n = 4 THEN Cleared ELSE [lease EXCEPT !.holder = op]
            /\ claim' = IF n >= 2 THEN [sha |-> sha, avail |-> "Available", op |-> op] ELSE claim
            /\ control' = IF n >= 3 /\ ~committed
                          THEN [control EXCEPT !.version = @ + 1, !.avail = "Available", !.op = op, !.base = sha]
                          ELSE control
            /\ IF n = 4 THEN Whole ELSE Cut
        /\ UNCHANGED <<attempt, turn, transcript, worker, stale, cancelled, cleanup, crashes>>

----------------------------------------------------------------------------
(* Session cleanup. *)

\* The intent is durable before anything is deleted and carries the fence of what it saw.
\* A delivered projection is one that was activated: the outbox is not modelled here.
prepareSessionCleanupIntent ==
    /\ cleanup.state = "none"
    /\ control.avail = "Available" /\ control.lease = NoOp
    /\ lease = [gen |-> control.gen, holder |-> NoOp]
    /\ claim.avail = "Available"
    /\ \A k \in Keys : turn[k] \in {"none", "projected"}
    /\ cleanup' = [state |-> "prepared", version |-> control.version, gen |-> control.gen]
    /\ UNCHANGED <<stores, attempt, worker, stale, cancelled, faults, crashes>>

\* The second half, after the runtime cleanup: claims, Lease, control, completion record.
\* A run cut short has deleted some of them and leaves the intent for the next.
reclaimSession ==
    /\ cleanup.state = "prepared"
    /\ control.version = cleanup.version /\ control.lease = NoOp /\ control.avail = "Available"
    /\ lease = [gen |-> cleanup.gen, holder |-> NoOp]
    /\ cleanup' = [cleanup EXCEPT !.state = "done"]
    /\ UNCHANGED <<stores, attempt, worker, stale, cancelled, faults, crashes>>

----------------------------------------------------------------------------
Prepare(t) ==
    \/ planTaskSession(t) \/ bindAttempt(t) \/ AcquireSessionMutationLease(t) \/ CreateSessionTurn(t)
    \/ ReleaseMutationLease(t) \/ requeuePreSubmissionTask(t)
Run(t) ==
    \/ runtimeSessionFails(t) \/ CommitSessionRuntimeGeneration(t) \/ submitPrompt(t)
    \/ requeueProvenNotAccepted(t) \/ settlePrompt(t) \/ deadlineBeforeSubmission(t)
Settle(t) ==
    FinalizeSessionTurn(t) \/ cancelTask(t) \/ settleTaskBeforeRuntimeAdmission(t) \/ recoverStaleTask(t)

Next ==
    \/ \E t \in Tasks : Prepare(t) \/ Run(t) \/ Settle(t)
    \/ \E sha \in 0 .. MaxGen : ReconcileSessionControl(sha)
    \/ prepareSessionCleanupIntent \/ reclaimSession
    \/ Crash

Spec == Init /\ [][Next]_vars

\* What the controller does by itself for a Task goes on; cancellations, restarts, faults,
\* reconciliations and cleanups need not happen.
Reconcile(t) ==
    \/ Prepare(t) \/ Run(t)
    \/ FinalizeSessionTurn(t) \/ settleTaskBeforeRuntimeAdmission(t) \/ recoverStaleTask(t)

FairSpec == Spec /\ \A t \in Tasks : WF_vars(Reconcile(t))

----------------------------------------------------------------------------
(* Properties. *)

Leases == [gen : 0 .. MaxGen, holder : {NoOp} \cup Held \cup Reconciliations]
Controls == [version : Nat, gen : 0 .. MaxGen, lease : {NoOp} \cup Held, avail : {"Available", "Blocked"},
             op : Ops, base : 0 .. MaxGen]
Claims == [sha : 0 .. MaxGen, avail : {"Available", "Blocked"}, op : Ops]
Attempts == [state : {"Reserved", "Starting", "Submitted", "Ended"}, gen : 0 .. MaxGen,
             pub : Deliveries, base : 0 .. MaxGen]
Workers == [pc : {"idle", "planned", "bound", "leased", "opened", "ready", "release", "requeue", "running"},
            snap : Controls]

\* The type invariant.
TypeOK ==
    /\ lease \in Leases /\ control \in Controls /\ claim \in Claims
    /\ attempt \in [Tasks -> Attempts]
    /\ turn \in [Keys -> {"none", "open", "finalized", "projected"}]
    /\ transcript \in Seq(Keys)
    /\ worker \in [Tasks -> Workers]
    /\ stale \in [Tasks -> BOOLEAN] /\ cancelled \in [Tasks -> BOOLEAN]
    /\ cleanup \in [state : {"none", "prepared", "done"}, version : Nat, gen : 0 .. MaxGen]
    /\ faults \in 0 .. MaxFaults /\ crashes \in 0 .. MaxCrashes

\* A prompt past its request-write boundary has an open turn and the Session's lease, in
\* the Lease and in its mirror, until its attempt ends: two Tasks never prompt one Session
\* at a time (AcquireSessionMutationLease, CreateSessionTurn, submitPrompt).
PromptHoldsLease ==
    \A t \in Tasks : attempt[t].state = "Submitted" =>
        attempt[t].gen > 0 /\ turn[<<t, attempt[t].gen>>] = "open" /\ Mirrored(t, attempt[t].gen)

\* The transcript holds finalized turns only, every one that is to be appended, and each once, in
\* the order of the lease generations, however often a finalization is cut short and resumed
\* (CommitSealedSessionTurnFinalization).
TranscriptInOrder ==
    /\ \A i, j \in 1 .. Len(transcript) : i < j => transcript[i][2] < transcript[j][2]
    /\ \A i \in 1 .. Len(transcript) : turn[transcript[i]] \in {"finalized", "projected"}
    /\ \A k \in Keys : turn[k] \in {"finalized", "projected"} /\ k[1] \notin MaySkip =>
           \E i \in 1 .. Len(transcript) : transcript[i] = k

\* An active projection, from which the Task becomes terminal, means that the turn's
\* lease is gone from the Lease and from its mirror
\* (completePersistedSessionTurnFinalization; "before releasing" is the deferred row).
ProjectedAfterRelease ==
    \A k \in Keys : turn[k] = "projected" => Key(k[1], k[2]) \notin {lease.holder, control.lease}

\* When a new turn may start, the baseline it starts from is what the claim says the branch
\* is at: finalization and reconciliation advance the two objects one after the other, and
\* only behind a lease or a blocked Session.
BaselinesAgree ==
    control.avail = "Available" /\ control.lease = NoOp => control.base = claim.sha /\ claim.avail = "Available"

\* Once a cleanup intent is durable nothing starts in the Session again: no lease, no open
\* or unprojected turn, and the fence of the intent stays true until the objects are gone.
CleanupQuiescent ==
    cleanup.state # "none" =>
        /\ lease.holder = NoOp /\ control.lease = NoOp
        /\ control.version = cleanup.version
        /\ \A k \in Keys : turn[k] \in {"none", "projected"}

\* The Session is granted to the holder of the Lease, unless the control says that this
\* lease was released before its prompt.
Granted ==
    IF lease.holder \in Held /\ ~(control.lease = NoOp /\ control.op = <<"release", lease.holder[2], lease.gen>>)
    THEN <<lease.holder[2], lease.holder[3]>>
    ELSE <<None, 0>>

Serial == INSTANCE SerialSession WITH holder <- Granted, gen <- lease.gen, log <- transcript

\* The Lease, its mirror, the attempts and the turns together implement a Session that one
\* Task at a time extends, whatever is cut short, resumed, released or reconciled.
ImplementsSerial == Serial!SerialSpec

\* The Lease is held by a Task that ended without a binding: nothing will give it back.
LeftBehind == \E t \in Tasks : lease.holder[2] = t /\ attempt[t].state = "Ended" /\ attempt[t].gen = 0

\* A bound turn whose prompt has ended is finalized to the end, whatever was cut short, unless
\* an operator's reconciliation of the same generation, or a Lease that a cancelled Task
\* has left behind, stands in the way (FinalizeSessionTurn, ResumeSessionTurnFinalization).
TurnSettles ==
    []<>(\A k \in Keys : attempt[k[1]].state = "Ended" /\ attempt[k[1]].gen = k[2] =>
            \/ turn[k] = "projected"
            \/ \E sha \in 0 .. MaxGen : <<"reconcile", sha, k[2]>> \in {lease.holder, claim.op}
            \/ LeftBehind)
=============================================================================
