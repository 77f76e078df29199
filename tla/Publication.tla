----------------------------- MODULE Publication -----------------------------
(***************************************************************************)
(* Publishing the workspace of standalone write Tasks to one branch.       *)
(*                                                                         *)
(* A pass of the controller takes a Task's Publication from the branch     *)
(* claim to a verified remote outcome.  Every request to the publisher     *)
(* service is an external effect with a durable ledger record.  The first  *)
(* pass is the live one (publishWorkspaceDeltaOperation); when it is cut   *)
(* short while the delivery is unsettled, recovery passes                  *)
(* (reconcilePersistedPublicationOperation) resume from the stored state.  *)
(* Both take the same steps in the same order and differ where the actions *)
(* below ask for pass[t].live.                                             *)
(*                                                                         *)
(* Each call to the store, each request and each answer is a step.  The    *)
(* branch is the sequence of the commits on it, <<>> when it is absent, so *)
(* an ancestor is a prefix.  The prepared commit of a Task is its expected *)
(* baseline followed by the Task.                                          *)
(***************************************************************************)
EXTENDS Integers, Sequences

CONSTANTS
    Tasks,          \* standalone Tasks with the same push branch
    Baselines,      \* the remote states a Task may expect of the branch
    MayBeUnchanged, \* bound: the Tasks that may have nothing to publish
    WithPR,         \* the Tasks that ask for a pull request
    Cancellable,    \* bound: the Tasks that may be cancelled
    MaxAttempts,    \* attempts after which recovery gives preparation up
    MaxFaults,      \* bound: crashes, lost calls, refusals, store errors, unknown outcomes
    MaxForeign,     \* bound: moves of the branch by others
    MaxShared       \* bound: faults and moves while more than one Task publishes

ASSUME PublicationAssumption ==
    /\ "none" \notin Tasks /\ "other" \notin Tasks
    /\ \A b \in Baselines : b \in Seq(Tasks)
    /\ WithPR \subseteq Tasks /\ Cancellable \subseteq Tasks
    /\ MaxAttempts \in Nat \ {0} /\ MaxFaults \in Nat /\ MaxForeign \in Nat /\ MaxShared \in Nat

VARIABLES
    expects,        \* the remote state each Task's spec expects
    claim,          \* the owner of the branch's BranchClaim, or "none"
    pub,            \* state of each Publication, "none" before it is created
    ack,            \* its publish receipt: none, known, unknown acknowledgement
    pr,             \* its pull request record: none, intent, receipt
    delivery,       \* delivery state of each PromptAttempt
    effect,         \* ledger: state of each external effect; "Expired" is InFlight past its lease
    reply,          \* ledger: the response committed with a Succeeded effect
    attempts,       \* ledger: how often the prepare effect was claimed
    pass,           \* the controller pass over each Task
    cancelled,      \* the Tasks whose cancellation was requested
    late,           \* publisher requests whose caller is gone
    journal,        \* the publisher's durable publish and verify receipts
    remote,         \* the branch
    landed,         \* history: the Tasks whose commit was pushed
    faults, foreign

ledger == <<effect, reply, attempts>>
service == <<late, journal, remote, landed>>
budget == <<faults, foreign>>
vars == <<expects, claim, pub, ack, pr, delivery, ledger, pass, cancelled, service, budget>>

Delivered == {"VerifiedExact", "DeliveredSuperseded"}
ActivePub == {"Preparing", "Prepared", "Publishing", "Verifying"}
TerminalPub == Delivered \cup
    {"DeliveryConflict", "OutcomeUnknown", "PreparationFailed", "CredentialBlocked", "CancelledBeforePublish"}
OpenDelivery == {"Validating", "Preparing", "Prepared", "Publishing", "Verifying"}
TerminalDelivery == Delivered \cup
    {"NoChange", "DeliveryConflict", "OutcomeUnknown", "CredentialBlocked", "CancelledBeforePublish"}
Kinds == {"preflight", "prepare", "publish", "verify", "pr"}
Settled == {"Succeeded", "Failed", "OutcomeUnknown"}

\* promptDeliveryTransitions, for a delivery that has a delta to publish.
DeliveryTransitions ==
    {"Validating"} \X {"Preparing", "CredentialBlocked", "DeliveryConflict", "OutcomeUnknown"} \cup
    {"Preparing"} \X {"Prepared", "CredentialBlocked", "DeliveryConflict", "OutcomeUnknown"} \cup
    {"Prepared"} \X {"Publishing", "CancelledBeforePublish"} \cup
    {"Publishing"} \X {"Verifying", "OutcomeUnknown"} \cup
    {"Verifying"} \X (Delivered \cup {"DeliveryConflict", "OutcomeUnknown"})

Commit(t) == Append(expects[t], t)

\* Publisher.isAncestor: the history of b begins with that of a.
IsAncestor(a, b) == Len(a) <= Len(b) /\ \A i \in 1 .. Len(a) : a[i] = b[i]

Idle == [pc |-> "idle", live |-> TRUE, watched |-> FALSE, call |-> "no", fail |-> "none", lost |-> FALSE, verdict |-> "none"]

\* A Task whose run left its workspace as it was has nothing to publish.
Init ==
    /\ expects \in {e \in [Tasks -> Baselines] : \A t \in Tasks : \A i \in DOMAIN e[t] : e[t][i] # t}
    /\ claim = "none"
    /\ pub = [t \in Tasks |-> "none"] /\ ack = [t \in Tasks |-> "none"] /\ pr = [t \in Tasks |-> "none"]
    /\ delivery \in [Tasks -> {"Validating", "NoChange"}]
    /\ \A t \in Tasks : delivery[t] = "NoChange" => t \in MayBeUnchanged /\ expects[t] = <<>>
    /\ effect = [t \in Tasks |-> [k \in Kinds |-> "none"]]
    /\ reply = [t \in Tasks |-> [k \in Kinds |-> "none"]]
    /\ attempts = [t \in Tasks |-> 0]
    /\ pass = [t \in Tasks |-> Idle]
    /\ cancelled = {} /\ late = {} /\ remote = <<>> /\ landed = {}
    /\ journal = [t \in Tasks |-> [publish |-> "none", verify |-> "none"]]
    /\ faults = 0 /\ foreign = 0

Publishing(t) == delivery[t] # "NoChange"
Within == (\E t, u \in Tasks : t # u /\ Publishing(t) /\ Publishing(u)) => faults + foreign < MaxShared
Fault == Within /\ faults < MaxFaults /\ faults' = faults + 1 /\ UNCHANGED foreign

At(t, pc) == pass[t].pc = pc /\ pass[t].call = "no"
Goes(t, pc) == pass' = [pass EXCEPT ![t] = [@ EXCEPT !.pc = pc]]
Stopped(t) == [Idle EXCEPT !.pc = "stopped", !.live = FALSE]
Stops(t) == pass' = [pass EXCEPT ![t] = Stopped(t)]

\* An error ends a live pass through terminalizeDeliveryError, and a recovery pass at once.
Fails(t) == IF pass[t].live THEN Goes(t, "failing") ELSE Stops(t)

----------------------------------------------------------------------------
(* The external-effect ledger: runExternalEffectWithReplayCallTimeout and settling. *)

\* ReserveExternalEffect.
Reserve(t, k) ==
    /\ At(t, k) /\ effect[t][k] = "none"
    /\ effect' = [effect EXCEPT ![t] = [@ EXCEPT ![k] = "Pending"]]
    /\ UNCHANGED <<expects, claim, pub, ack, pr, delivery, reply, attempts, pass, cancelled, service, budget>>

\* The claim under a new lease: an effect in flight only once its lease has run out.
ClaimEffect(t, k) ==
    /\ At(t, k) /\ effect[t][k] \in {"Pending", "Expired"}
    /\ effect' = [effect EXCEPT ![t] = [@ EXCEPT ![k] = "InFlight"]]
    /\ attempts' = IF k = "prepare" /\ attempts[t] < MaxAttempts THEN [attempts EXCEPT ![t] = @ + 1] ELSE attempts
    /\ pass' = [pass EXCEPT ![t] = [@ EXCEPT !.call = "sent"]]
    /\ UNCHANGED <<expects, claim, pub, ack, pr, delivery, reply, cancelled, service, budget>>

\* Where a pass goes on with the response r of effect k.
After(t, k, r) ==
    LET p == [pass[t] EXCEPT !.call = "no"] IN
    CASE k = "preflight" -> [p EXCEPT !.pc = "create"]
      [] k = "prepare" -> [p EXCEPT !.pc = "setPrepared"]
      [] k = "publish" -> [p EXCEPT !.pc = "setVerifying", !.lost = FALSE]
      [] k = "verify" -> [p EXCEPT !.pc = "settlePublish", !.verdict = r]
      [] k = "pr" -> [p EXCEPT !.pc = "prReceipt"]

\* Where it goes with an error.  A recovery pass leaves an ambiguous preparation for the
\* next one until its attempts are used up.
AfterError(t, k, why) ==
    LET p == [pass[t] EXCEPT !.call = "no", !.fail = why] IN
    CASE k = "preflight" -> [p EXCEPT !.pc = "settlePreflight"]
      [] k = "prepare" -> IF p.live \/ why # "retryable" \/ attempts[t] >= MaxAttempts
                            THEN [p EXCEPT !.pc = "settlePrepare"] ELSE Stopped(t)
      [] k = "publish" -> [p EXCEPT !.pc = "setVerifying", !.lost = TRUE]
      [] k = "verify" -> [p EXCEPT !.pc = "settleVerify"]
      [] k = "pr" -> [p EXCEPT !.pc = "settlePr"]

\* A committed response is replayed; an effect that is settled otherwise, or in flight
\* under a lease that has not run out, is an error.
Replay(t, k) ==
    /\ At(t, k) /\ effect[t][k] \in Settled \cup {"InFlight"}
    /\ pass' = [pass EXCEPT ![t] = IF effect[t][k] = "Succeeded" THEN After(t, k, reply[t][k])
                                                                 ELSE AfterError(t, k, "retryable")]
    /\ UNCHANGED <<expects, claim, pub, ack, pr, delivery, ledger, cancelled, service, budget>>

\* The answer is there: a response is committed with the effect, an error leaves it in flight.
MutantReturn(t, k) ==
    /\ pass[t].pc = k /\ pass[t].call \notin {"no", "sent"}
    /\ effect' = [effect EXCEPT ![t] = [@ EXCEPT ![k] = "Succeeded"]]
    /\ reply' = [reply EXCEPT ![t] = [@ EXCEPT ![k] = pass[t].call]]
    /\ pass' = [pass EXCEPT ![t] = After(t, k, pass[t].call)]
    /\ UNCHANGED <<expects, claim, pub, ack, pr, delivery, attempts, cancelled, service, budget>>
Return(t, k) ==
    /\ pass[t].pc = k /\ pass[t].call \notin {"no", "sent"}
    /\ IF pass[t].call = "error"
         THEN pass' = [pass EXCEPT ![t] = AfterError(t, k, "failed")] /\ UNCHANGED <<effect, reply>>
         ELSE /\ effect' = [effect EXCEPT ![t] = [@ EXCEPT ![k] = "Succeeded"]]
              /\ reply' = [reply EXCEPT ![t] = [@ EXCEPT ![k] = pass[t].call]]
              /\ pass' = [pass EXCEPT ![t] = After(t, k, pass[t].call)]
    /\ UNCHANGED <<expects, claim, pub, ack, pr, delivery, attempts, cancelled, service, budget>>

Orphans(t) == IF pass[t].call = "sent" /\ pass[t].pc \in {"publish", "verify"} THEN {<<t, pass[t].pc>>} ELSE {}

\* The request or its answer is lost, or the call times out; the publisher may still serve it.
CallLost(t, k) ==
    /\ pass[t].pc = k /\ pass[t].call # "no" /\ Fault
    /\ late' = late \cup Orphans(t)
    /\ pass' = [pass EXCEPT ![t] = AfterError(t, k, "retryable")]
    /\ UNCHANGED <<expects, claim, pub, ack, pr, delivery, ledger, cancelled, journal, remote, landed>>

\* The publisher refuses preparation for good: the credential, or the delta.
PrepareRefused(t) ==
    /\ pass[t].pc = "prepare" /\ pass[t].call = "sent" /\ Fault
    /\ \E why \in {"failed", "blocked"} : pass' = [pass EXCEPT ![t] = AfterError(t, "prepare", why)]
    /\ UNCHANGED <<expects, claim, pub, ack, pr, delivery, ledger, cancelled, service>>

\* settleExternalEffectStore: an effect settled otherwise is an error, which after a failed
\* preflight is joined to the one the pass already goes on with.
Settle(t, k, state, next) ==
    /\ IF effect[t][k] \in {"none", state} \/ (k = "preflight" /\ effect[t][k] \in Settled)
         THEN pass' = [pass EXCEPT ![t] = next] /\ UNCHANGED <<effect, reply>>
       ELSE IF effect[t][k] \in Settled THEN Fails(t) /\ UNCHANGED <<effect, reply>>
       ELSE /\ effect' = [effect EXCEPT ![t] = [@ EXCEPT ![k] = state]]
            /\ reply' = IF state = "Succeeded" THEN [reply EXCEPT ![t] = [@ EXCEPT ![k] = "ack"]] ELSE reply
            /\ pass' = [pass EXCEPT ![t] = next]
    /\ UNCHANGED <<expects, claim, pub, ack, pr, delivery, attempts, cancelled, service, budget>>

\* settleACPExternalEffectError after a failed preflight or preparation.
SettleError(t) ==
    LET state == IF pass[t].fail = "retryable" THEN "OutcomeUnknown" ELSE "Failed" IN
    \/ At(t, "settlePreflight") /\ Settle(t, "preflight", state, [pass[t] EXCEPT !.pc = "cleanup"])
    \/ At(t, "settlePrepare") /\ Settle(t, "prepare", state, [pass[t] EXCEPT !.pc = "setFailed"])

\* Time passes over an effect in flight that nobody is calling: its lease runs out, and
\* after the grace period reconcileExpiredExternalEffects settles it.
Calling(t, k) == pass[t].pc = k /\ pass[t].call # "no"
LeaseRunsOut(t, k) ==
    /\ effect[t][k] = "InFlight" /\ ~Calling(t, k)
    /\ effect' = [effect EXCEPT ![t] = [@ EXCEPT ![k] = "Expired"]]
    /\ UNCHANGED <<expects, claim, pub, ack, pr, delivery, reply, attempts, pass, cancelled, service, budget>>
ReconcileExpired(t, k) ==
    /\ effect[t][k] = "Expired"
    /\ effect' = [effect EXCEPT ![t] = [@ EXCEPT ![k] = "OutcomeUnknown"]]
    /\ UNCHANGED <<expects, claim, pub, ack, pr, delivery, reply, attempts, pass, cancelled, service, budget>>

----------------------------------------------------------------------------
(* The publisher service. *)

\* Publisher.Publish: what a request may answer, with the branch and the journal after it.
\* A journalled receipt is replayed, and a moved branch is a rejected push.  Otherwise the
\* push is made, or its outcome is unknown; either receipt may fail to be persisted and is
\* then answered without a journal.
Answer(r, j, m) == [answer |-> r, journal |-> j, remote |-> m]
MutantPublishAnswers(t) ==
    LET j == journal[t].publish IN
    IF j # "none" THEN {Answer(j, j, remote)}
    ELSE IF remote = Commit(t) THEN {Answer("ack", "ack", remote)}
    ELSE {Answer("ack", "ack", Commit(t))}
PublishAnswers(t) ==
    LET j == journal[t].publish IN
    IF j # "none" THEN {Answer(j, j, remote)}
    ELSE IF remote = Commit(t) THEN {Answer("ack", "ack", remote)}
    ELSE IF remote # expects[t] THEN {Answer("rejected", "rejected", remote)}
    ELSE {Answer("ack", "ack", Commit(t))}
UnknownAnswers(t) ==
    IF journal[t].publish = "none" /\ remote = expects[t]
      THEN {Answer("unknown", j, m) : j \in {"unknown", "none"}, m \in {remote, Commit(t)}} \cup {Answer("ack", "none", Commit(t))}
      ELSE {}

\* Publisher.verifyOnce, and the receipt of bounded attempts that all failed.
MutantObserved(t) ==
    IF remote = <<>> THEN "DeliveryConflict" ELSE IF remote = Commit(t) THEN "VerifiedExact" ELSE "DeliveredSuperseded"
Observed(t) ==
    IF remote = Commit(t) THEN "VerifiedExact"
    ELSE IF IsAncestor(Commit(t), remote) THEN "DeliveredSuperseded"
    ELSE "DeliveryConflict"

\* A request of t is served by its handler, and the caller, if it is still there, gets the answer.
Gets(t, r) == pass' = [pass EXCEPT ![t] = [@ EXCEPT !.call = r]]
Push(t, a) ==
    /\ remote' = a.remote
    /\ journal' = [journal EXCEPT ![t] = [@ EXCEPT !.publish = a.journal]]
    /\ landed' = IF a.remote = Commit(t) THEN landed \cup {t} ELSE landed
Look(t, outcome) ==
    /\ journal' = [journal EXCEPT ![t] = [@ EXCEPT !.verify = outcome]]
    /\ UNCHANGED <<remote, landed>>
VerifyAnswer(t) == IF journal[t].verify = "none" THEN Observed(t) ELSE journal[t].verify

\* Publisher.Preflight, Prepare and ReconcilePullRequest.
ServeOther(t) ==
    /\ pass[t].call = "sent" /\ pass[t].pc \in {"preflight", "prepare", "pr"}
    /\ Gets(t, IF pass[t].pc = "preflight" /\ remote # expects[t] THEN "error" ELSE "ok")
    /\ UNCHANGED <<expects, claim, pub, ack, pr, delivery, ledger, cancelled, service, budget>>

ServePublish(t) ==
    /\ pass[t].call = "sent" /\ pass[t].pc = "publish"
    /\ \/ \E a \in PublishAnswers(t) : Push(t, a) /\ Gets(t, a.answer) /\ UNCHANGED budget
       \/ \E a \in UnknownAnswers(t) : Push(t, a) /\ Gets(t, a.answer) /\ Fault
    /\ UNCHANGED <<expects, claim, pub, ack, pr, delivery, ledger, cancelled, late>>

ServeVerify(t) ==
    /\ pass[t].call = "sent" /\ pass[t].pc = "verify"
    /\ \/ Look(t, VerifyAnswer(t)) /\ Gets(t, VerifyAnswer(t)) /\ UNCHANGED budget
       \/ journal[t].verify = "none" /\ Look(t, "OutcomeUnknown") /\ Gets(t, "OutcomeUnknown") /\ Fault
    /\ UNCHANGED <<expects, claim, pub, ack, pr, delivery, ledger, cancelled, late>>

\* A request whose caller is gone is served late, or its context ends it.
ServeLate(t, k) ==
    /\ <<t, k>> \in late /\ late' = late \ {<<t, k>>}
    /\ \/ k = "publish" /\ \E a \in PublishAnswers(t) : Push(t, a)
       \/ k = "verify" /\ Look(t, VerifyAnswer(t))
       \/ UNCHANGED <<journal, remote, landed>>
    /\ UNCHANGED <<expects, claim, pub, ack, pr, delivery, ledger, pass, cancelled, budget>>

\* Others push to the branch, rewrite it or delete it.
ForeignMove ==
    /\ Within /\ foreign < MaxForeign /\ foreign' = foreign + 1
    /\ remote' \in {Append(remote, "other"), <<"other">>, <<>>} \ {remote}
    /\ UNCHANGED <<expects, claim, pub, ack, pr, delivery, ledger, pass, cancelled, late, journal, landed, faults>>

----------------------------------------------------------------------------
(* A pass of the controller: publishWorkspaceDeltaOperation and its recovery. *)

UnchangedBut == <<expects, ledger, cancelled, service, budget>>

Start(t) ==
    /\ pass[t].pc = "idle" /\ Publishing(t) /\ Goes(t, "claim")
    /\ UNCHANGED <<claim, pub, ack, pr, delivery, UnchangedBut>>

\* ensureBranchClaim: the branch is claimed by this Task's publication, or the delivery fails.
EnsureClaim(t) ==
    /\ At(t, "claim")
    /\ IF claim \in {"none", t} THEN claim' = t /\ Goes(t, "preflight") ELSE Fails(t) /\ UNCHANGED claim
    /\ UNCHANGED <<pub, ack, pr, delivery, UnchangedBut>>

\* withUnpublishedBranchClaimCleanup: the claim is dropped unless a Publication exists.
Cleanup(t) ==
    /\ At(t, "cleanup")
    /\ claim' = IF pub[t] = "none" /\ claim = t THEN "none" ELSE claim
    /\ Fails(t)
    /\ UNCHANGED <<pub, ack, pr, delivery, UnchangedBut>>

\* ensurePublication.  The write may fail; the claim is then cleaned up.
EnsurePublication(t) ==
    /\ At(t, "create")
    /\ pub' = [pub EXCEPT ![t] = "Preparing"] /\ Goes(t, "toPreparing")
    /\ UNCHANGED <<claim, ack, pr, delivery, UnchangedBut>>
CreateFails(t) ==
    /\ At(t, "create") /\ Fault /\ Goes(t, "cleanup")
    /\ UNCHANGED <<expects, claim, pub, ack, pr, delivery, ledger, cancelled, service>>

\* transitionDelivery in a live pass, recoveryDeliveryTransition in a recovery pass.
Deliver(t, pc, from, to, next) ==
    /\ At(t, pc)
    /\ IF delivery[t] = from THEN delivery' = [delivery EXCEPT ![t] = to] /\ Goes(t, next)
       ELSE IF delivery[t] = to THEN UNCHANGED delivery /\ Goes(t, next)
       ELSE UNCHANGED delivery /\ Fails(t)
    /\ UNCHANGED <<claim, pub, ack, pr, UnchangedBut>>
DeliverStage(t) ==
    \/ Deliver(t, "toPreparing", "Validating", "Preparing", "prepare")
    \/ Deliver(t, "toPrepared", "Preparing", "Prepared", "decide")
    \/ Deliver(t, "toPublishing", "Prepared", "Publishing", "publish")
    \/ Deliver(t, "toVerifying", "Publishing", "Verifying", "verify")

\* TransitionPublication, a compare-and-swap on the state the pass has read.
Transition(t, from, to, next) ==
    /\ IF pub[t] = from THEN pub' = [pub EXCEPT ![t] = to] /\ Goes(t, next) ELSE UNCHANGED pub /\ Fails(t)

SetPrepared(t) ==
    /\ At(t, "setPrepared") /\ Transition(t, "Preparing", "Prepared", "toPrepared")
    /\ UNCHANGED <<claim, ack, pr, delivery, UnchangedBut>>

\* Preparation failed: transitionPublicationTerminal.
SetFailed(t) ==
    LET state == IF pass[t].fail = "retryable" THEN "OutcomeUnknown"
                 ELSE IF pass[t].fail = "blocked" /\ pass[t].live THEN "CredentialBlocked" ELSE "PreparationFailed" IN
    /\ At(t, "setFailed") /\ Transition(t, "Preparing", state, "toOutcome")
    /\ UNCHANGED <<claim, ack, pr, delivery, UnchangedBut>>

\* taskCancellationRequested, read before the publishing decision.
Decide(t) ==
    /\ At(t, "decide") /\ Goes(t, IF t \in cancelled THEN "cancelPrepared" ELSE "setPublishing")
    /\ UNCHANGED <<claim, pub, ack, pr, delivery, UnchangedBut>>

\* cancelPreparedPublication from a pass: Prepared is cancelled, or already was.
CancelPrepared(t) ==
    /\ At(t, "cancelPrepared")
    /\ IF pub[t] \in {"Prepared", "CancelledBeforePublish"}
         THEN pub' = [pub EXCEPT ![t] = "CancelledBeforePublish"] /\ Goes(t, "toOutcome")
         ELSE UNCHANGED pub /\ Fails(t)
    /\ UNCHANGED <<claim, ack, pr, delivery, UnchangedBut>>

\* Publishing is won by compare-and-swap; a live pass that lost to the watcher settles the cancellation.
MutantSetPublishing(t) ==
    /\ At(t, "setPublishing") /\ pub' = [pub EXCEPT ![t] = "Publishing"] /\ Goes(t, "toPublishing")
    /\ UNCHANGED <<claim, ack, pr, delivery, UnchangedBut>>
SetPublishing(t) ==
    /\ At(t, "setPublishing")
    /\ IF pub[t] = "CancelledBeforePublish" /\ pass[t].live
         THEN UNCHANGED pub /\ Goes(t, "toOutcome")
         ELSE Transition(t, "Prepared", "Publishing", "toPublishing")
    /\ UNCHANGED <<claim, ack, pr, delivery, UnchangedBut>>

\* The publish receipt is stored with Verifying.
SetVerifying(t) ==
    /\ At(t, "setVerifying") /\ Transition(t, "Publishing", "Verifying", "toVerifying")
    /\ ack' = [ack EXCEPT ![t] = IF pass[t].lost \/ reply[t]["publish"] = "unknown" THEN "unknown" ELSE "known"]
    /\ UNCHANGED <<claim, pr, delivery, UnchangedBut>>

\* The verify call failed: its effect is settled and the outcome is unknown.
SettleVerify(t) ==
    /\ At(t, "settleVerify")
    /\ Settle(t, "verify", "OutcomeUnknown", [pass[t] EXCEPT !.pc = "settlePublish", !.verdict = "OutcomeUnknown"])

\* Verification settles a publish effect without a definite answer.  A live pass does so
\* when its own call failed, a recovery pass when the stored receipt says so.
NextAfterVerify(t) ==
    [pass[t] EXCEPT !.pc = IF pass[t].verdict \in Delivered /\ t \in WithPR /\ pr[t] # "receipt" THEN "prIntent" ELSE "setOutcome"]
SettlePublish(t) ==
    /\ At(t, "settlePublish")
    /\ IF (IF pass[t].live THEN pass[t].lost ELSE ack[t] = "unknown")
         THEN Settle(t, "publish", IF pass[t].verdict \in Delivered THEN "Succeeded" ELSE "OutcomeUnknown", NextAfterVerify(t))
         ELSE /\ pass' = [pass EXCEPT ![t] = NextAfterVerify(t)]
              /\ UNCHANGED <<claim, pub, ack, pr, delivery, UnchangedBut>>

\* The pull request: SetPublicationPRIntent, the effect, SetPublicationPRReceipt.
SetPRIntent(t) ==
    /\ At(t, "prIntent") /\ pr' = [pr EXCEPT ![t] = "intent"] /\ Goes(t, "pr")
    /\ UNCHANGED <<claim, pub, ack, delivery, UnchangedBut>>
SettlePr(t) ==
    /\ At(t, "settlePr")
    /\ Settle(t, "pr", "OutcomeUnknown", [pass[t] EXCEPT !.pc = "setOutcome", !.verdict = "OutcomeUnknown"])
SetPRReceipt(t) ==
    /\ At(t, "prReceipt") /\ pr' = [pr EXCEPT ![t] = "receipt"] /\ Goes(t, "setOutcome")
    /\ UNCHANGED <<claim, pub, ack, delivery, UnchangedBut>>

SetOutcome(t) ==
    /\ At(t, "setOutcome") /\ Transition(t, "Verifying", pass[t].verdict, "toOutcome")
    /\ UNCHANGED <<claim, ack, pr, delivery, UnchangedBut>>

\* promptDeliveryForPublication, and the transition to it where the table allows it.
DeliveryFor(state) == IF state = "PreparationFailed" THEN "DeliveryConflict" ELSE state
DeliverOutcome(t) ==
    LET to == DeliveryFor(pub[t]) IN
    /\ At(t, "toOutcome")
    /\ IF delivery[t] = to THEN UNCHANGED delivery /\ Goes(t, "reclaim")
       ELSE IF <<delivery[t], to>> \in DeliveryTransitions
              THEN delivery' = [delivery EXCEPT ![t] = to] /\ Goes(t, "reclaim")
       ELSE UNCHANGED delivery /\ Fails(t)
    /\ UNCHANGED <<claim, pub, ack, pr, UnchangedBut>>

\* reclaimStandaloneTaskBranchClaim: an unknown outcome keeps the claim; so does a delivery
\* or an effect that has not settled, and a claim of another owner is left alone.
MutantReclaimClaim(t) ==
    /\ At(t, "reclaim") /\ claim' = IF claim = t THEN "none" ELSE claim
    /\ Stops(t) /\ UNCHANGED <<pub, ack, pr, delivery, UnchangedBut>>
ReclaimClaim(t) ==
    /\ At(t, "reclaim")
    /\ claim' = IF /\ claim = t /\ pub[t] # "OutcomeUnknown" /\ delivery[t] = DeliveryFor(pub[t])
                   /\ \A k \in Kinds : effect[t][k] \in Settled \cup {"none"}
                  THEN "none" ELSE claim
    /\ Stops(t)
    /\ UNCHANGED <<pub, ack, pr, delivery, UnchangedBut>>

\* terminalizeDeliveryError: the delivery of a failed live pass ends where the table allows it.
Terminalize(t) ==
    LET to == IF pass[t].fail = "blocked" THEN "CredentialBlocked" ELSE "DeliveryConflict" IN
    /\ pass[t].pc = "failing" /\ Stops(t)
    /\ delivery' = IF <<delivery[t], to>> \in DeliveryTransitions THEN [delivery EXCEPT ![t] = to] ELSE delivery
    /\ UNCHANGED <<claim, pub, ack, pr, UnchangedBut>>

\* recoverSucceededTaskProjection: an unsettled delivery is resumed from the Publication's
\* state (loadPersistedPublicationRecovery, reconcilePersistedPublicationStep); one that was
\* still validating ends as a conflict.
Resume(t) ==
    CASE pub[t] = "Preparing" -> "toPreparing"
      [] pub[t] = "Prepared" -> "toPrepared"
      [] pub[t] = "Publishing" -> "toPublishing"
      [] pub[t] = "Verifying" -> "toVerifying"
      [] OTHER -> "toOutcome"
MutantRecover(t) ==
    /\ pass[t].pc = "stopped" /\ delivery[t] \in {"Preparing", "Publishing", "Verifying"}
    /\ Goes(t, Resume(t)) /\ UNCHANGED <<claim, pub, ack, pr, delivery, UnchangedBut>>
Recover(t) ==
    /\ pass[t].pc = "stopped" /\ delivery[t] \in OpenDelivery
    /\ IF delivery[t] = "Validating"
         THEN delivery' = [delivery EXCEPT ![t] = "DeliveryConflict"] /\ UNCHANGED pass
         ELSE /\ claim # "none" \/ pub[t] \in TerminalPub \ {"OutcomeUnknown"}
              /\ Goes(t, Resume(t)) /\ UNCHANGED delivery
    /\ UNCHANGED <<claim, pub, ack, pr, UnchangedBut>>

----------------------------------------------------------------------------
(* Cancellation and faults. *)

\* The Task is deleted or cancelled.
Cancel(t) ==
    /\ t \in Cancellable \ cancelled /\ delivery[t] \in OpenDelivery /\ cancelled' = cancelled \cup {t}
    /\ UNCHANGED <<expects, claim, pub, ack, pr, delivery, ledger, pass, service, budget>>

\* watchTaskCancellation beside a live pass: a Prepared publication is cancelled
\* (cancelPreparedPublication), once.  The context the watcher then cancels is not the one
\* the pass runs under: that one is made WithoutCancel and ends with its window, which a
\* pass meets as a lost call and as errors of the store.
MutantWatchCancel(t) ==
    /\ pass[t].live /\ pass[t].pc # "idle" /\ t \in cancelled /\ ~pass[t].watched
    /\ pub' = [pub EXCEPT ![t] = IF @ \in {"Prepared", "Publishing"} THEN "CancelledBeforePublish" ELSE @]
    /\ pass' = [pass EXCEPT ![t] = [@ EXCEPT !.watched = TRUE]]
    /\ UNCHANGED <<expects, claim, ack, pr, delivery, ledger, cancelled, service, budget>>
WatchCancel(t) ==
    /\ pass[t].live /\ pass[t].pc # "idle" /\ t \in cancelled /\ ~pass[t].watched
    /\ pub' = [pub EXCEPT ![t] = IF @ = "Prepared" THEN "CancelledBeforePublish" ELSE @]
    /\ pass' = [pass EXCEPT ![t] = [@ EXCEPT !.watched = TRUE]]
    /\ UNCHANGED <<expects, claim, ack, pr, delivery, ledger, cancelled, service, budget>>

\* A call to the store fails, before or after it took effect.  Inside an effect it is the
\* error of the effect; a preflight that cannot be settled still has its claim cleaned up;
\* and an error of terminalizeDeliveryError ends the pass.
AfterStoreError(t) ==
    CASE pass[t].pc \in Kinds -> AfterError(t, pass[t].pc, "retryable")
      [] pass[t].pc = "settlePreflight" -> [pass[t] EXCEPT !.pc = "cleanup"]
      [] pass[t].pc = "failing" -> Stopped(t)
      [] OTHER -> IF pass[t].live THEN [pass[t] EXCEPT !.pc = "failing"] ELSE Stopped(t)
StoreError(t) ==
    /\ pass[t].pc \notin {"idle", "stopped"} /\ pass[t].call = "no" /\ Fault
    /\ pass' = [pass EXCEPT ![t] = AfterStoreError(t)]
    /\ UNCHANGED <<expects, claim, pub, ack, pr, delivery, ledger, cancelled, service>>

\* The controller stops; its passes end where they are.
Crash ==
    /\ Fault /\ \E t \in Tasks : pass[t].pc \notin {"idle", "stopped"}
    /\ late' = late \cup UNION {Orphans(t) : t \in Tasks}
    /\ pass' = [t \in Tasks |-> IF pass[t].pc = "idle" THEN Idle ELSE Stopped(t)]
    /\ UNCHANGED <<expects, claim, pub, ack, pr, delivery, ledger, cancelled, journal, remote, landed>>

----------------------------------------------------------------------------
Effects(t) == \E k \in Kinds : Reserve(t, k) \/ ClaimEffect(t, k) \/ Replay(t, k) \/ Return(t, k)
Steps(t) ==
    \/ Effects(t)
    \/ Start(t) \/ EnsureClaim(t) \/ Cleanup(t) \/ EnsurePublication(t) \/ DeliverStage(t)
    \/ SetPrepared(t) \/ SetFailed(t) \/ Decide(t) \/ CancelPrepared(t) \/ SetPublishing(t) \/ SetVerifying(t)
    \/ SettleError(t) \/ SettleVerify(t) \/ SettlePublish(t) \/ SettlePr(t)
    \/ SetPRIntent(t) \/ SetPRReceipt(t) \/ SetOutcome(t) \/ DeliverOutcome(t) \/ ReclaimClaim(t)
    \/ Terminalize(t) \/ Recover(t)
Serves(t) == ServeOther(t) \/ ServePublish(t) \/ ServeVerify(t)
Time(t) == \E k \in Kinds : LeaseRunsOut(t, k) \/ ReconcileExpired(t, k)
Faults(t) == (\E k \in Kinds : CallLost(t, k)) \/ PrepareRefused(t) \/ CreateFails(t) \/ StoreError(t)

Next ==
    \/ \E t \in Tasks : Steps(t) \/ Serves(t) \/ Time(t) \/ Faults(t) \/ Cancel(t) \/ WatchCancel(t)
    \/ \E t \in Tasks, k \in {"publish", "verify"} : ServeLate(t, k)
    \/ Crash \/ ForeignMove

Spec == Init /\ [][Next]_vars

\* A pass takes its next step or the publisher answers it, and time passes over the leases;
\* on each of its rounds the dispatcher recovers every unsettled attempt and settles the
\* effects whose lease and grace have run out.
FairSpec ==
    /\ Spec
    /\ \A t \in Tasks : WF_vars(Steps(t) \/ Serves(t)) /\ WF_vars(Time(t))

----------------------------------------------------------------------------
(* Properties. *)

Passes == {"idle", "stopped", "failing", "claim", "create", "cleanup", "toPreparing", "setPrepared", "setFailed",
           "toPrepared", "decide", "cancelPrepared", "setPublishing", "toPublishing", "setVerifying", "toVerifying",
           "settlePreflight", "settlePrepare", "settleVerify", "settlePublish", "settlePr", "prIntent", "prReceipt",
           "setOutcome", "toOutcome", "reclaim"} \cup Kinds
Verdicts == {"OutcomeUnknown", "DeliveryConflict"} \cup Delivered
Answers == {"ok", "ack", "unknown", "rejected", "error"} \cup Verdicts

PubStates == ActivePub \cup TerminalPub \cup {"none"}
DeliveryStates == OpenDelivery \cup TerminalDelivery
EffectRec == [Kinds -> Settled \cup {"none", "Pending", "InFlight", "Expired"}]
ReplyRec == [Kinds -> (Answers \ {"error"}) \cup {"none"}]
PassRec == [pc : Passes, live : BOOLEAN, watched : BOOLEAN, call : {"no", "sent"} \cup Answers,
            fail : {"none", "retryable", "failed", "blocked"}, lost : BOOLEAN, verdict : {"none"} \cup Verdicts]
JournalRec == [publish : {"none", "ack", "unknown", "rejected"}, verify : {"none"} \cup Verdicts]

\* The states the store and the publisher can record, and those of the passes.
TypeOK ==
    /\ expects \in [Tasks -> Baselines]
    /\ claim \in Tasks \cup {"none"}
    /\ pub \in [Tasks -> PubStates] /\ delivery \in [Tasks -> DeliveryStates]
    /\ ack \in [Tasks -> {"none", "known", "unknown"}] /\ pr \in [Tasks -> {"none", "intent", "receipt"}]
    /\ effect \in [Tasks -> EffectRec] /\ reply \in [Tasks -> ReplyRec] /\ attempts \in [Tasks -> 0 .. MaxAttempts]
    /\ pass \in [Tasks -> PassRec]
    /\ cancelled \subseteq Tasks /\ landed \subseteq Tasks /\ late \subseteq Tasks \X {"publish", "verify"}
    /\ journal \in [Tasks -> JournalRec]
    /\ remote \in Seq(Tasks \cup {"other"}) /\ faults \in 0 .. MaxFaults /\ foreign \in 0 .. MaxForeign

\* A Publication that was cancelled before publishing, or failed before it, never has its
\* commit pushed: not by the pass the watcher raced, not by a recovery, not by a request
\* the publisher serves late (cancelPreparedPublication against the Publishing transition).
CancelledNeverPushed ==
    \A t \in landed : pub[t] \in {"Publishing", "Verifying", "DeliveryConflict", "OutcomeUnknown"} \cup Delivered

\* A Task is told its change was delivered only if its own commit was pushed and the
\* Publication records the same; as long as nobody else moved the branch the commit is
\* still on it, whatever the other Task of the branch and late requests did.
DeliveredIsReal ==
    \A t \in Tasks : delivery[t] \in Delivered =>
        /\ t \in landed /\ pub[t] = delivery[t]
        /\ foreign = 0 => IsAncestor(Commit(t), remote)

\* A Publication that is under way, or whose outcome is unknown, holds the branch: the
\* claim stays with its Task (reclaimStandaloneTaskBranchClaim and
\* withUnpublishedBranchClaimCleanup never drop it).
ClaimBarrier ==
    \A t \in Tasks : pub[t] \in ActivePub \cup {"OutcomeUnknown"} => claim = t

\* What is settled stays: a terminal Publication, a terminal delivery, and a settled effect
\* with its committed response, across retries, recoveries and lease expiry.
SettledStays ==
    [][\A t \in Tasks :
         /\ pub[t] \in TerminalPub => pub'[t] = pub[t]
         /\ delivery[t] \in TerminalDelivery => delivery'[t] = delivery[t]
         /\ \A k \in Kinds : effect[t][k] \in Settled => effect'[t][k] = effect[t][k] /\ reply'[t][k] = reply[t][k]]_vars

\* The publisher only fast-forwards: unless somebody else moved the branch, every change of
\* it keeps the commits that were on it (Publisher.Publish's force-with-lease).
FastForward == [][foreign' = foreign => IsAncestor(remote, remote')]_vars

\* Three states recovery meets on every round and cannot leave: a preparation whose effect
\* is Failed, or is OutcomeUnknown and has attempts left; a verification that has to settle
\* the publish effect to a state it does not have; a cancelled Publication whose delivery
\* never got to Prepared.
Verdict(t) == IF effect[t]["verify"] = "Succeeded" THEN reply[t]["verify"] ELSE "OutcomeUnknown"
Wedged(t) ==
    \/ /\ pub[t] = "Preparing"
       /\ \/ effect[t]["prepare"] = "Failed"
          \/ effect[t]["prepare"] = "OutcomeUnknown" /\ attempts[t] < MaxAttempts
    \/ /\ pub[t] = "Verifying" /\ ack[t] = "unknown" /\ effect[t]["verify"] \in Settled
       /\ effect[t]["publish"] \in Settled \ {IF Verdict(t) \in Delivered THEN "Succeeded" ELSE "OutcomeUnknown"}
    \/ pub[t] = "CancelledBeforePublish" /\ delivery[t] = "Preparing"

\* Every delivery settles, through the crashes, lost calls and cancellations a pass may
\* meet, unless it stays in one of the three wedged states (recoverSucceededTaskProjection):
\* from some time on every Task has a settled delivery or is wedged.
DeliverySettles == <>[](\A t \in Tasks : delivery[t] \in TerminalDelivery \/ Wedged(t))

\* A push whose outcome the publisher reports as unknown is reconciled: the Publication
\* that is verified after it reaches a terminal state.
UnknownPushReconciled ==
    \A t \in Tasks : (reply[t]["publish"] = "unknown" /\ pub[t] = "Verifying" /\ delivery[t] \in OpenDelivery)
                        ~> (pub[t] \in TerminalPub \/ delivery[t] \in TerminalDelivery)
=============================================================================
